# TangoKore in TLA+

Models of the Kontango SDK (this repository): what its long-running and
restartable parts do when networks fail, processes die and goroutines overlap.
The modules are written from the code; a comment or document is only used where
a run compares it with the code. Every definition that stands for code has an
entry in `PROJECT.json` ("map") with the lines it was translated from.

Paths in this file are relative to `src/`.

## 1. The system

`kontango` is one Go binary. On a controller node it installs OpenBao, a Ziti
controller and the schmutz gateway. On a machine it enrolls the machine, leaves
three services behind (tunnel, agent, Caddy), and runs as the agent: collectors
publish telemetry to NATS over the Ziti overlay, and instructions come back.

| Component | Keeps | Operations | Speaks to | What is hard | Model |
|---|---|---|---|---|---|
| Edge buffer, `internal/agent/buffer.go` | events stamped with their time | push (evicts), drain | publisher, main loop | ages at the boundary; eviction stops at the first young entry | EventBuffer |
| Telemetry publisher, `runTelemetryLoop`, `publishEvents`, `drainEdgeBuffer`, `bufferFromChannel` in `internal/agent/agent.go` | event channel (256), edge buffer, replay list, event in hand, NATS connection | connect, back off, fall back to HTTP, replay, publish, close | collectors (channel), NATS/JetStream, controller over HTTP | the connection drops between any two calls; lost acknowledgements; cancellation in any wait | Telemetry, EventQueue |
| Agent main loop, `Run`, `runFallbackUntilOverlay`, `runTelemetryWithLeaf` in `internal/agent/agent.go`, `leaf.go` | Ziti context, leaf node, intervals, event channel | load identity, dial, start the leaf, heartbeat, post events, promote | overlay, controller, collectors | two readers of one channel; contexts opened on two paths; who looks at ctx | AgentRun |
| Profile apply, `internal/agent/apply.go` | staging and profile directories, credentials, active link, Bao agent | fetch, unpack, copy, write credentials, link, restart | controller, systemd, publisher (result) | a goroutine per instruction and no lock; a crash between two file operations | Apply |
| Controller installer, `internal/controller/*.go` | sentinel files, binaries, PKI, `bao-init.json`, the vault, Ziti, schmutz | 14 steps | OpenBao, Ziti, systemd, operator | killed between two operations and run again; state lost with the process | Bootstrap, StepList |
| Enrollment, `cmd/kontango/enroll.go`, `internal/enroll/sse.go`, `platform_impl.go`, `cmd/kontango/reset.go` | identity, machine record, binaries, units, services | stream, install, reset | server (event stream), systemd, agent (enroll instruction) | two enrollments, or one and a reset, beside each other; a refusal after an identity; a tunnel that never comes up, or exits and takes the agent with it | Enroll |
| Enrollment wizard, `cmd/kontango/enroll_tui.go` | screens, inputs, cursors | keys, messages of its commands | enrollment stream | keys, results of commands and signals in any order; late answers after the screen changed; cursors at their ends | Wizard, Dialogue |
| HTTP router, `internal/caddy/http_router.go` | one goroutine per request | look up, check tiers, proxy | OpenBao, backends, honeypot | the configuration changes while a request is under way; waits that nothing ends | HTTPRouter, Gate |
| Config router, `internal/routing/config_router.go` | none | look up, check, proxy, each a call of its own | OpenBao | nothing: a library that only its tests call | no |
| Fingerprint and probes, `internal/enroll/fingerprint.go`, `probes.go`, `register.go` | none | read the machine | - | nothing concurrent | no |
| Collectors, metrics, DNS, `internal/agent/collect_*.go`, `metrics_*.go`, `dns.go` | last counters | read /proc and the journal | event channel | only the non-blocking send, which Telemetry and AgentRun have | no |
| Command line, cluster and status commands, `cmd/kontango/main.go`, `controller.go`, `cluster.go`, `status.go` | none | flags, printing, one request | the components above | - | no |
| Controller extras, `internal/controller/caddy.go`, `tango_controller.go` | none | templates, a wrapper | installer | the installer never calls them | no |
| Catalog, profiles, documents | data | - | - | - | no |

How the parts meet:

    collectors --eventCh--> publisher --NATS--> controller
         ^                     |  ^
         |intervalCh           |  |results
    instructions <--NATS/HTTP--+  apply goroutines --> disk, systemd
         |
         +--> enroll goroutine --> identity, units --> tunnel, agent, Caddy

`eventCh` is written by collectors, by applications through the pulse API and by
the apply goroutines (all with a send that gives up when it is full) and read by
whichever mode of the main loop is active. `intervalCh` has room for one value
and two readers. Files and services are shared without locks: between applies,
between enrollments, and between an enrollment and `reset`.

What makes each component correct:

- Publisher: an event is held in exactly one place, in order; it is not lost
  except where the code gives it up; the backlog of an outage goes first; no
  mode stops reading the channel; cancellation ends the loop.
- Main loop: one open Ziti context while the overlay is used or tried and none
  otherwise; it leaves the fallback when it can; it ends when cancelled.
- Apply: what a success left is complete; the active link exists and is not
  dangling; nothing half-written is taken for a whole file; a hung fetch blocks
  nobody else.
- Installer: steps complete in order, each once; the credentials on disk open
  the vault that runs; a recorded vault is never wiped; keys and certificates
  come from one generation; repeating the command gets to the end on a machine that has what no step
  brings.
- Enrollment: nothing of a refused enrollment stays; success means what it says;
  reset leaves nothing; every enrollment ends.
- Wizard: the server is asked once, for what was entered; the machine is changed
  if and only if the server granted it; nobody is left on a screen without keys.
- HTTP router: a request is sent where one configuration in force while it was
  under way sends it; a handler whose client has gone ends.

The hazards behind these are in `PROJECT.json` ("hazards"), each with its line
and the properties that cover it, or the reason why none does.

## 2. Modules

    EventBuffer <- Telemetry   - INSTANCE EventQueue (refinement)
                   Bootstrap   - INSTANCE StepList   (refinement)
                   Wizard      - INSTANCE Dialogue   (refinement)
                   HTTPRouter  - INSTANCE Gate       (refinement)
                   Apply
                   AgentRun
                   Enroll

`MCx.tla` extends `x.tla` for the runs (`MCRouting` is that of `HTTPRouter`);
`x_proofs.tla` holds the theorems, `ApplyFiles_proofs.tla` those of Apply about
files and links.

### EventBuffer and Telemetry

`EventBuffer` gives push and drain by what they keep: push drops the longest
expired prefix, drain hands out every entry younger than `MaxAge` and empties
the buffer. An entry exactly `MaxAge` old is kept by the first and not returned
by the second, as in `buffer.go` (Before against After).

`Telemetry` is the publisher goroutine. `pc` is its place in the code; each call
that can block is a step, so that the clock, the collectors, the connection and
the cancellation can interfere between any two. State and code:

| Model | Code |
|---|---|
| `eventCh`, `edgeBuf` | the channel and the edge buffer |
| `replay` | what `drain()` returned and `drainEdgeBuffer` still has to publish |
| `payload` | the event `publishEvents` has received and not yet published |
| `connected`, `js` | `nc.IsConnected()`, and whether the connection has JetStream |
| `sent`, `nacked`, `overflow`, `expired`, `unacked` | history: what NATS got, and why an event was given up |

Timers may fire at any time; durations and the heartbeat's own interval are left
out. `EventQueue` is what the publisher promises about events, whatever the
transport: a queue that is entered at the back and left by delivery or loss.
`Pipeline` (replay list, buffer, event in hand, channel) is its backlog.

### StepList and Bootstrap

`StepList` is a resumable installation: each applicable step is completed at
most once, in order. `Bootstrap` is `Install` (the sentinel engine) with the
fourteen steps, each broken into the operations
between which the process may die. Vaults and certificates are numbered by the
run of the command that made them, 0 is none; comparing numbers says whether two
files belong together. What the process keeps in memory (`nodeIP`, `freshKey`)
is lost by a restart of the command, what is on disk or in a service is not.
The operator is an actor: he repeats the command, copies the leader's PKI, makes
the Ziti admin. The kind of node is chosen once, in the initial state: `node`
says whether it joins a leader, whether it is in test mode, whether the
operator supplies what no step does, and what the machine offers (`Nodes` has
the kinds of a run).

Steps need things that no step gives, and fail for ever without them. `Lacks`
lists them by step, from the machine's offer `has`:

| Offer | What it stands for | Needed by |
|---|---|---|
| `"host"` | all that preflight insists on: root, platform, memory, disk, commands, network, and `ufw` (`preflight.go:407`) | preflight |
| `"releases"` | the servers of ziti, caddy and bao | download, for what is not there yet |
| `"ziti"`, `"bao"`, `"schmutz-controller"`, `"schmutz-gateway"` | the program in `PATH` (`pki.go:36`) or in `/usr/local/bin` (`bao.go:159`, `ziti.go:173` and `195`, `schmutz.go:62` and `66`) | pki and ziti; bao-init and bao-join; schmutz |
| `"leader"` | a cluster that admits the node | bao-join |

`download` fills the installation's own bin directory, which nothing puts in
`PATH`. A machine on which somebody did is `linked`: there the file that download
left runs, if it is whole (`Runs`). `Due` is the step that every next run comes
to, `Stuck` the reasons for which it can never get over it.

### Apply

One process per instruction, numbered by arrival, with `pc` as its place in
`handleApply`. A file's content is the number of the apply it came from, `-i` if
`i` opened it last and it is not whole, `0` if it does not exist; `Written` says
what two writers of one open file leave. Opening and writing a bundle's file are
two steps; writing a credential is one (a few bytes). `os.RemoveAll` is one step.
The surroundings are chosen once, in the initial state: `setting` says whether
the controller waits for a result before it sends the next instruction, whether
the disk may fill up, how often the agent may die, and which instructions there are.

### AgentRun

`Run` and its modes: no overlay (fallback or wait), dialling, leaf, direct.
Events are counted only. An interval is the number of the instruction that
brought it; an instruction may also carry one that is not positive, which the
handler does not send on (`Ask`). A post is answered if the controller is up and
ctx is not done, which its request carries (`Answered`). The retry opens a
context to see whether the identity loads (`Retry`) and closes it before the
loop goes back to dial (`Promote`): two steps, so that it can be leaked. The
publisher inside the direct mode is `Telemetry`; here it is reduced to its two
channels, and `Publish` may lose the event or not, in the direct mode as
Telemetry says and in the leaf mode because the leaf has no stream and the error
is ignored. `identity`, `overlay` and `http` change freely.

### Enroll

`runEnroll` and `installAfterEnroll` with the events of the stream, the Linux
platform, the wizard's wait before the installation, the agent's enroll
instruction, and `reset`. `identity.json` and `machine.json` hold the number of
the enrollment that wrote them (as in Apply); the tunnel is down, starting, or
runs with the identity of an enrollment. systemd is modelled from how the code
uses it: starting a running service does nothing, failed services are started
again, enabled services come back with the machine. The loading of
`identity.json` by the tunnel is `TunnelUp`, its exit, for whatever reason,
`TunnelExits`: the tunnel is started again, but the agent, whose unit is bound to
it (`BindsTo`, `platform_impl.go:72`), is stopped with the enrollments in it, and
since that is no failure `Restart=on-failure` does not bring it back. It is
`"dropped"` until an enrollment starts it or the machine restarts.

The error of parsing an identity event is not looked at (`sse.go:160`), and what
json.Unmarshal could read is used. So an event is told apart by one thing only:
`"named"`, if it left a nickname or an ID of eight characters, is installed and
reported as success whatever else it lacks; `"nameless"` makes `ID[:8]` panic.

### Dialogue and Wizard

`Dialogue` is what the wizard promises whatever its screens: it asks the server
once at most, and the machine is changed after the server granted the request,
and only then. `Wizard` is the terminal program from `runEnrollTUI`'s call to
`cmdEnroll`'s decision. bubbletea handles one message after another; the commands
it starts (scan, list of profiles, enrollment, quit) run beside it, and
`pending` has those whose message is still to come, so that a key may be handled
between any two of them, and also between the key that quits and the end.

| Model | Code |
|---|---|
| `step`, `choice`, `fields`, `focus`, `cursor` | `step`, `methodCursor`, `inputs`, `focusIdx`, `profileCursor` |
| `profiles`, `offered` | `profiles`, `showProfiles` |
| `pending` | commands that `Update` has returned and whose message is not handled |
| `request` | the request of `runEnrollStream` |
| `err`, `result`, `end` | `m.err`, `m.enrollResult`, and what `cmdEnroll` does with them |

A text is empty, came from a flag or was typed, and belongs to a field: that is
what a mixed-up request would show. What the server does is in Enroll.

### Gate and HTTPRouter

`Gate` says that a request is judged once, between its arrival and its end, by
the configuration then in force for its domain. `HTTPRouter` is `ServeHTTP` with
the calls it makes, one handler per request: the lookup at OpenBao (`lookup`),
the decision on what it returned (`decide`), the proxying (`proxy`). Operators
change configurations and clients go away between any two of these. Tiers and
attributes are names, and `Bare` is `strings.TrimPrefix(tier, "@")`. The
refinement maps the judgement to the moment OpenBao reads the configuration,
not to the moment the handler uses it.

## 3. Runs

TLC, from this directory: `tlc -config MCx.cfg MCx.tla`. Deadlock is not checked
where the system may stop (a cancelled agent, applies that are all over, an
enrolled machine).

| Run | Question | Bounds, and why they are enough |
|---|---|---|
| telemetry | does any interleaving of events, clock, connection and cancellation lose, duplicate or reorder an event, or leave the channel unread | 3 events, channel of 2 (overflow happens), buffer age 1 with 3 ticks (an entry can be younger than, exactly of, and over the age), with and without fallback and JetStream. Reordering needs two events and a third that overtakes; a third tick would only repeat an expiry |
| telemetry_replay_loss | "drained into NATS": is an event taken from the buffer ever given up | violated, see section 6 |
| bootstrap | order, credentials, PKI, published secrets, for every place of a failure; where does repeating the command lead | 13 kinds of node: with all programs, leader and joining node, each with and without the operator's help, and a leader in test mode (other steps apply to each); with the programs that download leaves, leader, test mode (with bao and without) and joining node; and four that lack one offer each. 2 failures and 1 restart of the machine: a step interrupted, repeated, and the repeated step interrupted (448,694 states) |
| bootstrap_creds | "unseal key + root token" are stored | violated |
| apply | two applies of the same or of different profiles, overlapping on a disk with room; one of two panicking and taking the other with it; one after the other on a disk that may be full, in an agent that may die | 2 applies (every shared file has at most two writers at a time; a third repeats one of them), channel of 1 (the result may find it full), 1 crash, 7 instructions over the three settings: with and without hcl, credentials and a checksum, through the leaf |
| apply_versions | "move into place": one bundle's version | violated |
| agent_run | contexts, intervals, promotion, cancellation while networks and identity come and go | 2 instructions (an interval overtaken by the next), channel of 2 (18,048 states) |
| agent_offline | "holds events when neither NATS nor HTTP is available" | violated |
| enroll | two enrollments from consoles and the agent, with one failure or reset, under a tunnel that exits when it likes | 2 enrollments: shared files again have two writers; 1 mishap, at every place (311,274 states). Two mishaps multiply the states without a new pair of actors. An exit of the tunnel is no mishap and may come any number of times |
| wizard | any keys, results and signals in any order: what is asked, what is done with the answer, who is left waiting | every combination of flags; 2 controllers (the URL changed after another was typed), lists of one profile and of three (a cursor can be at both ends and between), an empty one is a failed fetch |
| wizard_profile | "If the chosen profile is not index 0 (which is "none"), include it" | violated |
| routing | lookups, decisions and changes of the configurations interleave, clients leave | 2 requests for 2 domains, one with the first header only and one with the second; 6 configurations: open, disabled, no tiers, a tier with "@", one without, a backend that is no URL. Handlers share only the configurations, so that a third would repeat one of the two |

What the properties say is in the comment above each of them. In short:

- telemetry: `InOrder`, `Accounted`, `OrderedUnlessNacked`,
  `BacklogReplayedFirst`, `AtMostThreeCopies` (live publish with a lost
  acknowledgement, then two in the replay); `EvictsExpired` (the eviction loop
  stops at the first young entry, and leaves nothing expired behind it);
  `ImplementsQueue` (refinement); `ChannelServed`, `CancelEnds`.
- bootstrap: `CredsMatchVault`, `PKIConsistent`, `Published`, `VaultKept`,
  `ImplementsStepList` (refinement), `Settles`: who repeats the command gets to
  the end or to a step that is due again in every run, for one of the reasons in
  `Stuck`: it lacks what neither machine, operator nor an earlier step supplies
  (`Lacks`; among it a program that download has cut short or leaves out in test
  mode, and PKI files that only a later step could bring); a restart has sealed
  the vault; fabric is refused the objects it created before an interruption;
  verify finds the node unhealthy, as it does every real leader. That is not said
  of failures outside the model that last for ever: `Abort` is bounded.
- apply: `LinkKept`, `StageGone`, `WholeFiles`, `Installed`, `LastIsActive`,
  `FetchedEnds`.
- agent_run: `Released` (on the dialling path and on that of the retry),
  `IntervalsAdvance` (of the collector), `Promotes`, `CancelEnds` (both: or the
  emptying of the channel after a heartbeat never ends).
- enroll: `OnlyAccepted`, `SuccessHolds`, `ResetCleans`, `EnrollmentEnds`.
- wizard: `RequestFits`, `ImplementsDialogue` (refinement), `OperatorServed`.
- routing: `ImplementsGate` (refinement), `HandlersEnd`.

For each property of a passing run `PROJECT.json` ("mutants") names a plausible
mistake in the code (a `Mutant_...` definition before the one it replaces) under
which the property fails.

## 4. Fairness

- Telemetry: the publisher's goroutine runs (WF), each of its calls having a
  timeout, and a wait that can end is not passed over for ever by `select` in
  favour of new intervals (SF on `WaitEnds`): `select` picks among ready cases
  at random, a fired timer and a done context stay ready. Nothing is assumed of
  collectors, clock, connection or cancellation.
- Bootstrap (`Settles`): a running installer goes on, and the operator repeats
  the command until it succeeds. He need not bring what no step does; where he
  does not, `Stuck` is where the repetition stays.
- Apply (`FetchedEnds`): a goroutine past its fetch runs. `fetchBundle` has no
  timeout, so nothing is assumed of a fetch, nor of the publisher that empties
  the channel.
- AgentRun: the loop's goroutine runs (WF); SF for the cases of its selects, as
  above. Collectors and applications may emit for ever. A heartbeat empties the
  channel before the loop looks at anything else (`agent.go:247`), with posts of
  up to 15 seconds, so that an application that emits faster keeps the loop
  there: `Promotes` and `CancelEnds` name this as the one exception
  (`<>[]At("drain")`), and hold of every behaviour in which the emptying ends
  each time, however much is emitted in between. It is an exception in the
  properties, not fairness.
- Enroll: the request times out after two minutes and the commands of an
  installation end (WF per enrollment on streaming and on installing). Nothing is
  assumed of the tunnel: it may never come up, and exit for ever. The operator may
  leave the wizard's last screen open for ever.
- Wizard: the scan ends, the stream is answered or cut off after 120 seconds,
  and the program handles the message of a quit (WF on `Fingerprint`, `Answered`
  and `Quits`: bubbletea handles every message in turn). Nothing is assumed of
  the operator, of signals, or of the list of profiles, whose fetch nobody waits
  for.
- HTTPRouter: a goroutine that waits for nothing runs, a backend's URL that
  cannot be parsed is answered at once, and the transport sees that the
  request's context is cancelled (WF for each request). Nothing makes OpenBao
  or a backend answer, nor a client leave.

## 5. Proofs

TLAPS, `tlapm x_proofs.tla`. All theorems hold for every value of the constants
under the named assumptions of the modules (capacities and bounds are naturals,
sets of options are subsets of BOOLEAN, payloads are records of names; all of
them are checked by TLC in the runs).

| Theorem | Argument |
|---|---|
| Telemetry `TypeCorrect` | one step per action; what `Push`, `Arrive` and `Drain` return is a lemma each |
| Telemetry `HeldInOrder` | `InOrder` speaks of one concatenation; the inductive form `LineUp` says that each of the four pieces ascends and that every piece is below the next. `PipelineFacts` gets `InOrder` back from it |
| Telemetry `ArrivalOrder`, `BacklogFirst` | together with `Ahead` (what NATS got, unless nacked, is below what is held) they form `ArrivalInv`; neither is inductive alone, since a replayed event is in order only because the buffer holds nothing newer than the live events |
| Telemetry `PushEvictsExpired` | `Aged`: the stamps in the buffer never decrease, nor lie in the future; so the longest expired prefix is everything expired |
| Telemetry `ThreeCopiesAtMost` | `CopiesInv` counts the copies of an event by where it is: none while it waits in the channel or in hand, at most one while it is in the buffer or in the replay list; what is nowhere has three at most. It needs `LineUp`, by which an event is in one place |
| Telemetry `QueueImplemented` | an offer is `Accept` or `Refuse`; for every other step `Remains` (of two ascending sequences, one with only elements of the other is the other with some left out) turns what `OnlyHeld` and `NothingVanishes` say of sets into the queue's `Settle`. `HeldInOrder` makes the backlog ascend, which is why a hand-over between list, buffer and channel can be seen as a stutter |
| Telemetry `EveryEventAccounted` | each hand-over keeps the union of the places; uses `TypeOK` for the event in hand |
| Telemetry `FatesAreOne` | `FatesStayApart` reduces a step to three sets, what it gives up for its age, for a lost publish, and what it delivers; each step but an offer has its own. Needs `LineUp` and `EvictedAreGone`, `DroppedAreGone`: what `Push` evicts and `Drain` drops is nowhere else, because each event is in one place once. With `EveryEventAccounted`: exactly one fate |
| Telemetry `CopiesPerFate` | from `OneFate`, an event in the agent's hands whose publish has not failed has not arrived; so the step that publishes it is the only one that ever does |
| Bootstrap `OrderKept`, `StepsCompletedInOrder` | `Order`: while a run is under way every applicable step before the current one is done. Sentinel is the only step that maps to `Complete`, all others stutter |
| Bootstrap `TypeCorrect` | by parts; needs `Items` (the position inside store-creds) for the stored paths |
| Bootstrap `CredentialsMatch`, `VaultNeverLost` | `VaultInv` follows the vault's number through wipe, restart, setup, unseal and save; `Place` says which labels belong to which step, so that a wipe can only happen while the sentinel is missing |
| Bootstrap `PublishedMatchesDisk` | `PubInv`: store-creds has written the paths before the current one, and both it and acl come after bao-init, which would delete what they store, and after pki, which would change what is on disk; with `VaultInv`, `Place`, `Items` and `Order` |
| Bootstrap `PKIFromOneRun` | `PKIInv`: the files before the current item are of the last generation |
| Bootstrap `GivesUpWhenStuck`, `NoWayOut`, `OnlyVerifiableComplete` | which guard can fail at each label, given what the earlier steps have left (`Place`, `Order`, `VaultInv`), and that the step under way is the one that is due (`UnderWayIsDue`); a dead end (leader's files, sealed vault, verify's verdict) is closed under every step. `Verified`: verify passes only where `Verifiable` holds |
| Bootstrap `OnlyEquippedComplete` | `Equipped`: what a completed step needs (`Provided`) is there and stays, since no step takes a whole binary away; in test mode no run ever downloads bao |
| Bootstrap `NeverTheVaults` | what `StoreCreds` writes is the configuration's, which no step assigns |
| Bootstrap `RunsEnd` | `Left`, a sum of the steps to go, of the places of the current one and of the items it has to do; one equation per label |
| Bootstrap `NothingRepaired` | no step behind a sentinel is taken again, and downloading starts with a look at what is there |
| Apply `TypeCorrect` | by parts; `Written` stays within the contents |
| Apply `InstalledAlways` | the "alone" argument: an apply is alone if the controller waits and no other of its profile is beside it. `Outcomes` (who has returned is past everything else) and `Apart` (with a controller that waits, who comes later begins after the end) let every step of another be framed away (`Frame`); `Owned` then follows the one apply from its empty staging directory to its copied bundle, position by position |
| Apply `WholeFilesAlways` | `AllWhole`: a file is not there, is of a bundle that names it, or is one that its apply is writing, or died or failed writing; `Owned` gives what a copy copies. With a controller that waits, `Apart` makes whoever takes a step the last one, and so alone |
| Apply `LinkKeptAlways` | `Targets` (the link leads to a file that exists; whoever is about to link has an hcl in place) and `Made` (a link that was made is missing only between another's Remove and Symlink) |
| Apply `StageGoneAlways` | `Held`: unless the agent died, a staging directory is that of an apply that has its RemoveAll before it, or of one that failed to unpack; `Checked`: an archive with a wrong checksum is not unpacked |
| Apply `LastIsActiveAlways` | `Latest`: with applies one after the other, what the last of them has done so far to role, secret and link is still so; `Outcomes` and `Apart` say that no earlier one is under way |
| Apply `VersionsOfPatience` | of the applies of a profile that were sent one after the other there is a last one (`LastOfSome`, a minimum of a well-founded order), and `Owned` gives its files |
| Apply `WorkEnds` | a measure by place, with the archive's and the directory's files still to do, bounded by \|Files\| |
| AgentRun `TypeCorrect`, `ContextsReleased`, `CollectorAdvances` | `Released` is a function of the mode; for the intervals, `Fresh`: what is in the channel is newer than what the collector has and not newer than what was asked |
| Enroll `TypeCorrect` | by parts: progress, disk, running services, counters |
| Enroll `RefusedLeavesNothing` | `AcceptedInv`: who installs, or has left a trace, was accepted and is past the stream, and who was refused has ended. `OnlyAccepted` alone is not inductive: it does not say that a refusal cannot come after the traces. `VerdictsKept` reduces all other steps to "no new traces" |
| Enroll `SuccessMeansInstalled` | `Stands`: what the enrollment that nobody disturbed has written, found or set up at each place of the installation, taken apart by file and service, with `Alone` (no other is active) and `Outcomes` (who reports success has been through all of it); for the agent, that a success leaves it started and only the tunnel's exit changes that |
| Enroll `ResetLeavesNothing` | `ResetInv`: unless an enrollment overlapped it, what the reset is past stays removed (`Emptied`), and an enrollment that begins means the reset has not passed the agent |
| Enroll `EnrollmentsWindDown` | `Left`: places before the services, and six for each service to come; whatever takes an enrollment away (a panic, an interrupt, a reset, a restart) leaves it nothing |
| Enroll `SuccessWasGranted` | with `AcceptedInv`: who installs was accepted, by name; nobody's verdict changes once the stream is past |
| Wizard `TypeCorrect` | `Phase` says which commands may be outstanding on which screen, so that a late message finds its screen; `Entered` what has been typed. Types, phase and entries need each other: together they are `WizardInv` |
| Wizard `RequestAsEntered` | from `Entered`: the fields are those of the method, with texts of their own, from the moment they are shown |
| Wizard `DialogueImplemented` | each message maps to one step of the dialogue; `Phase` excludes a second question and an answer without one |
| Wizard `SentIsTheNext`, `OnlyNoneIsSentAsShown` | the request's profile against the cursor, with `Phase`; the second from the first, in a list that names nothing twice |
| HTTPRouter `TypeCorrect`, `GateImplemented` | `Decided`: a handler has a target exactly when it is past the decision. `Route` never is `Nowhere`, so that a request once judged stays judged |
| HTTPRouter `SentWhereConfigured` | a decision is made by the configuration in force, and is not changed after it |

Only model-checked is what rests on fairness, and so is beyond this prover:
`ChannelServed`, both `CancelEnds`, `Settles`, `FetchedEnds`, `Promotes`,
`EnrollmentEnds`, `OperatorServed`, `HandlersEnd`. Of three of them the safety
half is proved: a run of the installer, an apply that has its bundle and an
enrollment each lower a bounded measure with every step (`RunsEnd`, `WorkEnds`,
`EnrollmentsWindDown`), so what is left to fairness is that the process is
scheduled and its requests time out; and the installer gives up by itself for no
other reasons than `Settles` allows (`GivesUpWhenStuck`). Every invariant, action property
and refinement of the passing runs is a theorem; so is `TypeOK` of HTTPRouter,
which no run lists. Theorems that no run lists (`FatesAreOne` and those in the
table without a property of that name in section 3) state more than the runs'
properties: what a counterexample leaves open, how far it goes, is one of them
for each of the five runs of section 6 but the first and the fourth.

## 6. Where code and comments differ

Five runs have a counterexample as their result:

1. `telemetry_replay_loss`: the buffer is emptied before the first event of a
   replay is published, and the error of that publish is ignored; a connection
   that breaks during the replay loses the rest (`agent.go:511-520`, against the
   comment at 397-398).
2. `bootstrap_creds`: `store-creds` stores an empty unseal key and root token,
   since no code assigns `cfg.BaoUnsealKey` and `cfg.BaoRootToken`
   (`store_creds.go:39-42`). `NeverTheVaults`: nowhere and never is it anything
   else.
3. `apply_versions`: two applies of one profile share the staging directory;
   both report success and the profile's directory mixes two versions
   (`apply.go:90-104`). It takes two at once: with a controller that waits,
   `VersionsOfPatience`.
4. `agent_offline`: the fallback takes events from the channel and posts them
   without looking at the error, and nothing pushes into the buffer it was given
   (`agent.go:244-254`, against the comment at 152). A post under a done ctx
   is lost as well; leaf and direct mode lose events on their own terms (run 1).
5. `wizard_profile`: the confirm screen lists "none" before the profiles and
   marks entry `profileCursor` of that list, but entry `profileCursor` of the
   profiles alone is sent: the one after the marked one
   (`cmd/kontango/enroll_tui.go:446`, against the comment at 443 and
   `viewConfirm` at 569). `SentIsTheNext`: it is the next one always, so only
   "none" is sent as shown, and the first profile never.

The models also contain, as steps, behaviour that no document contradicts and no
run is about: an apply that came through the leaf node panics on a nil Ziti
context (`agent.go:294`, `apply.go:144`); role and secret of two applies can be
mixed, and the error of writing them is ignored (`apply.go:110-115`); a result
is dropped when the channel is full (`agent.go:362-366`); the fabric step is
skipped for good after one failed login (`fabric.go:38`); a binary cut short is
taken for a whole one (`internal/controller/download.go:78`, `internal/enroll/platform_impl.go:53`;
the installer's for ever, `NothingRepaired`); a resumed pki
step makes a certificate without the node's address (`pki.go:69`); verify takes
the two results of SealStatus in the wrong order (`verify.go:151`), so that the
installation of a leader outside of test mode never completes
(`OnlyVerifiableComplete`); the installer starts ziti, bao and schmutz from
`PATH` and `/usr/local/bin`, where no step puts them, so that on a machine without
them it stops at pki, bao-init, ziti or schmutz for good; in test mode bao-init
runs but bao is not downloaded (`download.go:39`), and schmutz-gateway is
downloaded in no mode (`OnlyEquippedComplete`); pki-from-leader asks for six
files, and ca-bundle.pem, which ziti then reads, is not one of them
(`pki.go:200`); checkCommands lists ufw as optional, and without it
configureFirewall fails every preflight (`preflight.go:407`); in leaf mode
intervals are thrown away (`agent.go:304`); a second enrollment finds the tunnel
running and leaves it with the first one's identity until it is started again
(`platform_impl.go:175`, hence the exception in `SuccessHolds`); a tunnel that
exits takes the agent down, and it stays down until an enrollment starts it or
the machine restarts (`platform_impl.go:72`); an identity event that could not be
parsed is installed with what was read of it and reported as a success, if it
left a name, and panics otherwise (`sse.go:160`, `enroll.go:135`); an enrollment
in the agent may start Caddy again behind a reset that has already stopped it
(`reset.go:40`, hence the exception in `ResetCleans`); the wizard's list of
profiles cannot be scrolled to its last entry, which the cursor's end does not
count; a controller from the command line without a scheme is taken as it is and
the request fails, and one that cannot be parsed makes the program panic
(`sse.go:89` drops the error); a quit key
followed by y starts a request whose answer is not waited for; the "@" of a tier
is optional on one side only (`http_router.go`, `checkZitiACL`). Outside what the
modules can say: the URL typed in the wizard is not handed to the installation
(`enroll.go:50` passes the command line's), an approle with one empty field is
sent as an anonymous request (`sse.go` sends the pair only if both are there),
the wizard says that agent and Caddy are installed before they are, and the
fields Timeout and RateLimit of an application's configuration are not used.

## 7. What is not modelled, and what is abstracted

- Payloads, file contents, certificates, messages and wording. Numbers stand for
  them where a property has to tell them apart.
- Durations. A timer may fire whenever it is set.
- The embedded NATS server, JetStream, OpenBao, Ziti, systemd: only what the code
  sees of them.
- macOS and Windows platforms: the same operations through other commands.
- `websocket.go` and `internal/routing/config_router.go`: nothing calls them
  outside of tests. The config router repeats the HTTP router's lookup and
  proxying as separate calls; a model of it would have to invent the caller that
  orders them (`RouteRequest` leaves even `CheckACL` to its caller).
- Of the HTTP router, the parsing of its directive and the headers it rewrites;
  of the wizard, what the screens show, except for the marked profile.
- kontango-bao-agent, which an apply restarts and `reset` stops first
  (`reset.go:39`): Enroll has the three services of an enrollment.
- The overflow of an interval of more than about 9.2e9 seconds.
- Directories are removed in one step; so are units. A crash in the middle
  leaves a subset that later steps treat as the state before or after.
- One installer at a time, run as root.
- Reading the machine (fingerprint, probes, metrics, logs), printing, flags.

## 8. What could come next

Every component that keeps state or runs concurrently has a module. In this order:

1. AgentRun with Telemetry in its direct mode as one specification (one channel,
   one buffer); today AgentRun counts events, and Telemetry starts with the
   connection.
2. The leader's `store-creds` and the PKI of a node that joins, as two
   installers over one OpenBao.
3. Enroll behind Wizard: today the two agree on the request and the verdict only.
4. The other two platforms, as variants of Enroll's installation.
