------------------------------- MODULE Enroll -------------------------------
(***************************************************************************)
(* A machine's enrollment on Linux: `kontango enroll` (cmd/kontango/       *)
(* enroll.go), the event stream of the server (internal/enroll/sse.go),    *)
(* the installation that follows (LinuxPlatform of platform_impl.go) and   *)
(* `kontango reset` (cmd/kontango/reset.go).                               *)
(*                                                                         *)
(* An enrollment runs in a shell, in the terminal wizard, or in the agent, *)
(* which starts a goroutine per enroll command of its controller; nothing  *)
(* keeps two of them, or one and a reset, apart.  Enrollments are numbered *)
(* in the order in which they begin.  identity.json and machine.json hold  *)
(* the number of the enrollment that wrote them; -i if i opened the file   *)
(* last and it is not whole, or mixed; 0 if it is not there.               *)
(*                                                                         *)
(* systemd is modelled as the code uses it: starting a running service     *)
(* does nothing, a service that fails is started again, enabled services   *)
(* come back with the machine.  The agent is bound to the tunnel: a tunnel *)
(* that is stopped or exits takes it down, and that is no failure of the   *)
(* agent.  Writing a unit file and enabling it are one step, and so is     *)
(* removing a tree.                                                        *)
(***************************************************************************)
EXTENDS Integers, Sequences

CONSTANTS
  N,            \* bound: number of enrollments
  MaxMishaps    \* bound: operations that fail though they could succeed, processes that
                \* die, restarts of the machine, runs of reset

ASSUME EnrollAssumption == N \in Nat /\ MaxMishaps \in Nat

Enr      == 1..N
Sources  == {"console", "agent"}
Services == {"tunnel", "agent", "caddy"}

VARIABLES
  source,    \* where each enrollment runs
  pc,        \* where it is
  svc,       \* the service it is installing
  got,       \* the last identity event it has seen: none, or see Events
  refused,   \* the enrollments the server rejected or ended with an error event
  outcome,   \* what it returned
  warned,    \* the failures it went on after
  home,      \* the directory: absent, made (by a preflight), or full (with its bin/)
  identity,  \* identity.json
  record,    \* machine.json
  bins,      \* the binary of each service
  units,     \* the unit of each service
  tunnel,    \* the tunnel: Down, Starting, or the enrollment whose identity it runs with
  agent,     \* the agent: down, starting, up, or dropped, when the tunnel took it down by exiting
  caddy,     \* Caddy runs
  reset,     \* where the reset is: the service it stops next, units, files
  mishaps,   \* counter for the bound
  standing,  \* history: the last enrollment to begin, if nothing ran beside it or after it
  ranBefore, \* history: the tunnel ran already when it began
  apart      \* history: since the reset began, enrollments ran in the agent only

progress == <<source, pc, svc, got, refused, outcome, warned>>
disk     == <<home, identity, record, bins, units>>
running  == <<tunnel, agent, caddy>>
history  == <<standing, ranBefore, apart>>
vars     == <<progress, disk, running, reset, mishaps, history>>

Down     == -1
Starting == 0

\* What an identity event leaves: a name, that is a nickname or an ID of eight characters,
\* whether or not the rest could be read, or none.
Events == {"named", "nameless"}

-----------------------------------------------------------------------------
Init ==
  /\ source = [i \in Enr |-> "console"]
  /\ pc = [i \in Enr |-> "none"]
  /\ svc = [i \in Enr |-> "tunnel"]
  /\ got = [i \in Enr |-> "none"]
  /\ refused = {}
  /\ outcome = [i \in Enr |-> "none"]
  /\ warned = [i \in Enr |-> {}]
  /\ home = "absent" /\ identity = 0 /\ record = 0
  /\ bins = [s \in Services |-> "absent"]
  /\ units = [s \in Services |-> "absent"]
  /\ tunnel = Down /\ agent = "down" /\ caddy = FALSE
  /\ reset = "idle"
  /\ mishaps = 0
  /\ standing = 0 /\ ranBefore = FALSE /\ apart = TRUE

At(i, l)  == pc[i] = l
Ended(i)  == pc[i] \in {"ended", "lost"}
Active(i) == pc[i] # "none" /\ ~Ended(i)

Resetting == reset \in Services \cup {"units", "files"}

Goto(i, l) == pc' = [pc EXCEPT ![i] = l]
Return(i, o) == outcome' = [outcome EXCEPT ![i] = o] /\ Goto(i, "ended")

\* What a step of an enrollment leaves alone unless it says otherwise, and what one leaves
\* alone that fails, because it cannot succeed or for another reason.
Apart == UNCHANGED <<source, reset, history>>
Aside == Apart /\ UNCHANGED mishaps
AsideFailing(cannot) ==
  Apart /\ IF cannot THEN UNCHANGED mishaps ELSE mishaps < MaxMishaps /\ mishaps' = mishaps + 1

\* The processes of the enrollments in S are gone.
Lose(S) == pc' = [i \in Enr |-> IF i \in S /\ Active(i) THEN "lost" ELSE pc[i]]
InAgent == {i \in Enr : source[i] = "agent"}

-----------------------------------------------------------------------------
\* runEnroll: the checks and the server's stream.

\* The command is given at a console, in a shell or the terminal wizard, or arrives at a
\* running agent.  The preflight, which the wizard has not, leaves the directory behind.
Begin(i, s) ==
  /\ At(i, "none") /\ \A j \in 1..(i - 1) : ~At(j, "none")
  /\ s = "agent" => agent = "up"
  /\ source' = [source EXCEPT ![i] = s]
  /\ Goto(i, "stream")
  /\ home' \in IF home = "absent" THEN (IF s = "agent" THEN {"made"} ELSE {"absent", "made"}) ELSE {home}
  /\ standing' = IF Resetting \/ \E j \in Enr : Active(j) THEN 0 ELSE i
  /\ ranBefore' = (standing' # 0 /\ tunnel # Down)
  /\ apart' = (apart /\ (s = "agent" \/ ~(Resetting \/ reset = "done")))
  /\ UNCHANGED <<svc, got, refused, outcome, warned, identity, record, bins, units, running, reset, mishaps>>

\* An identity event; the error of json.Unmarshal is not looked at.
IdentityEvent(i, event) ==
  /\ At(i, "stream")
  /\ got' = [got EXCEPT ![i] = event]
  /\ UNCHANGED <<pc, svc, refused, outcome, warned, disk, running>> /\ Aside

\* A decision "rejected" or an error event, before or after an identity.
Mutant_Refusal(i) ==   \* the event is shown, and the stream read on
  /\ At(i, "stream")
  /\ refused' = refused \cup {i}
  /\ UNCHANGED <<pc, svc, got, outcome, warned, disk, running>> /\ Aside
Refusal(i) ==
  /\ At(i, "stream")
  /\ refused' = refused \cup {i}
  /\ Return(i, "error")
  /\ UNCHANGED <<svc, got, warned, disk, running>> /\ Aside

\* The preflight or the request fails, or the stream ends, is cut or times out, without an identity.
NoIdentity(i) ==
  /\ At(i, "stream") /\ got[i] = "none"
  /\ Return(i, "error")
  /\ UNCHANGED <<svc, got, refused, warned, disk, running>> /\ Aside

\* It ends with one: the wizard shows a last screen until the operator leaves it.
Enrolled(i, next) ==
  /\ At(i, "stream") /\ got[i] = "named"
  /\ next = "shown" => source[i] = "console"
  /\ Goto(i, next)
  /\ UNCHANGED <<svc, got, refused, outcome, warned, disk, running>> /\ Aside

LeaveWizard(i) ==
  /\ At(i, "shown")
  /\ Goto(i, "identity")
  /\ UNCHANGED <<svc, got, refused, outcome, warned, disk, running>> /\ Aside

\* An identity event that left no nickname and no ID: ID[:8] panics.
Panics(i) ==
  /\ At(i, "stream") /\ got[i] = "nameless"
  /\ IF source[i] = "agent" THEN Lose(InAgent) /\ agent' = "starting" ELSE Lose({i}) /\ UNCHANGED agent
  /\ UNCHANGED <<svc, got, refused, outcome, warned, disk, tunnel, caddy>> /\ Aside

-----------------------------------------------------------------------------
\* installAfterEnroll: directory, identity.json, machine.json.

\* EnsureDir and the opening of the file.
OpenIdentity(i) ==
  /\ At(i, "identity")
  /\ home' = "full" /\ identity' = -i
  /\ Goto(i, "write")
  /\ UNCHANGED <<svc, got, refused, outcome, warned, record, bins, units, running>> /\ Aside

\* If another enrollment opened the file in between, either's identity or a mix stays; if
\* it was removed, nothing.
WriteIdentity(i) ==
  /\ At(i, "write")
  /\ identity' \in IF identity = -i THEN {i} ELSE IF identity = 0 THEN {0} ELSE {identity, i, -i}
  /\ Goto(i, "record")
  /\ UNCHANGED <<svc, got, refused, outcome, warned, home, record, bins, units, running>> /\ Aside

IdentityFails(i) ==
  /\ At(i, "identity") \/ At(i, "write")
  /\ Return(i, "error")
  /\ UNCHANGED <<svc, got, refused, warned, disk, running>> /\ AsideFailing(FALSE)

WriteRecord(i) ==
  /\ At(i, "record") /\ home # "absent"
  /\ record' = i
  /\ Goto(i, "fetch")
  /\ UNCHANGED <<svc, got, refused, outcome, warned, home, identity, bins, units, running>> /\ Aside

\* The error is not looked at.
RecordFails(i) ==
  /\ At(i, "record")
  /\ record' \in IF home = "absent" THEN {record} ELSE {record, -i}
  /\ warned' = [warned EXCEPT ![i] = @ \cup {"record"}]
  /\ Goto(i, "fetch")
  /\ UNCHANGED <<svc, got, refused, outcome, home, identity, bins, units, running>> /\ AsideFailing(home = "absent")

-----------------------------------------------------------------------------
\* The services, one after the other: binary, unit, start.

Service(i) == svc[i]

\* After a service comes the next one, or the end.
Continue(i) ==
  \/ /\ Service(i) # "caddy"
     /\ svc' = [svc EXCEPT ![i] = IF @ = "tunnel" THEN "agent" ELSE "caddy"]
     /\ Goto(i, "fetch") /\ UNCHANGED outcome
  \/ /\ Service(i) = "caddy"
     /\ UNCHANGED svc /\ Return(i, "success")

\* A binary that is there, whole or not, is not fetched again.
AtUnit(i) == At(i, "unit") \/ (At(i, "fetch") /\ bins[Service(i)] # "absent")

\* The next operation of the service cannot succeed: the directory or a unit was removed, or
\* Caddy's binary is not whole.
Cannot(i) ==
  \/ At(i, "fetch") /\ bins[Service(i)] = "absent" /\ home # "full"
  \/ At(i, "start") /\ units[Service(i)] = "absent"
  \/ At(i, "start") /\ Service(i) = "agent" /\ units["tunnel"] = "absent"
  \/ At(i, "start") /\ Service(i) = "caddy" /\ ~caddy /\ bins["caddy"] # "whole"

\* A failure ends the enrollment while it installs the tunnel, and is a warning later.
Mutant_StepFails(i) ==   \* the tunnel's failures are warnings as well
  /\ \E l \in {"fetch", "copy", "unit", "start"} : At(i, l)
  /\ Continue(i)
  /\ warned' = IF Service(i) = "tunnel" THEN warned ELSE [warned EXCEPT ![i] = @ \cup {Service(i)}]
  /\ bins' = IF ~At(i, "copy") \/ Service(i) = "tunnel" THEN bins ELSE [bins EXCEPT ![Service(i)] = "absent"]
  /\ units' \in {units} \cup IF AtUnit(i) /\ units[Service(i)] = "absent"
                             THEN {[units EXCEPT ![Service(i)] = "disabled"]} ELSE {}
  /\ UNCHANGED <<got, refused, home, identity, record, running>> /\ AsideFailing(Cannot(i))
StepFails(i) ==
  /\ \E l \in {"fetch", "copy", "unit", "start"} : At(i, l)
  /\ IF Service(i) = "tunnel" THEN Return(i, "error") /\ UNCHANGED <<svc, warned>>
                              ELSE Continue(i) /\ warned' = [warned EXCEPT ![i] = @ \cup {Service(i)}]
  \* a download that fails removes its file, an extraction does not; a unit may be written
  \* and not enabled
  /\ bins' = IF ~At(i, "copy") \/ Service(i) = "tunnel" THEN bins ELSE [bins EXCEPT ![Service(i)] = "absent"]
  /\ units' \in {units} \cup IF AtUnit(i) /\ units[Service(i)] = "absent"
                             THEN {[units EXCEPT ![Service(i)] = "disabled"]} ELSE {}
  /\ UNCHANGED <<got, refused, home, identity, record, running>> /\ AsideFailing(Cannot(i))

OpenBinary(i) ==
  /\ At(i, "fetch") /\ bins[Service(i)] = "absent" /\ home = "full"
  /\ bins' = [bins EXCEPT ![Service(i)] = "partial"]
  /\ Goto(i, "copy")
  /\ UNCHANGED <<svc, got, refused, outcome, warned, home, identity, record, units, running>> /\ Aside

CopyBinary(i) ==
  /\ At(i, "copy")
  /\ bins' = IF bins[Service(i)] = "absent" THEN bins ELSE [bins EXCEPT ![Service(i)] = "whole"]
  /\ Goto(i, "unit")
  /\ UNCHANGED <<svc, got, refused, outcome, warned, home, identity, record, units, running>> /\ Aside

EnableUnit(i) ==
  /\ AtUnit(i)
  /\ units' = [units EXCEPT ![Service(i)] = "enabled"]
  /\ Goto(i, "start")
  /\ UNCHANGED <<svc, got, refused, outcome, warned, home, identity, record, bins, running>> /\ Aside

\* systemctl start: nothing happens to a service that runs; the agent's unit wants the tunnel's.
StartTunnel(i) ==
  /\ At(i, "start") /\ Service(i) = "tunnel" /\ units["tunnel"] # "absent"
  /\ tunnel' = IF tunnel = Down THEN Starting ELSE tunnel
  /\ Goto(i, "wait")
  /\ UNCHANGED <<svc, got, refused, outcome, warned, disk, agent, caddy>> /\ Aside

StartAgent(i) ==
  /\ At(i, "start") /\ Service(i) = "agent" /\ units["agent"] # "absent" /\ units["tunnel"] # "absent"
  /\ agent' = IF agent \in {"down", "dropped"} THEN "starting" ELSE agent
  /\ tunnel' = IF tunnel = Down THEN Starting ELSE tunnel
  /\ Continue(i)
  /\ UNCHANGED <<got, refused, warned, disk, caddy>> /\ Aside

StartCaddy(i) ==
  /\ At(i, "start") /\ Service(i) = "caddy" /\ units["caddy"] # "absent"
  /\ caddy \/ bins["caddy"] = "whole"
  /\ caddy' = TRUE
  /\ Continue(i)
  /\ UNCHANGED <<got, refused, warned, disk, tunnel, agent>> /\ Aside

\* WaitForTunnel: the tunnel answers, or a minute has passed.
Mutant_WaitForTunnel(i) ==   \* without the deadline
  /\ At(i, "wait") /\ tunnel > 0
  /\ Continue(i)
  /\ UNCHANGED <<got, refused, warned, disk, running>> /\ Aside
WaitForTunnel(i) ==
  /\ At(i, "wait")
  /\ Continue(i)
  /\ UNCHANGED <<got, refused, warned, disk, running>> /\ Aside

-----------------------------------------------------------------------------
\* reset: services are stopped and disabled, units and files removed.

ResetBegin ==
  /\ ~Resetting /\ mishaps < MaxMishaps /\ mishaps' = mishaps + 1
  /\ reset' = "caddy"
  /\ standing' = 0
  /\ apart' = \A i \in Enr : Active(i) => source[i] = "agent"
  /\ UNCHANGED <<progress, disk, running, ranBefore>>

AfterStop == [caddy |-> "agent", agent |-> "tunnel", tunnel |-> "units"]

\* Stopping the tunnel stops the agent, and that the enrollments in it.
Mutant_Stop(s) ==   \* disabled only
  /\ reset = s /\ reset' = AfterStop[s]
  /\ units' = IF units[s] = "enabled" THEN [units EXCEPT ![s] = "disabled"] ELSE units
  /\ UNCHANGED <<progress, home, identity, record, bins, running, mishaps, history>>
Stop(s) ==
  /\ reset = s /\ reset' = AfterStop[s]
  /\ units' = IF units[s] = "enabled" THEN [units EXCEPT ![s] = "disabled"] ELSE units
  /\ tunnel' = IF s = "tunnel" THEN Down ELSE tunnel
  /\ IF s = "caddy" THEN UNCHANGED <<agent, pc>> ELSE agent' = "down" /\ Lose(InAgent)
  /\ caddy' = (caddy /\ s # "caddy")
  /\ UNCHANGED <<source, svc, got, refused, outcome, warned, home, identity, record, bins, mishaps, history>>

RemoveUnits ==
  /\ reset = "units"
  /\ units' = [s \in Services |-> "absent"]
  /\ reset' = "files"
  /\ UNCHANGED <<progress, home, identity, record, bins, running, mishaps, history>>

RemoveFiles ==
  /\ reset = "files"
  /\ home' = "absent" /\ identity' = 0 /\ record' = 0
  /\ bins' = [s \in Services |-> "absent"]
  /\ reset' = "done"
  /\ UNCHANGED <<progress, units, running, mishaps, history>>

-----------------------------------------------------------------------------
\* systemd and the world.

\* The tunnel reads the identity when it starts, and is started again if it cannot use it.
Mutant_TunnelUp ==   \* a file that is being written will do
  /\ tunnel = Starting /\ identity # 0 /\ bins["tunnel"] = "whole"
  /\ tunnel' = identity
  /\ UNCHANGED <<progress, disk, agent, caddy, reset, mishaps, history>>
TunnelUp ==
  /\ tunnel = Starting /\ identity > 0 /\ bins["tunnel"] = "whole"
  /\ tunnel' = identity
  /\ UNCHANGED <<progress, disk, agent, caddy, reset, mishaps, history>>

\* The tunnel exits, at once if its binary or identity.json is not whole or has nothing it can
\* use, or later.  It is started again; the agent, which is bound to it, is stopped with the
\* enrollments in it, and is not.
TunnelExits ==
  /\ tunnel # Down /\ tunnel' = Starting
  /\ agent' = IF agent = "down" THEN "down" ELSE "dropped"
  /\ Lose(InAgent)
  /\ UNCHANGED <<source, svc, got, refused, outcome, warned, disk, caddy, reset, mishaps, history>>

\* The agent needs machine.json.
AgentUp ==
  /\ agent = "starting" /\ bins["agent"] = "whole" /\ record > 0
  /\ agent' = "up"
  /\ UNCHANGED <<progress, disk, tunnel, caddy, reset, mishaps, history>>

\* The agent fails, with the enrollments in it; Restart=on-failure.
AgentFails ==
  /\ agent = "up" /\ agent' = "starting"
  /\ mishaps < MaxMishaps /\ mishaps' = mishaps + 1
  /\ Lose(InAgent)
  /\ UNCHANGED <<source, svc, got, refused, outcome, warned, disk, tunnel, caddy, reset, history>>

\* The operator interrupts an enrollment, or the reset.
Interrupt(i) ==
  /\ Active(i) /\ source[i] # "agent"
  /\ mishaps < MaxMishaps /\ mishaps' = mishaps + 1
  /\ Lose({i})
  /\ UNCHANGED <<source, svc, got, refused, outcome, warned, disk, running, reset, history>>

InterruptReset ==
  /\ Resetting
  /\ reset' = "idle"
  /\ UNCHANGED <<progress, disk, running, mishaps, history>>

Reboot ==
  /\ mishaps < MaxMishaps /\ mishaps' = mishaps + 1
  /\ Lose(Enr)
  /\ agent' = IF units["agent"] = "enabled" /\ units["tunnel"] # "absent" THEN "starting" ELSE "down"
  /\ tunnel' = IF units["tunnel"] = "enabled" \/ agent' # "down" THEN Starting ELSE Down
  /\ caddy' = (units["caddy"] = "enabled" /\ bins["caddy"] = "whole")
  /\ reset' = IF Resetting THEN "idle" ELSE reset
  /\ UNCHANGED <<source, svc, got, refused, outcome, warned, disk, history>>

-----------------------------------------------------------------------------
Streaming(i) ==
  \/ Refusal(i) \/ NoIdentity(i) \/ Panics(i)
  \/ \E next \in {"identity", "shown"} : Enrolled(i, next)

Installing(i) ==
  \/ OpenIdentity(i) \/ WriteIdentity(i) \/ IdentityFails(i)
  \/ WriteRecord(i) \/ RecordFails(i)
  \/ StepFails(i) \/ OpenBinary(i) \/ CopyBinary(i)
  \/ EnableUnit(i) \/ StartTunnel(i) \/ StartAgent(i) \/ StartCaddy(i) \/ WaitForTunnel(i)

Reset == ResetBegin \/ (\E s \in Services : Stop(s)) \/ RemoveUnits \/ RemoveFiles \/ InterruptReset

World == TunnelUp \/ TunnelExits \/ AgentUp \/ AgentFails \/ Reboot

Next ==
  \/ \E i \in Enr :
       \/ \E s \in Sources : Begin(i, s)
       \/ Streaming(i) \/ LeaveWizard(i) \/ Installing(i) \/ Interrupt(i)
       \/ \E event \in Events : IdentityEvent(i, event)
  \/ Reset \/ World

Spec == Init /\ [][Next]_vars

\* An enrollment goes on: the request times out after two minutes whatever the server sends,
\* and the commands of an installation end.  The operator may leave the wizard open for ever.
FairSpec == Spec /\ \A i \in Enr : WF_vars(Streaming(i)) /\ WF_vars(Installing(i))

-----------------------------------------------------------------------------
Labels == {"none", "stream", "shown", "identity", "write", "record",
           "fetch", "copy", "unit", "start", "wait", "ended", "lost"}

ProgressOK ==
  /\ source \in [Enr -> Sources] /\ pc \in [Enr -> Labels] /\ svc \in [Enr -> Services]
  /\ got \in [Enr -> Events \cup {"none"}] /\ refused \subseteq Enr
  /\ outcome \in [Enr -> {"none", "error", "success"}]
  /\ warned \in [Enr -> SUBSET {"record", "agent", "caddy"}]

DiskOK ==
  /\ home \in {"absent", "made", "full"} /\ identity \in -N..N /\ record \in -N..N
  /\ bins \in [Services -> {"absent", "partial", "whole"}]
  /\ units \in [Services -> {"absent", "disabled", "enabled"}]

RunningOK ==
  /\ tunnel \in -1..N /\ agent \in {"down", "dropped", "starting", "up"} /\ caddy \in BOOLEAN
  /\ reset \in Services \cup {"idle", "units", "files", "done"}

CountersOK ==
  /\ mishaps \in 0..MaxMishaps
  /\ standing \in 0..N /\ ranBefore \in BOOLEAN /\ apart \in BOOLEAN

\* Every variable has its type.
TypeOK == ProgressOK /\ DiskOK /\ RunningOK /\ CountersOK

\* The server issued i an identity, by name, and did not take its word back.
Accepted(i) == got[i] = "named" /\ i \notin refused

\* What is on disk or runs is that of i.
Traced(i) == identity \in {i, -i} \/ record \in {i, -i} \/ tunnel = i

\* Nothing of an enrollment the server refused, even after it had sent an identity, or of
\* one to which it gave no name, is on the disk or runs.
OnlyAccepted == \A i \in Enr : Traced(i) => Accepted(i)

\* An enrollment that reports success, with none beside or after it, left what it says:
\* its identity on disk, record, agent and Caddy except where it warned, and a tunnel that
\* comes back with the machine, and runs with that identity unless it ran before.  Whether the
\* tunnel can use the identity it does not say; if not, or if it exits for another reason, the
\* tunnel takes the agent with it, and nothing else does.
SuccessHolds ==
  LET i == standing IN
    i # 0 /\ outcome[i] = "success" =>
      /\ identity = i
      /\ record = i \/ "record" \in warned[i]
      /\ units["tunnel"] = "enabled" /\ bins["tunnel"] # "absent"
      /\ tunnel \in {Starting, i} \/ (ranBefore /\ tunnel # Down)
      /\ (units["agent"] = "enabled" /\ agent # "down") \/ "agent" \in warned[i]
      /\ units["caddy"] = "enabled" \/ "caddy" \in warned[i]

\* After a reset nothing is left on disk and nothing runs, even if enrollments ran in the
\* agent meanwhile: they end with it.  Only Caddy may run, started by one of them after
\* reset had stopped it (reset.go:40, Caddy comes before the agent).
ResetCleans ==
  reset = "done" /\ apart =>
    /\ home = "absent" /\ identity = 0 /\ record = 0
    /\ \A s \in Services : bins[s] = "absent" /\ units[s] = "absent"
    /\ tunnel = Down /\ agent = "down"
    /\ caddy => \E i \in Enr : source[i] = "agent" /\ Ended(i)

\* Every enrollment ends, although the tunnel it starts may never come up; only the wizard
\* waits for its operator.
EnrollmentEnds == \A i \in Enr : Active(i) ~> Ended(i) \/ At(i, "shown")
=============================================================================
