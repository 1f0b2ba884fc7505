----------------------------- MODULE AgentRun -----------------------------
(***************************************************************************)
(* The agent's main loop, Run of internal/agent/agent.go: which transport  *)
(* it uses, and when it changes.  Without a Ziti identity, or with one     *)
(* that cannot dial the telemetry service, it sends heartbeats by HTTP and *)
(* tries again; with one it starts the embedded NATS leaf node, or, if     *)
(* that fails, runs the telemetry loop directly.                           *)
(*                                                                         *)
(* The telemetry loop itself is in Telemetry; here it only reads the two   *)
(* channels.  Events are counted, not told apart.  An interval is the      *)
(* number of the instruction that brought it; 0 is the default of the boot *)
(* configuration, NotPositive one that no ticker can be set to.            *)
(***************************************************************************)
EXTENDS Integers

CONSTANTS
  Fallbacks,  \* whether the boot configuration has a FallbackURL: the possible answers
  Cap,        \* capacity of eventCh
  MaxInstr,   \* bound: number of instructions that carry an interval
  None        \* intervalCh is empty

ASSUME RunAssumption == Fallbacks \subseteq BOOLEAN /\ Cap \in Nat /\ MaxInstr \in Nat
ASSUME NoneAssumption == None \notin Int

VARIABLES
  hasFallback, \* the boot configuration has a FallbackURL
  pc,          \* where the loop is
  contexts,    \* number of open Ziti contexts
  leaf,        \* the leaf node runs
  intervalCh,  \* the channel of capacity 1 that the collector and the loop read
  asked,       \* number of instructions so far
  coll,        \* the pulse collector's interval
  every,       \* the loop's own interval
  queued,      \* number of events in eventCh
  lost,        \* an event was taken from eventCh and reached nobody
  identity,    \* identity.json can be loaded
  overlay,     \* the telemetry service can be dialled
  http,        \* the controller answers HTTP requests
  cancelled    \* ctx is done

conn      == <<contexts, leaf>>
intervals == <<intervalCh, asked, coll, every>>
events    == <<queued, lost>>
world     == <<hasFallback, identity, overlay, http, cancelled>>
vars      == <<pc, conn, intervals, events, world>>

Init ==
  /\ hasFallback \in Fallbacks
  /\ pc = "top" /\ contexts = 0 /\ leaf = FALSE
  /\ intervalCh = None /\ asked = 0 /\ coll = 0 /\ every = 0
  /\ queued = 0 /\ lost = FALSE
  /\ identity \in BOOLEAN /\ overlay \in BOOLEAN /\ http \in BOOLEAN /\ cancelled = FALSE

At(l) == pc = l

NotPositive == -1

\* An instruction with an interval, if it is one: the send does not wait for room.
Mutant_Ask ==   \* whatever the instruction carries is sent on
  /\ asked < MaxInstr /\ asked' = asked + 1
  /\ \E d \in {asked + 1, NotPositive} : intervalCh' = IF intervalCh = None THEN d ELSE intervalCh
  /\ UNCHANGED <<coll, every>>
Ask ==
  /\ asked < MaxInstr /\ asked' = asked + 1
  /\ \E d \in {asked + 1, NotPositive} :
       intervalCh' = IF d > 0 /\ intervalCh = None THEN d ELSE intervalCh
  /\ UNCHANGED <<coll, every>>

-----------------------------------------------------------------------------
\* Run.

\* Without an overlay: runFallbackUntilOverlay with its own interval, or a wait.
Mutant_NoOverlay ==   \* the collector is told the default interval as well
  IF hasFallback THEN pc' = "beat" /\ every' = 0 /\ intervalCh' = 0 /\ UNCHANGED <<asked, coll>>
                 ELSE pc' = "wait" /\ UNCHANGED intervals
NoOverlay ==
  IF hasFallback THEN pc' = "beat" /\ every' = 0 /\ UNCHANGED <<intervalCh, asked, coll>>
                 ELSE pc' = "wait" /\ UNCHANGED intervals

Return == At("top") /\ cancelled /\ pc' = "ended" /\ UNCHANGED <<conn, intervals, events, world>>

NoIdentity ==
  /\ At("top") /\ ~cancelled /\ ~identity
  /\ NoOverlay
  /\ UNCHANGED <<conn, events, world>>

LoadIdentity ==
  /\ At("top") /\ ~cancelled /\ identity
  /\ contexts' = contexts + 1 /\ pc' = "dial"
  /\ UNCHANGED <<leaf, intervals, events, world>>

DialFails ==
  /\ At("dial") /\ ~overlay
  /\ contexts' = contexts - 1
  /\ NoOverlay
  /\ UNCHANGED <<leaf, events, world>>

Dial == At("dial") /\ overlay /\ pc' = "start" /\ UNCHANGED <<conn, intervals, events, world>>

LeafStarts ==
  /\ At("start")
  /\ leaf' = TRUE /\ pc' = "leaf"
  /\ UNCHANGED <<contexts, intervals, events, world>>

\* The bridge, the server or its client cannot be started.
LeafFails == At("start") /\ pc' = "direct" /\ every' = 0
             /\ UNCHANGED <<conn, intervalCh, asked, coll, events, world>>

WaitEnds == At("wait") /\ pc' = "top" /\ UNCHANGED <<conn, intervals, events, world>>

WaitCancelled == At("wait") /\ cancelled /\ pc' = "ended" /\ UNCHANGED <<conn, intervals, events, world>>

-----------------------------------------------------------------------------
\* runFallbackUntilOverlay.

\* A request made with ctx is answered.
Answered == http /\ ~cancelled

\* The heartbeat; the controller's answer may be a hello.
Beat ==
  /\ At("beat") /\ pc' = "drain"
  /\ UNCHANGED intervals \/ (Answered /\ Ask)
  /\ UNCHANGED <<conn, events, world>>

\* One event of the channel is posted; the error is not looked at.
Post ==
  /\ At("drain") /\ queued > 0
  /\ queued' = queued - 1 /\ lost' = (lost \/ ~Answered)
  /\ UNCHANGED <<pc, conn, intervals, world>>

Drained == At("drain") /\ queued = 0 /\ pc' = "idle" /\ UNCHANGED <<conn, intervals, events, world>>

Tick == At("idle") /\ pc' = "beat" /\ UNCHANGED <<conn, intervals, events, world>>

FallbackInterval ==
  /\ At("idle") /\ intervalCh # None
  /\ every' = intervalCh /\ intervalCh' = None
  /\ UNCHANGED <<pc, conn, asked, coll, events, world>>

\* zitiRetry: the identity loads, whether or not the overlay can be reached; the context
\* is closed again, and the main loop opens its own.
Retry ==
  /\ At("idle") /\ identity
  /\ contexts' = contexts + 1 /\ pc' = "opened"
  /\ UNCHANGED <<leaf, intervals, events, world>>

Mutant_Promote ==   \* the context is closed and the loop goes on
  /\ At("opened")
  /\ contexts' = contexts - 1 /\ pc' = "idle"
  /\ UNCHANGED <<leaf, intervals, events, world>>
Mutant_Unclosed ==   \* zitiCtx.Close is left out
  /\ At("opened") /\ pc' = "top"
  /\ UNCHANGED <<conn, intervals, events, world>>
Promote ==
  /\ At("opened")
  /\ contexts' = contexts - 1 /\ pc' = "top"
  /\ UNCHANGED <<leaf, intervals, events, world>>

FallbackCancelled ==
  /\ At("idle") /\ cancelled
  /\ pc' = "top"
  /\ UNCHANGED <<conn, intervals, events, world>>

-----------------------------------------------------------------------------
\* runTelemetryWithLeaf, runTelemetryLoop and what follows them in Run.

LeafInterval ==
  /\ At("leaf") /\ intervalCh # None
  /\ intervalCh' = None
  /\ UNCHANGED <<pc, conn, asked, coll, every, events, world>>

DirectInterval ==
  /\ At("direct") /\ intervalCh # None
  /\ every' = intervalCh /\ intervalCh' = None
  /\ UNCHANGED <<pc, conn, asked, coll, events, world>>

\* Published or, in the direct mode, buffered (Telemetry); the leaf has no stream and nobody
\* looks at nc.Publish's error, so in either mode the event may reach nobody.
Publish ==
  /\ At("leaf") \/ At("direct")
  /\ queued > 0 /\ queued' = queued - 1
  /\ lost' \in {lost, TRUE}
  /\ UNCHANGED <<pc, conn, intervals, world>>

\* The config subscription's callback.
Instruct ==
  /\ At("leaf") \/ At("direct")
  /\ overlay /\ Ask
  /\ UNCHANGED <<pc, conn, events, world>>

Mutant_LeafCancelled ==   \* the loop ends only when eventCh is closed
  FALSE /\ UNCHANGED vars
LeafCancelled ==
  /\ At("leaf") /\ cancelled
  /\ leaf' = FALSE /\ contexts' = contexts - 1 /\ pc' = "ended"
  /\ UNCHANGED <<intervals, events, world>>

DirectCancelled ==
  /\ At("direct") /\ cancelled
  /\ contexts' = contexts - 1 /\ pc' = "ended"
  /\ UNCHANGED <<leaf, intervals, events, world>>

-----------------------------------------------------------------------------
\* The collectors, and the world around the agent.

CollectorInterval ==
  /\ intervalCh # None
  /\ coll' = intervalCh /\ intervalCh' = None
  /\ UNCHANGED <<pc, conn, asked, every, events, world>>

\* A collector, or an application through the pulse API until Run returns.
Emit ==
  /\ ~At("ended") /\ queued < Cap /\ queued' = queued + 1
  /\ UNCHANGED <<pc, conn, intervals, lost, world>>

\* The machine is enrolled or reset; networks come and go.
Change ==
  /\ \/ identity' = ~identity /\ UNCHANGED <<overlay, http, cancelled>>
     \/ overlay' = ~overlay /\ UNCHANGED <<identity, http, cancelled>>
     \/ http' = ~http /\ UNCHANGED <<identity, overlay, cancelled>>
     \/ cancelled' = TRUE /\ UNCHANGED <<identity, overlay, http>>
  /\ UNCHANGED <<hasFallback, pc, conn, intervals, events>>

Step ==
  \/ Return \/ NoIdentity \/ LoadIdentity \/ DialFails \/ Dial \/ LeafStarts \/ LeafFails
  \/ WaitEnds \/ WaitCancelled
  \/ Beat \/ Post \/ Drained \/ Tick \/ FallbackInterval
  \/ Retry \/ Promote \/ FallbackCancelled
  \/ LeafInterval \/ DirectInterval \/ Publish \/ LeafCancelled \/ DirectCancelled

Next == Step \/ Instruct \/ CollectorInterval \/ Emit \/ Change

Spec == Init /\ [][Next]_vars

\* The loop's goroutine is scheduled, and no case of its selects that is ready
\* time and again is passed over for ever: a ticker keeps its tick, a done
\* context stays done, and the choice between ready cases is random.
FairSpec ==
  /\ Spec
  /\ WF_vars(Step)
  /\ SF_vars(Retry) /\ SF_vars(FallbackCancelled)
  /\ WF_vars(LeafCancelled) /\ WF_vars(DirectCancelled) /\ WF_vars(WaitCancelled)

-----------------------------------------------------------------------------
NumbersOK ==
  /\ intervalCh \in (0..MaxInstr) \cup {None} /\ asked \in 0..MaxInstr
  /\ coll \in 0..MaxInstr /\ every \in 0..MaxInstr
  /\ queued \in 0..Cap

ModesOK ==
  /\ pc \in {"top", "dial", "start", "wait", "beat", "drain", "idle", "opened", "leaf", "direct", "ended"}
  /\ contexts \in Nat /\ leaf \in BOOLEAN /\ lost \in BOOLEAN
  /\ hasFallback \in BOOLEAN /\ cancelled \in BOOLEAN
  /\ identity \in BOOLEAN /\ overlay \in BOOLEAN /\ http \in BOOLEAN

\* Every variable has its type; no reader of intervalCh is handed an interval that its
\* ticker's Reset would panic on (agent.go:266, pulse.go:147).
TypeOK == NumbersOK /\ ModesOK

\* However often the loop falls back and tries again, it holds one Ziti context while it
\* uses the overlay or has just opened one to see whether the identity loads, and none
\* otherwise; a leaf node it holds only in its mode.
Released ==
  /\ contexts = IF pc \in {"dial", "start", "opened", "leaf", "direct"} THEN 1 ELSE 0
  /\ leaf <=> At("leaf")

\* The collector never returns to an interval older than one it has used, although two
\* goroutines read the channel and the loop forgets its own interval on the way.
IntervalsAdvance == [][coll' >= coll]_coll

\* agent.go:122-123: "The agent continuously retries Ziti in the background and promotes to
\* overlay when available."  Once the identity loads and the overlay answers for good it
\* does, however the collectors and applications emit, unless the emptying of the channel
\* after a heartbeat never ends: that is the only place where it does not try.
Promotes ==
  <>[](identity /\ overlay) => <>(pc \in {"leaf", "direct", "ended"}) \/ <>[]At("drain")

\* agent.go:116: Run "blocks until ctx is cancelled", and then returns from every mode, unless
\* the emptying of the channel never ends: it does not look at ctx, and applications may go
\* on to emit through the pulse API.
CancelEnds == [](cancelled => <>At("ended") \/ <>[]At("drain"))

\* agent.go:152: "Edge buffer holds events when neither NATS nor HTTP is available."
HeldOffline == ~lost
=============================================================================
