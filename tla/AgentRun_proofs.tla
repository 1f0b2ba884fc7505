-------------------------- MODULE AgentRun_proofs --------------------------
(***************************************************************************)
(* Proofs about AgentRun, for every capacity and number of instructions.   *)
(***************************************************************************)
EXTENDS AgentRun, TLAPS

-----------------------------------------------------------------------------
\* The Ziti context and the leaf node.

\* The mode of the loop decides what it holds; every step that changes the one
\* changes the other.
ModeInv == ModesOK /\ Released

\* It holds initially.
LEMMA ModeInit == Init => ModeInv
<1> SUFFICES ASSUME Init PROVE ModeInv
  OBVIOUS
<1>1. pc = "top" /\ contexts = 0 /\ leaf = FALSE
  BY DEF Init
<1>2. contexts \in Nat
  BY <1>1
<1>3. hasFallback \in BOOLEAN /\ lost \in BOOLEAN /\ cancelled \in BOOLEAN
      /\ identity \in BOOLEAN /\ overlay \in BOOLEAN /\ http \in BOOLEAN
  BY RunAssumption DEF Init
<1> QED
  BY <1>1, <1>2, <1>3 DEF ModeInv, ModesOK, Released, At

\* Every step of the loop keeps it.
LEMMA ModeStep == ModeInv /\ [Next]_vars => ModeInv'
<1> SUFFICES ASSUME ModeInv, [Next]_vars
             PROVE  ModeInv'
  OBVIOUS
<1> USE DEF ModeInv, ModesOK, Released, At, conn, events, world
<1>1. CASE Return \/ NoIdentity \/ LoadIdentity \/ DialFails \/ Dial
  BY <1>1 DEF Return, NoIdentity, NoOverlay, LoadIdentity, DialFails, Dial
<1>2. CASE LeafStarts \/ LeafFails \/ WaitEnds \/ WaitCancelled
  <2>1. UNCHANGED <<contexts, lost, world>>
    BY <1>2 DEF LeafStarts, LeafFails, WaitEnds, WaitCancelled
  <2>2. CASE LeafStarts
    BY <2>1, <2>2, Zenon DEF LeafStarts
  <2>3. CASE LeafFails \/ WaitEnds \/ WaitCancelled
    BY <2>1, <2>3 DEF LeafFails, WaitEnds, WaitCancelled
  <2> QED
    BY <1>2, <2>2, <2>3
<1>3. CASE Beat \/ Drained \/ Tick \/ FallbackInterval \/ Retry \/ Promote \/ FallbackCancelled
  BY <1>3 DEF Beat, Drained, Tick, FallbackInterval, Retry, Promote, FallbackCancelled
<1>4. CASE Post
  BY <1>4 DEF Post
<1>5. CASE LeafInterval \/ DirectInterval \/ DirectCancelled
  BY <1>5 DEF LeafInterval, DirectInterval, DirectCancelled
<1>6. CASE Publish
  BY <1>6 DEF Publish
<1>7. CASE LeafCancelled
  <2>1. contexts = 1 /\ contexts' = contexts - 1
    BY <1>7 DEF LeafCancelled
  <2>2. contexts' = 0 /\ contexts' \in Nat
    BY <2>1
  <2> QED
    BY <1>7, <2>2, Zenon DEF LeafCancelled
<1>8. CASE Instruct \/ CollectorInterval \/ Emit
  BY <1>8 DEF Instruct, CollectorInterval, Emit
<1>9. CASE Change
  BY <1>9 DEF Change
<1>10. CASE UNCHANGED vars
  BY <1>10 DEF vars
<1> QED
  BY <1>1, <1>2, <1>3, <1>4, <1>5, <1>6, <1>7, <1>8, <1>9, <1>10 DEF Next, Step

\* However often the loop falls back and promotes, no Ziti context is leaked, none is used
\* after its Close, the one opened only to see whether the identity loads is closed as well,
\* and the leaf node runs in its mode only.
THEOREM ContextsReleased == Spec => []Released
<1>1. ModeInv => Released
  BY DEF ModeInv
<1> QED
  BY <1>1, ModeInit, ModeStep, PTL DEF Spec

-----------------------------------------------------------------------------
\* The intervals.

\* What the channel holds was asked for after everything the collector has used.
Fresh == coll <= asked /\ (intervalCh # None => coll < intervalCh /\ intervalCh <= asked)
IntervalInv == NumbersOK /\ Fresh

\* It holds initially.
LEMMA IntervalInit == Init => IntervalInv
BY RunAssumption, NoneAssumption DEF Init, IntervalInv, NumbersOK, Fresh

\* An instruction with an interval keeps it.
LEMMA AskStep ==
  ASSUME IntervalInv, Ask, queued' = queued
  PROVE  IntervalInv' /\ coll' = coll
BY RunAssumption, NoneAssumption DEF IntervalInv, NumbersOK, Fresh, Ask

\* Every step keeps it, and no step takes the collector back.
LEMMA IntervalStep == IntervalInv /\ [Next]_vars => IntervalInv' /\ coll' >= coll
<1> SUFFICES ASSUME IntervalInv, [Next]_vars
             PROVE  IntervalInv' /\ coll' >= coll
  OBVIOUS
<1> USE RunAssumption, NoneAssumption DEF IntervalInv, NumbersOK, Fresh, intervals, events
<1>1. CASE Return \/ NoIdentity \/ LoadIdentity \/ DialFails \/ Dial
  BY <1>1 DEF Return, NoIdentity, NoOverlay, LoadIdentity, DialFails, Dial
<1>2. CASE LeafStarts \/ LeafFails \/ WaitEnds \/ WaitCancelled
  BY <1>2 DEF LeafStarts, LeafFails, WaitEnds, WaitCancelled
<1>3. CASE Beat
  <2>1. queued' = queued
    BY <1>3 DEF Beat
  <2>2. CASE Ask
    BY <2>1, <2>2, AskStep
  <2>3. CASE UNCHANGED intervals
    BY <2>1, <2>3
  <2> QED
    BY <1>3, <2>2, <2>3 DEF Beat
<1>4. CASE Post \/ Drained \/ Tick \/ FallbackInterval
  BY <1>4 DEF Post, Drained, Tick, FallbackInterval
<1>5. CASE Retry \/ Promote \/ FallbackCancelled
  BY <1>5 DEF Retry, Promote, FallbackCancelled
<1>6. CASE LeafInterval \/ DirectInterval \/ LeafCancelled \/ DirectCancelled
  BY <1>6 DEF LeafInterval, DirectInterval, LeafCancelled, DirectCancelled
<1>7. CASE Publish
  BY <1>7 DEF Publish
<1>8. CASE Instruct
  BY <1>8, AskStep DEF Instruct
<1>9. CASE CollectorInterval \/ Emit \/ Change
  BY <1>9 DEF CollectorInterval, Emit, Change
<1>10. CASE UNCHANGED vars
  BY <1>10 DEF vars
<1> QED
  BY <1>1, <1>2, <1>3, <1>4, <1>5, <1>6, <1>7, <1>8, <1>9, <1>10 DEF Next, Step

\* The collector's interval only ever moves to one that was asked for later.
THEOREM CollectorAdvances == Spec => IntervalsAdvance
<1>1. IntervalInv /\ [Next]_vars => [coll' >= coll]_coll
  BY IntervalStep
<1> QED
  BY <1>1, IntervalInit, IntervalStep, PTL DEF Spec, IntervalsAdvance

\* Every variable has its type in every reachable state.
THEOREM TypeCorrect == Spec => []TypeOK
<1>1. Init => ModeInv /\ IntervalInv
  BY ModeInit, IntervalInit
<1>2. ModeInv /\ IntervalInv /\ [Next]_vars => (ModeInv /\ IntervalInv)'
  BY ModeStep, IntervalStep
<1>3. ModeInv /\ IntervalInv => TypeOK
  BY DEF ModeInv, IntervalInv, TypeOK
<1> QED
  BY <1>1, <1>2, <1>3, PTL DEF Spec
=============================================================================
