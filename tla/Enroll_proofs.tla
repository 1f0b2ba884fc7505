---------------------------- MODULE Enroll_proofs ----------------------------
(***************************************************************************)
(* Proofs about Enroll, for every number of enrollments and of mishaps.    *)
(***************************************************************************)
EXTENDS Enroll, TLAPS

-----------------------------------------------------------------------------
\* Type correctness, part by part.

\* The steps of Next, one by one.
LEMMA StepCases ==
  ASSUME [Next]_vars
  PROVE  \/ \E i \in Enr :
              \/ \E s \in Sources : Begin(i, s)
              \/ \E event \in Events : IdentityEvent(i, event)
              \/ \E next \in {"identity", "shown"} : Enrolled(i, next)
              \/ Refusal(i) \/ NoIdentity(i) \/ Panics(i) \/ LeaveWizard(i)
              \/ OpenIdentity(i) \/ WriteIdentity(i) \/ IdentityFails(i)
              \/ WriteRecord(i) \/ RecordFails(i)
              \/ StepFails(i) \/ OpenBinary(i) \/ CopyBinary(i) \/ EnableUnit(i)
              \/ StartTunnel(i) \/ StartAgent(i) \/ StartCaddy(i) \/ WaitForTunnel(i)
              \/ Interrupt(i)
         \/ ResetBegin \/ (\E s \in Services : Stop(s)) \/ RemoveUnits \/ RemoveFiles \/ InterruptReset
         \/ TunnelUp \/ TunnelExits \/ AgentUp \/ AgentFails \/ Reboot
         \/ UNCHANGED vars
BY DEF Next, Streaming, Installing, Reset, World

\* Enrollments that are lost keep the places of the others.
LEMMA LosePlaces ==
  ASSUME ProgressOK, NEW S \in SUBSET Enr, Lose(S)
  PROVE  pc' \in [Enr -> Labels]
BY DEF ProgressOK, Lose, Labels

\* A service is followed by a service or the end.
LEMMA ContinueTyped ==
  ASSUME ProgressOK, NEW i \in Enr, Continue(i)
  PROVE  /\ pc' \in [Enr -> Labels] /\ svc' \in [Enr -> Services]
         /\ outcome' \in [Enr -> {"none", "error", "success"}]
BY DEF ProgressOK, Continue, Service, Goto, Return, Labels, Services

\* Every step keeps the types of what an enrollment is doing: one step of the proof per group of actions.
LEMMA ProgressTyped == ProgressOK /\ [Next]_vars => ProgressOK'
<1> SUFFICES ASSUME ProgressOK, [Next]_vars
             PROVE  ProgressOK'
  OBVIOUS
<1>1. ASSUME NEW i \in Enr, NEW s \in Sources, Begin(i, s)
      PROVE  ProgressOK'
  BY <1>1 DEF Begin, Goto, ProgressOK, Labels
<1>2. ASSUME NEW i \in Enr,
             \/ \E event \in Events : IdentityEvent(i, event)
             \/ \E next \in {"identity", "shown"} : Enrolled(i, next)
             \/ Refusal(i) \/ NoIdentity(i) \/ LeaveWizard(i)
      PROVE  ProgressOK'
  BY <1>2 DEF IdentityEvent, Enrolled, Refusal, NoIdentity, LeaveWizard, Goto, Return, Aside, Apart,
     ProgressOK, Labels
<1>3. ASSUME NEW i \in Enr, OpenIdentity(i) \/ WriteIdentity(i) \/ IdentityFails(i) \/ WriteRecord(i) \/ RecordFails(i)
      PROVE  ProgressOK'
  BY <1>3 DEF OpenIdentity, WriteIdentity, IdentityFails, WriteRecord, RecordFails, Goto, Return, Aside,
     AsideFailing, Apart, ProgressOK, Labels
<1>4. ASSUME NEW i \in Enr, StepFails(i)
      PROVE  ProgressOK'
  <2>1. CASE Service(i) = "tunnel"
    BY <1>4, <2>1 DEF StepFails, Return, Goto, AsideFailing, Apart, ProgressOK, Labels
  <2>2. CASE Service(i) # "tunnel"
    <3>1. Continue(i) /\ warned' = [warned EXCEPT ![i] = @ \cup {Service(i)}]
      BY <1>4, <2>2 DEF StepFails
    <3>2. Service(i) \in {"agent", "caddy"}
      BY <2>2 DEF Service, ProgressOK, Services
    <3>3. warned' \in [Enr -> SUBSET {"record", "agent", "caddy"}]
      BY <3>1, <3>2 DEF ProgressOK
    <3>4. UNCHANGED <<source, got, refused>>
      BY <1>4 DEF StepFails, AsideFailing, Apart
    <3> QED
      BY <3>1, <3>3, <3>4, ContinueTyped DEF ProgressOK
  <2> QED
    BY <2>1, <2>2
<1>5. ASSUME NEW i \in Enr, OpenBinary(i) \/ CopyBinary(i) \/ EnableUnit(i) \/ StartTunnel(i)
      PROVE  ProgressOK'
  BY <1>5 DEF OpenBinary, CopyBinary, EnableUnit, StartTunnel, Goto, Aside, Apart, ProgressOK, Labels
<1>6. ASSUME NEW i \in Enr, StartAgent(i) \/ StartCaddy(i) \/ WaitForTunnel(i)
      PROVE  ProgressOK'
  <2>1. Continue(i) /\ UNCHANGED <<source, got, refused, warned>>
    BY <1>6 DEF StartAgent, StartCaddy, WaitForTunnel, Aside, Apart
  <2> QED
    BY <2>1, ContinueTyped DEF ProgressOK
<1>7. ASSUME NEW S \in SUBSET Enr, Lose(S), UNCHANGED <<source, svc, got, refused, outcome, warned>>
      PROVE  ProgressOK'
  BY <1>7, LosePlaces DEF ProgressOK
<1>8. ASSUME NEW i \in Enr, Panics(i) \/ Interrupt(i)
      PROVE  ProgressOK'
  BY <1>7, <1>8 DEF Panics, Interrupt, InAgent, Aside, Apart
<1>9. CASE TunnelExits \/ AgentFails \/ Reboot \/ \E s \in Services : Stop(s)
  <2>1. CASE TunnelExits \/ AgentFails \/ Reboot
    BY <1>7, <2>1 DEF TunnelExits, AgentFails, Reboot, InAgent
  <2>2. ASSUME NEW s \in Services, Stop(s)
        PROVE  ProgressOK'
    <3>1. CASE s = "caddy"
      BY <2>2, <3>1 DEF Stop, ProgressOK
    <3>2. CASE s # "caddy"
      BY <1>7, <2>2, <3>2 DEF Stop, InAgent
    <3> QED
      BY <3>1, <3>2
  <2> QED
    BY <1>9, <2>1, <2>2
<1>10. CASE ResetBegin \/ RemoveUnits \/ RemoveFiles \/ InterruptReset \/ TunnelUp \/ AgentUp \/ UNCHANGED vars
  BY <1>10 DEF ResetBegin, RemoveUnits, RemoveFiles, InterruptReset, TunnelUp, AgentUp, vars, progress, ProgressOK
<1> QED
  BY <1>1, <1>2, <1>3, <1>4, <1>5, <1>6, <1>8, <1>9, <1>10, StepCases

\* identity.json and machine.json hold a number, whatever is written over whatever.
LEMMA Numbers ==
  ASSUME NEW i \in Enr
  PROVE  i \in -N..N /\ -i \in -N..N /\ 0 \in -N..N
BY EnrollAssumption DEF Enr

\* Every step keeps the types of what is on disk.
LEMMA DiskTyped == ProgressOK /\ DiskOK /\ [Next]_vars => DiskOK'
<1> SUFFICES ASSUME ProgressOK, DiskOK, [Next]_vars
             PROVE  DiskOK'
  OBVIOUS
<1>1. ASSUME NEW i \in Enr, NEW s \in Sources, Begin(i, s)
      PROVE  DiskOK'
  BY <1>1 DEF Begin, DiskOK
<1>2. ASSUME NEW i \in Enr, OpenIdentity(i) \/ WriteIdentity(i) \/ IdentityFails(i)
      PROVE  DiskOK'
  <2>1. identity' \in -N..N
    <3>1. CASE OpenIdentity(i)
      BY <3>1, Numbers DEF OpenIdentity
    <3>2. CASE WriteIdentity(i)
      <4>1. identity' \in {i, 0, identity, -i}
        BY <3>2 DEF WriteIdentity
      <4> QED
        BY <4>1, Numbers DEF DiskOK
    <3>3. CASE IdentityFails(i)
      BY <3>3 DEF IdentityFails, disk, DiskOK
    <3> QED
      BY <1>2, <3>1, <3>2, <3>3
  <2> QED
    BY <1>2, <2>1 DEF OpenIdentity, WriteIdentity, IdentityFails, disk, DiskOK
<1>3. ASSUME NEW i \in Enr, WriteRecord(i) \/ RecordFails(i)
      PROVE  DiskOK'
  <2>1. record' \in {i, record, -i}
    BY <1>3 DEF WriteRecord, RecordFails
  <2>2. record' \in -N..N
    BY <2>1, Numbers DEF DiskOK
  <2> QED
    BY <1>3, <2>2 DEF WriteRecord, RecordFails, DiskOK
<1>4. ASSUME NEW i \in Enr, StepFails(i) \/ OpenBinary(i) \/ CopyBinary(i) \/ EnableUnit(i)
      PROVE  DiskOK'
  <2>1. Service(i) \in Services
    BY DEF Service, ProgressOK
  <2>2. CASE StepFails(i)
    <3>1. /\ bins' \in {bins, [bins EXCEPT ![Service(i)] = "absent"]}
          /\ units' \in {units, [units EXCEPT ![Service(i)] = "disabled"]}
          /\ UNCHANGED <<home, identity, record>>
      BY <2>2 DEF StepFails
    <3> QED
      BY <2>1, <3>1 DEF DiskOK
  <2>3. CASE OpenBinary(i) \/ CopyBinary(i) \/ EnableUnit(i)
    BY <2>1, <2>3 DEF OpenBinary, CopyBinary, EnableUnit, DiskOK
  <2> QED
    BY <1>4, <2>2, <2>3
<1>5. ASSUME NEW s \in Services, Stop(s)
      PROVE  DiskOK'
  BY <1>5 DEF Stop, DiskOK
<1>6. CASE RemoveUnits \/ RemoveFiles
  <2>1. 0 \in -N..N
    BY EnrollAssumption
  <2> QED
    BY <1>6, <2>1 DEF RemoveUnits, RemoveFiles, DiskOK
<1>7. ASSUME UNCHANGED disk
      PROVE  DiskOK'
  BY <1>7 DEF disk, DiskOK
<1>8. ASSUME NEW i \in Enr,
             \/ \E event \in Events : IdentityEvent(i, event)
             \/ \E next \in {"identity", "shown"} : Enrolled(i, next)
             \/ Refusal(i) \/ NoIdentity(i) \/ Panics(i) \/ LeaveWizard(i)
             \/ StartTunnel(i) \/ StartAgent(i) \/ StartCaddy(i) \/ WaitForTunnel(i) \/ Interrupt(i)
      PROVE  DiskOK'
  BY <1>7, <1>8 DEF IdentityEvent, Enrolled, Refusal, NoIdentity, Panics, LeaveWizard, StartTunnel,
     StartAgent, StartCaddy, WaitForTunnel, Interrupt, disk
<1>9. CASE \/ ResetBegin \/ InterruptReset
           \/ TunnelUp \/ TunnelExits \/ AgentUp \/ AgentFails \/ Reboot \/ UNCHANGED vars
  BY <1>7, <1>9 DEF ResetBegin, InterruptReset, TunnelUp, TunnelExits, AgentUp, AgentFails, Reboot, vars, disk
<1> QED
  BY <1>1, <1>2, <1>3, <1>4, <1>5, <1>6, <1>8, <1>9, StepCases

\* Every step keeps the types of what runs; the tunnel's number comes from identity.json.
LEMMA RunningTyped == DiskOK /\ RunningOK /\ [Next]_vars => RunningOK'
<1> SUFFICES ASSUME DiskOK, RunningOK, [Next]_vars
             PROVE  RunningOK'
  OBVIOUS
<1>1. ASSUME NEW i \in Enr, StartTunnel(i) \/ StartAgent(i) \/ StartCaddy(i) \/ Panics(i)
      PROVE  RunningOK'
  <2>1. tunnel' \in {tunnel, Starting}
    BY <1>1 DEF StartTunnel, StartAgent, StartCaddy, Panics
  <2>2. tunnel' \in -1..N
    BY <2>1, EnrollAssumption DEF RunningOK, Starting
  <2>3. agent' \in {agent, "starting"} /\ reset' = reset
    BY <1>1 DEF StartTunnel, StartAgent, StartCaddy, Panics, Aside, Apart
  <2>4. caddy' \in BOOLEAN
    BY <1>1 DEF StartTunnel, StartAgent, StartCaddy, Panics, RunningOK
  <2> QED
    BY <2>2, <2>3, <2>4 DEF RunningOK
<1>2. ASSUME NEW s \in Services, Stop(s)
      PROVE  RunningOK'
  <2>1. tunnel' \in -1..N
    BY <1>2, EnrollAssumption DEF Stop, RunningOK, Down
  <2>2. agent' \in {agent, "down"}
    BY <1>2 DEF Stop
  <2>3. caddy' \in BOOLEAN
    BY <1>2 DEF Stop
  <2>4. reset' \in {"agent", "tunnel", "units"}
    BY <1>2 DEF Stop, AfterStop, Services
  <2> QED
    BY <2>1, <2>2, <2>3, <2>4 DEF RunningOK, Services
<1>3. CASE ResetBegin \/ RemoveUnits \/ RemoveFiles \/ InterruptReset
  <2>1. reset' \in {"caddy", "files", "done", "idle"} /\ UNCHANGED running
    BY <1>3 DEF ResetBegin, RemoveUnits, RemoveFiles, InterruptReset
  <2> QED
    BY <2>1 DEF RunningOK, running, Services
<1>4. CASE TunnelUp
  <2>1. tunnel' \in -1..N
    BY <1>4 DEF TunnelUp, DiskOK
  <2> QED
    BY <1>4, <2>1 DEF TunnelUp, RunningOK
<1>5. CASE TunnelExits \/ AgentUp \/ AgentFails
  <2>1. CASE TunnelExits
    <3>1. tunnel' \in -1..N
      BY <2>1, EnrollAssumption DEF TunnelExits, Starting
    <3> QED
      BY <2>1, <3>1 DEF TunnelExits, RunningOK
  <2>2. CASE AgentUp \/ AgentFails
    BY <2>2 DEF AgentUp, AgentFails, RunningOK
  <2> QED
    BY <1>5, <2>1, <2>2
<1>6. CASE Reboot
  <2>1. tunnel' \in -1..N
    <3>1. tunnel' \in {-1, 0}
      BY <1>6 DEF Reboot, Down, Starting
    <3> QED
      BY <3>1, EnrollAssumption
  <2>2. agent' \in {"starting", "down"} /\ reset' \in {"idle", reset}
    BY <1>6 DEF Reboot
  <2>3. caddy' \in BOOLEAN
    BY <1>6 DEF Reboot
  <2> QED
    BY <2>1, <2>2, <2>3 DEF RunningOK
<1>7. ASSUME UNCHANGED <<running, reset>>
      PROVE  RunningOK'
  BY <1>7 DEF running, RunningOK
<1>8. ASSUME NEW i \in Enr,
             \/ \E s \in Sources : Begin(i, s)
             \/ \E event \in Events : IdentityEvent(i, event)
             \/ \E next \in {"identity", "shown"} : Enrolled(i, next)
             \/ Refusal(i) \/ NoIdentity(i) \/ LeaveWizard(i)
             \/ OpenIdentity(i) \/ WriteIdentity(i) \/ IdentityFails(i) \/ WriteRecord(i) \/ RecordFails(i)
      PROVE  RunningOK'
  BY <1>7, <1>8 DEF Begin, IdentityEvent, Enrolled, Refusal, NoIdentity, LeaveWizard, OpenIdentity,
     WriteIdentity, IdentityFails, WriteRecord, RecordFails, Aside, AsideFailing, Apart, running
<1>9. ASSUME NEW i \in Enr,
             \/ StepFails(i) \/ OpenBinary(i) \/ CopyBinary(i) \/ EnableUnit(i)
             \/ WaitForTunnel(i) \/ Interrupt(i)
      PROVE  RunningOK'
  BY <1>7, <1>9 DEF StepFails, OpenBinary, CopyBinary, EnableUnit, WaitForTunnel, Interrupt, Aside,
     AsideFailing, Apart, running
<1>10. CASE UNCHANGED vars
  BY <1>7, <1>10 DEF vars
<1> QED
  BY <1>1, <1>2, <1>3, <1>4, <1>5, <1>6, <1>8, <1>9, <1>10, StepCases

\* Every step keeps the bounds of the counters and the types of the history.
LEMMA CountersTyped == CountersOK /\ [Next]_vars => CountersOK'
<1> SUFFICES ASSUME CountersOK, [Next]_vars
             PROVE  CountersOK'
  OBVIOUS
<1>1. ASSUME UNCHANGED history, mishaps' = mishaps \/ (mishaps < MaxMishaps /\ mishaps' = mishaps + 1)
      PROVE  CountersOK'
  BY <1>1, EnrollAssumption DEF history, CountersOK
<1>2. ASSUME NEW i \in Enr, NEW s \in Sources, Begin(i, s)
      PROVE  CountersOK'
  <2>1. standing' \in 0..N /\ mishaps' = mishaps
    BY <1>2, EnrollAssumption DEF Begin, Enr
  <2>2. ranBefore' \in BOOLEAN /\ apart' \in BOOLEAN
    BY <1>2 DEF Begin
  <2> QED
    BY <2>1, <2>2 DEF CountersOK
<1>3. CASE ResetBegin
  <2>1. standing' \in 0..N /\ mishaps' \in 0..MaxMishaps
    BY <1>3, EnrollAssumption DEF ResetBegin, CountersOK
  <2>2. ranBefore' \in BOOLEAN /\ apart' \in BOOLEAN
    BY <1>3 DEF ResetBegin, CountersOK
  <2> QED
    BY <2>1, <2>2 DEF CountersOK
<1>4. ASSUME NEW i \in Enr,
             \/ \E event \in Events : IdentityEvent(i, event)
             \/ \E next \in {"identity", "shown"} : Enrolled(i, next)
             \/ Refusal(i) \/ NoIdentity(i) \/ Panics(i) \/ LeaveWizard(i)
             \/ OpenIdentity(i) \/ WriteIdentity(i) \/ IdentityFails(i) \/ WriteRecord(i) \/ RecordFails(i)
      PROVE  CountersOK'
  BY <1>1, <1>4 DEF IdentityEvent, Enrolled, Refusal, NoIdentity, Panics, LeaveWizard, OpenIdentity,
     WriteIdentity, IdentityFails, WriteRecord, RecordFails, Aside, AsideFailing, Apart
<1>5. ASSUME NEW i \in Enr,
             \/ StepFails(i) \/ OpenBinary(i) \/ CopyBinary(i) \/ EnableUnit(i)
             \/ StartTunnel(i) \/ StartAgent(i) \/ StartCaddy(i) \/ WaitForTunnel(i) \/ Interrupt(i)
      PROVE  CountersOK'
  BY <1>1, <1>5 DEF StepFails, OpenBinary, CopyBinary, EnableUnit, StartTunnel, StartAgent, StartCaddy,
     WaitForTunnel, Interrupt, Aside, AsideFailing, Apart
<1>6. CASE \/ (\E s \in Services : Stop(s)) \/ RemoveUnits \/ RemoveFiles \/ InterruptReset
           \/ TunnelUp \/ TunnelExits \/ AgentUp \/ AgentFails \/ Reboot \/ UNCHANGED vars
  BY <1>1, <1>6 DEF Stop, RemoveUnits, RemoveFiles, InterruptReset, TunnelUp, TunnelExits, AgentUp, AgentFails,
     Reboot, vars
<1> QED
  BY <1>2, <1>3, <1>4, <1>5, <1>6, StepCases

\* The initial state has the types.
LEMMA TypeInit == Init => TypeOK
<1> SUFFICES ASSUME Init PROVE TypeOK
  OBVIOUS
<1>1. ProgressOK
  BY DEF Init, ProgressOK, Sources, Labels, Services
<1>2. DiskOK
  BY EnrollAssumption DEF Init, DiskOK
<1>3. RunningOK
  <2>1. tunnel \in -1..N
    BY EnrollAssumption DEF Init, Down
  <2>2. caddy \in BOOLEAN
    BY DEF Init
  <2> QED
    BY <2>1, <2>2 DEF Init, RunningOK
<1>4. CountersOK
  <2>1. standing \in 0..N /\ mishaps \in 0..MaxMishaps
    BY EnrollAssumption DEF Init
  <2>2. ranBefore \in BOOLEAN /\ apart \in BOOLEAN
    BY DEF Init
  <2> QED
    BY <2>1, <2>2 DEF CountersOK
<1> QED
  BY <1>1, <1>2, <1>3, <1>4 DEF TypeOK

\* The parts together.
LEMMA TypeStep == TypeOK /\ [Next]_vars => TypeOK'
BY ProgressTyped, DiskTyped, RunningTyped, CountersTyped DEF TypeOK

\* Every variable has its type in every reachable state.
THEOREM TypeCorrect == Spec => []TypeOK
<1>1. Init => TypeOK
  BY TypeInit
<1>2. TypeOK /\ [Next]_vars => TypeOK'
  BY TypeStep
<1> QED
  BY <1>1, <1>2, PTL DEF Spec

-----------------------------------------------------------------------------
\* Only accepted enrollments leave something behind.

Installs(i) ==
  pc[i] \in {"shown", "identity", "write", "record", "fetch", "copy", "unit", "start", "wait"}


\* An enrollment that installs, or whose traces are there, has been accepted, and is past the
\* stream, where a refusal could still come; a refused one has ended.
AcceptedInv ==
  /\ \A i \in Enr : Installs(i) \/ Traced(i) => Accepted(i) /\ pc[i] \notin {"none", "stream"}
  /\ \A i \in refused : Ended(i)

\* Nothing is there in the initial state.
LEMMA AcceptedInit == Init => AcceptedInv
BY EnrollAssumption DEF Init, AcceptedInv, Installs, Traced, Enr, Down

\* A step keeps the invariant if it leaves the verdicts alone, takes no enrollment back to the
\* stream or out of its end, and lets none install or leave a trace that did neither before.
LEMMA VerdictsKept ==
  ASSUME AcceptedInv, UNCHANGED <<got, refused>>,
         \A j \in Enr : /\ Installs(j)' \/ Traced(j)' => Installs(j) \/ Traced(j)
                        /\ pc'[j] \in {"none", "stream"} => pc[j] \in {"none", "stream"}
                        /\ Ended(j) => Ended(j)',
         refused \subseteq Enr
  PROVE  AcceptedInv'
BY DEF AcceptedInv, Accepted

\* Enrollments that end, or are lost, leave nothing new.
LEMMA LoseKeeps ==
  ASSUME ProgressOK, AcceptedInv, NEW S \in SUBSET Enr, Lose(S),
         UNCHANGED <<got, refused, identity, record>>, tunnel' \in {tunnel, Down, Starting}
  PROVE  AcceptedInv'
<1>1. ASSUME NEW j \in Enr
      PROVE  pc'[j] = pc[j] \/ (Active(j) /\ pc'[j] = "lost")
  BY DEF Lose
<1>2. ASSUME NEW j \in Enr
      PROVE  Traced(j)' => Traced(j)
  BY EnrollAssumption DEF Traced, Enr, Down, Starting
<1> QED
  BY <1>1, <1>2, VerdictsKept DEF ProgressOK, Installs, Ended, Active

\* So do the steps of an enrollment that only move it on.
LEMMA MoveKeeps ==
  ASSUME ProgressOK, AcceptedInv, NEW i \in Enr, NEW l \in Labels \ {"none", "stream"}, Goto(i, l),
         Installs(i) \/ l \in {"ended", "lost"}, ~Ended(i),
         UNCHANGED <<got, refused, identity, record>>, tunnel' \in {tunnel, Down, Starting}
  PROVE  AcceptedInv'
<1>1. ASSUME NEW j \in Enr
      PROVE  pc'[j] = IF j = i THEN l ELSE pc[j]
  BY DEF Goto, ProgressOK
<1>2. ASSUME NEW j \in Enr
      PROVE  Traced(j)' => Traced(j)
  BY EnrollAssumption DEF Traced, Enr, Down, Starting
<1> QED
  BY <1>1, <1>2, VerdictsKept DEF ProgressOK, Installs, Ended, Labels

\* An enrollment that installs may leave its number, and does not begin again.
LEMMA TraceKeeps ==
  ASSUME ProgressOK, AcceptedInv, NEW i \in Enr, Installs(i), NEW l \in {"write", "record", "fetch"}, Goto(i, l),
         UNCHANGED <<got, refused, tunnel>>,
         identity' \in {identity, i, -i, 0}, record' \in {record, i, -i, 0}
  PROVE  AcceptedInv'
<1>1. ASSUME NEW j \in Enr
      PROVE  pc'[j] = IF j = i THEN l ELSE pc[j]
  BY DEF Goto, ProgressOK
<1>2. ASSUME NEW j \in Enr, j # i
      PROVE  Traced(j)' => Traced(j)
  BY <1>2, EnrollAssumption DEF Traced, Enr
<1> QED
  BY <1>1, <1>2, VerdictsKept DEF ProgressOK, Installs, Ended

\* The stream: only an accepted enrollment passes it.
LEMMA StreamKeeps ==
  ASSUME ProgressOK, AcceptedInv, NEW i \in Enr,
         \/ \E event \in Events : IdentityEvent(i, event)
         \/ \E next \in {"identity", "shown"} : Enrolled(i, next)
         \/ Refusal(i)
  PROVE  AcceptedInv'
<1>1. pc[i] = "stream" /\ i \notin refused /\ ~Traced(i) /\ ~Installs(i)
  BY DEF IdentityEvent, Enrolled, Refusal, At, AcceptedInv, Ended
<1>2. \A j \in Enr : Traced(j)' <=> Traced(j)
  BY DEF IdentityEvent, Enrolled, Refusal, Traced, disk, running
<1>3. CASE \E event \in Events : IdentityEvent(i, event)
  BY <1>1, <1>2, <1>3 DEF IdentityEvent, AcceptedInv, Accepted, Installs, Ended, ProgressOK
<1>4. CASE \E next \in {"identity", "shown"} : Enrolled(i, next)
  <2>1. got[i] = "named" /\ UNCHANGED <<got, refused>>
    BY <1>4 DEF Enrolled
  <2>2. PICK next \in {"identity", "shown"} : Goto(i, next)
    BY <1>4 DEF Enrolled
  <2>3. \A j \in Enr : pc'[j] = IF j = i THEN next ELSE pc[j]
    BY <2>2 DEF Goto, ProgressOK
  <2> QED
    BY <1>1, <1>2, <2>1, <2>3 DEF AcceptedInv, Accepted, Installs, Ended, ProgressOK
<1>5. CASE Refusal(i)
  <2>1. \A j \in Enr : pc'[j] = IF j = i THEN "ended" ELSE pc[j]
    BY <1>5 DEF Refusal, Return, Goto, ProgressOK
  <2>2. refused' = refused \cup {i} /\ got' = got
    BY <1>5 DEF Refusal
  <2> QED
    BY <1>1, <1>2, <2>1, <2>2 DEF AcceptedInv, Accepted, Installs, Ended, ProgressOK
<1> QED
  BY <1>3, <1>4, <1>5

\* Every step keeps the invariant: the stream decides, the installation writes, the rest takes away.
LEMMA AcceptedStep == ProgressOK /\ AcceptedInv /\ [Next]_vars => AcceptedInv'
<1> SUFFICES ASSUME ProgressOK, AcceptedInv, [Next]_vars
             PROVE  AcceptedInv'
  OBVIOUS
<1>1. ASSUME NEW i \in Enr, NEW s \in Sources, Begin(i, s)
      PROVE  AcceptedInv'
  <2>1. \A j \in Enr : pc'[j] = IF j = i THEN "stream" ELSE pc[j]
    BY <1>1 DEF Begin, Goto, ProgressOK
  <2>2. pc[i] = "none"
    BY <1>1 DEF Begin, At
  <2>3. \A j \in Enr : Traced(j)' <=> Traced(j)
    BY <1>1 DEF Begin, Traced, running
  <2>4. UNCHANGED <<got, refused>>
    BY <1>1 DEF Begin
  <2> QED
    BY <2>1, <2>2, <2>3, <2>4, VerdictsKept DEF ProgressOK, Installs, Ended
<1>2. ASSUME NEW i \in Enr,
             \/ \E event \in Events : IdentityEvent(i, event)
             \/ \E next \in {"identity", "shown"} : Enrolled(i, next)
             \/ Refusal(i)
      PROVE  AcceptedInv'
  BY <1>2, StreamKeeps
<1>3. ASSUME NEW i \in Enr, NoIdentity(i) \/ IdentityFails(i)
      PROVE  AcceptedInv'
  <2>1. Goto(i, "ended") /\ ~Ended(i) /\ UNCHANGED <<got, refused, disk, running>>
    BY <1>3 DEF NoIdentity, IdentityFails, Return, At, Ended
  <2> QED
    BY <2>1, MoveKeeps DEF disk, running, Labels
<1>4. ASSUME NEW i \in Enr, Panics(i) \/ Interrupt(i)
      PROVE  AcceptedInv'
  <2>1. PICK S \in SUBSET Enr : Lose(S)
    BY <1>4 DEF Panics, Interrupt, InAgent
  <2>2. UNCHANGED <<got, refused, identity, record, tunnel>>
    BY <1>4 DEF Panics, Interrupt, disk, running
  <2> QED
    BY <2>1, <2>2, LoseKeeps
<1>5. ASSUME NEW i \in Enr, OpenIdentity(i) \/ WriteIdentity(i) \/ WriteRecord(i) \/ RecordFails(i)
      PROVE  AcceptedInv'
  <2>1. Installs(i)
    BY <1>5 DEF OpenIdentity, WriteIdentity, WriteRecord, RecordFails, At, Installs
  <2>2. PICK l \in {"write", "record", "fetch"} : Goto(i, l)
    BY <1>5 DEF OpenIdentity, WriteIdentity, WriteRecord, RecordFails
  <2>3. UNCHANGED <<got, refused, tunnel>>
    BY <1>5 DEF OpenIdentity, WriteIdentity, WriteRecord, RecordFails, running
  <2>4. identity' \in {identity, i, -i, 0} /\ record' \in {record, i, -i, 0}
    BY <1>5 DEF OpenIdentity, WriteIdentity, WriteRecord, RecordFails
  <2> QED
    BY <2>1, <2>2, <2>3, <2>4, TraceKeeps
<1>6. ASSUME NEW i \in Enr,
             \/ LeaveWizard(i) \/ StepFails(i) \/ OpenBinary(i) \/ CopyBinary(i) \/ EnableUnit(i)
             \/ StartTunnel(i) \/ StartAgent(i) \/ StartCaddy(i) \/ WaitForTunnel(i)
      PROVE  AcceptedInv'
  <2>1. Installs(i) /\ ~Ended(i)
    BY <1>6 DEF LeaveWizard, StepFails, OpenBinary, CopyBinary, EnableUnit, AtUnit, StartTunnel,
       StartAgent, StartCaddy, WaitForTunnel, At, Installs, Ended
  <2>2. PICK l \in {"identity", "copy", "unit", "start", "wait", "fetch", "ended"} : Goto(i, l)
    BY <1>6 DEF LeaveWizard, StepFails, OpenBinary, CopyBinary, EnableUnit, StartTunnel,
       StartAgent, StartCaddy, WaitForTunnel, Continue, Return
  <2>3. UNCHANGED <<got, refused, identity, record>>
    BY <1>6 DEF LeaveWizard, StepFails, OpenBinary, CopyBinary, EnableUnit, StartTunnel,
       StartAgent, StartCaddy, WaitForTunnel, disk
  <2>4. tunnel' \in {tunnel, Down, Starting}
    BY <1>6 DEF LeaveWizard, StepFails, OpenBinary, CopyBinary, EnableUnit, StartTunnel,
       StartAgent, StartCaddy, WaitForTunnel, running
  <2> QED
    BY <2>1, <2>2, <2>3, <2>4, MoveKeeps DEF Labels
<1>7. ASSUME NEW s \in Services, Stop(s)
      PROVE  AcceptedInv'
  <2>1. tunnel' \in {tunnel, Down, Starting} /\ UNCHANGED <<got, refused, identity, record>>
    BY <1>7 DEF Stop
  <2>2. CASE s = "caddy"
    <3>1. UNCHANGED pc
      BY <1>7, <2>2 DEF Stop
    <3>2. \A j \in Enr : Traced(j)' => Traced(j)
      BY <2>1, EnrollAssumption DEF Traced, Enr, Down, Starting
    <3> QED
      BY <2>1, <3>1, <3>2, VerdictsKept DEF ProgressOK, Installs, Ended
  <2>3. CASE s # "caddy"
    <3>1. Lose(InAgent)
      BY <1>7, <2>3 DEF Stop
    <3> QED
      BY <2>1, <3>1, LoseKeeps DEF InAgent
  <2> QED
    BY <2>2, <2>3
<1>8. CASE TunnelExits \/ AgentFails \/ Reboot
  <2>1. PICK S \in SUBSET Enr : Lose(S)
    BY <1>8 DEF TunnelExits, AgentFails, Reboot, InAgent
  <2>2. UNCHANGED <<got, refused, identity, record>>
    BY <1>8 DEF TunnelExits, AgentFails, Reboot, disk
  <2>3. tunnel' \in {tunnel, Down, Starting}
    BY <1>8 DEF TunnelExits, AgentFails, Reboot
  <2> QED
    BY <2>1, <2>2, <2>3, LoseKeeps
<1>9. CASE RemoveFiles \/ TunnelUp
  <2>1. \A j \in Enr : Traced(j)' => Traced(j)
    BY <1>9, EnrollAssumption DEF RemoveFiles, TunnelUp, disk, running, Traced, Enr
  <2>2. UNCHANGED <<pc, got, refused>>
    BY <1>9 DEF RemoveFiles, TunnelUp, progress
  <2> QED
    BY <2>1, <2>2, VerdictsKept DEF ProgressOK, Installs, Ended
<1>10. CASE ResetBegin \/ RemoveUnits \/ InterruptReset \/ AgentUp \/ UNCHANGED vars
  <2>1. UNCHANGED <<pc, got, refused, identity, record, tunnel>>
    BY <1>10 DEF ResetBegin, RemoveUnits, InterruptReset, AgentUp, vars, progress, disk, running
  <2> QED
    BY <2>1, VerdictsKept DEF ProgressOK, Installs, Ended, Traced
<1> QED
  BY <1>1, <1>2, <1>3, <1>4, <1>5, <1>6, <1>7, <1>8, <1>9, <1>10, StepCases

\* Whatever enrollments, resets and restarts do beside it, nothing of an enrollment that the
\* server refused, or to which it gave no name, is on the disk or runs.
THEOREM RefusedLeavesNothing == Spec => []OnlyAccepted
<1>1. Init => ProgressOK /\ AcceptedInv
  BY TypeInit, AcceptedInit DEF TypeOK
<1>2. ProgressOK /\ AcceptedInv /\ [Next]_vars => (ProgressOK /\ AcceptedInv)'
  BY ProgressTyped, AcceptedStep
<1>3. AcceptedInv => OnlyAccepted
  BY DEF AcceptedInv, OnlyAccepted
<1> QED
  BY <1>1, <1>2, <1>3, PTL DEF Spec

-----------------------------------------------------------------------------
\* A reset leaves nothing.

AfterAgent == {"tunnel", "units", "files", "done"}

\* What a reset has reached already, if no enrollment runs outside the agent: with the agent its
\* enrollments are gone, and what is stopped or removed after that stays so.
Emptied ==
  /\ Resetting \/ reset = "done" => \A i \in Enr : Active(i) => source[i] = "agent"
  /\ reset \in AfterAgent => agent = "down" /\ \A i \in Enr : ~Active(i)
  /\ reset \in {"units", "files", "done"} => tunnel = Down
  /\ reset \in {"files", "done"} => \A s \in Services : units[s] = "absent"
  /\ reset = "done" => home = "absent" /\ identity = 0 /\ record = 0 /\ \A s \in Services : bins[s] = "absent"
  /\ reset \in AfterAgent \cup {"agent"} /\ caddy => \E i \in Enr : source[i] = "agent" /\ Ended(i)

ResetInv == apart => Emptied

\* A step of an enrollment i that has begun and not ended.
StepOf(i) ==
  \/ \E event \in Events : IdentityEvent(i, event)
  \/ \E next \in {"identity", "shown"} : Enrolled(i, next)
  \/ Refusal(i) \/ NoIdentity(i) \/ Panics(i) \/ LeaveWizard(i)
  \/ OpenIdentity(i) \/ WriteIdentity(i) \/ IdentityFails(i) \/ WriteRecord(i) \/ RecordFails(i)
  \/ StepFails(i) \/ OpenBinary(i) \/ CopyBinary(i) \/ EnableUnit(i)
  \/ StartTunnel(i) \/ StartAgent(i) \/ StartCaddy(i) \/ WaitForTunnel(i)
  \/ Interrupt(i)

\* Where such a step leads: i goes on or ends, or some enrollments are lost.
LEMMA StepMoves ==
  ASSUME ProgressOK, NEW i \in Enr, StepOf(i)
  PROVE  /\ Active(i)
         /\ \/ \E l \in Labels \ {"none"} : pc' = [pc EXCEPT ![i] = l]
            \/ pc' = pc
            \/ \E S \in SUBSET Enr : Lose(S)
<1>1. ASSUME \/ \E event \in Events : IdentityEvent(i, event)
             \/ \E next \in {"identity", "shown"} : Enrolled(i, next)
             \/ Refusal(i) \/ NoIdentity(i) \/ LeaveWizard(i)
             \/ OpenIdentity(i) \/ WriteIdentity(i) \/ IdentityFails(i) \/ WriteRecord(i) \/ RecordFails(i)
      PROVE  Active(i) /\ (pc' = pc \/ \E l \in Labels \ {"none"} : pc' = [pc EXCEPT ![i] = l])
  BY <1>1 DEF IdentityEvent, Enrolled, Refusal, NoIdentity, LeaveWizard, OpenIdentity, WriteIdentity,
     IdentityFails, WriteRecord, RecordFails, Goto, Return, At, Active, Ended, Labels
<1>2. ASSUME \/ StepFails(i) \/ OpenBinary(i) \/ CopyBinary(i) \/ EnableUnit(i)
             \/ StartTunnel(i) \/ StartAgent(i) \/ StartCaddy(i) \/ WaitForTunnel(i)
      PROVE  Active(i) /\ \E l \in Labels \ {"none"} : pc' = [pc EXCEPT ![i] = l]
  BY <1>2 DEF StepFails, OpenBinary, CopyBinary, EnableUnit, AtUnit, StartTunnel, StartAgent, StartCaddy,
     WaitForTunnel, Continue, Goto, Return, At, Active, Ended, Labels
<1>3. ASSUME Panics(i) \/ Interrupt(i)
      PROVE  Active(i) /\ \E S \in SUBSET Enr : Lose(S)
  BY <1>3 DEF Panics, Interrupt, InAgent, At, Active, Ended
<1> QED
  BY <1>1, <1>2, <1>3 DEF StepOf

\* It begins no enrollment, leaves the reset alone, and starts Caddy only when it ends.
LEMMA StepAside ==
  ASSUME ProgressOK, NEW i \in Enr, StepOf(i)
  PROVE  /\ Active(i)
         /\ UNCHANGED <<source, reset, standing, ranBefore, apart>>
         /\ \A j \in Enr : (Active(j)' => Active(j)) /\ (Ended(j) => Ended(j)')
         /\ caddy' => caddy \/ Ended(i)'
<1>1. Active(i)
  BY StepMoves
<1>2. \A j \in Enr : (Active(j)' => Active(j)) /\ (Ended(j) => Ended(j)')
  <2>1. CASE \E l \in Labels \ {"none"} : pc' = [pc EXCEPT ![i] = l]
    <3>1. PICK l \in Labels \ {"none"} : pc' = [pc EXCEPT ![i] = l]
      BY <2>1
    <3>2. \A j \in Enr : pc'[j] = IF j = i THEN l ELSE pc[j]
      BY <3>1 DEF ProgressOK
    <3> QED
      BY <1>1, <3>2 DEF Active, Ended
  <2>2. CASE pc' = pc
    BY <2>2 DEF Active, Ended
  <2>3. CASE \E S \in SUBSET Enr : Lose(S)
    <3>1. \A j \in Enr : pc'[j] = pc[j] \/ (Active(j) /\ pc'[j] = "lost")
      BY <2>3 DEF Lose
    <3> QED
      BY <3>1 DEF Active, Ended
  <2> QED
    BY <2>1, <2>2, <2>3, StepMoves
<1>3. UNCHANGED <<source, reset, standing, ranBefore, apart>>
  BY DEF StepOf, IdentityEvent, Enrolled, Refusal, NoIdentity, Panics, LeaveWizard, OpenIdentity, WriteIdentity,
     IdentityFails, WriteRecord, RecordFails, StepFails, OpenBinary, CopyBinary, EnableUnit, StartTunnel,
     StartAgent, StartCaddy, WaitForTunnel, Interrupt, Aside, AsideFailing, Apart, history
<1>4. caddy' => caddy \/ Ended(i)'
  <2>1. CASE StartCaddy(i)
    <3>1. Goto(i, "ended")
      BY <2>1 DEF StartCaddy, Continue, Return, Service
    <3>2. pc'[i] = "ended"
      BY <3>1 DEF Goto, ProgressOK
    <3> QED
      BY <3>2 DEF Ended
  <2>2. CASE ~StartCaddy(i)
    <3>1. caddy' = caddy
      BY <2>2 DEF StepOf, IdentityEvent, Enrolled, Refusal, NoIdentity, Panics, LeaveWizard, OpenIdentity, WriteIdentity,
         IdentityFails, WriteRecord, RecordFails, StepFails, OpenBinary, CopyBinary, EnableUnit, StartTunnel,
         StartAgent, WaitForTunnel, Interrupt, running
    <3> QED
      BY <3>1
  <2> QED
    BY <2>1, <2>2
<1> QED
  BY <1>1, <1>2, <1>3, <1>4

\* While an enrollment runs, the reset has not stopped the agent yet: the step keeps all it has reached.
LEMMA EnrollmentKeepsReset ==
  ASSUME ProgressOK, ResetInv, NEW i \in Enr, StepOf(i)
  PROVE  ResetInv'
<1> SUFFICES ASSUME apart
             PROVE  Emptied'
  BY StepAside DEF ResetInv
<1>1. Emptied /\ Active(i)
  BY StepAside DEF ResetInv
<1>2. reset \notin AfterAgent
  BY <1>1 DEF Emptied
<1>3. reset' = reset /\ source' = source
  BY StepAside
<1>4. \A j \in Enr : (Active(j)' => Active(j)) /\ (Ended(j) => Ended(j)')
  BY StepAside
<1>5. Resetting' \/ reset' = "done" => \A j \in Enr : Active(j)' => source'[j] = "agent"
  BY <1>1, <1>3, <1>4 DEF Emptied, Resetting
<1>6. reset = "agent" /\ caddy' => \E j \in Enr : source[j] = "agent" /\ Ended(j)'
  <2>1. CASE caddy
    BY <1>1, <1>4, <2>1 DEF Emptied
  <2>2. CASE ~caddy
    <3>1. reset = "agent" => source[i] = "agent"
      BY <1>1 DEF Emptied, Resetting, Services
    <3>2. caddy' => Ended(i)'
      BY <2>2, StepAside
    <3> QED
      BY <3>1, <3>2
  <2> QED
    BY <2>1, <2>2
<1> QED
  BY <1>2, <1>3, <1>5, <1>6 DEF Emptied, AfterAgent

\* Enrollments that are lost are not active, and ended; the others stay where they are.
LEMMA LoseFacts ==
  ASSUME ProgressOK, NEW S \in SUBSET Enr, Lose(S)
  PROVE  /\ \A j \in Enr : (Active(j)' => Active(j)) /\ (Ended(j) => Ended(j)')
         /\ \A j \in S : ~Active(j)'
<1>1. \A j \in Enr : pc'[j] = IF j \in S /\ Active(j) THEN "lost" ELSE pc[j]
  BY DEF Lose
<1> QED
  BY <1>1 DEF Active, Ended

\* A step that leaves the reset and the enrollments' places alone keeps what it has reached,
\* if it starts nothing that is stopped and restores nothing that is removed.
LEMMA RestKeepsReset ==
  ASSUME ResetInv, apart' => apart, UNCHANGED <<source, reset>>,
         \A j \in Enr : (Active(j)' => Active(j)) /\ (Ended(j) => Ended(j)'),
         agent = "down" => agent' = "down", tunnel = Down => tunnel' = Down, caddy' => caddy,
         UNCHANGED disk
  PROVE  ResetInv'
BY DEF ResetInv, Emptied, Resetting, disk

\* The steps of the reset itself.
LEMMA ResetKeepsReset ==
  ASSUME ProgressOK, ResetInv,
         ResetBegin \/ (\E s \in Services : Stop(s)) \/ RemoveUnits \/ RemoveFiles \/ InterruptReset
  PROVE  ResetInv'
<1> SUFFICES ASSUME apart'
             PROVE  Emptied'
  BY DEF ResetInv
<1> USE DEF AfterAgent, Resetting, Services
<1>1. CASE ResetBegin
  <2>1. reset' = "caddy" /\ UNCHANGED <<source, pc>>
    BY <1>1 DEF ResetBegin, progress
  <2>2. \A i \in Enr : Active(i) => source[i] = "agent"
    BY <1>1 DEF ResetBegin
  <2> QED
    BY <2>1, <2>2 DEF Emptied, Active, Ended
<1>2. ASSUME NEW s \in Services, Stop(s)
      PROVE  Emptied'
  <2>1. reset = s /\ reset' = AfterStop[s] /\ apart /\ UNCHANGED <<source, apart>>
    BY <1>2 DEF Stop, history
  <2>2. Emptied
    BY <2>1 DEF ResetInv
  <2>3. \A i \in Enr : Active(i) => source[i] = "agent"
    BY <2>1, <2>2 DEF Emptied
  <2>4. CASE s = "caddy"
    <3>1. reset' = "agent" /\ caddy' = FALSE /\ pc' = pc
      BY <1>2, <2>1, <2>4 DEF Stop, AfterStop
    <3> QED
      BY <2>1, <2>3, <3>1 DEF Emptied, Active, Ended
  <2>5. CASE s # "caddy"
    <3>1. Lose(InAgent) /\ agent' = "down" /\ (caddy' => caddy)
      BY <1>2, <2>5 DEF Stop
    <3>2. InAgent \in SUBSET Enr
      BY DEF InAgent
    <3>3. /\ \A j \in Enr : (Active(j)' => Active(j)) /\ (Ended(j) => Ended(j)')
          /\ \A j \in InAgent : ~Active(j)'
      BY <3>1, <3>2, LoseFacts
    <3>4. \A j \in Enr : ~Active(j)'
      BY <2>3, <3>3 DEF InAgent
    <3>5. caddy' => \E i \in Enr : source'[i] = "agent" /\ Ended(i)'
      BY <2>1, <2>2, <2>5, <3>1, <3>3 DEF Emptied
    <3>6. reset' = "tunnel" \/ (reset' = "units" /\ tunnel' = Down)
      BY <1>2, <2>1, <2>5 DEF Stop, AfterStop
    <3> QED
      BY <3>1, <3>4, <3>5, <3>6 DEF Emptied
  <2> QED
    BY <2>4, <2>5
<1>3. CASE RemoveUnits
  <2>1. Emptied /\ reset = "units" /\ reset' = "files" /\ UNCHANGED <<source, pc, agent, tunnel, caddy>>
    BY <1>3 DEF RemoveUnits, ResetInv, progress, running, history
  <2>2. \A s \in Services : units'[s] = "absent"
    BY <1>3 DEF RemoveUnits
  <2> QED
    BY <2>1, <2>2 DEF Emptied, Active, Ended
<1>4. CASE RemoveFiles
  <2>1. Emptied /\ reset = "files" /\ reset' = "done" /\ UNCHANGED <<source, pc, agent, tunnel, caddy, units>>
    BY <1>4 DEF RemoveFiles, ResetInv, progress, running, history
  <2>2. home' = "absent" /\ identity' = 0 /\ record' = 0 /\ \A s \in Services : bins'[s] = "absent"
    BY <1>4 DEF RemoveFiles
  <2> QED
    BY <2>1, <2>2 DEF Emptied, Active, Ended
<1>5. CASE InterruptReset
  BY <1>5 DEF InterruptReset, Emptied
<1> QED
  BY <1>1, <1>2, <1>3, <1>4, <1>5

\* Every step keeps what the reset has reached.
LEMMA ResetStep == ProgressOK /\ ResetInv /\ [Next]_vars => ResetInv'
<1> SUFFICES ASSUME ProgressOK, ResetInv, [Next]_vars
             PROVE  ResetInv'
  OBVIOUS
<1>1. ASSUME NEW i \in Enr, NEW s \in Sources, Begin(i, s)
      PROVE  ResetInv'
  <2> SUFFICES ASSUME apart'
               PROVE  Emptied'
    BY DEF ResetInv
  <2>1. apart /\ (s = "agent" \/ ~(Resetting \/ reset = "done"))
    BY <1>1 DEF Begin
  <2>2. Emptied
    BY <2>1 DEF ResetInv
  <2>3. UNCHANGED <<reset, agent, tunnel, caddy, units, identity, record, bins>>
    BY <1>1 DEF Begin, running
  <2>4. \A j \in Enr : /\ pc'[j] = IF j = i THEN "stream" ELSE pc[j]
                       /\ source'[j] = IF j = i THEN s ELSE source[j]
    BY <1>1 DEF Begin, Goto, ProgressOK
  <2>5. pc[i] = "none" /\ (s = "agent" => agent = "up")
    BY <1>1 DEF Begin, At
  <2>6. reset \notin AfterAgent
    BY <2>1, <2>2, <2>5 DEF Emptied, AfterAgent, Resetting, Services
  <2>7. Resetting \/ reset = "done" => \A j \in Enr : Active(j)' => source'[j] = "agent"
    BY <2>1, <2>2, <2>4 DEF Emptied, Active, Ended
  <2>8. reset = "agent" /\ caddy => \E j \in Enr : source'[j] = "agent" /\ Ended(j)'
    <3> SUFFICES ASSUME reset = "agent", caddy
                 PROVE  \E j \in Enr : source'[j] = "agent" /\ Ended(j)'
      OBVIOUS
    <3>1. PICK j \in Enr : source[j] = "agent" /\ Ended(j)
      BY <2>2 DEF Emptied
    <3>2. j # i
      BY <2>5, <3>1 DEF Ended
    <3> QED
      BY <2>4, <3>1, <3>2 DEF Ended
  <2> QED
    BY <2>3, <2>6, <2>7, <2>8 DEF Emptied, AfterAgent, Resetting
<1>2. ASSUME NEW i \in Enr, StepOf(i)
      PROVE  ResetInv'
  BY <1>2, EnrollmentKeepsReset
<1>3. CASE ResetBegin \/ (\E s \in Services : Stop(s)) \/ RemoveUnits \/ RemoveFiles \/ InterruptReset
  BY <1>3, ResetKeepsReset
<1>4. CASE TunnelUp \/ AgentUp \/ UNCHANGED vars
  <2>1. UNCHANGED <<source, pc, reset, apart, caddy, home, identity, record, bins, units>>
    BY <1>4 DEF TunnelUp, AgentUp, vars, progress, disk, running, history
  <2>2. (agent = "down" => agent' = "down") /\ (tunnel = Down => tunnel' = Down)
    BY <1>4 DEF TunnelUp, AgentUp, vars, running, Down, Starting
  <2> QED
    BY <2>1, <2>2, RestKeepsReset DEF Active, Ended, disk
<1>5. CASE TunnelExits \/ AgentFails
  <2>1. UNCHANGED <<source, reset, apart, caddy, disk>> /\ Lose(InAgent)
    BY <1>5 DEF TunnelExits, AgentFails, history
  <2>2. (agent = "down" => agent' = "down") /\ (tunnel = Down => tunnel' = Down)
    BY <1>5 DEF TunnelExits, AgentFails
  <2>3. \A j \in Enr : (Active(j)' => Active(j)) /\ (Ended(j) => Ended(j)')
    BY <2>1, LoseFacts DEF InAgent
  <2> QED
    BY <2>1, <2>3, <2>2, RestKeepsReset
<1>6. CASE Reboot
  <2>1. UNCHANGED <<source, apart, disk>> /\ Lose(Enr)
    BY <1>6 DEF Reboot, history
  <2>2. \A j \in Enr : (Active(j)' => Active(j)) /\ (Ended(j) => Ended(j)')
    BY <2>1, LoseFacts
  <2>3. CASE reset = "done" /\ apart
    <3>1. Emptied
      BY <2>3 DEF ResetInv
    <3>2. units["agent"] = "absent" /\ units["tunnel"] = "absent" /\ units["caddy"] = "absent"
      BY <2>3, <3>1 DEF Emptied, Services
    <3>3. agent' = "down"
      BY <1>6, <3>2 DEF Reboot
    <3>4. tunnel' = Down
      BY <1>6, <3>2, <3>3 DEF Reboot
    <3>5. caddy' = FALSE
      BY <1>6, <3>2 DEF Reboot
    <3>6. reset' = reset
      BY <1>6, <2>3 DEF Reboot, Resetting, Services
    <3> QED
      BY <2>1, <2>2, <3>3, <3>4, <3>5, <3>6, RestKeepsReset
  <2>4. CASE reset # "done" /\ apart
    <3>1. reset' \notin AfterAgent \cup {"agent", "caddy"}
      BY <1>6, <2>4 DEF Reboot, Resetting, Services, AfterAgent
    <3> QED
      BY <3>1 DEF ResetInv, Emptied, Resetting, Services, AfterAgent
  <2>5. CASE ~apart
    BY <2>1, <2>5 DEF ResetInv
  <2> QED
    BY <2>3, <2>4, <2>5
<1> QED
  BY <1>1, <1>2, <1>3, <1>4, <1>5, <1>6, StepCases DEF StepOf

\* After a reset nothing is left on the disk and nothing runs, except a Caddy that an enrollment
\* of the agent started behind it; for any number of enrollments in the agent, restarts and
\* interrupted resets.
THEOREM ResetLeavesNothing == Spec => []ResetCleans
<1>1. Init => ProgressOK /\ ResetInv
  <2>1. Init => ProgressOK
    BY TypeInit DEF TypeOK
  <2>2. Init => ResetInv
    BY DEF Init, ResetInv, Emptied, Resetting, Services, AfterAgent
  <2> QED
    BY <2>1, <2>2
<1>2. ProgressOK /\ ResetInv /\ [Next]_vars => (ProgressOK /\ ResetInv)'
  BY ProgressTyped, ResetStep
<1>3. ResetInv => ResetCleans
  BY DEF ResetInv, Emptied, ResetCleans, AfterAgent
<1> QED
  BY <1>1, <1>2, <1>3, PTL DEF Spec

-----------------------------------------------------------------------------
\* A success means what it says.

\* How far an enrollment has come.
Succeeded(i)    == outcome[i] = "success"
Serving(i)      == pc[i] \in {"fetch", "copy", "unit", "start"}
PastIdentity(i) == pc[i] \in {"record", "wait"} \/ Serving(i) \/ Succeeded(i)
PastRecord(i)   == pc[i] = "wait" \/ Serving(i) \/ Succeeded(i)
PastTunnel(i)   == pc[i] = "wait" \/ (Serving(i) /\ svc[i] # "tunnel") \/ Succeeded(i)
PastAgent(i)    == (Serving(i) /\ svc[i] = "caddy") \/ Succeeded(i)

\* An outcome is an end, and the tunnel is the first service.
Outcomes ==
  \A j \in Enr :
    /\ outcome[j] # "none" => pc[j] = "ended"
    /\ pc[j] \in {"none", "stream", "shown", "identity", "write", "record", "wait"} => svc[j] = "tunnel"

\* The standing enrollment has nothing beside it.
Alone == standing # 0 => ~Resetting /\ pc[standing] # "none" /\ \A j \in Enr : j # standing => ~Active(j)

\* What the standing enrollment i has written, how it finds the tunnel, and what it has set up.
Wrote(i) ==
  /\ pc[i] = "write" => identity = -i
  /\ PastIdentity(i) => identity = i
  /\ PastRecord(i) => record = i \/ "record" \in warned[i]

Found(i) == Active(i) => IF ranBefore THEN tunnel # Down ELSE PastTunnel(i) \/ tunnel = Down

SetUp(i) ==
  /\ pc[i] \in {"copy", "unit", "start"} => bins[svc[i]] # "absent"
  /\ pc[i] = "start" => units[svc[i]] = "enabled"

TunnelSet(i) ==
  PastTunnel(i) => /\ units["tunnel"] = "enabled" /\ bins["tunnel"] # "absent"
                   /\ tunnel \in {Starting, i} \/ (ranBefore /\ tunnel # Down)

AgentSet(i) == PastAgent(i) => (units["agent"] = "enabled" /\ agent # "down") \/ "agent" \in warned[i]

CaddySet(i) == Succeeded(i) => units["caddy"] = "enabled" \/ "caddy" \in warned[i]

Stands(i) == Wrote(i) /\ Found(i) /\ SetUp(i) /\ TunnelSet(i) /\ AgentSet(i) /\ CaddySet(i)

StandingInv == standing # 0 => Stands(standing)

\* Outcomes is inductive.
LEMMA OutcomesStep == ProgressOK /\ Outcomes /\ [Next]_vars => Outcomes'
<1> SUFFICES ASSUME ProgressOK, Outcomes, [Next]_vars
             PROVE  Outcomes'
  OBVIOUS
<1>1. ASSUME NEW i \in Enr, NEW s \in Sources, Begin(i, s)
      PROVE  Outcomes'
  BY <1>1 DEF Begin, At, Goto, Outcomes, ProgressOK
<1>2. ASSUME NEW i \in Enr, StepOf(i)
      PROVE  Outcomes'
  <2>1. CASE \E S \in SUBSET Enr : Lose(S) /\ UNCHANGED <<svc, outcome>>
    BY <2>1 DEF Lose, Active, Ended, Outcomes, ProgressOK
  <2>2. CASE pc' = pc /\ UNCHANGED <<svc, outcome>>
    BY <2>2 DEF Outcomes
  <2>3. CASE \E l \in Labels : Goto(i, l) /\ UNCHANGED <<svc, outcome>> /\ (l # "fetch" => svc[i] = "tunnel" \/ l \in {"copy", "unit", "start", "ended"})
    <3>1. PICK l \in Labels : Goto(i, l) /\ UNCHANGED <<svc, outcome>> /\ (l # "fetch" => svc[i] = "tunnel" \/ l \in {"copy", "unit", "start", "ended"})
      BY <2>3
    <3>2. outcome[i] = "none"
      BY <1>2, StepMoves DEF Outcomes, Active, Ended, ProgressOK
    <3>3. \A j \in Enr : pc'[j] = IF j = i THEN l ELSE pc[j]
      BY <3>1 DEF Goto, ProgressOK
    <3> QED
      BY <3>1, <3>2, <3>3 DEF Outcomes
  <2>4. CASE \E o \in {"error", "success"} : Return(i, o) /\ UNCHANGED svc
    BY <2>4 DEF Return, Goto, Outcomes, ProgressOK
  <2>5. CASE \E s \in Services : svc' = [svc EXCEPT ![i] = s] /\ Goto(i, "fetch") /\ UNCHANGED outcome
    <3>1. outcome[i] = "none"
      BY <1>2, StepMoves DEF Outcomes, Active, Ended, ProgressOK
    <3> QED
      BY <2>5, <3>1 DEF Goto, Outcomes, ProgressOK
  <2>6. CASE \E event \in Events : IdentityEvent(i, event)
    BY <2>2, <2>6 DEF IdentityEvent
  <2>7. CASE Refusal(i) \/ NoIdentity(i) \/ IdentityFails(i)
    BY <2>4, <2>7 DEF Refusal, NoIdentity, IdentityFails
  <2>8. CASE \/ \E next \in {"identity", "shown"} : Enrolled(i, next)
             \/ LeaveWizard(i) \/ OpenIdentity(i) \/ WriteIdentity(i) \/ WriteRecord(i) \/ RecordFails(i)
             \/ OpenBinary(i) \/ CopyBinary(i) \/ EnableUnit(i) \/ StartTunnel(i)
    BY <2>3, <2>8 DEF Enrolled, LeaveWizard, OpenIdentity, WriteIdentity, WriteRecord, RecordFails, OpenBinary,
       CopyBinary, EnableUnit, StartTunnel, At, Service, Outcomes, Labels
  <2>9. CASE StepFails(i) \/ StartAgent(i) \/ StartCaddy(i) \/ WaitForTunnel(i)
    <3>1. Continue(i) \/ (Return(i, "error") /\ UNCHANGED svc)
      BY <2>9 DEF StepFails, StartAgent, StartCaddy, WaitForTunnel
    <3>2. CASE Continue(i)
      BY <2>4, <2>5, <3>2 DEF Continue, Services, ProgressOK
    <3> QED
      BY <2>4, <3>1, <3>2
  <2>10. CASE Panics(i) \/ Interrupt(i)
    BY <2>1, <2>10 DEF Panics, Interrupt, InAgent
  <2> QED
    BY <1>2, <2>6, <2>7, <2>8, <2>9, <2>10 DEF StepOf
<1>3. CASE \E S \in SUBSET Enr : Lose(S) /\ UNCHANGED <<svc, outcome>>
  BY <1>3 DEF Lose, Active, Ended, Outcomes, ProgressOK
<1>4. CASE (\E s \in Services : Stop(s)) \/ TunnelExits \/ AgentFails \/ Reboot
  <2>1. UNCHANGED <<svc, outcome>>
    BY <1>4 DEF Stop, TunnelExits, AgentFails, Reboot
  <2>2. (\E S \in SUBSET Enr : Lose(S)) \/ pc' = pc
    BY <1>4 DEF Stop, TunnelExits, AgentFails, Reboot, InAgent
  <2> QED
    BY <1>3, <2>1, <2>2 DEF Outcomes
<1>5. CASE ResetBegin \/ RemoveUnits \/ RemoveFiles \/ InterruptReset \/ TunnelUp \/ AgentUp \/ UNCHANGED vars
  BY <1>5 DEF ResetBegin, RemoveUnits, RemoveFiles, InterruptReset, TunnelUp, AgentUp, vars, progress, Outcomes
<1> QED
  BY <1>1, <1>2, <1>4, <1>5, StepCases DEF StepOf

\* Alone is inductive: whatever else begins makes the standing enrollment one no more.
LEMMA AloneStep == ProgressOK /\ CountersOK /\ Alone /\ [Next]_vars => Alone'
<1> SUFFICES ASSUME ProgressOK, CountersOK, Alone, [Next]_vars, standing' # 0
             PROVE  ~Resetting' /\ pc'[standing'] # "none" /\ \A j \in Enr : j # standing' => ~Active(j)'
  BY DEF Alone
<1>1. ASSUME NEW i \in Enr, NEW s \in Sources, Begin(i, s)
      PROVE  ~Resetting' /\ pc'[standing'] # "none" /\ \A j \in Enr : j # standing' => ~Active(j)'
  <2>1. standing' = i /\ ~Resetting /\ \A j \in Enr : ~Active(j)
    BY <1>1 DEF Begin
  <2>2. \A j \in Enr : pc'[j] = IF j = i THEN "stream" ELSE pc[j]
    BY <1>1 DEF Begin, Goto, ProgressOK
  <2>3. reset' = reset
    BY <1>1 DEF Begin
  <2> QED
    BY <2>1, <2>2, <2>3 DEF Resetting, Active, Ended
<1>2. ASSUME NEW i \in Enr, StepOf(i)
      PROVE  ~Resetting' /\ pc'[standing'] # "none" /\ \A j \in Enr : j # standing' => ~Active(j)'
  <2>1. standing' = standing /\ standing \in Enr /\ reset' = reset
    BY <1>2, StepAside DEF CountersOK, Enr
  <2>2. i = standing /\ Active(i)
    BY <1>2, <2>1, StepAside DEF Alone
  <2>3. \A j \in Enr : (Active(j)' => Active(j)) /\ pc'[i] # "none"
    <3>1. \A j \in Enr : Active(j)' => Active(j)
      BY <1>2, StepAside
    <3>2. pc'[i] # "none"
      <4>1. CASE \E l \in Labels \ {"none"} : pc' = [pc EXCEPT ![i] = l]
        BY <4>1 DEF ProgressOK
      <4>2. CASE pc' = pc \/ \E S \in SUBSET Enr : Lose(S)
        BY <2>2, <4>2 DEF Lose, Active
      <4> QED
        BY <1>2, <4>1, <4>2, StepMoves
    <3> QED
      BY <3>1, <3>2
  <2> QED
    BY <2>1, <2>2, <2>3 DEF Alone, Resetting
<1>3. CASE ResetBegin
  BY <1>3 DEF ResetBegin
<1>4. CASE (\E s \in Services : Stop(s)) \/ RemoveUnits \/ RemoveFiles \/ InterruptReset
  BY <1>4 DEF Stop, RemoveUnits, RemoveFiles, InterruptReset, Alone, Resetting, history
<1>5. CASE TunnelExits \/ AgentFails \/ Reboot
  <2>1. standing' = standing /\ standing \in Enr /\ reset' \in {reset, "idle"}
    BY <1>5 DEF TunnelExits, AgentFails, Reboot, history, CountersOK, Enr
  <2>2. \A j \in Enr : pc'[j] = pc[j] \/ (Active(j) /\ pc'[j] = "lost")
    BY <1>5 DEF TunnelExits, AgentFails, Reboot, Lose
  <2> QED
    BY <2>1, <2>2 DEF Alone, Resetting, Active, Ended, Services
<1>6. CASE TunnelUp \/ AgentUp \/ UNCHANGED vars
  BY <1>6 DEF TunnelUp, AgentUp, vars, progress, history, Alone, Resetting, Active, Ended
<1> QED
  BY <1>1, <1>2, <1>3, <1>4, <1>5, <1>6, StepCases DEF StepOf

\* The steps of the standing enrollment itself, up to the services: the stream and the records.
LEMMA RecordsStand ==
  ASSUME ProgressOK, DiskOK, Outcomes, NEW i \in Enr, Stands(i),
         \/ \E event \in Events : IdentityEvent(i, event)
         \/ \E next \in {"identity", "shown"} : Enrolled(i, next)
         \/ Refusal(i) \/ NoIdentity(i) \/ LeaveWizard(i)
         \/ OpenIdentity(i) \/ WriteIdentity(i) \/ IdentityFails(i) \/ WriteRecord(i) \/ RecordFails(i)
  PROVE  Stands(i)'
<1> USE DEF Succeeded, Serving, PastIdentity, PastRecord, PastTunnel, PastAgent
<1>1. pc[i] \in {"stream", "shown", "identity", "write", "record"} /\ outcome[i] = "none" /\ svc[i] = "tunnel" /\ Active(i)
  BY DEF IdentityEvent, Enrolled, Refusal, NoIdentity, LeaveWizard, OpenIdentity, WriteIdentity, IdentityFails,
     WriteRecord, RecordFails, At, Outcomes, ProgressOK, Active, Ended
<1>2. UNCHANGED <<svc, tunnel, agent, bins, units, ranBefore>>
  BY DEF IdentityEvent, Enrolled, Refusal, NoIdentity, LeaveWizard, OpenIdentity, WriteIdentity, IdentityFails,
     WriteRecord, RecordFails, disk, running, Aside, AsideFailing, Apart, history
<1>3. Found(i)'
  BY <1>1, <1>2 DEF Stands, Found
<1>4. CASE \/ \E event \in Events : IdentityEvent(i, event)
           \/ \E next \in {"identity", "shown"} : Enrolled(i, next)
           \/ LeaveWizard(i)
  <2>1. pc'[i] \in {"stream", "identity", "shown"} /\ outcome'[i] = "none"
    BY <1>1, <1>4 DEF IdentityEvent, Enrolled, LeaveWizard, Goto, At, ProgressOK
  <2> QED
    BY <1>3, <2>1 DEF Stands, Wrote, SetUp, TunnelSet, AgentSet, CaddySet
<1>5. CASE Refusal(i) \/ NoIdentity(i) \/ IdentityFails(i)
  <2>1. pc'[i] = "ended" /\ outcome'[i] = "error"
    BY <1>5 DEF Refusal, NoIdentity, IdentityFails, Return, Goto, ProgressOK
  <2> QED
    BY <1>3, <2>1 DEF Stands, Wrote, SetUp, TunnelSet, AgentSet, CaddySet
<1>6. CASE OpenIdentity(i)
  <2>1. pc'[i] = "write" /\ outcome'[i] = "none" /\ identity' = -i
    BY <1>1, <1>6 DEF OpenIdentity, Goto, ProgressOK
  <2> QED
    BY <1>3, <2>1 DEF Stands, Wrote, SetUp, TunnelSet, AgentSet, CaddySet
<1>7. CASE WriteIdentity(i)
  <2>1. identity = -i
    BY <1>7 DEF WriteIdentity, At, Stands, Wrote
  <2>2. pc'[i] = "record" /\ outcome'[i] = "none" /\ identity' = i
    BY <1>1, <1>7, <2>1 DEF WriteIdentity, Goto, ProgressOK
  <2> QED
    BY <1>3, <2>2 DEF Stands, Wrote, SetUp, TunnelSet, AgentSet, CaddySet
<1>8. CASE WriteRecord(i) \/ RecordFails(i)
  <2>1. pc[i] = "record" /\ pc'[i] = "fetch" /\ outcome'[i] = "none" /\ identity' = identity
    BY <1>1, <1>8 DEF WriteRecord, RecordFails, At, Goto, ProgressOK
  <2>2. record' = i \/ "record" \in warned'[i]
    BY <1>8 DEF WriteRecord, RecordFails, ProgressOK
  <2>3. identity' = i
    BY <2>1 DEF Stands, Wrote
  <2> QED
    BY <1>1, <1>2, <1>3, <2>1, <2>2, <2>3 DEF Stands, Wrote, SetUp, TunnelSet, AgentSet, CaddySet
<1> QED
  BY <1>4, <1>5, <1>6, <1>7, <1>8

\* Its services: identity.json and machine.json stay as they are.
LEMMA WroteStands ==
  ASSUME ProgressOK, NEW i \in Enr, Wrote(i), PastRecord(i) /\ PastIdentity(i),
         UNCHANGED <<identity, record>>, warned[i] \subseteq warned'[i], pc'[i] # "write"
  PROVE  Wrote(i)'
BY DEF Wrote

\* The binary and the unit of a service.
LEMMA UnitsStand ==
  ASSUME ProgressOK, DiskOK, RunningOK, Outcomes, NEW i \in Enr, Stands(i),
         OpenBinary(i) \/ CopyBinary(i) \/ EnableUnit(i)
  PROVE  Stands(i)'
<1> USE DEF Succeeded, Serving, PastIdentity, PastRecord, PastTunnel, PastAgent
<1>1. Serving(i) /\ outcome[i] = "none" /\ Active(i)
  BY DEF OpenBinary, CopyBinary, EnableUnit, AtUnit, At, Outcomes, ProgressOK, Active, Ended
<1>2. UNCHANGED <<svc, outcome, warned, identity, record, tunnel, agent, ranBefore>>
  BY DEF OpenBinary, CopyBinary, EnableUnit, running, Aside, Apart, history
<1>3. pc'[i] \in {"copy", "unit", "start"}
  BY DEF OpenBinary, CopyBinary, EnableUnit, Goto, ProgressOK
<1>4. Wrote(i)' /\ Found(i)'
  BY <1>1, <1>2, <1>3 DEF Stands, Wrote, Found
<1>5. bins'[svc[i]] # "absent" /\ (bins["tunnel"] # "absent" => bins'["tunnel"] # "absent")
  <2>1. svc[i] \in Services /\ bins \in [Services -> {"absent", "partial", "whole"}] /\ "tunnel" \in Services
    BY DEF ProgressOK, DiskOK, Services
  <2>2. CASE OpenBinary(i)
    BY <2>1, <2>2 DEF OpenBinary, Service
  <2>3. CASE CopyBinary(i)
    <3>1. bins[svc[i]] # "absent"
      BY <2>3 DEF CopyBinary, At, Stands, SetUp
    <3>2. bins' = [bins EXCEPT ![svc[i]] = "whole"]
      BY <2>3, <3>1 DEF CopyBinary, Service
    <3> QED
      BY <2>1, <3>2
  <2>4. CASE EnableUnit(i)
    BY <2>1, <2>4 DEF EnableUnit, AtUnit, At, Service, Stands, SetUp
  <2> QED
    BY <2>2, <2>3, <2>4
<1>6. /\ \A s \in Services : units[s] = "enabled" => units'[s] = "enabled"
      /\ pc'[i] = "start" => units'[svc[i]] = "enabled"
  <2>1. CASE OpenBinary(i) \/ CopyBinary(i)
    BY <2>1 DEF OpenBinary, CopyBinary, Goto, ProgressOK
  <2>2. CASE EnableUnit(i)
    BY <2>2 DEF EnableUnit, Service, ProgressOK, DiskOK
  <2> QED
    BY <2>1, <2>2
<1>7. SetUp(i)'
  BY <1>2, <1>3, <1>5, <1>6 DEF SetUp
<1>8. TunnelSet(i)' /\ AgentSet(i)' /\ CaddySet(i)'
  BY <1>1, <1>2, <1>3, <1>5, <1>6 DEF Stands, TunnelSet, AgentSet, CaddySet, Services
<1> QED
  BY <1>4, <1>7, <1>8 DEF Stands

\* The end of a service, started or failed, and the wait for the tunnel.
LEMMA ServicesStand ==
  ASSUME ProgressOK, DiskOK, RunningOK, Outcomes, NEW i \in Enr, Stands(i),
         StepFails(i) \/ StartTunnel(i) \/ StartAgent(i) \/ StartCaddy(i) \/ WaitForTunnel(i)
  PROVE  Stands(i)'
<1> USE DEF Succeeded, Serving, PastIdentity, PastRecord, PastTunnel, PastAgent
<1>1. (Serving(i) \/ pc[i] = "wait") /\ outcome[i] = "none" /\ Active(i) /\ svc[i] \in Services
  BY DEF StepFails, StartTunnel, StartAgent, StartCaddy, WaitForTunnel, At, Outcomes, ProgressOK, Active, Ended
<1>2. UNCHANGED <<identity, record, ranBefore>> /\ warned[i] \subseteq warned'[i]
  BY DEF StepFails, StartTunnel, StartAgent, StartCaddy, WaitForTunnel, disk, Aside, AsideFailing, Apart, history, ProgressOK
<1>3. pc'[i] \in {"fetch", "wait", "ended"}
  BY DEF StepFails, StartTunnel, StartAgent, StartCaddy, WaitForTunnel, Continue, Return, Goto, ProgressOK
<1>4. Wrote(i)'
  BY <1>1, <1>2, <1>3, WroteStands DEF Stands
<1>5. SetUp(i)'
  BY <1>3 DEF SetUp
<1>6. CASE StartTunnel(i)
  <2>1. pc[i] = "start" /\ pc'[i] = "wait" /\ svc[i] = "tunnel" /\ UNCHANGED <<svc, outcome, bins, units, agent>>
    BY <1>6 DEF StartTunnel, At, Service, Goto, disk, ProgressOK
  <2>2. units["tunnel"] = "enabled" /\ bins["tunnel"] # "absent"
    BY <2>1 DEF Stands, SetUp
  <2>3. tunnel' = IF tunnel = Down THEN Starting ELSE tunnel
    BY <1>6 DEF StartTunnel
  <2>4. tunnel = Down \/ ranBefore
    BY <1>1, <2>1 DEF Stands, Found
  <2>5. tunnel' \in {Starting, i} \/ (ranBefore /\ tunnel' # Down)
    BY <2>3, <2>4
  <2>6. Found(i)'
    BY <1>1, <1>2, <2>1, <2>3 DEF Stands, Found, Starting, Down
  <2> QED
    BY <1>1, <1>2, <1>4, <1>5, <2>1, <2>2, <2>5, <2>6 DEF Stands, TunnelSet, AgentSet, CaddySet
<1>7. CASE StepFails(i) /\ svc[i] = "tunnel"
  <2>1. pc'[i] = "ended" /\ outcome'[i] = "error"
    BY <1>7 DEF StepFails, Service, Return, Goto, ProgressOK
  <2> QED
    BY <1>4, <1>5, <2>1 DEF Stands, Found, Active, Ended, TunnelSet, AgentSet, CaddySet
<1>8. CASE (StepFails(i) /\ svc[i] # "tunnel") \/ StartAgent(i) \/ StartCaddy(i) \/ WaitForTunnel(i)
  <2>1. Continue(i)
    BY <1>8 DEF StepFails, StartAgent, StartCaddy, WaitForTunnel, Service
  <2>2. \/ svc[i] = "tunnel" /\ svc'[i] = "agent" /\ pc'[i] = "fetch" /\ outcome'[i] = "none"
        \/ svc[i] = "agent" /\ svc'[i] = "caddy" /\ pc'[i] = "fetch" /\ outcome'[i] = "none"
        \/ svc[i] = "caddy" /\ pc'[i] = "ended" /\ outcome'[i] = "success"
    BY <1>1, <2>1 DEF Continue, Service, Return, Goto, ProgressOK, Services
  <2>3. PastTunnel(i)
    BY <1>1, <1>8 DEF StepFails, StartAgent, StartCaddy, WaitForTunnel, At, Service
  <2>4. units["tunnel"] = "enabled" /\ bins["tunnel"] # "absent" /\ (tunnel \in {Starting, i} \/ (ranBefore /\ tunnel # Down))
    BY <2>3 DEF Stands, TunnelSet
  <2>5. bins'["tunnel"] = bins["tunnel"]
    <3>1. CASE StepFails(i) /\ svc[i] # "tunnel"
      BY <3>1 DEF StepFails, Service, DiskOK, Services
    <3>2. CASE StartAgent(i) \/ StartCaddy(i) \/ WaitForTunnel(i)
      BY <3>2 DEF StartAgent, StartCaddy, WaitForTunnel, disk
    <3> QED
      BY <1>8, <3>1, <3>2
  <2>6. \A s \in Services : units[s] = "enabled" => units'[s] = "enabled"
    <3>1. CASE StepFails(i)
      BY <3>1 DEF StepFails, Service, DiskOK
    <3>2. CASE StartAgent(i) \/ StartCaddy(i) \/ WaitForTunnel(i)
      BY <3>2 DEF StartAgent, StartCaddy, WaitForTunnel, disk
    <3> QED
      BY <1>8, <3>1, <3>2
  <2>7. tunnel' = tunnel /\ (agent # "down" => agent' # "down")
    <3>1. CASE StartAgent(i)
      BY <2>4, <3>1 DEF StartAgent, Down, Starting, Enr
    <3>2. CASE StepFails(i) \/ StartCaddy(i) \/ WaitForTunnel(i)
      BY <3>2 DEF StepFails, StartCaddy, WaitForTunnel, running
    <3> QED
      BY <1>8, <3>1, <3>2
  <2>8. TunnelSet(i)'
    BY <1>2, <2>4, <2>5, <2>6, <2>7 DEF TunnelSet, Services
  <2>9. Found(i)'
    BY <1>1, <1>2, <2>2, <2>7 DEF Stands, Found, Active, Ended
  <2>10. svc[i] = "agent" => (units'["agent"] = "enabled" /\ agent' # "down") \/ "agent" \in warned'[i]
    <3>1. CASE StepFails(i) /\ svc[i] = "agent"
      BY <3>1 DEF StepFails, Service, ProgressOK
    <3>2. CASE StartAgent(i)
      <4>1. units["agent"] = "enabled"
        BY <3>2 DEF StartAgent, At, Service, Stands, SetUp
      <4> QED
        BY <2>6, <3>2, <4>1 DEF StartAgent, Services
    <3>3. CASE StartCaddy(i) \/ WaitForTunnel(i)
      BY <3>3 DEF StartCaddy, WaitForTunnel, Service, At, Outcomes
    <3> QED
      BY <1>8, <3>1, <3>2, <3>3
  <2>11. svc[i] = "caddy" => units'["caddy"] = "enabled" \/ "caddy" \in warned'[i]
    <3>1. CASE StepFails(i) /\ svc[i] = "caddy"
      BY <3>1 DEF StepFails, Service, ProgressOK
    <3>2. CASE StartCaddy(i)
      <4>1. units["caddy"] = "enabled"
        BY <3>2 DEF StartCaddy, At, Service, Stands, SetUp
      <4> QED
        BY <2>6, <4>1 DEF Services
    <3>3. CASE StartAgent(i) \/ WaitForTunnel(i)
      BY <3>3 DEF StartAgent, WaitForTunnel, Service, At, Outcomes
    <3> QED
      BY <1>8, <3>1, <3>2, <3>3
  <2>12. AgentSet(i)'
    <3>1. CASE svc[i] = "caddy"
      <4>1. PastAgent(i)
        BY <1>1, <1>8, <3>1 DEF WaitForTunnel, At, Outcomes
      <4>2. (units["agent"] = "enabled" /\ agent # "down") \/ "agent" \in warned[i]
        BY <4>1 DEF Stands, AgentSet
      <4> QED
        BY <1>2, <2>6, <2>7, <4>2 DEF AgentSet, Services
    <3>2. CASE svc[i] # "caddy"
      BY <2>2, <2>10, <3>2 DEF AgentSet
    <3> QED
      BY <3>1, <3>2
  <2>13. CaddySet(i)'
    BY <2>2, <2>11 DEF CaddySet
  <2> QED
    BY <1>4, <1>5, <2>8, <2>9, <2>12, <2>13 DEF Stands
<1> QED
  BY <1>6, <1>7, <1>8

\* An enrollment stands while it rests, or is lost, and what it has set up goes on.
LEMMA RestStands ==
  ASSUME NEW i \in Enr, Stands(i), pc'[i] = pc[i] \/ pc'[i] = "lost",
         UNCHANGED <<svc, outcome, warned, identity, record, bins, units, ranBefore>>,
         Active(i)' /\ tunnel # Down => tunnel' # Down,
         Active(i)' /\ tunnel = Down => tunnel' = Down,
         PastTunnel(i) => tunnel' \in {tunnel, i, Starting},
         units["agent"] = "enabled" /\ agent # "down" /\ PastTunnel(i) => agent' # "down"
  PROVE  Stands(i)'
<1> USE DEF Succeeded, Serving, PastIdentity, PastRecord, PastTunnel, PastAgent
<1>1. Wrote(i)' /\ SetUp(i)' /\ CaddySet(i)'
  BY DEF Stands, Wrote, SetUp, CaddySet
<1>2. Found(i)'
  BY DEF Stands, Found, Active, Ended
<1>3. TunnelSet(i)'
  BY DEF Stands, TunnelSet
<1>4. AgentSet(i)'
  BY DEF Stands, AgentSet
<1> QED
  BY <1>1, <1>2, <1>3, <1>4 DEF Stands

\* Every step keeps what the standing enrollment has done; a new one has done nothing yet.
LEMMA StandingStep ==
  TypeOK /\ Outcomes /\ Alone /\ StandingInv /\ [Next]_vars => StandingInv'
<1> SUFFICES ASSUME TypeOK, Outcomes, Alone, StandingInv, [Next]_vars, standing' # 0
             PROVE  Stands(standing)'
  BY DEF StandingInv
<1> USE DEF TypeOK
<1>1. ASSUME NEW i \in Enr, NEW s \in Sources, Begin(i, s)
      PROVE  Stands(standing)'
  <2>1. standing' = i /\ ranBefore' = (tunnel # Down) /\ tunnel' = tunnel
    BY <1>1 DEF Begin, running
  <2>2. pc'[i] = "stream" /\ outcome'[i] = "none"
    BY <1>1 DEF Begin, At, Goto, Outcomes, ProgressOK
  <2> QED
    BY <2>1, <2>2 DEF Stands, Wrote, Found, SetUp, TunnelSet, AgentSet, CaddySet,
       Succeeded, Serving, PastIdentity, PastRecord, PastTunnel, PastAgent
<1>2. ASSUME NEW j \in Enr, StepOf(j)
      PROVE  Stands(standing)'
  <2>1. standing' = standing /\ Active(j)
    BY <1>2, StepAside
  <2>2. standing = j
    BY <2>1 DEF Alone
  <2>3. Stands(j)
    BY <2>1, <2>2 DEF StandingInv
  <2>4. CASE \/ \E event \in Events : IdentityEvent(j, event)
             \/ \E next \in {"identity", "shown"} : Enrolled(j, next)
             \/ Refusal(j) \/ NoIdentity(j) \/ LeaveWizard(j)
             \/ OpenIdentity(j) \/ WriteIdentity(j) \/ IdentityFails(j) \/ WriteRecord(j) \/ RecordFails(j)
    <3>1. Stands(j)'
      BY <2>3, <2>4, RecordsStand
    <3> QED
      BY <2>1, <2>2, <3>1
  <2>5. CASE OpenBinary(j) \/ CopyBinary(j) \/ EnableUnit(j)
    <3>1. Stands(j)'
      BY <2>3, <2>5, UnitsStand
    <3> QED
      BY <2>1, <2>2, <3>1
  <2>6. CASE StepFails(j) \/ StartTunnel(j) \/ StartAgent(j) \/ StartCaddy(j) \/ WaitForTunnel(j)
    <3>1. Stands(j)'
      BY <2>3, <2>6, ServicesStand
    <3> QED
      BY <2>1, <2>2, <3>1
  <2>7. CASE Panics(j) \/ Interrupt(j)
    <3>1. pc'[j] = pc[j] \/ pc'[j] = "lost"
      BY <2>7 DEF Panics, Interrupt, Lose, InAgent
    <3>2. UNCHANGED <<svc, outcome, warned, identity, record, bins, units, ranBefore, tunnel>>
      BY <2>7 DEF Panics, Interrupt, disk, running, Aside, Apart, history
    <3>3. agent # "down" => agent' # "down"
      BY <2>7 DEF Panics, Interrupt, running
    <3>4. Stands(j)'
      BY <2>3, <3>1, <3>2, <3>3, RestStands
    <3> QED
      BY <2>1, <2>2, <3>4
  <2> QED
    BY <1>2, <2>4, <2>5, <2>6, <2>7 DEF StepOf
<1>3. CASE ResetBegin
  BY <1>3 DEF ResetBegin
<1>4. CASE (\E s \in Services : Stop(s)) \/ RemoveUnits \/ RemoveFiles \/ InterruptReset
  <2>1. Resetting /\ standing' = standing
    BY <1>4 DEF Stop, RemoveUnits, RemoveFiles, InterruptReset, Resetting, history
  <2> QED
    BY <2>1 DEF Alone
<1>5. CASE TunnelUp \/ TunnelExits \/ AgentUp \/ AgentFails \/ Reboot \/ UNCHANGED vars
  <2> DEFINE i == standing
  <2>1. standing' = standing /\ Stands(i)
    BY <1>5 DEF TunnelUp, TunnelExits, AgentUp, AgentFails, Reboot, vars, history, StandingInv
  <2>2. i \in Enr
    BY <2>1 DEF CountersOK, Enr
  <2>3. UNCHANGED <<svc, outcome, warned, identity, record, bins, units, ranBefore>>
    BY <1>5 DEF TunnelUp, TunnelExits, AgentUp, AgentFails, Reboot, vars, progress, disk, history
  <2>4. pc'[i] = pc[i] \/ pc'[i] = "lost"
    BY <1>5, <2>2 DEF TunnelUp, TunnelExits, AgentUp, AgentFails, Reboot, Lose, vars, progress
  <2>5. CASE TunnelUp
    <3>1. tunnel = Starting /\ tunnel' = identity /\ identity > 0 /\ agent' = agent
      BY <2>5 DEF TunnelUp
    <3>2. PastTunnel(i) => tunnel' = i
      BY <2>1, <3>1 DEF Stands, Wrote, PastTunnel, PastIdentity, Serving, Succeeded
    <3>3. tunnel # Down /\ tunnel' # Down
      BY <3>1 DEF Starting, Down, DiskOK
    <3>4. Stands(i)'
      BY <2>1, <2>2, <2>3, <2>4, <3>1, <3>2, <3>3, RestStands
    <3> QED
      BY <2>1, <3>4
  <2>6. CASE TunnelExits
    <3>1. tunnel # Down /\ tunnel' = Starting /\ (agent # "down" => agent' # "down")
      BY <2>6 DEF TunnelExits
    <3>2. tunnel' # Down
      BY <3>1 DEF Starting, Down
    <3>3. Stands(i)'
      BY <2>1, <2>2, <2>3, <2>4, <3>1, <3>2, RestStands
    <3> QED
      BY <2>1, <3>3
  <2>7. CASE AgentUp \/ AgentFails \/ UNCHANGED vars
    <3>1. tunnel' = tunnel /\ (agent # "down" => agent' # "down")
      BY <2>7 DEF AgentUp, AgentFails, vars, running
    <3>2. Stands(i)'
      BY <2>1, <2>2, <2>3, <2>4, <3>1, RestStands
    <3> QED
      BY <2>1, <3>2
  <2>8. CASE Reboot
    <3>1. ~Active(i)'
      BY <2>1, <2>2, <2>8 DEF Reboot, Lose, Active, Ended
    <3>2. PastTunnel(i) => units["tunnel"] = "enabled"
      BY <2>1 DEF Stands, TunnelSet
    <3>3. PastTunnel(i) => tunnel' = Starting
      BY <2>8, <3>2 DEF Reboot
    <3>4. units["agent"] = "enabled" /\ PastTunnel(i) => agent' = "starting"
      BY <2>8, <3>2 DEF Reboot
    <3>5. Stands(i)'
      BY <2>1, <2>2, <2>3, <2>4, <3>1, <3>3, <3>4, RestStands
    <3> QED
      BY <2>1, <3>5
  <2> QED
    BY <1>5, <2>5, <2>6, <2>7, <2>8
<1> QED
  BY <1>1, <1>2, <1>3, <1>4, <1>5, StepCases DEF StepOf

\* An enrollment that reports success, with none beside or after it, left its identity, its
\* record, units that are enabled, a tunnel that runs with its identity or is started again and
\* again, and an agent that nothing has stopped but an exiting tunnel: for any number of earlier
\* enrollments, failures in it, restarts before and after it.
THEOREM SuccessMeansInstalled == Spec => []SuccessHolds
<1> DEFINE Inv == TypeOK /\ Outcomes /\ Alone /\ StandingInv
<1>1. Init => Inv
  <2>1. Init => TypeOK
    BY TypeInit
  <2>2. Init => Outcomes
    BY DEF Init, Outcomes
  <2>3. Init => Alone /\ StandingInv
    BY DEF Init, Alone, StandingInv
  <2> QED
    BY <2>1, <2>2, <2>3
<1>2. Inv /\ [Next]_vars => Inv'
  <2> SUFFICES ASSUME Inv, [Next]_vars
               PROVE  Inv'
    OBVIOUS
  <2>1. TypeOK'
    BY TypeStep
  <2>2. Outcomes'
    BY OutcomesStep DEF TypeOK
  <2>3. Alone'
    BY AloneStep DEF TypeOK
  <2>4. StandingInv'
    BY StandingStep
  <2> QED
    BY <2>1, <2>2, <2>3, <2>4
<1>3. Inv => SuccessHolds
  <2> SUFFICES ASSUME Inv, standing # 0, outcome[standing] = "success"
               PROVE  SuccessHolds
    BY DEF SuccessHolds
  <2>1. Stands(standing)
    BY DEF StandingInv
  <2> QED
    BY <2>1 DEF SuccessHolds, Stands, Wrote, TunnelSet, AgentSet, CaddySet,
       Succeeded, PastIdentity, PastRecord, PastTunnel, PastAgent
<1> QED
  BY <1>1, <1>2, <1>3, PTL DEF Spec

-----------------------------------------------------------------------------
\* An enrollment winds down.

\* What is left of an enrollment: the steps of its longest way to the end.
After(s) == IF s = "tunnel" THEN 12 ELSE IF s = "agent" THEN 6 ELSE 0
Here(l) == IF l = "fetch" THEN 5 ELSE IF l = "copy" THEN 4 ELSE IF l = "unit" THEN 3 ELSE IF l = "start" THEN 2 ELSE 1
Left(i) ==
  IF pc[i] = "none" THEN 24 ELSE IF pc[i] = "stream" THEN 23 ELSE IF pc[i] = "shown" THEN 22
  ELSE IF pc[i] = "identity" THEN 21 ELSE IF pc[i] = "write" THEN 20 ELSE IF pc[i] = "record" THEN 19
  ELSE IF Ended(i) THEN 0 ELSE After(svc[i]) + Here(pc[i])

\* The same, place by place.
LEMMA LeftByPlace ==
  ASSUME ProgressOK, NEW i \in Enr
  PROVE  /\ pc[i] = "none" => Left(i) = 24
         /\ pc[i] = "stream" => Left(i) = 23
         /\ pc[i] = "shown" => Left(i) = 22
         /\ pc[i] = "identity" => Left(i) = 21
         /\ pc[i] = "write" => Left(i) = 20
         /\ pc[i] = "record" => Left(i) = 19
         /\ pc[i] \in {"ended", "lost"} => Left(i) = 0
         /\ \A l \in {"fetch", "copy", "unit", "start", "wait"} : pc[i] = l => Left(i) = After(svc[i]) + Here(l)
         /\ Left(i) \in 0..24
         /\ Active(i) => Left(i) \in 1..23
<1>1. pc[i] \in Labels /\ svc[i] \in Services
  BY DEF ProgressOK
<1>2. \A s \in Services : After(s) \in {0, 6, 12}
  BY DEF After, Services
<1>3. \A l \in Labels : Here(l) \in 1..5
  BY DEF Here, Labels
<1>4. /\ pc[i] = "none" => Left(i) = 24
      /\ pc[i] = "stream" => Left(i) = 23
      /\ pc[i] = "shown" => Left(i) = 22
      /\ pc[i] = "identity" => Left(i) = 21
      /\ pc[i] = "write" => Left(i) = 20
      /\ pc[i] = "record" => Left(i) = 19
      /\ pc[i] \in {"ended", "lost"} => Left(i) = 0
  BY DEF Left, Ended
<1>5. \A l \in {"fetch", "copy", "unit", "start", "wait"} : pc[i] = l => Left(i) = After(svc[i]) + Here(l)
  BY DEF Left, Ended
<1>6. CASE pc[i] \in {"fetch", "copy", "unit", "start", "wait"}
  <2>1. Left(i) = After(svc[i]) + Here(pc[i])
    BY <1>5, <1>6
  <2>2. After(svc[i]) \in {0, 6, 12} /\ Here(pc[i]) \in 1..5
    BY <1>1, <1>2, <1>3
  <2>3. Left(i) \in 1..17
    BY <2>1, <2>2
  <2> QED
    BY <1>4, <1>5, <2>3
<1>7. CASE pc[i] \in {"none", "stream", "shown", "identity", "write", "record"}
  BY <1>4, <1>5, <1>7 DEF Active
<1>8. CASE pc[i] \in {"ended", "lost"}
  BY <1>4, <1>5, <1>8 DEF Active, Ended
<1> QED
  BY <1>1, <1>6, <1>7, <1>8 DEF Labels

\* No enrollment gets further from its end.
NoneGoesBack == \A j \in Enr : Left(j)' <= Left(j)

\* An enrollment that stays where it is has as much left as before.
LEMMA StayingKeepsLeft ==
  ASSUME NEW j \in Enr, pc'[j] = pc[j], svc'[j] = svc[j]
  PROVE  Left(j)' = Left(j)
BY DEF Left, Ended

\* An enrollment that is lost has nothing left.
LEMMA LostHasNothingLeft ==
  ASSUME ProgressOK, ProgressOK', NEW S \in SUBSET Enr, Lose(S), UNCHANGED svc
  PROVE  NoneGoesBack /\ \A j \in S : Active(j) => Left(j)' < Left(j)
<1> SUFFICES ASSUME NEW j \in Enr
             PROVE  Left(j)' <= Left(j) /\ (j \in S /\ Active(j) => Left(j)' < Left(j))
  BY DEF NoneGoesBack
<1>1. pc'[j] = IF j \in S /\ Active(j) THEN "lost" ELSE pc[j]
  BY DEF Lose
<1>2. Left(j) \in 0..24 /\ (Active(j) => Left(j) \in 1..23)
  BY LeftByPlace
<1>3. CASE j \in S /\ Active(j)
  <2>1. Left(j)' = 0
    <3>1. pc'[j] = "lost"
      BY <1>1, <1>3
    <3> QED
      BY <3>1 DEF Left, Ended
  <2> QED
    BY <1>2, <1>3, <2>1
<1>4. CASE ~(j \in S /\ Active(j))
  <2>1. Left(j)' = Left(j)
    BY <1>1, <1>4, StayingKeepsLeft
  <2> QED
    BY <1>2, <1>4, <2>1
<1> QED
  BY <1>3, <1>4

\* A step of i alone takes none back if it takes i forward.
LEMMA OthersStay ==
  ASSUME ProgressOK, NEW i \in Enr, NEW l, pc' = [pc EXCEPT ![i] = l],
         \A j \in Enr : j # i => svc'[j] = svc[j], Left(i)' < Left(i), Left(i)' \in 0..24
  PROVE  NoneGoesBack
<1> SUFFICES ASSUME NEW j \in Enr PROVE Left(j)' <= Left(j)
  BY DEF NoneGoesBack
<1>1. Left(j) \in 0..24 /\ Left(i) \in 0..24
  BY LeftByPlace
<1>2. CASE j = i
  BY <1>1, <1>2
<1>3. CASE j # i
  <2>1. pc'[j] = pc[j]
    BY <1>3 DEF ProgressOK
  <2>2. Left(j)' = Left(j)
    BY <1>3, <2>1, StayingKeepsLeft
  <2> QED
    BY <1>1, <2>2
<1> QED
  BY <1>2, <1>3

\* Before the services: each step of i takes it to a later place, or ends it.
LEMMA StreamMovesOn ==
  ASSUME ProgressOK, ProgressOK', NEW i \in Enr,
         \/ \E next \in {"identity", "shown"} : Enrolled(i, next)
         \/ Refusal(i) \/ NoIdentity(i) \/ LeaveWizard(i)
         \/ OpenIdentity(i) \/ WriteIdentity(i) \/ IdentityFails(i) \/ WriteRecord(i) \/ RecordFails(i)
  PROVE  NoneGoesBack /\ Left(i)' < Left(i)
<1>1. UNCHANGED svc
  BY DEF Enrolled, Refusal, NoIdentity, LeaveWizard, OpenIdentity, WriteIdentity, IdentityFails, WriteRecord, RecordFails
<1>2. \/ pc[i] = "stream" /\ \E l \in {"identity", "shown", "ended"} : pc' = [pc EXCEPT ![i] = l]
      \/ pc[i] = "shown" /\ pc' = [pc EXCEPT ![i] = "identity"]
      \/ pc[i] = "identity" /\ \E l \in {"write", "ended"} : pc' = [pc EXCEPT ![i] = l]
      \/ pc[i] = "write" /\ \E l \in {"record", "ended"} : pc' = [pc EXCEPT ![i] = l]
      \/ pc[i] = "record" /\ pc' = [pc EXCEPT ![i] = "fetch"]
  BY DEF Enrolled, Refusal, NoIdentity, LeaveWizard, OpenIdentity, WriteIdentity, IdentityFails, WriteRecord, RecordFails,
     Return, Goto, At
<1>3. PICK l : pc' = [pc EXCEPT ![i] = l]
  BY <1>2
<1>4. pc'[i] = l
  BY <1>3 DEF ProgressOK
<1>5. \/ pc[i] = "stream" /\ pc'[i] \in {"identity", "shown", "ended"}
      \/ pc[i] = "shown" /\ pc'[i] = "identity"
      \/ pc[i] = "identity" /\ pc'[i] \in {"write", "ended"}
      \/ pc[i] = "write" /\ pc'[i] \in {"record", "ended"}
      \/ pc[i] = "record" /\ pc'[i] = "fetch"
  BY <1>2 DEF ProgressOK
<1>6. /\ pc'[i] = "identity" => Left(i)' = 21
      /\ pc'[i] = "shown" => Left(i)' = 22
      /\ pc'[i] = "write" => Left(i)' = 20
      /\ pc'[i] = "record" => Left(i)' = 19
      /\ pc'[i] = "ended" => Left(i)' = 0
      /\ pc'[i] = "fetch" => Left(i)' = After(svc'[i]) + 5
  BY DEF Left, Ended, Here
<1>7. After(svc'[i]) \in {0, 6, 12}
  BY DEF After
<1>8. /\ pc[i] = "stream" => Left(i) = 23
      /\ pc[i] = "shown" => Left(i) = 22
      /\ pc[i] = "identity" => Left(i) = 21
      /\ pc[i] = "write" => Left(i) = 20
      /\ pc[i] = "record" => Left(i) = 19
  BY LeftByPlace
<1>9. Left(i)' < Left(i) /\ Left(i)' \in 0..24
  BY <1>5, <1>6, <1>7, <1>8
<1> QED
  BY <1>1, <1>3, <1>9, OthersStay

\* Among the services: each step takes i to a later place of its service, to the next one, or ends it.
LEMMA ServicesMoveOn ==
  ASSUME ProgressOK, ProgressOK', NEW i \in Enr,
         \/ StepFails(i) \/ OpenBinary(i) \/ CopyBinary(i) \/ EnableUnit(i)
         \/ StartTunnel(i) \/ StartAgent(i) \/ StartCaddy(i) \/ WaitForTunnel(i)
  PROVE  NoneGoesBack /\ Left(i)' < Left(i)
<1> DEFINE serving == {"fetch", "copy", "unit", "start", "wait"}
<1>1. pc[i] \in serving
  BY DEF StepFails, OpenBinary, CopyBinary, EnableUnit, AtUnit, StartTunnel, StartAgent, StartCaddy, WaitForTunnel, At
<1>2. pc[i] \in Labels /\ svc[i] \in Services /\ pc \in [Enr -> Labels] /\ svc \in [Enr -> Services]
  BY DEF ProgressOK
<1>3. \/ /\ UNCHANGED svc
         /\ \/ pc[i] = "fetch" /\ \E l \in {"copy", "start"} : pc' = [pc EXCEPT ![i] = l]
            \/ pc[i] = "copy" /\ pc' = [pc EXCEPT ![i] = "unit"]
            \/ pc[i] = "unit" /\ pc' = [pc EXCEPT ![i] = "start"]
            \/ pc[i] = "start" /\ pc' = [pc EXCEPT ![i] = "wait"]
            \/ pc' = [pc EXCEPT ![i] = "ended"]
      \/ /\ svc[i] # "caddy" /\ pc' = [pc EXCEPT ![i] = "fetch"]
         /\ svc' = [svc EXCEPT ![i] = IF @ = "tunnel" THEN "agent" ELSE "caddy"]
  <2>1. CASE StepFails(i) \/ StartAgent(i) \/ StartCaddy(i) \/ WaitForTunnel(i)
    <3>1. Continue(i) \/ (Return(i, "error") /\ UNCHANGED svc)
      BY <2>1 DEF StepFails, StartAgent, StartCaddy, WaitForTunnel
    <3> QED
      BY <3>1 DEF Continue, Service, Return, Goto
  <2>2. CASE OpenBinary(i) \/ CopyBinary(i) \/ EnableUnit(i) \/ StartTunnel(i)
    BY <2>2 DEF OpenBinary, CopyBinary, EnableUnit, AtUnit, StartTunnel, Goto, At
  <2> QED
    BY <2>1, <2>2
<1>4. Left(i) = After(svc[i]) + Here(pc[i])
  BY <1>1, LeftByPlace
<1>5. PICK l : pc' = [pc EXCEPT ![i] = l]
  BY <1>3
<1>6. \A j \in Enr : j # i => svc'[j] = svc[j]
  BY <1>2, <1>3
<1>7. Here("fetch") = 5 /\ Here("copy") = 4 /\ Here("unit") = 3 /\ Here("start") = 2 /\ Here("wait") = 1
  BY DEF Here
<1>8. After("tunnel") = 12 /\ After("agent") = 6 /\ After("caddy") = 0
  BY DEF After
<1>9. Here(pc[i]) \in 1..5 /\ After(svc[i]) \in {0, 6, 12}
  BY <1>1, <1>2, <1>7, <1>8 DEF Services
<1>10. Left(i)' < Left(i) /\ Left(i)' \in 0..24
  <2>1. CASE pc' = [pc EXCEPT ![i] = "ended"]
    <3>1. pc'[i] = "ended"
      BY <1>2, <2>1
    <3>2. Left(i)' = 0
      BY <3>1 DEF Left, Ended
    <3> QED
      BY <1>4, <1>9, <3>2
  <2>2. CASE UNCHANGED svc /\ pc' # [pc EXCEPT ![i] = "ended"]
    <3>0. \/ pc[i] = "fetch" /\ \E m \in {"copy", "start"} : pc' = [pc EXCEPT ![i] = m]
          \/ pc[i] = "copy" /\ pc' = [pc EXCEPT ![i] = "unit"]
          \/ pc[i] = "unit" /\ pc' = [pc EXCEPT ![i] = "start"]
          \/ pc[i] = "start" /\ pc' = [pc EXCEPT ![i] = "wait"]
      <4>1. ~(svc[i] # "caddy" /\ svc' = [svc EXCEPT ![i] = IF @ = "tunnel" THEN "agent" ELSE "caddy"])
        BY <1>2, <2>2 DEF Services
      <4> QED
        BY <1>3, <2>2, <4>1
    <3>1. \/ pc[i] = "fetch" /\ pc'[i] \in {"copy", "start"}
          \/ pc[i] = "copy" /\ pc'[i] = "unit"
          \/ pc[i] = "unit" /\ pc'[i] = "start"
          \/ pc[i] = "start" /\ pc'[i] = "wait"
      BY <1>2, <3>0
    <3>2. \A m \in {"copy", "unit", "start", "wait"} : pc'[i] = m => Left(i)' = After(svc[i]) + Here(m)
      BY <2>2 DEF Left, Ended
    <3>3. Here(pc'[i]) \in 1..5 /\ Here(pc'[i]) < Here(pc[i]) /\ Left(i)' = After(svc[i]) + Here(pc'[i])
      <4>1. Left(i)' = After(svc[i]) + Here(pc'[i])
        BY <3>1, <3>2
      <4>2. Here(pc'[i]) \in 1..5 /\ Here(pc'[i]) < Here(pc[i])
        BY <1>7, <3>1
      <4> QED
        BY <4>1, <4>2
    <3> QED
      BY <1>4, <1>9, <3>3
  <2>3. CASE /\ svc[i] # "caddy" /\ pc' = [pc EXCEPT ![i] = "fetch"]
             /\ svc' = [svc EXCEPT ![i] = IF @ = "tunnel" THEN "agent" ELSE "caddy"]
    <3>1. pc'[i] = "fetch" /\ svc'[i] = IF svc[i] = "tunnel" THEN "agent" ELSE "caddy"
      BY <1>2, <2>3
    <3>2. Left(i)' = After(svc'[i]) + 5
      BY <3>1 DEF Left, Ended, Here
    <3>3. After(svc'[i]) \in Nat /\ After(svc[i]) = After(svc'[i]) + 6 /\ After(svc'[i]) <= 6
      BY <1>2, <1>8, <2>3, <3>1 DEF Services
    <3> QED
      BY <1>4, <1>9, <3>2, <3>3
  <2> QED
    BY <1>3, <2>1, <2>2, <2>3
<1> QED
  BY <1>5, <1>6, <1>10, OthersStay

\* What one step does to what is left of the enrollments.
WindsDown ==
  /\ NoneGoesBack
  /\ \A i \in Enr : Streaming(i) \/ LeaveWizard(i) \/ Installing(i) => Left(i)' < Left(i)

\* A step that moves no enrollment, or takes some away, is none of theirs.
LEMMA StepWindsDown == ProgressOK /\ ProgressOK' /\ [Next]_vars => WindsDown
<1> SUFFICES ASSUME ProgressOK, ProgressOK', [Next]_vars
             PROVE  WindsDown
  OBVIOUS
<1>1. ASSUME NEW i \in Enr, Streaming(i) \/ LeaveWizard(i) \/ Installing(i)
      PROVE  NoneGoesBack /\ Left(i)' < Left(i)
  <2>1. CASE Panics(i)
    <3>1. \E S \in SUBSET Enr : Lose(S) /\ i \in S
      BY <2>1 DEF Panics, InAgent
    <3>2. UNCHANGED svc /\ Active(i)
      BY <2>1 DEF Panics, At, Active, Ended
    <3> QED
      BY <3>1, <3>2, LostHasNothingLeft
  <2>2. CASE ~Panics(i)
    BY <1>1, <2>2, StreamMovesOn, ServicesMoveOn DEF Streaming, Installing
  <2> QED
    BY <2>1, <2>2
<1>2. NoneGoesBack
  <2>1. CASE UNCHANGED <<pc, svc>>
    <3>1. \A j \in Enr : Left(j)' = Left(j) /\ Left(j) \in 0..24
      BY <2>1, StayingKeepsLeft, LeftByPlace
    <3> QED
      BY <3>1 DEF NoneGoesBack
  <2>2. CASE \E S \in SUBSET Enr : Lose(S) /\ UNCHANGED svc
    BY <2>2, LostHasNothingLeft
  <2>3. ASSUME NEW i \in Enr, NEW s \in Sources, Begin(i, s)
        PROVE  NoneGoesBack
    <3>1. pc[i] = "none" /\ pc' = [pc EXCEPT ![i] = "stream"] /\ UNCHANGED svc
      BY <2>3 DEF Begin, At, Goto
    <3>2. Left(i) = 24
      BY <3>1, LeftByPlace
    <3>3. Left(i)' = 23
      <4>1. pc'[i] = "stream"
        BY <3>1 DEF ProgressOK
      <4> QED
        BY <4>1 DEF Left
    <3>4. Left(i)' < Left(i) /\ Left(i)' \in 0..24
      BY <3>2, <3>3
    <3> QED
      BY <3>1, <3>4, OthersStay
  <2>4. CASE \E i \in Enr : Interrupt(i)
    BY <2>2, <2>4 DEF Interrupt
  <2>5. CASE \E i \in Enr : \E event \in Events : IdentityEvent(i, event)
    BY <2>1, <2>5 DEF IdentityEvent
  <2>6. CASE (\E s \in Services : Stop(s)) \/ TunnelExits \/ AgentFails \/ Reboot
    <3>1. UNCHANGED svc
      BY <2>6 DEF Stop, TunnelExits, AgentFails, Reboot
    <3>2. (\E S \in SUBSET Enr : Lose(S)) \/ pc' = pc
      BY <2>6 DEF Stop, TunnelExits, AgentFails, Reboot, InAgent
    <3> QED
      BY <2>1, <2>2, <3>1, <3>2
  <2>7. CASE ResetBegin \/ RemoveUnits \/ RemoveFiles \/ InterruptReset \/ TunnelUp \/ AgentUp \/ UNCHANGED vars
    BY <2>1, <2>7 DEF ResetBegin, RemoveUnits, RemoveFiles, InterruptReset, TunnelUp, AgentUp, vars, progress
  <2> QED
    BY <1>1, <2>3, <2>4, <2>5, <2>6, <2>7 DEF Next, Reset, World
<1> QED
  BY <1>1, <1>2 DEF WindsDown

\* An enrollment is never taken back, by itself, another one, the reset or systemd, and each step of
\* it but a repeated identity event brings it nearer to its end, of at most 24: it cannot go round in
\* circles, whatever fails, so that it ends if it is scheduled (EnrollmentEnds) and the stream times
\* out.
THEOREM EnrollmentsWindDown == Spec => [][WindsDown]_vars
<1>1. TypeOK => ProgressOK
  BY DEF TypeOK
<1> QED
  BY <1>1, StepWindsDown, TypeCorrect, PTL DEF Spec

-----------------------------------------------------------------------------
\* A success was granted.

\* An enrollment returns success only where the server accepted it.
SuccessGranted == \A i \in Enr : Succeeded(i) => Accepted(i) /\ pc[i] = "ended"

\* A step reports success only for an enrollment that installs, and no verdict is changed of one
\* that has ended.
LEMMA GrantStep ==
  ASSUME ProgressOK, AcceptedInv, SuccessGranted, Outcomes, [Next]_vars
  PROVE  SuccessGranted'
<1> USE DEF SuccessGranted, Succeeded
<1>1. CASE UNCHANGED <<pc, got, refused, outcome>>
  BY <1>1 DEF Accepted
<1>2. CASE UNCHANGED <<got, refused, outcome>> /\ \A j \in Enr : pc'[j] = pc[j] \/ pc[j] # "ended"
  BY <1>2 DEF Accepted
<1>3. CASE \E S \in SUBSET Enr : Lose(S) /\ UNCHANGED <<got, refused, outcome>>
  <2>1. \A j \in Enr : pc'[j] = pc[j] \/ pc[j] # "ended"
    BY <1>3 DEF Lose, Active, Ended
  <2> QED
    BY <1>2, <1>3, <2>1
<1>4. ASSUME NEW i \in Enr, NEW o \in {"error", "success"}, Return(i, o), pc[i] # "ended", UNCHANGED <<got, refused>>,
             o = "success" => Installs(i)
      PROVE  SuccessGranted'
  <2>1. \A j \in Enr : /\ outcome'[j] = IF j = i THEN o ELSE outcome[j]
                       /\ pc'[j] = IF j = i THEN "ended" ELSE pc[j]
    BY <1>4 DEF Return, Goto, ProgressOK
  <2>2. o = "success" => Accepted(i)
    BY <1>4 DEF AcceptedInv
  <2> QED
    BY <1>4, <2>1, <2>2 DEF Accepted
<1>5. ASSUME NEW i \in Enr, pc[i] # "ended",
             \A j \in Enr : j # i => pc'[j] = pc[j] /\ outcome'[j] = outcome[j] /\ got'[j] = got[j] /\ (j \in refused' <=> j \in refused),
             outcome'[i] # "success"
      PROVE  SuccessGranted'
  BY <1>5 DEF Accepted
<1>6. ASSUME NEW i \in Enr, NEW s \in Sources, Begin(i, s)
      PROVE  SuccessGranted'
  <2>1. \A j \in Enr : pc'[j] = pc[j] \/ pc[j] # "ended"
    BY <1>6 DEF Begin, At, Goto, ProgressOK
  <2>2. UNCHANGED <<got, refused, outcome>>
    BY <1>6 DEF Begin
  <2> QED
    BY <1>2, <2>1, <2>2
<1>7. ASSUME NEW i \in Enr, StepOf(i)
      PROVE  SuccessGranted'
  <2>0. pc[i] # "ended" /\ outcome[i] = "none"
    BY <1>7, StepMoves DEF Active, Ended, Outcomes, ProgressOK
  <2>1. CASE \E event \in Events : IdentityEvent(i, event)
    <3>1. UNCHANGED <<pc, refused, outcome>> /\ \A j \in Enr : j # i => got'[j] = got[j]
      BY <2>1 DEF IdentityEvent, ProgressOK
    <3> QED
      BY <1>5, <2>0, <3>1
  <2>2. CASE Refusal(i)
    <3>1. /\ got' = got /\ refused' = refused \cup {i}
          /\ pc' = [pc EXCEPT ![i] = "ended"] /\ outcome' = [outcome EXCEPT ![i] = "error"]
      BY <2>2 DEF Refusal, Return, Goto
    <3> QED
      BY <1>5, <2>0, <3>1 DEF ProgressOK
  <2>3. CASE NoIdentity(i) \/ IdentityFails(i)
    BY <1>4, <2>0, <2>3 DEF NoIdentity, IdentityFails
  <2>4. CASE \E l \in Labels : Goto(i, l) /\ UNCHANGED <<got, refused, outcome>>
    <3>1. \A j \in Enr : pc'[j] = pc[j] \/ pc[j] # "ended"
      BY <2>0, <2>4 DEF Goto, ProgressOK
    <3> QED
      BY <1>2, <2>4, <3>1
  <2>5. CASE \/ \E next \in {"identity", "shown"} : Enrolled(i, next)
             \/ LeaveWizard(i) \/ OpenIdentity(i) \/ WriteIdentity(i) \/ WriteRecord(i) \/ RecordFails(i)
             \/ OpenBinary(i) \/ CopyBinary(i) \/ EnableUnit(i) \/ StartTunnel(i)
    BY <2>4, <2>5 DEF Enrolled, LeaveWizard, OpenIdentity, WriteIdentity, WriteRecord, RecordFails, OpenBinary,
       CopyBinary, EnableUnit, StartTunnel, Labels
  <2>6. CASE StepFails(i) \/ StartAgent(i) \/ StartCaddy(i) \/ WaitForTunnel(i)
    <3>1. Continue(i) \/ (Return(i, "error") /\ UNCHANGED svc)
      BY <2>6 DEF StepFails, StartAgent, StartCaddy, WaitForTunnel
    <3>2. UNCHANGED <<got, refused>> /\ Installs(i)
      BY <2>6 DEF StepFails, StartAgent, StartCaddy, WaitForTunnel, At, Installs
    <3>3. CASE Goto(i, "fetch") /\ UNCHANGED outcome
      BY <2>4, <3>2, <3>3 DEF Labels
    <3> QED
      BY <1>4, <2>0, <3>1, <3>2, <3>3 DEF Continue
  <2>7. CASE Panics(i) \/ Interrupt(i)
    BY <1>3, <2>7 DEF Panics, Interrupt, InAgent
  <2> QED
    BY <1>7, <2>1, <2>2, <2>3, <2>5, <2>6, <2>7 DEF StepOf
<1>8. CASE (\E s \in Services : Stop(s)) \/ TunnelExits \/ AgentFails \/ Reboot
  <2>1. UNCHANGED <<got, refused, outcome>>
    BY <1>8 DEF Stop, TunnelExits, AgentFails, Reboot
  <2>2. (\E S \in SUBSET Enr : Lose(S)) \/ pc' = pc
    BY <1>8 DEF Stop, TunnelExits, AgentFails, Reboot, InAgent
  <2> QED
    BY <1>1, <1>3, <2>1, <2>2
<1>9. CASE ResetBegin \/ RemoveUnits \/ RemoveFiles \/ InterruptReset \/ TunnelUp \/ AgentUp \/ UNCHANGED vars
  BY <1>1, <1>9 DEF ResetBegin, RemoveUnits, RemoveFiles, InterruptReset, TunnelUp, AgentUp, vars, progress
<1> QED
  BY <1>6, <1>7, <1>8, <1>9, StepCases DEF StepOf

\* An enrollment that reports success was granted an identity under a name, and the server did not take
\* it back, although it may send a refusal after the identity.  Whether the rest of the identity event
\* could be read the command does not look at, and success does not say.
THEOREM SuccessWasGranted == Spec => []SuccessGranted
<1>1. TypeOK => ProgressOK
  BY DEF TypeOK
<1>2. Init => AcceptedInv /\ SuccessGranted /\ Outcomes
  BY AcceptedInit DEF Init, SuccessGranted, Succeeded, Outcomes
<1>3. ProgressOK /\ AcceptedInv /\ SuccessGranted /\ Outcomes /\ [Next]_vars => AcceptedInv' /\ SuccessGranted' /\ Outcomes'
  BY AcceptedStep, GrantStep, OutcomesStep
<1> QED
  BY <1>1, <1>2, <1>3, TypeCorrect, PTL DEF Spec
==============================================================================
