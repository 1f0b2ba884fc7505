-------------------------- MODULE Bootstrap_proofs --------------------------
(***************************************************************************)
(* Proofs about Bootstrap, for both roles of a node, both modes, and any   *)
(* number of failures of the installer and restarts of the machine.        *)
(***************************************************************************)
EXTENDS Bootstrap, TLAPS

\* While a run is under way every applicable step before the current one is done; an
\* operation belongs to a step that applies and is not done yet.
InStep == pc \notin {"stopped", "complete", "loop"}
Order ==
  /\ done \subseteq Applies
  /\ pos \in 1..15
  /\ Running => \A j \in 1..(pos - 1) : StepNames[j] \in Applies => StepNames[j] \in done
  /\ InStep => pos \in 1..14 /\ StepNames[pos] \in Applies \ done

LEMMA StepCount == Len(StepNames) = 14 /\ DOMAIN StepNames = 1..14
  BY DEF StepNames

\* The kind of the node does not change while it is installed, and so neither does the list
\* of the steps that apply.
LEMMA KindKept ==
  ASSUME [Next]_vars
  PROVE  node' = node /\ Applies' = Applies /\ JoinMode' = JoinMode /\ TestMode' = TestMode
<1>. SUFFICES node' = node
  BY DEF Applies, JoinMode, TestMode
<1>1. CASE Start \/ Engine
  BY <1>1 DEF Start, Engine, PassOver, Begin, Sentinel, Finish, Fail, outside
<1>2. CASE Fault \/ OperatorCopiesPKI \/ OperatorCreatesAdmin \/ UNCHANGED vars
  BY <1>2 DEF Fault, Abort, DownloadCut, Reboot, OperatorCopiesPKI, OperatorCreatesAdmin, outside, vars
<1>3. CASE Operation
  BY <1>3 DEF Operation, Then, Advance, Preflight, AlreadyDownloaded, Download, PKIGenerate, PKIFile,
     PKIFromLeader, BaoWipe, BaoRestart, BaoSetup, BaoUnseal, BaoSave, RaftJoin, KVPut, CaddyToken,
     ACLSkipped, ACLRole, ACLCert, ZitiStart, Schmutz, Identities, FabricSkipped, FabricLogin,
     FabricCreate, Verify, outside
<1>. QED
  BY <1>1, <1>2, <1>3 DEF Next

\* An operation leaves the engine's state alone: that of Install's loop and the sentinels.
LEMMA OperationInStep ==
  ASSUME Operation
  PROVE  InStep /\ pos' = pos /\ done' = done
  BY DEF Operation, At, Then, Advance, InStep, Preflight, AlreadyDownloaded, Download, PKIGenerate,
     PKIFile, PKIFromLeader, BaoWipe, BaoRestart, BaoSetup, BaoUnseal, BaoSave, RaftJoin, KVPut,
     CaddyToken, ACLSkipped, ACLRole, ACLCert, ZitiStart, Schmutz, Identities, FabricSkipped,
     FabricLogin, FabricCreate, Verify

\* What the other actions do to that state.
LEMMA OtherSteps ==
  ASSUME [Next]_vars
  PROVE  \/ Operation
         \/ (pc = "loop" /\ pos <= 14 /\ StepNames[pos] \notin Applies \ done
               /\ pc' = pc /\ pos' = pos + 1 /\ done' = done)
         \/ (pc = "loop" /\ pos <= 14 /\ StepNames[pos] \in Applies \ done /\ pos' = pos /\ done' = done)
         \/ (pc = "sentinel" /\ pc' = "loop" /\ pos' = pos + 1 /\ done' = done \cup {StepNames[pos]})
         \/ (~Running /\ pc' = "loop" /\ pos' = 1 /\ done' = done)
         \/ (pc' \in {"stopped", "complete"} /\ pos' = pos /\ done' = done)
         \/ (pc' = pc /\ pos' = pos /\ done' = done)
<1>1. CASE Operation
  BY <1>1
<1>2. CASE Start \/ Fault
  BY <1>2 DEF Start, Fault, Abort, DownloadCut, Reboot, Running
<1>3. CASE Engine
  BY <1>3, StepCount DEF Engine, PassOver, Begin, Sentinel, Finish, Fail, Pending
<1>4. CASE OperatorCopiesPKI \/ OperatorCreatesAdmin \/ UNCHANGED vars
  BY <1>4 DEF OperatorCopiesPKI, OperatorCreatesAdmin, vars, process
<1>. QED
  BY <1>1, <1>2, <1>3, <1>4 DEF Next

LEMMA OrderInit == Init => Order
  BY StepCount DEF Init, Order, Running, InStep

LEMMA OrderNext == Order /\ [Next]_vars => Order'
<1>. SUFFICES ASSUME Order, [Next]_vars PROVE Order'
  OBVIOUS
<1>. Applies' = Applies /\ node' = node /\ TestMode' = TestMode
  BY KindKept
<1>1. CASE Operation
  BY <1>1, OperationInStep DEF Order, Running, InStep
<1>2. CASE pc = "loop" /\ pos <= 14 /\ StepNames[pos] \notin Applies \ done
             /\ pc' = pc /\ pos' = pos + 1 /\ done' = done
  BY <1>2 DEF Order, Running, InStep
<1>3. CASE pc = "loop" /\ pos <= 14 /\ StepNames[pos] \in Applies \ done /\ pos' = pos /\ done' = done
  BY <1>3 DEF Order, Running, InStep
<1>4. CASE pc = "sentinel" /\ pc' = "loop" /\ pos' = pos + 1 /\ done' = done \cup {StepNames[pos]}
  BY <1>4 DEF Order, Running, InStep
<1>5. CASE ~Running /\ pc' = "loop" /\ pos' = 1 /\ done' = done
  BY <1>5 DEF Order, Running, InStep
<1>6. CASE pc' \in {"stopped", "complete"} /\ pos' = pos /\ done' = done
  BY <1>6 DEF Order, Running, InStep
<1>7. CASE pc' = pc /\ pos' = pos /\ done' = done
  BY <1>7 DEF Order, Running, InStep
<1>. QED
  BY <1>1, <1>2, <1>3, <1>4, <1>5, <1>6, <1>7, OtherSteps

\* While a run is under way every applicable step before the current one is done, and no
\* completed step is under way: what Install's loop relies on after any interruption.
THEOREM OrderKept == Spec => []Order
  BY OrderInit, OrderNext, PTL DEF Spec

\* Install with its sentinel files implements the abstract step list: the steps are completed
\* in the order of the list, each once, and never undone.
THEOREM StepsCompletedInOrder == Spec => ImplementsStepList
<1>1. Init => Steps!Init
  BY DEF Init, Steps!Init
<1>2. Order /\ [Next]_vars => [Steps!Next]_<<Applies, done>>
  <2>. SUFFICES ASSUME Order, [Next]_vars, done' # done PROVE Steps!Next
    BY KindKept DEF Steps!Next
  <2>. Applies' = Applies
    BY KindKept
  <2>1. pc = "sentinel" /\ done' = done \cup {StepNames[pos]}
    BY OtherSteps, OperationInStep
  <2>2. pos \in DOMAIN StepNames /\ StepNames[pos] \in Applies \ done /\ Steps!ReachedInOrder(pos)
    BY <2>1, StepCount DEF Order, InStep, Running, Steps!ReachedInOrder
  <2>. QED
    BY <2>1, <2>2 DEF Steps!Next, Steps!Complete
<1>. QED
  BY <1>1, <1>2, OrderKept, PTL DEF Spec, ImplementsStepList, Steps!Spec

-----------------------------------------------------------------------------
\* Types.

LEMMA ListLengths ==
  /\ Len(Binaries) \in 1..9 /\ Len(PKIFiles) \in 1..9 /\ Len(KVPaths) \in 1..9 /\ Len(FabricObjects) = 9
  /\ \A i \in 1..Len(Binaries) : Binaries[i] \in {"ziti", "caddy", "bao", "schmutz-controller"}
  /\ \A i \in 1..Len(PKIFiles) : PKIFiles[i] \in JoinFiles \cup {"ca-bundle.pem"}
  /\ \A i \in 1..Len(KVPaths) : KVPaths[i] \in {"bao/init", "ziti/admin", "pki/ca"}
<1>1. CASE TestMode
  BY <1>1 DEF Binaries, PKIFiles, KVPaths, FabricObjects, JoinFiles
<1>2. CASE ~TestMode
  BY <1>2 DEF Binaries, PKIFiles, KVPaths, FabricObjects, JoinFiles
<1>. QED
  BY <1>1, <1>2

LEMMA AdvanceMoves ==
  ASSUME NEW list, NEW n \in 1..9, n = Len(list), NEW l \in Labels, EngineOK, Advance(list, l)
  PROVE  /\ pc' = pc \/ pc' \in Labels
         /\ item' = 1 \/ item' = item \/ (item < 9 /\ item' = item + 1)
         /\ aborts' = aborts /\ reboots' = reboots
<1>1. IF item < n THEN item' = item + 1 /\ UNCHANGED <<pc, pos, done, outside>> ELSE Then(l)
  BY DEF Advance
<1>. QED
  BY <1>1 DEF EngineOK, Then, outside

\* Where an operation goes: to a label of its own, and to a position inside its list.
LEMMA OperationMoves ==
  ASSUME Operation, EngineOK
  PROVE  /\ pc' = pc \/ pc' \in Labels
         /\ item' = 1 \/ item' = item \/ (item < 9 /\ item' = item + 1)
         /\ aborts' = aborts /\ reboots' = reboots
<1>. USE DEF EngineOK, Labels, Then, outside
<1>1. CASE AlreadyDownloaded \/ \E state \in {"whole", "partial", "absent"} : Download(state)
  <2>1. Advance(Binaries, "sentinel")
    BY <1>1 DEF AlreadyDownloaded, Download
  <2>. QED
    BY <2>1, AdvanceMoves, ListLengths
<1>2. CASE PKIFile \/ KVPut \/ FabricCreate
  <2>1. Advance(PKIFiles, "sentinel") \/ Advance(KVPaths, "caddy-token") \/ Advance(FabricObjects, "sentinel")
    BY <1>2 DEF PKIFile, KVPut, FabricCreate
  <2>. QED
    BY <2>1, AdvanceMoves, ListLengths
<1>3. CASE Preflight \/ PKIGenerate \/ PKIFromLeader \/ ZitiStart \/ Schmutz \/ Identities \/ Verify
  BY <1>3 DEF Preflight, PKIGenerate, PKIFromLeader, ZitiStart, Schmutz, Identities, Verify
<1>4. CASE BaoWipe \/ BaoRestart \/ BaoSetup \/ BaoUnseal \/ BaoSave \/ RaftJoin
  BY <1>4 DEF BaoWipe, BaoRestart, BaoSetup, BaoUnseal, BaoSave, RaftJoin
<1>5. CASE CaddyToken \/ ACLSkipped \/ ACLRole \/ ACLCert \/ FabricSkipped \/ FabricLogin
  BY <1>5 DEF CaddyToken, ACLSkipped, ACLRole, ACLCert, FabricSkipped, FabricLogin
<1>. QED
  BY <1>1, <1>2, <1>3, <1>4, <1>5 DEF Operation

LEMMA EngineTyped == EngineOK /\ Order /\ [Next]_vars => EngineOK'
<1>. SUFFICES ASSUME EngineOK, Order, [Next]_vars PROVE EngineOK'
  OBVIOUS
<1>. Applies' = Applies /\ node' = node /\ TestMode' = TestMode
  BY KindKept
<1>. USE BootstrapAssumption DEF EngineOK
<1>1. CASE Operation
  BY <1>1, OperationMoves, OperationInStep
<1>2. CASE Engine
  BY <1>2, StepCount DEF Engine, PassOver, Begin, Sentinel, Finish, Fail, Pending, Order, InStep, Labels, outside
<1>3. CASE Start \/ Fault
  BY <1>3 DEF Start, Fault, Abort, DownloadCut, Reboot, Labels, outside
<1>4. CASE OperatorCopiesPKI \/ OperatorCreatesAdmin \/ UNCHANGED vars
  BY <1>4 DEF OperatorCopiesPKI, OperatorCreatesAdmin, vars, process, outside
<1>. QED
  BY <1>1, <1>2, <1>3, <1>4 DEF Next

\* The actions that leave a part of the state alone.
LEMMA NumbersChange ==
  ASSUME [Next]_vars
  PROVE  \/ UNCHANGED <<freshKey, initFile, roleFile, vaults, vault>>
         \/ Start \/ Reboot \/ BaoWipe \/ BaoRestart \/ BaoSetup \/ BaoUnseal \/ BaoSave \/ RaftJoin \/ ACLRole
<1>1. CASE Start \/ Fault
  BY <1>1 DEF Fault, Abort, DownloadCut, KeepOther, files, services, bao
<1>2. CASE Engine
  BY <1>2 DEF Engine, PassOver, Begin, Sentinel, Finish, Fail, files, services, bao
<1>3. CASE OperatorCopiesPKI \/ OperatorCreatesAdmin \/ UNCHANGED vars
  BY <1>3 DEF OperatorCopiesPKI, OperatorCreatesAdmin, vars, process, files, services, bao
<1>4. CASE Operation
  BY <1>4 DEF Operation, Preflight, AlreadyDownloaded, Download, KeepOther, PKIGenerate, PKIFile,
     PKIFromLeader, KVPut, CaddyToken, ACLSkipped, ACLCert, ZitiStart, Schmutz, Identities,
     FabricSkipped, FabricLogin, FabricCreate, Verify, files, services, bao
<1>. QED
  BY <1>1, <1>2, <1>3, <1>4 DEF Next

LEMMA NumbersTyped == NumbersOK /\ ServicesOK /\ [Next]_vars => NumbersOK'
<1>. SUFFICES ASSUME NumbersOK, ServicesOK, [Next]_vars PROVE NumbersOK'
  OBVIOUS
<1>. USE DEF NumbersOK, ServicesOK
<1>1. CASE UNCHANGED <<freshKey, initFile, roleFile, vaults, vault>>
  BY <1>1
<1>2. CASE Start
  BY <1>2 DEF Start, files, services, bao
<1>3. CASE BaoWipe
  BY <1>3 DEF BaoWipe, files
<1>4. CASE BaoSave \/ ACLRole
  BY <1>4 DEF BaoSave, ACLRole, services, bao
<1>5. CASE Reboot \/ BaoRestart \/ BaoUnseal \/ RaftJoin
  BY <1>5 DEF Reboot, BaoRestart, BaoUnseal, RaftJoin, files
<1>6. CASE BaoSetup
  BY <1>6 DEF BaoSetup, files
<1>. QED
  BY <1>1, <1>2, <1>3, <1>4, <1>5, <1>6, NumbersChange

LEMMA FilesTyped == FilesOK /\ [Next]_vars => FilesOK'
<1>. SUFFICES ASSUME FilesOK, [Next]_vars PROVE FilesOK'
  OBVIOUS
<1>. USE DEF FilesOK
<1>1. CASE Start \/ Engine
  BY <1>1 DEF Start, Engine, PassOver, Begin, Sentinel, Finish, Fail, files
<1>2. CASE Abort \/ Reboot \/ OperatorCreatesAdmin \/ UNCHANGED vars
  BY <1>2 DEF Abort, Reboot, OperatorCreatesAdmin, process, files, vars
<1>3. CASE DownloadCut \/ AlreadyDownloaded \/ \E state \in {"whole", "partial", "absent"} : Download(state)
  BY <1>3 DEF DownloadCut, AlreadyDownloaded, Download, KeepOther
<1>4. CASE PKIGenerate \/ PKIFile
  BY <1>4 DEF PKIGenerate, PKIFile
<1>5. CASE OperatorCopiesPKI
  BY <1>5 DEF OperatorCopiesPKI, process
<1>6. CASE Preflight \/ PKIFromLeader \/ BaoWipe \/ BaoRestart \/ BaoSetup \/ BaoUnseal \/ BaoSave \/ RaftJoin
  BY <1>6 DEF Preflight, PKIFromLeader, BaoWipe, BaoRestart, BaoSetup, BaoUnseal, BaoSave, RaftJoin, files
<1>7. CASE KVPut \/ CaddyToken \/ ACLSkipped \/ ACLRole \/ ACLCert \/ ZitiStart \/ Schmutz \/ Identities
             \/ FabricSkipped \/ FabricLogin \/ FabricCreate \/ Verify
  BY <1>7 DEF KVPut, CaddyToken, ACLSkipped, ACLRole, ACLCert, ZitiStart, Schmutz, Identities,
     FabricSkipped, FabricLogin, FabricCreate, Verify, files
<1>. QED
  BY <1>1, <1>2, <1>3, <1>4, <1>5, <1>6, <1>7 DEF Next, Operation, Fault

\* store-creds stays inside its list of paths, and download inside its list of binaries.
Items ==
  /\ pc = "store-creds" => item \in 1..3
  /\ pc = "download" => item \in 1..Len(Binaries)

LEMMA ItemsKept == Items /\ EngineOK /\ [Next]_vars => Items'
<1>. SUFFICES ASSUME Items, EngineOK, [Next]_vars PROVE Items'
  OBVIOUS
<1>. Len(Binaries)' = Len(Binaries)
  BY KindKept DEF Binaries
<1>. Len(Binaries) \in 1..9
  BY ListLengths
<1>. USE DEF Items
<1>1. CASE KVPut
  <2>1. CASE item < 3
    BY <1>1, <2>1 DEF KVPut, Advance, KVPaths, Then, EngineOK, At
  <2>2. CASE ~(item < 3)
    BY <1>1, <2>2 DEF KVPut, Advance, KVPaths, Then, EngineOK
  <2>. QED
    BY <2>1, <2>2
<1>2. CASE Start \/ Engine
  BY <1>2 DEF Start, Engine, PassOver, Begin, Sentinel, Finish, Fail
<1>3. CASE Fault \/ OperatorCopiesPKI \/ OperatorCreatesAdmin \/ UNCHANGED vars
  BY <1>3 DEF Fault, Abort, DownloadCut, Reboot, OperatorCopiesPKI, OperatorCreatesAdmin, process, vars
<1>4. CASE AlreadyDownloaded \/ \E state \in {"whole", "partial", "absent"} : Download(state)
  <2>1. pc = "download" /\ Advance(Binaries, "sentinel")
    BY <1>4 DEF AlreadyDownloaded, Download, At
  <2>. QED
    BY <2>1 DEF Advance, Then
<1>5. CASE PKIFile \/ FabricCreate
  BY <1>5 DEF PKIFile, FabricCreate, At, Advance, Then
<1>6. CASE Preflight \/ PKIGenerate \/ PKIFromLeader \/ BaoWipe \/ BaoRestart \/ BaoSetup \/ BaoUnseal
             \/ BaoSave \/ RaftJoin
  BY <1>6 DEF Preflight, PKIGenerate, PKIFromLeader, BaoWipe, BaoRestart, BaoSetup, BaoUnseal,
     BaoSave, RaftJoin, Then
<1>7. CASE CaddyToken \/ ACLSkipped \/ ACLRole \/ ACLCert \/ ZitiStart \/ Schmutz \/ Identities
             \/ FabricSkipped \/ FabricLogin \/ Verify
  BY <1>7 DEF CaddyToken, ACLSkipped, ACLRole, ACLCert, ZitiStart, Schmutz, Identities,
     FabricSkipped, FabricLogin, Verify, Then
<1>. QED
  BY <1>1, <1>2, <1>3, <1>4, <1>5, <1>6, <1>7 DEF Next, Operation

LEMMA ServicesTyped == ServicesOK /\ FilesOK /\ NumbersOK /\ EngineOK /\ Items /\ [Next]_vars => ServicesOK'
<1>. SUFFICES ASSUME ServicesOK, FilesOK, NumbersOK, EngineOK, Items, [Next]_vars PROVE ServicesOK'
  OBVIOUS
<1>. USE DEF ServicesOK
<1>1. CASE Start \/ Engine
  BY <1>1 DEF Start, Engine, PassOver, Begin, Sentinel, Finish, Fail, services, bao
<1>2. CASE Abort \/ DownloadCut \/ OperatorCopiesPKI \/ UNCHANGED vars
  BY <1>2 DEF Abort, DownloadCut, KeepOther, OperatorCopiesPKI, services, bao, vars
<1>3. CASE Preflight \/ PKIGenerate \/ PKIFile \/ PKIFromLeader \/ BaoSave \/ CaddyToken \/ ACLSkipped
             \/ ACLRole \/ Identities \/ FabricSkipped \/ FabricLogin \/ Verify
  BY <1>3 DEF Preflight, PKIGenerate, PKIFile, PKIFromLeader, BaoSave, CaddyToken, ACLSkipped,
     ACLRole, Identities, FabricSkipped, FabricLogin, Verify, services, bao
<1>4. CASE AlreadyDownloaded \/ \E state \in {"whole", "partial", "absent"} : Download(state)
  BY <1>4 DEF AlreadyDownloaded, Download, KeepOther, services, bao
<1>5. CASE Reboot \/ BaoRestart \/ BaoUnseal \/ RaftJoin
  BY <1>5 DEF Reboot, BaoRestart, BaoUnseal, RaftJoin
<1>6. CASE BaoWipe
  BY <1>6 DEF BaoWipe, NoSecrets
<1>7. CASE BaoSetup
  BY <1>7 DEF BaoSetup, NumbersOK
<1>8. CASE KVPut
  <2>1. KVPaths[item] \in {"bao/init", "ziti/admin", "pki/ca"}
    BY <1>8 DEF KVPut, At, Items, KVPaths
  <2>2. <<etcPki["ca-bundle.pem"], etcPki["server.crt"]>> \in Nat \X Nat
    BY DEF FilesOK, JoinFiles
  <2>. QED
    BY <1>8, <2>1, <2>2 DEF KVPut, BaoRootToken, bao
<1>9. CASE ACLCert
  BY <1>9 DEF ACLCert, FilesOK, JoinFiles
<1>10. CASE OperatorCreatesAdmin \/ ZitiStart \/ Schmutz
  BY <1>10 DEF OperatorCreatesAdmin, ZitiStart, Schmutz, bao
<1>11. CASE FabricCreate
  <2>1. FabricObjects[item] \in {FabricObjects[i] : i \in DOMAIN FabricObjects}
    BY DEF EngineOK, FabricObjects
  <2>. QED
    BY <1>11, <2>1 DEF FabricCreate, bao
<1>. QED
  BY <1>1, <1>2, <1>3, <1>4, <1>5, <1>6, <1>7, <1>8, <1>9, <1>10, <1>11 DEF Next, Operation, Fault

\* The type invariant, for every number of failures and restarts.
THEOREM TypeCorrect == Spec => []TypeOK
<1>1. Init => TypeOK /\ Items
  <2>. SUFFICES ASSUME Init PROVE TypeOK /\ Items
    OBVIOUS
  <2>. USE DEF Init
  <2>1. EngineOK /\ Items
    BY BootstrapAssumption DEF EngineOK, Items, Labels
  <2>2. NumbersOK
    BY DEF NumbersOK
  <2>3. FilesOK
    BY DEF FilesOK
  <2>4. ServicesOK
    BY DEF ServicesOK, NoSecrets
  <2>. QED
    BY <2>1, <2>2, <2>3, <2>4 DEF TypeOK
<1>2. TypeOK /\ Items /\ Order /\ [Next]_vars => (TypeOK /\ Items)'
  BY EngineTyped, NumbersTyped, FilesTyped, ServicesTyped, ItemsKept DEF TypeOK
<1>. QED
  BY <1>1, <1>2, OrderKept, PTL DEF Spec

-----------------------------------------------------------------------------
\* The vault and its credentials.

\* The step an operation belongs to.
Place ==
  /\ pc \in Applies => pc = StepNames[pos]
  /\ pc = "bao-restart" => StepNames[pos] \in {"bao-init", "bao-join"}
  /\ pc \in {"bao-setup", "bao-unseal", "bao-save"} => StepNames[pos] = "bao-init"
  /\ pc = "raft-join" => StepNames[pos] = "bao-join"
  /\ pc = "acl-cert" => StepNames[pos] = "acl"
  /\ pc = "pki-files" => StepNames[pos] = "pki"
  /\ pc = "caddy-token" => StepNames[pos] = "store-creds"
  /\ pc = "fabric-objects" => StepNames[pos] = "fabric"

LEMMA Roles ==
  /\ JoinMode => {"bao-init", "acl", "pki", "store-creds"} \cap Applies = {}
  /\ ~JoinMode => "bao-join" \notin Applies /\ {"bao-init", "pki", "acl"} \subseteq Applies
  /\ Applies \cap {"stopped", "complete", "loop", "sentinel", "pki-files", "bao-restart", "bao-setup",
           "bao-unseal", "bao-save", "raft-join", "caddy-token", "acl-cert", "fabric-objects"} = {}
<1>1. CASE JoinMode
  BY <1>1 DEF Applies, LeaderOnly, JoinOnly, StepNames
<1>2. CASE ~JoinMode
  BY <1>2 DEF Applies, LeaderOnly, JoinOnly, StepNames
<1>. QED
  BY <1>1, <1>2

LEMMA PlaceKept == Place /\ EngineOK /\ Order /\ [Next]_vars => Place'
<1>. SUFFICES ASSUME Place, EngineOK, Order, [Next]_vars PROVE Place'
  OBVIOUS
<1>. Applies' = Applies /\ node' = node /\ TestMode' = TestMode
  BY KindKept
<1>. USE Roles DEF Place
<1>1. CASE Start \/ PassOver \/ Sentinel \/ Finish \/ Fail
  BY <1>1 DEF Start, PassOver, Sentinel, Finish, Fail
<1>2. CASE Begin
  BY <1>2 DEF Begin, Pending
<1>3. CASE Fault \/ OperatorCopiesPKI \/ OperatorCreatesAdmin \/ UNCHANGED vars
  BY <1>3 DEF Fault, Abort, DownloadCut, Reboot, OperatorCopiesPKI, OperatorCreatesAdmin, process, vars
<1>4. CASE AlreadyDownloaded \/ \E state \in {"whole", "partial", "absent"} : Download(state)
  BY <1>4 DEF AlreadyDownloaded, Download, At, Advance, Then
<1>5. CASE PKIFile \/ KVPut \/ FabricCreate
  BY <1>5 DEF PKIFile, KVPut, FabricCreate, At, Advance, Then, EngineOK, Labels
<1>6. CASE Preflight \/ PKIGenerate \/ PKIFromLeader \/ BaoUnseal \/ BaoSave \/ RaftJoin
  BY <1>6 DEF Preflight, PKIGenerate, PKIFromLeader, BaoUnseal, BaoSave, RaftJoin, At, Then, EngineOK, Labels
<1>7. CASE BaoWipe \/ BaoRestart \/ BaoSetup
  BY <1>7 DEF BaoWipe, BaoRestart, BaoSetup, At, Then, EngineOK, Labels, Order, InStep
<1>8. CASE CaddyToken \/ ACLSkipped \/ ACLRole \/ ACLCert \/ ZitiStart \/ Schmutz \/ Identities
             \/ FabricSkipped \/ FabricLogin \/ Verify
  BY <1>8 DEF CaddyToken, ACLSkipped, ACLRole, ACLCert, ZitiStart, Schmutz, Identities,
     FabricSkipped, FabricLogin, Verify, At, Then, EngineOK, Labels
<1>. QED
  BY <1>1, <1>2, <1>3, <1>4, <1>5, <1>6, <1>7, <1>8 DEF Next, Engine, Operation

\* CredsMatchVault says nothing of the time between sys/init and the sentinel.  While
\* bao-init is under way the vault is empty up to BaoSetup, then the key in memory is its key.
VaultInv ==
  /\ "bao-init" \in done => vault.gen # 0 /\ initFile = vault.gen
  /\ "acl" \in done => "bao-init" \in done
  /\ "acl" \in done /\ ~TestMode => roleFile = vault.gen
  /\ pc \in {"bao-restart", "bao-setup"} => vault.gen = 0
  /\ pc \in {"bao-unseal", "bao-save"} => freshKey = vault.gen /\ vault.gen # 0
  /\ pc = "sentinel" /\ StepNames[pos] = "bao-init" => vault.gen # 0 /\ initFile = vault.gen
  /\ pc = "acl-cert" => roleFile = vault.gen
  /\ pc = "sentinel" /\ StepNames[pos] = "acl" /\ ~TestMode => roleFile = vault.gen

\* An action outside bao-init, bao-join and acl leaves what VaultInv speaks of alone.
LEMMA VaultUntouched ==
  ASSUME VaultInv, Place, EngineOK, Order,
         UNCHANGED <<initFile, roleFile, vault>>, TestMode' = TestMode,
         \/ pc' \in {"stopped", "complete", "loop"} /\ done' = done
         \/ pc' \in Applies /\ done' = done
         \/ InStep /\ pos' = pos /\ done' = done /\ freshKey' = freshKey
              /\ StepNames[pos] \notin {"bao-init", "bao-join", "acl"}
              /\ pc' \notin {"bao-restart", "bao-setup", "bao-unseal", "bao-save", "acl-cert"}
  PROVE  VaultInv'
  BY Roles DEF VaultInv

\* While bao-init or bao-join is under way none of the steps that rely on the vault is done.
LEMMA VaultStepUnderWay ==
  ASSUME VaultInv, Place, EngineOK, Order,
         pc \in {"bao-init", "bao-join", "bao-restart", "bao-setup", "bao-unseal", "bao-save", "raft-join"}
  PROVE  {"bao-init", "bao-join", "acl"} \cap done = {}
<1>1. StepNames[pos] \in {"bao-init", "bao-join"}
  BY DEF Place, EngineOK, Labels
<1>2. StepNames[pos] \in Applies \ done
  BY DEF Order, InStep
<1>. QED
  BY <1>1, <1>2, Roles DEF VaultInv, Order

LEMMA VaultInvKept == VaultInv /\ Place /\ TypeOK /\ Order /\ [Next]_vars => VaultInv'
<1>. SUFFICES ASSUME VaultInv, Place, TypeOK, Order, [Next]_vars PROVE VaultInv'
  OBVIOUS
<1>. Applies' = Applies /\ node' = node /\ TestMode' = TestMode
  BY KindKept
<1>. EngineOK /\ NumbersOK /\ ServicesOK
  BY DEF TypeOK
<1>1. CASE Start \/ PassOver \/ Begin \/ Finish \/ Fail
  BY <1>1, VaultUntouched DEF Start, PassOver, Begin, Finish, Fail, Pending, files, services, bao
<1>2. CASE Abort \/ DownloadCut
  BY <1>2, VaultUntouched DEF Abort, DownloadCut, KeepOther, files, services, bao
<1>3. CASE Sentinel
  BY <1>3, Roles, StepCount DEF Sentinel, files, services, bao, VaultInv, Order, InStep, Running, StepNames
<1>4. CASE Reboot
  BY <1>4 DEF Reboot, files, VaultInv, ServicesOK
<1>5. CASE BaoWipe \/ BaoRestart
  BY <1>5, VaultStepUnderWay DEF BaoWipe, BaoRestart, At, Then, files, VaultInv, ServicesOK
<1>6. CASE BaoSetup
  BY <1>6, VaultStepUnderWay DEF BaoSetup, At, Then, files, VaultInv, ServicesOK, NumbersOK
<1>7. CASE BaoUnseal \/ BaoSave
  BY <1>7, Roles DEF BaoUnseal, BaoSave, At, Then, Place, files, services, bao, VaultInv, ServicesOK, Order, InStep
<1>8. CASE RaftJoin
  BY <1>8, Roles DEF RaftJoin, At, Then, Place, files, VaultInv, ServicesOK, Order, InStep
<1>9. CASE ACLSkipped \/ ACLRole \/ ACLCert
  BY <1>9, Roles DEF ACLSkipped, ACLRole, ACLCert, At, Then, Place, files, services, bao, VaultInv, Order, InStep
<1>10. CASE OperatorCopiesPKI \/ OperatorCreatesAdmin \/ UNCHANGED vars
  BY <1>10 DEF OperatorCopiesPKI, OperatorCreatesAdmin, process, vars, files, services, bao, VaultInv
<1>11. CASE AlreadyDownloaded \/ \E state \in {"whole", "partial", "absent"} : Download(state)
  BY <1>11, Roles, VaultUntouched DEF AlreadyDownloaded, Download, KeepOther, At, Advance, Then, Place, services, bao, EngineOK, InStep, Labels
<1>12. CASE Preflight \/ PKIGenerate \/ PKIFromLeader \/ ZitiStart \/ Schmutz \/ Identities
              \/ FabricSkipped \/ Verify
  BY <1>12, VaultUntouched DEF Preflight, PKIGenerate, PKIFromLeader, ZitiStart, Schmutz, Identities,
     FabricSkipped, Verify, At, Then, Place, files, services, bao, EngineOK, InStep, Labels
<1>13. CASE PKIFile \/ KVPut \/ FabricCreate
  <2>1. InStep /\ StepNames[pos] \in {"pki", "store-creds", "fabric"}
    BY <1>13 DEF PKIFile, KVPut, FabricCreate, At, Place, EngineOK, InStep, Labels
  <2>2. pos' = pos /\ done' = done /\ (pc' = pc \/ pc' \in {"sentinel", "caddy-token"})
    BY <1>13 DEF PKIFile, KVPut, FabricCreate, Advance, Then
  <2>3. UNCHANGED <<freshKey, initFile, roleFile, vault>>
    BY <1>13 DEF PKIFile, KVPut, FabricCreate, files, services, bao
  <2>4. pc' \notin {"bao-restart", "bao-setup", "bao-unseal", "bao-save", "acl-cert"}
    BY <1>13, <2>2 DEF PKIFile, KVPut, FabricCreate, At
  <2>. QED
    BY <2>1, <2>2, <2>3, <2>4, VaultUntouched
<1>14. CASE CaddyToken \/ FabricLogin
  <2>1. InStep /\ StepNames[pos] \in {"store-creds", "fabric"}
    BY <1>14 DEF CaddyToken, FabricLogin, At, Place, EngineOK, InStep, Labels
  <2>. QED
    BY <1>14, <2>1, VaultUntouched DEF CaddyToken, FabricLogin, Then, files, services, bao
<1>. QED
  BY <1>1, <1>2, <1>3, <1>4, <1>5, <1>6, <1>7, <1>8, <1>9, <1>10, <1>11, <1>12, <1>13, <1>14
     DEF Next, Engine, Operation, Fault

\* Once bao-init is recorded, bao-init.json opens the vault that runs, and schmutz-approle.json
\* belongs to it, however often the installer was interrupted before.
THEOREM CredentialsMatch == Spec => []CredsMatchVault
<1>1. Init => VaultInv /\ Place
  BY Roles DEF Init, VaultInv, Place
<1>2. VaultInv /\ Place /\ TypeOK /\ Order /\ [Next]_vars => (VaultInv /\ Place)'
  BY VaultInvKept, PlaceKept DEF TypeOK
<1>3. VaultInv => CredsMatchVault
  BY DEF VaultInv, CredsMatchVault
<1>. QED
  BY <1>1, <1>2, <1>3, OrderKept, TypeCorrect, PTL DEF Spec

\* The data of a vault whose initialisation, or whose joining the cluster, was recorded is
\* never deleted.
THEOREM VaultNeverLost == Spec => VaultKept
<1>1. ASSUME VaultInv, Place, Order, TypeOK, [Next]_vars, {"bao-init", "bao-join"} \cap done # {}
      PROVE  vault'.gen = vault.gen /\ vault'.joined = vault.joined
  <2>. ServicesOK
    BY <1>1 DEF TypeOK
  <2>1. CASE UNCHANGED vault
    BY <2>1
  <2>2. CASE Reboot \/ BaoRestart \/ BaoUnseal
    BY <2>2 DEF Reboot, BaoRestart, BaoUnseal, ServicesOK
  <2>3. CASE BaoWipe \/ BaoSetup \/ RaftJoin
    BY <1>1, <2>3, VaultStepUnderWay DEF BaoWipe, BaoSetup, RaftJoin, At, TypeOK
  <2>4. UNCHANGED vault \/ Reboot \/ BaoRestart \/ BaoUnseal \/ BaoWipe \/ BaoSetup \/ RaftJoin
    BY <1>1, NumbersChange DEF Start, BaoSave, ACLRole, services, bao
  <2>. QED
    BY <2>1, <2>2, <2>3, <2>4
<1>2. Init => VaultInv /\ Place
  BY Roles DEF Init, VaultInv, Place
<1>3. VaultInv /\ Place /\ TypeOK /\ Order /\ [Next]_vars => (VaultInv /\ Place)'
  BY VaultInvKept, PlaceKept DEF TypeOK
<1>. QED
  BY <1>1, <1>2, <1>3, OrderKept, TypeCorrect, PTL DEF Spec, VaultKept

-----------------------------------------------------------------------------
\* The certificates.

\* While pki writes the files, those before the current one are of the last generation.
PKIInv ==
  /\ "pki" \in done => \A i \in 1..5 : etcPki[PKIFiles[i]] = pkiDir
  /\ pc = "pki-files" => item \in 1..5 /\ \A i \in 1..(item - 1) : etcPki[PKIFiles[i]] = pkiDir
  /\ pc = "sentinel" /\ StepNames[pos] = "pki" => \A i \in 1..5 : etcPki[PKIFiles[i]] = pkiDir

LEMMA PKICount ==
  /\ Len(PKIFiles) = 5 /\ DOMAIN PKIFiles = 1..5
  /\ FilesOK => \A i \in 1..5 : PKIFiles[i] \in DOMAIN etcPki
  BY DEF PKIFiles, JoinFiles, FilesOK

LEMMA PKIUntouched ==
  ASSUME PKIInv, Place, EngineOK, Order,
         UNCHANGED <<etcPki, pkiDir>>,
         \/ pc' \in {"stopped", "complete", "loop"} /\ done' = done
         \/ pc' \in Applies /\ done' = done
         \/ InStep /\ pos' = pos /\ done' = done /\ StepNames[pos] # "pki" /\ pc' # "pki-files"
  PROVE  PKIInv'
  BY Roles DEF PKIInv

LEMMA PKIFileKept == PKIInv /\ Place /\ FilesOK /\ EngineOK /\ Order /\ PKIFile => PKIInv'
<1>. SUFFICES ASSUME PKIInv, Place, FilesOK, EngineOK, Order, PKIFile PROVE PKIInv'
  OBVIOUS
<1>1. pc = "pki-files" /\ StepNames[pos] = "pki" /\ "pki" \notin done /\ item \in 1..5
  BY DEF PKIFile, At, PKIInv, Place, Order, InStep
<1>2. \A i \in 1..item : (etcPki[PKIFiles[i]])' = pkiDir'
  <2>. TAKE i \in 1..item
  <2>1. i \in 1..5 /\ PKIFiles[i] \in DOMAIN etcPki /\ PKIFiles' = PKIFiles
    BY <1>1, PKICount
  <2>2. etcPki' = [etcPki EXCEPT ![PKIFiles[item]] = pkiDir] /\ pkiDir' = pkiDir
    BY DEF PKIFile
  <2>3. CASE PKIFiles[i] = PKIFiles[item]
    BY <2>1, <2>2, <2>3
  <2>4. CASE PKIFiles[i] # PKIFiles[item]
    <3>1. i \in 1..(item - 1)
      BY <1>1, <2>4
    <3>2. etcPki[PKIFiles[i]] = pkiDir
      BY <1>1, <3>1 DEF PKIInv
    <3>. QED
      BY <2>1, <2>2, <2>4, <3>2
  <2>. QED
    BY <2>3, <2>4
<1>3. done' = done /\ pos' = pos
  BY DEF PKIFile, Advance, Then
<1>4. CASE item < 5
  <2>1. pc' = pc /\ item' = item + 1
    BY <1>4, PKICount DEF PKIFile, Advance
  <2>. QED
    BY <1>1, <1>2, <1>3, <1>4, <2>1 DEF PKIInv
<1>5. CASE item = 5
  <2>1. pc' = "sentinel"
    BY <1>5, PKICount DEF PKIFile, Advance, Then
  <2>. QED
    BY <1>1, <1>2, <1>3, <1>5, <2>1 DEF PKIInv
<1>. QED
  BY <1>1, <1>4, <1>5

LEMMA PKIInvKept == PKIInv /\ Place /\ TypeOK /\ Order /\ [Next]_vars => PKIInv'
<1>. SUFFICES ASSUME PKIInv, Place, TypeOK, Order, [Next]_vars PROVE PKIInv'
  OBVIOUS
<1>. EngineOK /\ FilesOK
  BY DEF TypeOK
<1>1. CASE Start \/ PassOver \/ Begin \/ Finish \/ Fail
  BY <1>1, PKIUntouched DEF Start, PassOver, Begin, Finish, Fail, Pending, files
<1>2. CASE Fault
  BY <1>2, PKIUntouched DEF Fault, Abort, DownloadCut, Reboot, KeepOther, files
<1>3. CASE Sentinel
  BY <1>3, Roles DEF Sentinel, files, PKIInv
<1>4. CASE PKIGenerate
  BY <1>4, Roles DEF PKIGenerate, At, Then, PKIInv, Place, EngineOK, Labels, Order, InStep
<1>5. CASE PKIFile
  BY <1>5, PKIFileKept
<1>6. CASE OperatorCopiesPKI
  BY <1>6, Roles DEF OperatorCopiesPKI, process, PKIInv, Order, Place, InStep
<1>7. CASE OperatorCreatesAdmin \/ UNCHANGED vars
  BY <1>7 DEF OperatorCreatesAdmin, process, vars, files, PKIInv
<1>8. CASE AlreadyDownloaded \/ \E state \in {"whole", "partial", "absent"} : Download(state)
  BY <1>8, Roles, PKIUntouched DEF AlreadyDownloaded, Download, KeepOther, At, Advance, Then, Place, EngineOK, InStep, Labels
<1>9. CASE KVPut \/ FabricCreate
  BY <1>9, PKIUntouched DEF KVPut, FabricCreate, At, Advance, Then, Place, files, EngineOK, InStep, Labels
<1>10. CASE Preflight \/ PKIFromLeader \/ ZitiStart \/ Schmutz \/ Identities \/ FabricSkipped
              \/ FabricLogin \/ Verify
  BY <1>10, PKIUntouched DEF Preflight, PKIFromLeader, ZitiStart, Schmutz, Identities, FabricSkipped,
     FabricLogin, Verify, At, Then, Place, files, EngineOK, InStep, Labels
<1>11. CASE BaoWipe \/ BaoRestart \/ BaoSetup \/ BaoUnseal \/ BaoSave \/ RaftJoin
  BY <1>11, PKIUntouched DEF BaoWipe, BaoRestart, BaoSetup, BaoUnseal, BaoSave, RaftJoin, At, Then, Place,
     files, EngineOK, InStep, Labels
<1>12. CASE CaddyToken \/ ACLSkipped \/ ACLRole \/ ACLCert
  BY <1>12, PKIUntouched DEF CaddyToken, ACLSkipped, ACLRole, ACLCert, At, Then, Place, files, EngineOK, InStep, Labels
<1>. QED
  BY <1>1, <1>2, <1>3, <1>4, <1>5, <1>6, <1>7, <1>8, <1>9, <1>10, <1>11, <1>12 DEF Next, Engine, Operation

\* After pki, the files of /etc/kontango/pki come from one generation, however often the step
\* was interrupted and run again.
THEOREM PKIFromOneRun == Spec => []PKIConsistent
<1>1. Init => PKIInv /\ Place
  BY Roles DEF Init, PKIInv, Place
<1>2. PKIInv /\ Place /\ TypeOK /\ Order /\ [Next]_vars => (PKIInv /\ Place)'
  BY PKIInvKept, PlaceKept DEF TypeOK
<1>3. PKIInv => PKIConsistent
  BY PKICount DEF PKIInv, PKIConsistent
<1>. QED
  BY <1>1, <1>2, <1>3, OrderKept, TypeCorrect, PTL DEF Spec
-----------------------------------------------------------------------------
\* What the vault holds for the other nodes.

AllPaths == {"bao/init", "ziti/admin", "pki/ca"}
StoredCA == secrets.written = AllPaths /\ secrets.ca = <<etcPki["ca-bundle.pem"], etcPki["server.crt"]>>
StoredDevice == secrets.device = etcPki["signing-chain.crt"]

\* store-creds has written the paths before the current one; both steps come after bao-init,
\* which would delete what they store, and after pki, which would change what is on disk.
PubInv ==
  /\ "store-creds" \in done => StoredCA /\ {"bao-init", "pki"} \subseteq done
  /\ "acl" \in done => {"bao-init", "pki"} \subseteq done /\ (TestMode \/ StoredDevice)
  /\ pc = "store-creds" => \A i \in 1..(item - 1) : KVPaths[i] \in secrets.written
  /\ pc = "caddy-token" => StoredCA
  /\ pc = "sentinel" /\ StepNames[pos] = "store-creds" => StoredCA
  /\ pc = "sentinel" /\ StepNames[pos] = "acl" => TestMode \/ StoredDevice

LEMMA PubUntouched ==
  ASSUME PubInv, Place, EngineOK, Order,
         UNCHANGED <<secrets, etcPki>>, TestMode' = TestMode,
         \/ pc' \in {"stopped", "complete", "loop"} /\ done' = done
         \/ pc' \in Applies /\ item' = 1 /\ done' = done
         \/ InStep /\ pos' = pos /\ done' = done /\ StepNames[pos] \notin {"store-creds", "acl"}
              /\ pc' \notin {"store-creds", "caddy-token"}
  PROVE  PubInv'
  BY Roles DEF PubInv, StoredCA, StoredDevice

\* An operation of pki, bao-init or bao-join finds neither step done.
LEMMA PubStepUnderWay ==
  ASSUME PubInv, Order, InStep, StepNames[pos] \in {"pki", "bao-init", "bao-join"}
  PROVE  {"store-creds", "acl"} \cap done = {}
<1>1. StepNames[pos] \in Applies \ done /\ done \subseteq Applies
  BY DEF Order
<1>2. CASE StepNames[pos] = "bao-join"
  BY <1>1, <1>2, Roles
<1>3. CASE StepNames[pos] \in {"pki", "bao-init"}
  BY <1>1, <1>3 DEF PubInv
<1>. QED
  BY <1>2, <1>3

\* Their operations therefore preserve the invariant, whatever they change.
LEMMA PubEarlierStep ==
  ASSUME PubInv, Order, InStep, StepNames[pos] \in {"pki", "bao-init", "bao-join"},
         pos' = pos, done' = done, pc' \notin {"store-creds", "caddy-token"}
  PROVE  PubInv'
  BY PubStepUnderWay DEF PubInv

LEMMA KVPutKept ==
  ASSUME PubInv, Place, ServicesOK, Items, EngineOK, Order, KVPut, TestMode' = TestMode
  PROVE  PubInv'
<1>1. pc = "store-creds" /\ StepNames[pos] = "store-creds" /\ item \in 1..3 /\ "store-creds" \notin done
  BY Roles DEF KVPut, At, Items, Place, Order, EngineOK, InStep, Labels
<1>2. pos' = pos /\ done' = done /\ etcPki' = etcPki
  BY DEF KVPut, Advance, Then, files
<1>3. /\ secrets'.written = secrets.written \cup {KVPaths[item]}
      /\ secrets'.device = secrets.device
      /\ KVPaths[item] = "pki/ca" => secrets'.ca = <<etcPki["ca-bundle.pem"], etcPki["server.crt"]>>
  BY DEF KVPut, ServicesOK
<1>4. KVPaths[1] = "bao/init" /\ KVPaths[2] = "ziti/admin" /\ KVPaths[3] = "pki/ca" /\ Len(KVPaths) = 3
  BY DEF KVPaths
<1>5. CASE item < 3
  <2>1. pc' = pc /\ item' = item + 1
    BY <1>4, <1>5 DEF KVPut, Advance
  <2>2. \A i \in 1..item : KVPaths[i] \in secrets'.written
    BY <1>1, <1>3 DEF PubInv
  <2>. QED
    BY <1>1, <1>2, <1>3, <2>1, <2>2 DEF PubInv, StoredDevice
<1>6. CASE item = 3
  <2>1. pc' = "caddy-token"
    BY <1>4, <1>6 DEF KVPut, Advance, Then
  <2>2. KVPaths[1] \in secrets.written /\ KVPaths[2] \in secrets.written
    BY <1>1, <1>6 DEF PubInv
  <2>3. secrets.written \subseteq AllPaths
    BY DEF ServicesOK, AllPaths
  <2>4. StoredCA'
    BY <1>2, <1>3, <1>4, <1>6, <2>2, <2>3 DEF StoredCA, AllPaths
  <2>. QED
    BY <1>1, <1>2, <1>3, <2>1, <2>4 DEF PubInv, StoredDevice
<1>. QED
  BY <1>1, <1>5, <1>6

LEMMA PubInvKept == PubInv /\ VaultInv /\ Place /\ TypeOK /\ Items /\ Order /\ [Next]_vars => PubInv'
<1>. SUFFICES ASSUME PubInv, VaultInv, Place, TypeOK, Items, Order, [Next]_vars PROVE PubInv'
  OBVIOUS
<1>. Applies' = Applies /\ node' = node /\ TestMode' = TestMode
  BY KindKept
<1>. EngineOK /\ FilesOK /\ ServicesOK
  BY DEF TypeOK
<1>1. CASE Start \/ PassOver \/ Begin \/ Finish \/ Fail
  BY <1>1, PubUntouched DEF Start, PassOver, Begin, Finish, Fail, Pending, files, services, bao
<1>2. CASE Fault
  BY <1>2, PubUntouched DEF Fault, Abort, DownloadCut, Reboot, KeepOther, files, services, bao
<1>3. CASE Sentinel
  <2>1. pc = "sentinel" /\ pc' = "loop" /\ done' = done \cup {StepNames[pos]} /\ UNCHANGED <<secrets, etcPki>>
    BY <1>3 DEF Sentinel, files, services, bao
  <2>2. StepNames[pos] \in {"store-creds", "acl"} => {"bao-init", "pki"} \subseteq done
    <3>. SUFFICES ASSUME StepNames[pos] \in {"store-creds", "acl"} PROVE {"bao-init", "pki"} \subseteq done
      OBVIOUS
    <3>1. pos \in 1..14 /\ StepNames[pos] \in Applies
      BY <2>1 DEF Order, InStep
    <3>2. ~JoinMode
      BY <3>1, Roles
    <3>3. pos \in {8, 13}
      BY <3>1 DEF StepNames
    <3>4. \A j \in 1..(pos - 1) : StepNames[j] \in Applies => StepNames[j] \in done
      BY <2>1 DEF Order, Running
    <3>5. StepNames[3] = "pki" /\ StepNames[5] = "bao-init"
      BY DEF StepNames
    <3>. QED
      BY <3>2, <3>3, <3>4, <3>5, Roles
  <2>. QED
    BY <2>1, <2>2 DEF PubInv, StoredCA, StoredDevice
<1>4. CASE PKIGenerate \/ PKIFile
  BY <1>4, PubEarlierStep DEF PKIGenerate, PKIFile, At, Advance, Then, Place, EngineOK, Labels, InStep
<1>5. CASE BaoWipe \/ BaoRestart
  BY <1>5, PubEarlierStep DEF BaoWipe, BaoRestart, At, Then, Place, EngineOK, Labels, InStep
<1>6. CASE BaoSetup \/ BaoUnseal \/ BaoSave \/ RaftJoin
  BY <1>6, PubEarlierStep DEF BaoSetup, BaoUnseal, BaoSave, RaftJoin, At, Then, Place, EngineOK, Labels, InStep
<1>7. CASE OperatorCopiesPKI
  <2>1. JoinMode /\ UNCHANGED <<pc, pos, item, done, secrets>>
    BY <1>7 DEF OperatorCopiesPKI, process, services, bao
  <2>2. {"store-creds", "acl"} \cap Applies = {}
    BY <2>1, Roles
  <2>3. pc \notin {"store-creds", "caddy-token"} /\ ~(pc = "sentinel" /\ StepNames[pos] \in {"store-creds", "acl"})
    BY <2>2 DEF Order, InStep, Place, EngineOK, Labels
  <2>. QED
    BY <2>1, <2>2, <2>3 DEF PubInv, Order
<1>8. CASE OperatorCreatesAdmin \/ UNCHANGED vars
  BY <1>8 DEF OperatorCreatesAdmin, process, vars, files, services, bao, PubInv, StoredCA, StoredDevice
<1>9. CASE AlreadyDownloaded \/ \E state \in {"whole", "partial", "absent"} : Download(state)
  BY <1>9, Roles, PubUntouched DEF AlreadyDownloaded, Download, KeepOther, At, Advance, Then, Place, services, bao,
     EngineOK, InStep, Labels
<1>10. CASE Preflight \/ PKIFromLeader \/ ZitiStart \/ Schmutz \/ Identities \/ FabricSkipped
              \/ FabricLogin \/ Verify
  BY <1>10, PubUntouched DEF Preflight, PKIFromLeader, ZitiStart, Schmutz, Identities, FabricSkipped,
     FabricLogin, Verify, At, Then, Place, files, services, bao, EngineOK, InStep, Labels
<1>11. CASE FabricCreate
  BY <1>11, PubUntouched DEF FabricCreate, At, Advance, Then, Place, files, bao, EngineOK, InStep, Labels
<1>12. CASE KVPut
  BY <1>12, KVPutKept
<1>13. CASE CaddyToken
  BY <1>13 DEF CaddyToken, At, Then, Place, files, services, bao, PubInv, StoredCA, StoredDevice, Order, InStep
<1>14. CASE ACLSkipped \/ ACLRole \/ ACLCert
  <2>1. StepNames[pos] = "acl" /\ "acl" \notin done /\ pos' = pos /\ done' = done
    BY <1>14, Roles DEF ACLSkipped, ACLRole, ACLCert, At, Then, Place, Order, InStep, EngineOK, Labels
  <2>2. secrets'.written = secrets.written /\ secrets'.ca = secrets.ca /\ etcPki' = etcPki
    BY <1>14 DEF ACLSkipped, ACLRole, ACLCert, files, services, bao, ServicesOK
  <2>3. pc' = "acl-cert" \/ (pc' = "sentinel" /\ (TestMode \/ StoredDevice'))
    BY <1>14 DEF ACLSkipped, ACLRole, ACLCert, Then, StoredDevice, ServicesOK, files
  <2>. QED
    BY <2>1, <2>2, <2>3 DEF PubInv, StoredCA
<1>. QED
  BY <1>1, <1>2, <1>3, <1>4, <1>5, <1>6, <1>7, <1>8, <1>9, <1>10, <1>11, <1>12, <1>13, <1>14
     DEF Next, Engine, Operation

\* What store-creds and acl left in the vault is what is on disk, however often the steps were
\* interrupted: neither a wiped vault nor a second generation of certificates can come after them.
THEOREM PublishedMatchesDisk == Spec => []Published
<1>1. Init => PubInv /\ VaultInv /\ Place /\ Items
  BY Roles DEF Init, PubInv, VaultInv, Place, Items
<1>2. /\ PubInv /\ VaultInv /\ Place /\ Items /\ TypeOK /\ Order /\ [Next]_vars
      => (PubInv /\ VaultInv /\ Place /\ Items)'
  BY PubInvKept, VaultInvKept, PlaceKept, ItemsKept DEF TypeOK
<1>3. PubInv => Published
  BY DEF PubInv, Published, StoredCA, StoredDevice, AllPaths
<1>. QED
  BY <1>1, <1>2, <1>3, OrderKept, TypeCorrect, PTL DEF Spec
-----------------------------------------------------------------------------
\* Where a repetition of the command leads.

\* The steps of the engine, of the operators and of faults, as far as they move the installer.
LEMMA EngineShape ==
  ASSUME Start \/ PassOver \/ Begin \/ Finish \/ Fail
  PROVE  /\ UNCHANGED <<done, etcPki, vault, schmutz, ziti>>
         /\ pc' \in {"stopped", "complete", "loop"} \/ (pc = "loop" /\ pc' = StepNames[pos] /\ pc' \in Applies /\ pos' = pos)
         /\ pc' = "complete" => pc = "loop" /\ pos > 14
  BY StepCount, Roles DEF Start, PassOver, Begin, Finish, Fail, Pending, files, services, bao

LEMMA FaultShape ==
  ASSUME Fault
  PROVE  /\ UNCHANGED <<done, etcPki, ziti, schmutz>> /\ pc' = "stopped"
         /\ ServicesOK => vault'.gen = vault.gen /\ vault'.up = vault.up /\ (vault.sealed => vault'.sealed)
  BY DEF Fault, Abort, DownloadCut, Reboot, KeepOther, files, services, bao, ServicesOK

LEMMA OperatorShape ==
  ASSUME OperatorCopiesPKI \/ OperatorCreatesAdmin \/ UNCHANGED vars, FilesOK
  PROVE  /\ UNCHANGED <<pc, pos, item, done, vault, schmutz>>
         /\ etcPki' = etcPki \/ (Manual /\ JoinMode /\ \A f \in JoinFiles : etcPki'[f] = 1)
<1>1. CASE OperatorCopiesPKI
  <2>1. PICK copied \in {JoinFiles, JoinFiles \cup {"ca-bundle.pem"}} :
          etcPki' = [f \in DOMAIN etcPki |-> IF f \in copied THEN 1 ELSE etcPki[f]]
    BY <1>1 DEF OperatorCopiesPKI
  <2>2. \A f \in JoinFiles : etcPki'[f] = 1
    BY <2>1 DEF FilesOK
  <2>. QED
    BY <1>1, <2>2 DEF OperatorCopiesPKI, process, services, bao
<1>2. CASE OperatorCreatesAdmin \/ UNCHANGED vars
  BY <1>2 DEF OperatorCreatesAdmin, vars, process, files, services, bao
<1>. QED BY <1>1, <1>2

\* Install returns without an error only when every step that applies is recorded.
Completed == pc = "complete" => Applies \subseteq done

LEMMA StepRange == \A l \in Applies : \E i \in 1..14 : StepNames[i] = l
  BY StepCount DEF Applies

LEMMA CompletedKept == Completed /\ Order /\ EngineOK /\ FilesOK /\ [Next]_vars => Completed'
<1>. SUFFICES ASSUME Completed, Order, EngineOK, FilesOK, [Next]_vars, pc' = "complete" PROVE Applies \subseteq done'
  BY KindKept DEF Completed
<1>1. CASE Start \/ PassOver \/ Begin \/ Finish \/ Fail
  <2>1. pc = "loop" /\ pos > 14 /\ done' = done
    BY <1>1, EngineShape, Roles
  <2>2. pos = 15
    BY <2>1 DEF Order
  <2>3. \A j \in 1..14 : StepNames[j] \in Applies => StepNames[j] \in done
    BY <2>1, <2>2 DEF Order, Running
  <2>. QED
    BY <2>1, <2>3, StepRange
<1>2. CASE Sentinel \/ Fault
  BY <1>2, FaultShape DEF Sentinel
<1>3. CASE Operation
  BY <1>3, OperationMoves, OperationInStep DEF Operation, InStep, At, Then, Advance, Preflight, AlreadyDownloaded, Download, PKIGenerate,
     PKIFile, PKIFromLeader, BaoWipe, BaoRestart, BaoSetup, BaoUnseal, BaoSave, RaftJoin, KVPut,
     CaddyToken, ACLSkipped, ACLRole, ACLCert, ZitiStart, Schmutz, Identities, FabricSkipped,
     FabricLogin, FabricCreate, Verify
<1>4. CASE OperatorCopiesPKI \/ OperatorCreatesAdmin \/ UNCHANGED vars
  BY <1>4, OperatorShape DEF Completed
<1>. QED
  BY <1>1, <1>2, <1>3, <1>4 DEF Next, Engine

\* A vault that has been initialised runs: only a restarted server is.
Serving ==
  /\ vault.gen # 0 => vault.up
  /\ pc \in {"bao-setup", "bao-unseal", "bao-save"} => vault.up

LEMMA ServingKept == Serving /\ TypeOK /\ [Next]_vars => Serving'
<1>. SUFFICES ASSUME Serving, TypeOK, [Next]_vars PROVE Serving'
  OBVIOUS
<1>. ServicesOK /\ EngineOK /\ FilesOK
  BY DEF TypeOK
<1>. Applies' = Applies
  BY KindKept
<1>. USE DEF Serving
<1>1. CASE Start \/ PassOver \/ Begin \/ Finish \/ Fail
  BY <1>1, EngineShape, Roles
<1>2. CASE Sentinel
  BY <1>2 DEF Sentinel, services, bao
<1>3. CASE Fault
  BY <1>3, FaultShape
<1>4. CASE OperatorCopiesPKI \/ OperatorCreatesAdmin \/ UNCHANGED vars
  BY <1>4, OperatorShape
<1>5. CASE BaoWipe \/ BaoRestart \/ BaoSetup \/ BaoUnseal \/ RaftJoin
  BY <1>5 DEF BaoWipe, BaoRestart, BaoSetup, BaoUnseal, RaftJoin, At, Then, ServicesOK
<1>6. CASE BaoSave \/ AlreadyDownloaded \/ (\E state \in {"whole", "partial", "absent"} : Download(state))
             \/ PKIFile \/ KVPut \/ FabricCreate
  BY <1>6 DEF BaoSave, AlreadyDownloaded, Download, PKIFile, KVPut, FabricCreate, At, Then, Advance,
     KeepOther, files, services, bao
<1>7. CASE Preflight \/ PKIGenerate \/ PKIFromLeader \/ CaddyToken \/ ACLSkipped \/ ACLRole \/ ACLCert
             \/ ZitiStart \/ Schmutz \/ Identities \/ FabricSkipped \/ FabricLogin \/ Verify
  BY <1>7 DEF Preflight, PKIGenerate, PKIFromLeader, CaddyToken, ACLSkipped, ACLRole, ACLCert,
     ZitiStart, Schmutz, Identities, FabricSkipped, FabricLogin, Verify, Then, files, services, bao
<1>. QED
  BY <1>1, <1>2, <1>3, <1>4, <1>5, <1>6, <1>7 DEF Next, Engine, Operation

\* store-creds and acl are recorded only while the vault is open: a restart, which seals it,
\* takes the installer with it.
Open ==
  /\ pc = "caddy-token" => ~vault.sealed
  /\ pc = "sentinel" /\ StepNames[pos] = "store-creds" => ~vault.sealed
  /\ pc = "acl-cert" => ~vault.sealed
  /\ pc = "sentinel" /\ StepNames[pos] = "acl" /\ ~TestMode => ~vault.sealed

\* An operation of another step leaves what Open speaks of alone.
LEMMA OpenElsewhere ==
  ASSUME InStep, StepNames[pos] \notin {"store-creds", "acl"}, pos' = pos, pc' \notin {"caddy-token", "acl-cert"}
  PROVE  Open'
  BY DEF Open

LEMMA OpenKept == Open /\ Place /\ Order /\ TypeOK /\ [Next]_vars => Open'
<1>. SUFFICES ASSUME Open, Place, Order, TypeOK, [Next]_vars PROVE Open'
  OBVIOUS
<1>. ServicesOK /\ EngineOK /\ FilesOK
  BY DEF TypeOK
<1>. Applies' = Applies /\ TestMode' = TestMode
  BY KindKept
<1>1. CASE Start \/ PassOver \/ Begin \/ Finish \/ Fail
  BY <1>1, EngineShape, Roles DEF Open
<1>2. CASE Sentinel \/ Fault
  BY <1>2, FaultShape DEF Sentinel, Open
<1>3. CASE OperatorCopiesPKI \/ OperatorCreatesAdmin \/ UNCHANGED vars
  BY <1>3, OperatorShape DEF Open
<1>4. CASE BaoWipe \/ BaoRestart \/ BaoSetup \/ BaoUnseal \/ RaftJoin \/ BaoSave
  BY <1>4, OpenElsewhere DEF BaoWipe, BaoRestart, BaoSetup, BaoUnseal, BaoSave, RaftJoin, At, Then,
     Place, InStep, EngineOK, Labels
<1>5. CASE AlreadyDownloaded \/ (\E state \in {"whole", "partial", "absent"} : Download(state))
             \/ PKIFile \/ FabricCreate
  BY <1>5, Roles, OpenElsewhere DEF AlreadyDownloaded, Download, PKIFile, FabricCreate, At, Then, Advance,
     Place, InStep, EngineOK, Labels
<1>6. CASE Preflight \/ PKIGenerate \/ PKIFromLeader \/ ZitiStart \/ Schmutz \/ Identities
             \/ FabricSkipped \/ FabricLogin \/ Verify
  BY <1>6, OpenElsewhere DEF Preflight, PKIGenerate, PKIFromLeader, ZitiStart, Schmutz, Identities, FabricSkipped, FabricLogin,
     Verify, At, Then, Place, InStep, EngineOK, Labels
<1>7. CASE KVPut \/ CaddyToken
  <2>1. ~vault.sealed /\ vault' = vault /\ StepNames[pos] = "store-creds" /\ pos' = pos
    BY <1>7, Roles DEF KVPut, CaddyToken, At, Blocked, Usable, Then, Advance, Place, EngineOK, Labels, services, bao
  <2>. QED
    BY <2>1 DEF Open
<1>8. CASE ACLSkipped
  BY <1>8, Roles DEF ACLSkipped, At, Then, Open, Place, EngineOK, Labels, services, bao
<1>9. CASE ACLRole \/ ACLCert
  <2>1. ~vault.sealed /\ vault' = vault
    BY <1>9 DEF ACLRole, ACLCert, At, Blocked, Usable, Open, services, bao
  <2>. QED
    BY <2>1 DEF Open
<1>. QED
  BY <1>1, <1>2, <1>3, <1>4, <1>5, <1>6, <1>7, <1>8, <1>9 DEF Next, Engine, Operation

\* The nodes that verify passes: a joining one whose edge router, Caddy and schmutz run, and a
\* leader in test mode.  A real leader is not among them: its vault is initialised by then,
\* which checkBaoVault reads as sealed.
Verifiable == IF JoinMode THEN Manual /\ schmutz ELSE TestMode

Verified ==
  /\ "verify" \in done => Verifiable
  /\ pc = "sentinel" /\ StepNames[pos] = "verify" => Verifiable

\* A vault that is recorded, or a node that has none, is what verify finds.
LEMMA HealthyIs ==
  ASSUME VaultInv, "bao-init" \in done \/ JoinMode
  PROVE  Healthy <=> Verifiable
  BY DEF VaultInv, Healthy, Verifiable, BaoVaultHealthy, SealStatus

LEMMA SchmutzStays == ServicesOK /\ schmutz /\ [Next]_vars => schmutz'
<1>. SUFFICES ASSUME ServicesOK, schmutz, [Next]_vars PROVE schmutz'
  OBVIOUS
<1>1. CASE Start \/ Engine \/ Fault \/ OperatorCreatesAdmin \/ OperatorCopiesPKI \/ UNCHANGED vars
  BY <1>1, EngineShape, FaultShape DEF Engine, Sentinel, OperatorCreatesAdmin, OperatorCopiesPKI, vars, services
<1>2. CASE Operation
  BY <1>2 DEF Operation, Preflight, AlreadyDownloaded, Download, KeepOther, PKIGenerate, PKIFile,
     PKIFromLeader, BaoWipe, BaoRestart, BaoSetup, BaoUnseal, BaoSave, RaftJoin, KVPut, CaddyToken,
     ACLSkipped, ACLRole, ACLCert, ZitiStart, Schmutz, Identities, FabricSkipped, FabricLogin,
     FabricCreate, Verify, services, bao
<1>. QED
  BY <1>1, <1>2 DEF Next

\* When a step is under way, the earlier ones that apply are recorded.
LEMMA Earlier ==
  ASSUME Order, InStep, NEW l \in Applies, NEW i \in 1..14, NEW j \in 1..14,
         StepNames[i] = l, StepNames[pos] = StepNames[j], i < j
  PROVE  l \in done
<1>1. pos = j
  BY DEF StepNames, Order
<1>. QED
  BY <1>1 DEF Order, InStep, Running

LEMMA VerifyPasses ==
  ASSUME VaultInv, Place, Order, EngineOK, Verify
  PROVE  Verifiable
<1>1. pc = "verify" /\ InStep /\ StepNames[pos] = "verify"
  BY DEF Verify, At, InStep, Place, EngineOK, Labels
<1>2. Healthy
  BY DEF Verify, At, Blocked
<1>3. StepNames[5] = "bao-init" /\ StepNames[14] = "verify"
  BY DEF StepNames
<1>4. "bao-init" \in done \/ JoinMode
  BY <1>1, <1>3, Roles, Earlier
<1>. QED
  BY <1>2, <1>4, HealthyIs

LEMMA VerifiedKept == Verified /\ VaultInv /\ Place /\ Order /\ TypeOK /\ [Next]_vars => Verified'
<1>. SUFFICES ASSUME Verified, VaultInv, Place, Order, TypeOK, [Next]_vars PROVE Verified'
  OBVIOUS
<1>. ServicesOK /\ EngineOK /\ FilesOK
  BY DEF TypeOK
<1>. Applies' = Applies /\ TestMode' = TestMode /\ JoinMode' = JoinMode /\ Manual' = Manual
  BY KindKept DEF Manual
<1>1. Verifiable => Verifiable'
  BY SchmutzStays DEF Verifiable
<1>2. CASE Start \/ PassOver \/ Begin \/ Finish \/ Fail
  BY <1>1, <1>2, EngineShape, Roles DEF Verified
<1>3. CASE Sentinel \/ Fault
  BY <1>1, <1>3, FaultShape DEF Sentinel, Verified
<1>4. CASE OperatorCopiesPKI \/ OperatorCreatesAdmin \/ UNCHANGED vars
  BY <1>1, <1>4, OperatorShape DEF Verified
<1>5. CASE Verify
  BY <1>1, <1>5, VerifyPasses, OperationInStep DEF Verified, Operation
<1>6. CASE Operation /\ ~Verify
  <2>1. pc # "verify" /\ pc # "sentinel"
    BY <1>6 DEF Operation, At, Preflight, AlreadyDownloaded, Download, PKIGenerate, PKIFile,
       PKIFromLeader, BaoWipe, BaoRestart, BaoSetup, BaoUnseal, BaoSave, RaftJoin, KVPut, CaddyToken,
       ACLSkipped, ACLRole, ACLCert, ZitiStart, Schmutz, Identities, FabricSkipped, FabricLogin,
       FabricCreate, Verify
  <2>2. StepNames[pos] # "verify"
    BY <1>6, <2>1, OperationInStep DEF Place, InStep, EngineOK, Labels
  <2>. QED
    BY <1>1, <1>6, <2>2, OperationInStep DEF Verified
<1>. QED
  BY <1>2, <1>3, <1>4, <1>5, <1>6 DEF Next, Engine

\* Once pki-from-leader has seen the leader's files on a joining node, they are there.
Copied ==
  JoinMode /\ ("pki-from-leader" \in done \/ (pc = "sentinel" /\ StepNames[pos] = "pki-from-leader")) =>
    \A f \in JoinFiles : etcPki[f] # 0

LEMMA JoinFilesKept ==
  ASSUME JoinMode, Place, Order, EngineOK, FilesOK, [Next]_vars
  PROVE  etcPki' = etcPki \/ (Manual /\ \A f \in JoinFiles : etcPki'[f] = 1)
<1>1. CASE Start \/ Engine \/ Fault
  BY <1>1, EngineShape, FaultShape DEF Engine, Sentinel, files
<1>2. CASE OperatorCopiesPKI \/ OperatorCreatesAdmin \/ UNCHANGED vars
  BY <1>2, OperatorShape
<1>3. CASE PKIFile
  <2>1. StepNames[pos] = "pki" /\ InStep
    BY <1>3 DEF PKIFile, At, Place, InStep
  <2>. QED
    BY <2>1, Roles DEF Order
<1>4. CASE Operation /\ ~PKIFile
  BY <1>4 DEF Operation, Preflight, AlreadyDownloaded, Download, KeepOther, PKIGenerate,
     PKIFromLeader, BaoWipe, BaoRestart, BaoSetup, BaoUnseal, BaoSave, RaftJoin, KVPut, CaddyToken,
     ACLSkipped, ACLRole, ACLCert, ZitiStart, Schmutz, Identities, FabricSkipped, FabricLogin,
     FabricCreate, Verify, files
<1>. QED
  BY <1>1, <1>2, <1>3, <1>4 DEF Next

LEMMA CopiedKept == Copied /\ Place /\ Order /\ TypeOK /\ [Next]_vars => Copied'
<1>. SUFFICES ASSUME Copied, Place, Order, TypeOK, [Next]_vars, JoinMode PROVE Copied'
  BY KindKept DEF Copied
<1>. EngineOK /\ FilesOK
  BY DEF TypeOK
<1>. JoinMode' = JoinMode /\ Applies' = Applies
  BY KindKept
<1>1. (\A f \in JoinFiles : etcPki[f] # 0) => \A f \in JoinFiles : etcPki'[f] # 0
  BY JoinFilesKept
<1>2. CASE Start \/ PassOver \/ Begin \/ Finish \/ Fail
  BY <1>1, <1>2, EngineShape, Roles DEF Copied
<1>3. CASE Sentinel \/ Fault
  BY <1>1, <1>3, FaultShape DEF Sentinel, Copied
<1>4. CASE OperatorCopiesPKI \/ OperatorCreatesAdmin \/ UNCHANGED vars
  BY <1>1, <1>4, OperatorShape DEF Copied
<1>5. CASE PKIFromLeader
  <2>1. \A f \in JoinFiles : etcPki[f] # 0
    BY <1>5 DEF PKIFromLeader, At, Blocked, Lacks
  <2>. QED
    BY <1>1, <2>1 DEF Copied
<1>6. CASE Operation /\ ~PKIFromLeader
  <2>1. pc # "pki-from-leader" /\ pc # "sentinel"
    BY <1>6 DEF Operation, At, Preflight, AlreadyDownloaded, Download, PKIGenerate, PKIFile,
       PKIFromLeader, BaoWipe, BaoRestart, BaoSetup, BaoUnseal, BaoSave, RaftJoin, KVPut, CaddyToken,
       ACLSkipped, ACLRole, ACLCert, ZitiStart, Schmutz, Identities, FabricSkipped, FabricLogin,
       FabricCreate, Verify
  <2>2. StepNames[pos] # "pki-from-leader"
    BY <1>6, <2>1, OperationInStep DEF Place, InStep, EngineOK, Labels
  <2>. QED
    BY <1>1, <1>6, <2>2, OperationInStep DEF Copied
<1>. QED
  BY <1>2, <1>3, <1>4, <1>5, <1>6 DEF Next, Engine

\* All the invariants of this module but those of the certificates.
InstallInv ==
  /\ TypeOK /\ Items /\ Order /\ Place /\ VaultInv
  /\ Completed /\ Serving /\ Open /\ Verified /\ Copied

LEMMA InstallInvariant == Spec => []InstallInv
<1>1. Init => Items /\ Place /\ VaultInv /\ Completed /\ Serving /\ Open /\ Verified /\ Copied
  BY Roles DEF Init, Items, Place, VaultInv, Completed, Serving, Open, Verified, Copied
<1>2. TypeOK /\ Order /\ Items /\ Place /\ VaultInv /\ Completed /\ Serving /\ Open /\ Verified /\ Copied
        /\ [Next]_vars
      => (Items /\ Place /\ VaultInv /\ Completed /\ Serving /\ Open /\ Verified /\ Copied)'
  BY ItemsKept, PlaceKept, VaultInvKept, CompletedKept, ServingKept, OpenKept, VerifiedKept, CopiedKept
     DEF TypeOK
<1>. QED
  BY <1>1, <1>2, OrderKept, TypeCorrect, PTL DEF Spec, InstallInv

\* A step of the vault's finds it initialised, running and with its credentials on disk, so
\* that it can only be sealed.
LEMMA OnlySealed ==
  ASSUME InstallInv, pc \in {"store-creds", "acl"}, ~Usable
  PROVE  "bao-init" \in done /\ vault.sealed /\ pc \notin done
<1>1. InStep /\ pc = StepNames[pos] /\ pc \in Applies \ done
  BY DEF InstallInv, TypeOK, EngineOK, Labels, Place, InStep, Order
<1>2. ~JoinMode
  BY <1>1, Roles
<1>3. StepNames[5] = "bao-init" /\ StepNames[8] = "store-creds" /\ StepNames[13] = "acl"
  BY DEF StepNames
<1>4. "bao-init" \in done
  BY <1>1, <1>2, <1>3, Roles, Earlier DEF InstallInv
<1>. QED
  BY <1>1, <1>4 DEF InstallInv, VaultInv, Serving, Usable

\* The step under way is the one that is due.
LEMMA UnderWayIsDue ==
  ASSUME Order, InStep
  PROVE  Due(StepNames[pos])
  BY StepCount DEF Order, InStep, Running, Due

\* The installer gives up by itself only where Stuck says so: the safety half of Settles.
\* Everything else it meets (a half-initialised vault, a lost key, half-written certificates)
\* lets the next operation go on, and a step that gives up is the one every next run comes to.
THEOREM GivesUpWhenStuck == Spec => [](Blocked => Stuck)
<1>1. InstallInv /\ Blocked => Stuck
  <2>. SUFFICES ASSUME InstallInv, Blocked PROVE Stuck
    OBVIOUS
  <2>. Order /\ Place /\ EngineOK /\ VaultInv /\ Items
    BY DEF InstallInv, TypeOK
  <2>. DEFINE step == StepNames[pos]
  <2>1. InStep
    BY DEF Blocked, InStep
  <2>2. Due(step) /\ step \in Applies
    BY <2>1, UnderWayIsDue DEF Order
  <2>3. pc \notin Labels => step = pc
    BY DEF EngineOK, Place
  <2>. HIDE DEF step
  <2>4. CASE pc \in {"preflight", "pki", "pki-from-leader", "ziti", "schmutz"} /\ Lacks(pc)
    BY <2>2, <2>3, <2>4 DEF Stuck, Labels
  <2>5. CASE pc = "download" /\ "releases" \notin node.has /\ Binary # "schmutz-controller" /\ bins[Binary] = "absent"
    <3>1. item \in DOMAIN Binaries
      BY <2>5, ListLengths DEF Items
    <3>2. Lacks("download")
      BY <2>5, <3>1 DEF Lacks, Binary
    <3>. QED
      BY <2>2, <2>3, <2>5, <3>2 DEF Stuck, Labels
  <2>6. CASE (pc = "bao-restart" /\ ~Runs("bao")) \/ (pc = "raft-join" /\ Lacks("bao-join"))
    <3>1. step \in {"bao-init", "bao-join"} /\ (pc = "raft-join" => step = "bao-join")
      BY <2>6 DEF Place, step
    <3>2. Lacks(step)
      BY <2>6, <3>1 DEF Lacks
    <3>. QED
      BY <2>2, <3>2 DEF Stuck
  <2>7. CASE (pc = "bao-setup" /\ vault.gen # 0 /\ vault.sealed) \/ (pc = "bao-save" /\ freshKey = 0 /\ initFile = 0)
    BY <2>7 DEF VaultInv
  <2>8. CASE pc \in {"store-creds", "acl"} /\ ~Usable /\ (pc = "acl" => ~TestMode)
    BY <2>2, <2>3, <2>8, OnlySealed DEF Stuck, Labels
  <2>9. CASE pc = "fabric-objects" /\ FabricObjects[item] \in ziti.objects
    BY <2>2, <2>9 DEF Place, Stuck, step
  <2>10. CASE pc = "verify" /\ ~Healthy
    BY <2>2, <2>3, <2>10 DEF Stuck, Labels
  <2>. QED
    BY <2>4, <2>5, <2>6, <2>7, <2>8, <2>9, <2>10 DEF Blocked
<1>. QED
  BY <1>1, InstallInvariant, PTL

\* Install returns without an error only on a joining node with all that the operator brings,
\* or on a leader in test mode: no repetition completes a real leader.
THEOREM OnlyVerifiableComplete == Spec => [](pc = "complete" => Verifiable)
<1>1. "verify" \in Applies
  BY DEF Applies, StepNames, LeaderOnly, JoinOnly
<1>2. InstallInv /\ pc = "complete" => Verifiable
  BY <1>1 DEF InstallInv, Completed, Verified
<1>. QED
  BY <1>2, InstallInvariant, PTL

\* What the machine has to offer for a step, whatever the installation leaves on it.
Provided(step) ==
  /\ step = "preflight" => "host" \in node.has
  /\ step \in {"pki", "ziti"} => Runs("ziti")
  /\ step \in {"bao-init", "bao-join"} => Runs("bao")
  /\ step = "bao-join" => "leader" \in node.has

\* A step that is recorded, or past the operation that needs it, was provided for; and in test
\* mode the bin directory has no bao.
Equipped ==
  /\ \A step \in done : Provided(step)
  /\ pc = "sentinel" => Provided(StepNames[pos])
  /\ pc = "pki-files" => Runs("ziti")
  /\ pc \in {"bao-setup", "bao-unseal", "bao-save", "raft-join"} => Runs("bao")
  /\ TestMode => bins["bao"] = "absent"

\* A file of the bin directory that download has completed stays, and so does what runs.
LEMMA BinsKept ==
  ASSUME FilesOK, Items, [Next]_vars
  PROVE  /\ \A b \in DOMAIN bins : bins[b] # "absent" => bins'[b] = bins[b]
         /\ TestMode => bins'["bao"] = bins["bao"]
         /\ DOMAIN bins' = DOMAIN bins
<1>1. CASE AlreadyDownloaded \/ DownloadCut \/ \E state \in {"whole", "partial", "absent"} : Download(state)
  <2>1. bins' = bins \/ \E state \in {"whole", "partial", "absent"} :
           bins[Binary] = "absent" /\ bins' = [bins EXCEPT ![Binary] = state] /\ pc = "download"
    BY <1>1 DEF AlreadyDownloaded, DownloadCut, Download, KeepOther, At
  <2>2. TestMode /\ pc = "download" => Binary # "bao"
    BY DEF Items, Binary, Binaries
  <2>. QED
    BY <2>1, <2>2 DEF FilesOK
<1>2. CASE Start \/ Engine \/ Abort \/ Reboot \/ OperatorCreatesAdmin \/ OperatorCopiesPKI \/ UNCHANGED vars
  BY <1>2 DEF Start, Engine, PassOver, Begin, Sentinel, Finish, Fail, Abort, Reboot, OperatorCreatesAdmin,
     OperatorCopiesPKI, vars, files
<1>3. CASE Operation /\ ~AlreadyDownloaded /\ ~(\E state \in {"whole", "partial", "absent"} : Download(state))
  BY <1>3 DEF Operation, Preflight, PKIGenerate, PKIFile, PKIFromLeader, BaoWipe, BaoRestart, BaoSetup,
     BaoUnseal, BaoSave, RaftJoin, KVPut, CaddyToken, ACLSkipped, ACLRole, ACLCert, ZitiStart, Schmutz,
     Identities, FabricSkipped, FabricLogin, FabricCreate, Verify, files
<1>. QED
  BY <1>1, <1>2, <1>3 DEF Next, Fault

LEMMA ProvidedStays ==
  ASSUME FilesOK, Items, [Next]_vars
  PROVE  /\ Runs("ziti") => Runs("ziti")'
         /\ Runs("bao") => Runs("bao")'
         /\ \A step : Provided(step) => Provided(step)'
<1>1. \A program \in {"ziti", "bao"} : Runs(program) => Runs(program)'
  BY BinsKept, KindKept DEF Runs
<1>. QED
  BY <1>1, KindKept DEF Provided

\* An operation that leads past what it needs, and one that does not.
LEMMA OperationProvided ==
  ASSUME Equipped, Place, Order, EngineOK, Operation
  PROVE  /\ pc' = "sentinel" => Provided(StepNames[pos])
         /\ pc' = "pki-files" => Runs("ziti")
         /\ pc' \in {"bao-setup", "bao-unseal", "bao-save", "raft-join"} => Runs("bao")
<1>. InStep /\ StepNames[pos] \in Applies
  BY OperationInStep DEF Order
<1>. USE DEF Equipped, Place, EngineOK, Labels
<1>1. CASE Preflight \/ PKIGenerate \/ ZitiStart \/ BaoRestart \/ RaftJoin
  BY <1>1, Roles DEF Preflight, PKIGenerate, ZitiStart, BaoRestart, RaftJoin, At, Then, Blocked, Lacks, Provided
<1>2. CASE BaoWipe \/ BaoSetup \/ BaoUnseal \/ BaoSave
  BY <1>2, Roles DEF BaoWipe, BaoSetup, BaoUnseal, BaoSave, At, Then, Provided
<1>3. CASE AlreadyDownloaded \/ (\E state \in {"whole", "partial", "absent"} : Download(state))
             \/ PKIFile \/ KVPut \/ FabricCreate
  BY <1>3, Roles DEF AlreadyDownloaded, Download, PKIFile, KVPut, FabricCreate, At, Then, Advance, Provided
<1>4. CASE PKIFromLeader \/ CaddyToken \/ ACLSkipped \/ ACLRole \/ ACLCert \/ Schmutz \/ Identities
             \/ FabricSkipped \/ FabricLogin \/ Verify
  BY <1>4, Roles DEF PKIFromLeader, CaddyToken, ACLSkipped, ACLRole, ACLCert, Schmutz, Identities,
     FabricSkipped, FabricLogin, Verify, At, Then, Provided
<1>. QED
  BY <1>1, <1>2, <1>3, <1>4 DEF Operation

LEMMA EquippedKept == Equipped /\ Items /\ Place /\ Order /\ TypeOK /\ [Next]_vars => Equipped'
<1>. SUFFICES ASSUME Equipped, Items, Place, Order, TypeOK, [Next]_vars PROVE Equipped'
  OBVIOUS
<1>. EngineOK /\ FilesOK
  BY DEF TypeOK
<1>1. \A step : Provided(step) => Provided(step)'
  BY ProvidedStays
<1>2. TestMode' => bins'["bao"] = "absent"
  BY BinsKept, KindKept DEF Equipped
<1>3. \A step \in done' : Provided(step)'
  <2>1. done' = done \/ (pc = "sentinel" /\ done' = done \cup {StepNames[pos]})
    BY OtherSteps, OperationInStep
  <2>. QED
    BY <1>1, <2>1 DEF Equipped
<1>4. CASE Operation
  <2>1. pos' = pos
    BY <1>4, OperationInStep
  <2>. QED
    BY <1>1, <1>2, <1>3, <1>4, <2>1, OperationProvided, ProvidedStays DEF Equipped
<1>5. CASE Start \/ PassOver \/ Begin \/ Finish \/ Fail
  BY <1>2, <1>3, <1>5, EngineShape, Roles DEF Equipped
<1>6. CASE Sentinel \/ Fault
  BY <1>2, <1>3, <1>6, FaultShape DEF Sentinel, Equipped
<1>7. CASE OperatorCopiesPKI \/ OperatorCreatesAdmin \/ UNCHANGED vars
  <2>1. pc' = pc /\ pos' = pos
    BY <1>7, OperatorShape
  <2>. QED
    BY <1>1, <1>2, <1>3, <2>1, ProvidedStays DEF Equipped
<1>. QED
  BY <1>4, <1>5, <1>6, <1>7 DEF Next, Engine

\* Install returns without an error only on a machine that has, where they are started from,
\* the programs that no step puts there; in test mode bao is never one of those that download
\* has left, so that the machine has it beforehand or the installation does not end.
THEOREM OnlyEquippedComplete ==
  Spec => [](pc = "complete" => /\ "host" \in node.has
                                /\ Runs("ziti") /\ Runs("bao")
                                /\ JoinMode => "leader" \in node.has
                                /\ TestMode => "bao" \in node.has)
<1>1. Init => Equipped
  BY DEF Init, Equipped
<1>2. InstallInv /\ Equipped /\ [Next]_vars => Equipped'
  BY EquippedKept DEF InstallInv
<1>3. ASSUME InstallInv, Equipped, pc = "complete"
      PROVE  /\ "host" \in node.has
             /\ Runs("ziti") /\ Runs("bao")
             /\ JoinMode => "leader" \in node.has
             /\ TestMode => "bao" \in node.has
  <2>1. Applies \subseteq done
    BY <1>3 DEF InstallInv, Completed
  <2>2. /\ {"preflight", "ziti"} \subseteq Applies
        /\ JoinMode => "bao-join" \in Applies
        /\ ~JoinMode => "bao-init" \in Applies
    BY DEF Applies, StepNames, LeaderOnly, JoinOnly
  <2>3. "host" \in node.has /\ Runs("ziti") /\ Runs("bao") /\ (JoinMode => "leader" \in node.has)
    BY <1>3, <2>1, <2>2 DEF Equipped, Provided
  <2>4. TestMode => "bao" \in node.has
    BY <1>3, <2>3 DEF Equipped, Runs
  <2>. QED
    BY <2>3, <2>4
<1>. QED
  BY <1>1, <1>2, <1>3, InstallInvariant, PTL DEF Spec

\* Three of the reasons of Stuck, the first for an operator who does not bring the files.
Unsupplied == JoinMode /\ ~Manual /\ \E f \in JoinFiles : etcPki[f] = 0
SealedUp   == "bao-init" \in done /\ vault.sealed /\ ("store-creds" \notin done \/ ("acl" \notin done /\ ~TestMode))
Unhealthy  == Applies \ done = {"verify"} /\ ~Healthy
DeadEnd    == Unsupplied \/ SealedUp \/ Unhealthy

LEMMA DoneGrows ==
  ASSUME [Next]_vars
  PROVE  done' = done \/ (pc = "sentinel" /\ done' = done \cup {StepNames[pos]})
  BY OtherSteps, OperationInStep

LEMMA SealedStays == InstallInv /\ SealedUp /\ [Next]_vars => SealedUp'
<1>. SUFFICES ASSUME InstallInv, SealedUp, [Next]_vars PROVE SealedUp'
  OBVIOUS
<1>. Place /\ Order /\ EngineOK /\ VaultInv /\ ServicesOK /\ Open /\ FilesOK
  BY DEF InstallInv, TypeOK
<1>. TestMode' = TestMode
  BY KindKept
<1>1. vault'.sealed
  <2>1. CASE BaoUnseal \/ BaoSetup \/ BaoWipe \/ BaoRestart \/ RaftJoin
    <3>1. pc \in {"bao-init", "bao-join", "bao-restart", "bao-setup", "bao-unseal", "raft-join"}
      BY <2>1 DEF BaoUnseal, BaoSetup, BaoWipe, BaoRestart, RaftJoin, At
    <3>. QED
      BY <3>1, VaultStepUnderWay DEF SealedUp
  <2>2. CASE Reboot
    BY <2>2 DEF Reboot, ServicesOK
  <2>3. CASE UNCHANGED vault
    BY <2>3 DEF SealedUp
  <2>. QED
    BY <2>1, <2>2, <2>3, NumbersChange DEF Start, BaoSave, ACLRole, services, bao
<1>2. CASE done' = done
  BY <1>1, <1>2 DEF SealedUp
<1>3. CASE pc = "sentinel" /\ done' = done \cup {StepNames[pos]}
  BY <1>1, <1>3 DEF SealedUp, Open
<1>. QED
  BY <1>2, <1>3, DoneGrows

\* A node that verify does not pass is not one to pass later: what it lacks, no step brings.
LEMMA UnhealthyStays ==
  ASSUME InstallInv, InstallInv', Unhealthy, [Next]_vars
  PROVE  Unhealthy'
<1>. Place /\ Order /\ EngineOK /\ VaultInv /\ ServicesOK /\ VaultInv' /\ Verified'
  BY DEF InstallInv, TypeOK
<1>. TestMode' = TestMode /\ JoinMode' = JoinMode /\ Manual' = Manual /\ Applies' = Applies
  BY KindKept DEF Manual
<1>1. JoinMode \/ "bao-init" \in done
  BY Roles DEF Unhealthy
<1>2. ~Verifiable
  BY <1>1, HealthyIs DEF Unhealthy
<1>3. "schmutz" \in Applies /\ StepNames[10] = "schmutz" /\ StepNames[14] = "verify"
  BY DEF Applies, StepNames, LeaderOnly, JoinOnly
<1>4. schmutz' = schmutz
  <2>1. CASE Schmutz
    <3>1. "schmutz" \notin done
      BY <2>1 DEF Schmutz, At, Place, Order, InStep, EngineOK, Labels
    <3>. QED
      BY <1>3, <3>1 DEF Unhealthy
  <2>2. CASE Start \/ Engine \/ Fault \/ OperatorCreatesAdmin \/ OperatorCopiesPKI \/ UNCHANGED vars
    BY <2>2, EngineShape, FaultShape DEF Engine, Sentinel, OperatorCreatesAdmin, OperatorCopiesPKI, vars, services
  <2>3. CASE Operation /\ ~Schmutz
    BY <2>3 DEF Operation, Preflight, AlreadyDownloaded, Download, KeepOther, PKIGenerate, PKIFile,
       PKIFromLeader, BaoWipe, BaoRestart, BaoSetup, BaoUnseal, BaoSave, RaftJoin, KVPut, CaddyToken,
       ACLSkipped, ACLRole, ACLCert, ZitiStart, Identities, FabricSkipped, FabricLogin,
       FabricCreate, Verify, services, bao
  <2>. QED
    BY <2>1, <2>2, <2>3 DEF Next
<1>5. ~Verifiable'
  BY <1>2, <1>4 DEF Verifiable
<1>6. "verify" \notin done'
  BY <1>5 DEF Verified
<1>7. Applies' \ done' = {"verify"}
  BY <1>6, DoneGrows DEF Unhealthy
<1>8. ~Healthy'
  <2>1. JoinMode' \/ "bao-init" \in done'
    BY <1>7, Roles
  <2>2. CASE JoinMode'
    BY <1>5, <2>2 DEF Healthy, Verifiable
  <2>3. CASE ~JoinMode'
    BY <1>5, <2>1, <2>3 DEF Healthy, Verifiable, VaultInv, BaoVaultHealthy, SealStatus
  <2>. QED
    BY <2>2, <2>3
<1>. QED
  BY <1>7, <1>8 DEF Unhealthy

LEMMA UnsuppliedStays ==
  ASSUME InstallInv, Unsupplied, [Next]_vars
  PROVE  Unsupplied'
<1>. Place /\ Order /\ EngineOK /\ FilesOK
  BY DEF InstallInv, TypeOK
<1>1. JoinMode' = JoinMode /\ Manual' = Manual
  BY KindKept DEF Manual
<1>2. etcPki' = etcPki
  BY JoinFilesKept DEF Unsupplied
<1>. QED
  BY <1>1, <1>2 DEF Unsupplied

\* At a dead end the command has not come to its end.
LEMMA DeadEndIncomplete ==
  ASSUME InstallInv, DeadEnd
  PROVE  pc # "complete"
<1>. SUFFICES ASSUME pc = "complete" PROVE FALSE
  OBVIOUS
<1>1. Applies \subseteq done
  BY DEF InstallInv, Completed
<1>2. CASE Unsupplied
  <2>1. "pki-from-leader" \in Applies
    BY <1>2 DEF Unsupplied, Applies, StepNames, LeaderOnly
  <2>. QED
    BY <1>1, <1>2, <2>1 DEF Unsupplied, InstallInv, Copied
<1>3. CASE SealedUp
  <2>1. ~JoinMode
    BY <1>3, Roles DEF SealedUp, InstallInv, Order
  <2>2. {"store-creds", "acl"} \subseteq Applies
    BY <2>1 DEF Applies, StepNames, JoinOnly
  <2>. QED
    BY <1>1, <1>3, <2>2 DEF SealedUp
<1>4. CASE Unhealthy
  BY <1>1, <1>4 DEF Unhealthy
<1>. QED
  BY <1>2, <1>3, <1>4 DEF DeadEnd

\* Who is at a dead end stays there, however often the command is repeated, interrupted or the
\* machine restarted: files that no step of the joining node brings, a vault that no step
\* unseals, a verdict that no step changes.
THEOREM NoWayOut == Spec => [](DeadEnd => [](pc # "complete"))
<1>1. InstallInv /\ InstallInv' /\ DeadEnd /\ [Next]_vars => DeadEnd'
  BY SealedStays, UnhealthyStays, UnsuppliedStays DEF DeadEnd
<1>2. InstallInv /\ DeadEnd => pc # "complete"
  BY DeadEndIncomplete
<1>. QED
  BY <1>1, <1>2, InstallInvariant, PTL DEF Spec

\* What is in the vault was stored there after it was initialised.
Stored == secrets.written # {} => vault.gen # 0

LEMMA StoredKept == Stored /\ ServicesOK /\ [Next]_vars => Stored'
<1>. SUFFICES ASSUME Stored, ServicesOK, [Next]_vars PROVE Stored'
  OBVIOUS
<1>. USE DEF Stored, ServicesOK
<1>1. CASE Start \/ Engine \/ OperatorCreatesAdmin \/ OperatorCopiesPKI \/ UNCHANGED vars
  BY <1>1, EngineShape DEF Engine, Start, PassOver, Begin, Sentinel, Finish, Fail, OperatorCreatesAdmin,
     OperatorCopiesPKI, vars, services, bao
<1>2. CASE Fault
  BY <1>2 DEF Fault, Abort, DownloadCut, Reboot, KeepOther, services, bao
<1>3. CASE BaoWipe
  BY <1>3 DEF BaoWipe, NoSecrets
<1>4. CASE BaoRestart \/ BaoUnseal \/ RaftJoin
  BY <1>4 DEF BaoRestart, BaoUnseal, RaftJoin
<1>5. CASE BaoSetup
  <2>1. secrets' = secrets /\ vault'.gen \in {vault.gen, vaults + 1}
    BY <1>5 DEF BaoSetup
  <2>. QED
    BY <1>5, <2>1 DEF BaoSetup
<1>6. CASE KVPut
  BY <1>6 DEF KVPut, At, Blocked, Usable
<1>7. CASE Operation /\ ~BaoWipe /\ ~BaoRestart /\ ~BaoUnseal /\ ~RaftJoin /\ ~BaoSetup /\ ~KVPut
  BY <1>7 DEF Operation, Preflight, AlreadyDownloaded, Download, KeepOther, PKIGenerate, PKIFile,
     PKIFromLeader, BaoSave, CaddyToken, ACLSkipped, ACLRole, ACLCert, ZitiStart, Schmutz, Identities,
     FabricSkipped, FabricLogin, FabricCreate, Verify, files, services, bao
<1>. QED
  BY <1>1, <1>2, <1>3, <1>4, <1>5, <1>6, <1>7 DEF Next

\* store_creds.go:39 stores cfg.BaoRootToken and cfg.BaoUnsealKey, which nothing assigns: what
\* is stored is never the vault's, on no node and after no history.  CredsStored, refuted on
\* one instance, fails wherever it says something.
THEOREM NeverTheVaults == Spec => []("bao/init" \in secrets.written => secrets.init # vault.gen)
<1>1. Init => Stored
  BY DEF Init, Stored, NoSecrets
<1>2. TypeOK /\ Stored /\ [Next]_vars => Stored'
  BY StoredKept DEF TypeOK
<1>3. TypeOK /\ Stored => ("bao/init" \in secrets.written => secrets.init # vault.gen)
  BY DEF TypeOK, ServicesOK, Stored
<1>. QED
  BY <1>1, <1>2, <1>3, TypeCorrect, PTL DEF Spec

\* How far a run is from its end: the steps left in the list, the operations left in the step,
\* the items left in the operation.
Rank(l) ==
  IF l \in {"stopped", "complete"} THEN 0
  ELSE IF l = "sentinel" THEN 1
  ELSE IF l \in {"bao-save", "pki-files", "raft-join", "caddy-token", "acl-cert", "fabric-objects"} THEN 2
  ELSE IF l = "bao-unseal" THEN 3
  ELSE IF l = "bao-setup" THEN 4
  ELSE IF l = "bao-restart" THEN 5
  ELSE IF l = "loop" THEN 7
  ELSE 6

Left == 80 * (15 - pos) + 10 * Rank(pc) + (9 - item)

LEMMA RankRange == Rank(pc) \in 0..7 /\ Rank(pc)' \in 0..7
  BY DEF Rank

LEMMA OperationAdvances ==
  ASSUME InstallInv, Operation
  PROVE  pos' = pos /\ (Rank(pc)' < Rank(pc) \/ (pc' = pc /\ item' = item + 1))
<1>. EngineOK /\ pos' = pos
  BY OperationInStep DEF InstallInv, TypeOK
<1>. USE DEF Rank, Then, At
<1>1. CASE Preflight \/ PKIGenerate \/ PKIFromLeader \/ ZitiStart \/ Schmutz \/ Identities \/ Verify
  BY <1>1 DEF Preflight, PKIGenerate, PKIFromLeader, ZitiStart, Schmutz, Identities, Verify
<1>2. CASE BaoWipe \/ BaoRestart \/ BaoSetup \/ BaoUnseal \/ BaoSave \/ RaftJoin
  BY <1>2 DEF BaoWipe, BaoRestart, BaoSetup, BaoUnseal, BaoSave, RaftJoin, InstallInv, VaultInv
<1>3. CASE CaddyToken \/ ACLSkipped \/ ACLRole \/ ACLCert \/ FabricSkipped \/ FabricLogin
  BY <1>3 DEF CaddyToken, ACLSkipped, ACLRole, ACLCert, FabricSkipped, FabricLogin
<1>4. CASE AlreadyDownloaded \/ \E state \in {"whole", "partial", "absent"} : Download(state)
  BY <1>4 DEF AlreadyDownloaded, Download, Advance
<1>5. CASE PKIFile \/ KVPut \/ FabricCreate
  BY <1>5 DEF PKIFile, KVPut, FabricCreate, Advance
<1>. QED
  BY <1>1, <1>2, <1>3, <1>4, <1>5 DEF Operation

LEMMA EngineAdvances ==
  ASSUME InstallInv, Engine
  PROVE  (pos' = pos + 1 /\ item' \in 1..9) \/ (pos' = pos /\ Rank(pc)' < Rank(pc) /\ item' \in 1..9)
<1>. EngineOK
  BY DEF InstallInv, TypeOK
<1>1. CASE PassOver \/ Sentinel
  BY <1>1 DEF PassOver, Sentinel, EngineOK
<1>2. CASE Begin
  <2>1. pc = "loop" /\ pc' \in Applies /\ pos' = pos /\ item' = 1
    BY <1>2 DEF Begin, Pending
  <2>. QED
    BY <2>1, Roles DEF Rank
<1>3. CASE Finish
  BY <1>3 DEF Finish, Rank, EngineOK
<1>4. CASE Fail
  BY <1>4 DEF Fail, Blocked, Rank, EngineOK
<1>. QED
  BY <1>1, <1>2, <1>3, <1>4 DEF Engine

\* Every run of the command ends: each step it takes brings it nearer, by a quantity that is
\* never negative and at most 1198, whatever earlier runs left behind.  With the fairness of
\* FairSpec this is why Settles has only the operator's repetitions left to speak of.
THEOREM RunsEnd == Spec => [][Engine \/ Operation => Left' < Left /\ {Left, Left'} \subseteq 0..1198]_vars
<1>1. ASSUME InstallInv, InstallInv'
      PROVE  {Left, Left'} \subseteq 0..1198
  BY <1>1, RankRange DEF Left, InstallInv, TypeOK, EngineOK
<1>2. ASSUME InstallInv, InstallInv', Operation
      PROVE  Left' < Left
  BY <1>2, RankRange, OperationAdvances DEF Left, InstallInv, TypeOK, EngineOK
<1>3. ASSUME InstallInv, InstallInv', Engine
      PROVE  Left' < Left
  BY <1>3, RankRange, EngineAdvances DEF Left, InstallInv, TypeOK, EngineOK
<1>. QED
  BY <1>1, <1>2, <1>3, InstallInvariant, PTL DEF Spec

\* Once the fabric step is recorded, which one failed login is enough for (fabric.go:38), no
\* run creates another of its objects.
FabricLeft == "fabric" \in done => ziti'.objects = ziti.objects

\* A file that the download has put there, whole or cut short, is never replaced
\* (download.go:78 looks at its existence only).
BinariesLeft == \A b \in DOMAIN bins : bins[b] # "absent" => bins'[b] = bins[b]

\* What one run skipped or cut short, no later run repairs, however often it is repeated.
THEOREM NothingRepaired == Spec => [][FabricLeft /\ BinariesLeft]_vars
<1>1. ASSUME InstallInv, [Next]_vars
      PROVE  FabricLeft
  <2>. USE <1>1 DEF FabricLeft, InstallInv, TypeOK, ServicesOK
  <2>1. CASE FabricCreate
    <3>1. "fabric" \notin done
      BY <2>1 DEF FabricCreate, At, Place, Order, InStep
    <3>. QED
      BY <3>1
  <2>2. CASE OperatorCreatesAdmin \/ ZitiStart
    BY <2>2 DEF OperatorCreatesAdmin, ZitiStart
  <2>3. CASE Start \/ Engine \/ Fault \/ OperatorCopiesPKI \/ UNCHANGED vars
    BY <2>3, EngineShape, FaultShape DEF Engine, Sentinel, OperatorCopiesPKI, vars, services
  <2>4. CASE Operation /\ ~FabricCreate /\ ~ZitiStart
    BY <2>4 DEF Operation, Preflight, AlreadyDownloaded, Download, KeepOther, PKIGenerate, PKIFile,
       PKIFromLeader, BaoWipe, BaoRestart, BaoSetup, BaoUnseal, BaoSave, RaftJoin, KVPut, CaddyToken,
       ACLSkipped, ACLRole, ACLCert, Schmutz, Identities, FabricSkipped, FabricLogin, Verify, services, bao
  <2>. QED
    BY <2>1, <2>2, <2>3, <2>4 DEF Next
<1>2. ASSUME InstallInv, [Next]_vars
      PROVE  BinariesLeft
  BY <1>2, BinsKept DEF BinariesLeft, InstallInv, TypeOK
<1>. QED
  BY <1>1, <1>2, InstallInvariant, PTL DEF Spec
=============================================================================
