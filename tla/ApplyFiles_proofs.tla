--------------------------- MODULE ApplyFiles_proofs ---------------------------
(***************************************************************************)
(* Proofs about the files of Apply: what is in the profiles' directories,  *)
(* the staging directories, the credential files and the active link.      *)
(* They rest on one observation: as long as the applies of a profile come  *)
(* one after the other, the one that is under way is alone with the        *)
(* profile's two directories, and what it has done so far is still there.  *)
(***************************************************************************)
EXTENDS Apply_proofs, FiniteSetTheorems, WellFoundedInduction

-----------------------------------------------------------------------------
\* What a step of apply i leaves alone.
Frame(i) ==
  /\ setting' = setting /\ instr' = instr /\ crashes' = crashes
  /\ ~Finished(i) /\ pc'[i] # "none"
  /\ \A j \in Applies \ {i} : /\ pc'[j] = pc[j] /\ todo'[j] = todo[j] /\ held'[j] = held[j]
                              /\ outcome'[j] = outcome[j] /\ (j \in bad' <=> j \in bad)
  /\ \A p \in Profiles : p # Profile(i) => stage'[p] = stage[p] /\ dir'[p] = dir[p]

\* What the end of the process leaves alone, and what the steps of the others do.
Lost ==
  /\ setting' = setting /\ instr' = instr /\ crashes' # 0
  /\ pc' = [i \in Applies |-> IF Active(i) THEN "lost" ELSE pc[i]]
  /\ UNCHANGED <<todo, held, bad, outcome, stage, dir, cred, tmp, link>>

Calm ==
  /\ UNCHANGED <<pc, todo, held, bad, outcome, stage, dir, tmp, link, setting, instr, crashes>>
  /\ cred' = cred \/ cred' = [cred EXCEPT !["secret-id"] = 0]

\* A step before the staging directory is there has a frame.
LEMMA FrameFetch ==
  ASSUME TypeOK, NEW i \in Applies, Receive(i) \/ Fetching(i), ~FetchPanics(i)
  PROVE  Frame(i)
<1> USE DEF TypeOK, ProgressOK, Frame, Finished, Goto, ReturnError, At, disk, results, channel, fate
<1>1. CASE Receive(i)
  BY <1>1 DEF Receive
<1>2. CASE FetchError(i)
  BY <1>2 DEF FetchError
<1>3. ASSUME NEW d \in BOOLEAN, Fetched(i, d)
      PROVE  Frame(i)
  BY <1>3 DEF Fetched
<1> QED
  BY <1>1, <1>2, <1>3 DEF Fetching

\* A step on the staging directory has a frame.
LEMMA FrameStaging ==
  ASSUME TypeOK, NEW i \in Applies, NEW f \in Files,
         Clean(i) \/ MakeStage(i) \/ ExtractOpen(i, f) \/ ExtractWrite(i) \/ ExtractError(i) \/ Cleanup(i)
  PROVE  Frame(i)
<1> USE DEF TypeOK, ProgressOK, FilesOK, Frame, Finished, Goto, ReturnError, At, SetStage, PutStaged,
            disk, results, channel, fate
<1>1. CASE Clean(i)
  BY <1>1 DEF Clean
<1>2. CASE MakeStage(i)
  BY <1>2 DEF MakeStage
<1>3. CASE ExtractOpen(i, f)
  BY <1>3 DEF ExtractOpen
<1>4. CASE ExtractWrite(i)
  BY <1>4 DEF ExtractWrite
<1>5. CASE ExtractError(i)
  BY <1>5 DEF ExtractError
<1>6. CASE Cleanup(i)
  BY <1>6 DEF Cleanup
<1> QED
  BY <1>1, <1>2, <1>3, <1>4, <1>5, <1>6

\* A step of copyDir has a frame.
LEMMA FrameCopying ==
  ASSUME TypeOK, NEW i \in Applies, NEW f \in Files,
         \/ List(i) \/ CopyOpen(i, f) \/ CopyReadError(i, f)
         \/ CopyWrite(i) \/ CopyWriteFails(i) \/ CopyDone(i)
  PROVE  Frame(i)
<1> USE DEF TypeOK, ProgressOK, FilesOK, Frame, Finished, Goto, ReturnAfterDefer, At,
            disk, results, channel, fate
<1>1. CASE List(i)
  BY <1>1 DEF List
<1>2. CASE CopyOpen(i, f)
  BY <1>2 DEF CopyOpen
<1>3. CASE CopyReadError(i, f)
  BY <1>3 DEF CopyReadError
<1>4. CASE CopyWrite(i)
  BY <1>4 DEF CopyWrite
<1>5. CASE CopyWriteFails(i) \/ CopyDone(i)
  BY <1>5 DEF CopyWriteFails, CopyDone
<1> QED
  BY <1>1, <1>2, <1>3, <1>4, <1>5

\* The labels of a credential's steps.
LEMMA CredentialLabels ==
  ASSUME NEW c \in CredFiles
  PROVE  /\ c \in {"role-id", "secret-id"} /\ Move[c] \in {"move role-id", "move secret-id"}
         /\ AfterIt[c] \in {"secret-id", "unlink"}
BY DEF CredFiles, Move, AfterIt

\* A step on the credentials, or after them, has a frame.
LEMMA FrameEnding ==
  ASSUME TypeOK, NEW i \in Applies, NEW c \in CredFiles,
         \/ NoCredential(i, c) \/ WriteTmp(i, c) \/ WriteTmpFails(i, c) \/ Rename(i, c)
         \/ Unlink(i) \/ KeepLink(i) \/ Symlink(i) \/ Restart(i) \/ RestartFails(i) \/ Report(i)
  PROVE  Frame(i)
<1> USE DEF TypeOK, ProgressOK, Frame, Finished, Goto, ReturnAfterDefer, At,
            disk, results, channel, fate, creds
<1>0. /\ c \notin {"ended", "lost"} /\ Move[c] \notin {"none", "ended", "lost"}
      /\ AfterIt[c] \notin {"none", "ended", "lost"}
  BY CredentialLabels
<1>1. CASE NoCredential(i, c) \/ WriteTmp(i, c)
  BY <1>0, <1>1 DEF NoCredential, WriteTmp
<1>2. CASE WriteTmpFails(i, c) \/ Rename(i, c)
  BY <1>0, <1>2 DEF WriteTmpFails, Rename
<1>3. CASE Unlink(i) \/ KeepLink(i) \/ Symlink(i)
  BY <1>3 DEF Unlink, KeepLink, Symlink
<1>4. CASE Restart(i) \/ RestartFails(i)
  BY <1>4 DEF Restart, RestartFails
<1>5. CASE Report(i)
  BY <1>5 DEF Report
<1> QED
  BY <1>1, <1>2, <1>3, <1>4, <1>5

\* The steps of the system: one apply's, within its frame, the end of the process, or
\* somebody else's.
LEMMA StepCases ==
  ASSUME TypeOK, [Next]_vars
  PROVE  \/ \E i \in Applies : Frame(i) /\ (Receive(i) \/ Fetching(i) \/ Working(i))
         \/ Lost
         \/ Calm
<1>1. ASSUME Die PROVE Lost
  <2>1. crashes' # 0
    BY <1>1 DEF Die, TypeOK, CountersOK
  <2> QED
    BY <1>1, <2>1 DEF Die, Lost, results, disk, creds
<1>2. ASSUME NEW i \in Applies, Receive(i) \/ Fetching(i), ~FetchPanics(i)
      PROVE  Frame(i)
  BY <1>2, FrameFetch
<1>3. ASSUME NEW i \in Applies, Working(i)
      PROVE  Frame(i)
  <2>1. "hcl" \in Files /\ "role-id" \in CredFiles
    BY NamesAssumption DEF CredFiles
  <2>2. CASE Clean(i) \/ MakeStage(i) \/ ExtractWrite(i) \/ ExtractError(i) \/ Cleanup(i)
    BY <2>1, <2>2, FrameStaging
  <2>3. CASE List(i) \/ CopyWrite(i) \/ CopyWriteFails(i) \/ CopyDone(i)
    BY <2>1, <2>3, FrameCopying
  <2>4. ASSUME NEW f \in Files, ExtractOpen(i, f) \/ CopyOpen(i, f) \/ CopyReadError(i, f)
        PROVE  Frame(i)
    BY <2>4, FrameStaging, FrameCopying
  <2>5. ASSUME NEW c \in CredFiles, NoCredential(i, c) \/ WriteTmp(i, c) \/ WriteTmpFails(i, c) \/ Rename(i, c)
        PROVE  Frame(i)
    BY <2>5, FrameEnding
  <2>6. CASE Unlink(i) \/ KeepLink(i) \/ Symlink(i) \/ Restart(i) \/ RestartFails(i) \/ Report(i)
    BY <2>1, <2>6, FrameEnding
  <2> QED
    BY <1>3, <2>2, <2>3, <2>4, <2>5, <2>6 DEF Working
<1>4. ASSUME Emit \/ Drain \/ BaoLogin \/ UNCHANGED vars
      PROVE  Calm
  BY <1>4 DEF Emit, Drain, BaoLogin, Others, Calm, vars, progress, results, disk, creds, fate
<1> QED
  BY <1>1, <1>2, <1>3, <1>4 DEF Next, Crash, FetchPanics

-----------------------------------------------------------------------------
\* Applies of one profile that come one after the other.

Later == {"cleanup", "report", "ended", "lost"}

\* An apply has returned only when its goroutine is past everything else.
Outcomes == \A i \in Applies : outcome[i] # "none" => pc[i] \in Later

\* A controller that waits sends the next instruction when all before it are over.
Apart == Serial => \A i, j \in Applies : j < i /\ pc[i] # "none" => Finished(j)

Ordered == Outcomes /\ Apart

\* Both hold initially.
LEMMA OrderedInit == Init => Ordered
BY DEF Init, Ordered, Outcomes, Apart

\* What a goroutine has returned is known to itself only once it is past the rest.
LEMMA OutcomesStep == TypeOK /\ Outcomes /\ [Next]_vars => Outcomes'
<1> SUFFICES ASSUME TypeOK, Outcomes, [Next]_vars
             PROVE  Outcomes'
  OBVIOUS
<1>1. ASSUME NEW i \in Applies, Frame(i), Receive(i) \/ Fetching(i) \/ Working(i)
      PROVE  Outcomes'
  <2>1. outcome'[i] # "none" => pc'[i] \in Later
    <3> USE DEF Goto, At, Later, Outcomes, ReturnError, ReturnAfterDefer, TypeOK, ProgressOK, results
    <3>0. pc[i] \in Later \/ outcome[i] = "none"
      OBVIOUS
    <3>1. CASE Receive(i)
      BY <3>1 DEF Receive
    <3>2. CASE Fetching(i)
      BY <3>2, <1>1, <3>0 DEF Fetching, FetchError, Fetched, FetchPanics, Die
    <3>3. CASE Clean(i) \/ MakeStage(i) \/ ExtractWrite(i) \/ ExtractError(i) \/ Cleanup(i)
      BY <3>3 DEF Clean, MakeStage, ExtractWrite, ExtractError, Cleanup
    <3>4. CASE List(i) \/ CopyWrite(i) \/ CopyWriteFails(i) \/ CopyDone(i)
      BY <3>4 DEF List, CopyWrite, CopyWriteFails, CopyDone
    <3>5. ASSUME NEW f \in Files, ExtractOpen(i, f) \/ CopyOpen(i, f) \/ CopyReadError(i, f)
          PROVE  outcome'[i] # "none" => pc'[i] \in Later
      BY <3>5 DEF ExtractOpen, CopyOpen, CopyReadError
    <3>6. ASSUME NEW c \in CredFiles, NoCredential(i, c) \/ WriteTmp(i, c) \/ WriteTmpFails(i, c) \/ Rename(i, c)
          PROVE  outcome'[i] # "none" => pc'[i] \in Later
      BY <3>6, CredentialLabels DEF NoCredential, WriteTmp, WriteTmpFails, Rename
    <3>7. CASE Unlink(i) \/ KeepLink(i) \/ Symlink(i)
      BY <3>7 DEF Unlink, KeepLink, Symlink
    <3>8. CASE Restart(i) \/ RestartFails(i) \/ Report(i)
      BY <3>8 DEF Restart, RestartFails, Report
    <3> QED
      BY <1>1, <3>1, <3>2, <3>3, <3>4, <3>5, <3>6, <3>7, <3>8 DEF Working
  <2> QED
    BY <1>1, <2>1 DEF Frame, Outcomes
<1>2. CASE Lost
  BY <1>2 DEF Lost, Outcomes, Later, TypeOK, ProgressOK
<1>3. CASE Calm
  BY <1>3 DEF Calm, Outcomes
<1> QED
  BY <1>1, <1>2, <1>3, StepCases

\* The steps keep the applies of a patient controller apart.
LEMMA ApartStep == TypeOK /\ Apart /\ [Next]_vars => Apart'
<1> SUFFICES ASSUME TypeOK, Apart, [Next]_vars, Serial',
                    NEW i \in Applies, NEW j \in Applies, j < i, pc'[i] # "none"
             PROVE  Finished(j)'
  BY DEF Apart
<1>1. ASSUME NEW k \in Applies, Frame(k), Receive(k) \/ Fetching(k) \/ Working(k)
      PROVE  Finished(j)'
  <2>1. Serial /\ ~Finished(k)
    BY <1>1 DEF Frame, Serial
  <2>2. CASE k # i /\ k # j
    BY <1>1, <2>1, <2>2 DEF Frame, Apart, Finished
  <2>3. CASE k = j
    <3>1. i # k /\ pc'[i] = pc[i]
      BY <1>1, <2>3, NumbersAssumption DEF Frame, Applies
    <3> QED
      BY <2>1, <2>3, <3>1 DEF Apart
  <2>4. CASE k = i
    <3>1. j # k /\ pc'[j] = pc[j]
      BY <1>1, <2>4, NumbersAssumption DEF Frame, Applies
    <3>2. CASE pc[i] # "none"
      BY <2>1, <3>1, <3>2 DEF Apart, Finished
    <3>3. CASE Receive(i)
      <4>1. j \in 1..(i - 1)
        BY NumbersAssumption DEF Applies
      <4> QED
        BY <2>1, <3>1, <3>3, <4>1 DEF Receive, Active, Finished
    <3>4. CASE pc[i] = "none" /\ ~Receive(i)
      <4>1. CASE Fetching(i)
        BY <3>4, <4>1 DEF Fetching, FetchError, FetchPanics, Fetched, At
      <4>2. CASE Working(i)
        BY <3>4, <4>2, CredentialLabels DEF Working, At, Clean, MakeStage, ExtractWrite, ExtractError, List, CopyWrite,
           CopyWriteFails, CopyDone, ExtractOpen, CopyOpen, CopyReadError, NoCredential, WriteTmp,
           WriteTmpFails, Rename, Unlink, KeepLink, Symlink, Restart, RestartFails, Cleanup, Report
      <4> QED
        BY <1>1, <2>4, <3>4, <4>1, <4>2
    <3> QED
      BY <3>2, <3>3, <3>4
  <2> QED
    BY <2>2, <2>3, <2>4
<1>2. CASE Lost
  <2>1. Serial /\ pc[i] # "none"
    BY <1>2 DEF Lost, Serial, Active
  <2>2. Finished(j)
    BY <2>1 DEF Apart
  <2> QED
    BY <1>2, <2>2 DEF Lost, Active, Finished, TypeOK, ProgressOK
<1>3. CASE Calm
  BY <1>3 DEF Calm, Apart, Serial, Finished
<1> QED
  BY <1>1, <1>2, <1>3, StepCases

\* Together.
LEMMA OrderedStep == TypeOK /\ Ordered /\ [Next]_vars => Ordered'
BY OutcomesStep, ApartStep DEF Ordered

\* An apply that is alone was alone before.
LEMMA AloneBefore ==
  ASSUME TypeOK, [Next]_vars, NEW i \in Applies, Alone(i)'
  PROVE  Alone(i) /\ (Serial' <=> Serial) /\ instr' = instr
<1>1. instr' = instr /\ setting' = setting /\ \A j \in Applies : pc'[j] = "none" => pc[j] = "none"
  BY StepCases DEF Frame, Lost, Calm, Active, TypeOK, ProgressOK
<1> QED
  BY <1>1 DEF Alone, Profile, Serial

\* While an apply is alone, no other apply of its profile makes a step.
LEMMA Private ==
  ASSUME TypeOK, Ordered, [Next]_vars, NEW i \in Applies, Alone(i)', pc[i] # "none",
         NEW j \in Applies, j # i, Frame(j)
  PROVE  Profile(j) # Profile(i)
<1>1. SUFFICES ASSUME Profile(j) = Profile(i)
               PROVE  FALSE
  OBVIOUS
<1>2. Profile(j)' = Profile(i)' /\ (Serial' <=> Serial) /\ pc'[j] # "none"
  BY <1>1, AloneBefore DEF Frame, Profile
<1>3. Serial /\ j < i
  BY <1>2 DEF Alone
<1>4. Finished(j)
  BY <1>3 DEF Ordered, Apart
<1> QED
  BY <1>4 DEF Frame

-----------------------------------------------------------------------------
\* What an apply that is alone has done.

\* The staging directory holds these files of the apply's bundle, and nothing else.
Mine(i, S) == \A f \in Files : Staged(i, f) = IF f \in S THEN i ELSE 0

\* The profile's directory has the apply's version of these files.
Done(i, S) == \A f \in S : dir[Profile(i)][f] = i

Installing ==
  {"role-id", "move role-id", "secret-id", "move secret-id", "unlink", "symlink", "restart"}

OwnStage(i) ==
  /\ At(i, "mkstage") => todo[i] = Bundle(i) /\ Mine(i, {})
  /\ At(i, "extract") => todo[i] \subseteq Bundle(i) /\ Mine(i, Bundle(i) \ todo[i])
  /\ At(i, "unpack") => /\ todo[i] \subseteq Bundle(i)
                        /\ held[i].file \in Bundle(i) \ todo[i]
                        /\ Staged(i, held[i].file) = -i
                        /\ \A f \in Files \ {held[i].file} :
                             Staged(i, f) = IF f \in Bundle(i) \ todo[i] THEN i ELSE 0

OwnCopy(i) ==
  /\ At(i, "copy") => /\ todo[i] \subseteq Bundle(i) /\ Mine(i, Bundle(i))
                      /\ Done(i, Bundle(i) \ todo[i])
  /\ At(i, "write") => /\ todo[i] \subseteq Bundle(i) /\ Mine(i, Bundle(i))
                       /\ held[i].file \in Bundle(i) \ todo[i] /\ held[i].from = i
                       /\ dir[Profile(i)][held[i].file] = -i
                       /\ Done(i, (Bundle(i) \ todo[i]) \ {held[i].file})

OwnFiles(i) == pc[i] \in Installing \/ outcome[i] = "success" => Done(i, Bundle(i))

Own(i) == OwnStage(i) /\ OwnCopy(i) /\ OwnFiles(i)

Owned == \A i \in Applies : Alone(i) => Own(i)

\* Initially no apply has begun.
LEMMA OwnedInit == Init => Owned
BY DEF Init, Owned, Own, OwnStage, OwnCopy, OwnFiles, Installing, At

\* A step of another apply, or of the environment, disturbs nothing of it.
LEMMA OwnUndisturbed ==
  ASSUME TypeOK, NEW i \in Applies, Own(i), instr' = instr,
         pc'[i] = pc[i] \/ pc'[i] = "lost",
         todo'[i] = todo[i], held'[i] = held[i], outcome'[i] = outcome[i],
         stage'[Profile(i)] = stage[Profile(i)], dir'[Profile(i)] = dir[Profile(i)]
  PROVE  Own(i)'
<1> USE DEF At, Mine, Done, Staged, Profile, Bundle
<1>1. OwnStage(i)'
  BY DEF Own, OwnStage
<1>2. OwnCopy(i)'
  BY DEF Own, OwnCopy
<1>3. OwnFiles(i)'
  BY DEF Own, OwnFiles, Installing
<1> QED
  BY <1>1, <1>2, <1>3 DEF Own

\* An apply that is not at one of the labels, and has not succeeded, owns nothing.
LEMMA OwnNothing ==
  ASSUME NEW i \in Applies,
         pc'[i] \in {"none", "fetch", "clean", "cleanup", "report", "ended", "lost"},
         outcome'[i] # "success"
  PROVE  Own(i)'
BY DEF Own, OwnStage, OwnCopy, OwnFiles, At, Installing

\* A file that nobody else has opened holds what was written to it.
LEMMA WrittenAlone ==
  ASSUME NEW i \in Applies, NEW content, NEW now, now = -i
  PROVE  Written(now, i, content) = {content}
BY ContentOf DEF Written

\* What an apply that is alone has unpacked stays its own: each of its steps up to the listing.
LEMMA OwnStagingStep ==
  ASSUME TypeOK, Ordered, NEW i \in Applies, Own(i), NEW f \in Files, instr' = instr,
         Clean(i) \/ MakeStage(i) \/ ExtractOpen(i, f) \/ ExtractWrite(i) \/ ExtractError(i) \/ List(i)
  PROVE  Own(i)'
<1> USE DEF TypeOK, ProgressOK, FilesOK, Goto, At, results, disk
<1>1. Profile(i) \in Profiles /\ Bundle(i) \subseteq Files /\ i # 0 /\ -i # 0
  BY InstructionParts, ContentOf
<1>2. Profile(i)' = Profile(i) /\ Bundle(i)' = Bundle(i)
  BY DEF Profile, Bundle
<1>3. outcome[i] = "none" \/ pc[i] \in Later
  BY DEF Ordered, Outcomes
<1>4. CASE Clean(i)
  <2>1. pc'[i] = "mkstage" /\ todo'[i] = Bundle(i) /\ stage'[Profile(i)] = Gone /\ outcome'[i] = "none"
    BY <1>1, <1>3, <1>4 DEF Clean, SetStage, Later
  <2>2. Mine(i, {})'
    BY <1>2, <2>1 DEF Mine, Staged, Gone, Empty
  <2> QED
    BY <1>2, <2>1, <2>2 DEF Own, OwnStage, OwnCopy, OwnFiles, Installing
<1>5. CASE MakeStage(i)
  <2>1. /\ pc'[i] = "extract" /\ todo'[i] = Bundle(i) /\ outcome'[i] = "none"
        /\ stage'[Profile(i)].files = stage[Profile(i)].files
    BY <1>1, <1>3, <1>5 DEF MakeStage, SetStage, Later, Own, OwnStage
  <2>2. Mine(i, {})
    BY <1>5 DEF MakeStage, Own, OwnStage
  <2>3. Mine(i, Bundle(i) \ todo[i])'
    BY <1>2, <2>1, <2>2 DEF Mine, Staged
  <2> QED
    BY <1>2, <2>1, <2>3 DEF Own, OwnStage, OwnCopy, OwnFiles, Installing
<1>6. CASE ExtractOpen(i, f)
  <2>1. /\ pc'[i] = "unpack" /\ todo'[i] = todo[i] \ {f} /\ held'[i].file = f /\ outcome'[i] = "none"
        /\ stage'[Profile(i)].files = [stage[Profile(i)].files EXCEPT ![f] = -i]
    BY <1>1, <1>3, <1>6 DEF ExtractOpen, PutStaged, SetStage, Later
  <2>2. f \in todo[i] /\ todo[i] \subseteq Bundle(i) /\ Mine(i, Bundle(i) \ todo[i])
    BY <1>6 DEF ExtractOpen, Own, OwnStage
  <2>3. Staged(i, f)' = -i /\ \A g \in Files \ {f} : Staged(i, g)' = Staged(i, g)
    BY <1>1, <1>2, <2>1 DEF Staged
  <2>4. \A g \in Files \ {f} : Staged(i, g)' = IF g \in Bundle(i) \ (todo[i] \ {f}) THEN i ELSE 0
    BY <2>2, <2>3 DEF Mine
  <2> QED
    <3>1. todo[i]' \subseteq Bundle(i)' /\ f \in Bundle(i)' \ todo[i]'
      BY <1>2, <2>1, <2>2
    <3>2. \A g \in Files \ {f} : Staged(i, g)' = IF g \in Bundle(i)' \ todo[i]' THEN i ELSE 0
      BY <1>2, <2>1, <2>4
    <3>3. Staged(i, held[i].file)' = -i
      BY <2>1, <2>3 DEF Staged
    <3>4. OwnStage(i)'
      BY <2>1, <3>1, <3>2, <3>3 DEF OwnStage
    <3> QED
      BY <2>1, <3>4 DEF Own, OwnCopy, OwnFiles, Installing
<1>7. CASE ExtractWrite(i)
  <2>1. /\ todo[i] \subseteq Bundle(i) /\ held[i].file \in Bundle(i) \ todo[i] /\ Staged(i, held[i].file) = -i
        /\ \A g \in Files \ {held[i].file} : Staged(i, g) = IF g \in Bundle(i) \ todo[i] THEN i ELSE 0
    <3>1. pc[i] = "unpack"
      BY <1>7 DEF ExtractWrite
    <3> QED
      BY <3>1 DEF Own, OwnStage
  <2>2. stage' = [stage EXCEPT ![Profile(i)] = [stage[Profile(i)] EXCEPT !.files[held[i].file] = i]]
    <3>1. Written(Staged(i, held[i].file), i, i) = {i}
      BY <2>1, WrittenAlone
    <3> QED
      BY <1>7, <3>1 DEF ExtractWrite, SetStage
  <2>3. pc'[i] = "extract" /\ todo'[i] = todo[i] /\ outcome'[i] = "none" /\ held'[i] = held[i]
    BY <1>3, <1>7 DEF ExtractWrite, Later
  <2>4. Staged(i, held[i].file)' = i /\ \A g \in Files \ {held[i].file} : Staged(i, g)' = Staged(i, g)
    <3>1. stage'[Profile(i)].files = [stage[Profile(i)].files EXCEPT ![held[i].file] = i] /\ held'[i] = held[i]
      BY <1>1, <1>7, <2>2 DEF ExtractWrite
    <3> QED
      BY <1>1, <1>2, <2>1, <3>1 DEF Staged
  <2>5. Mine(i, Bundle(i) \ todo[i])'
    BY <1>2, <2>1, <2>3, <2>4 DEF Mine, Staged
  <2>6. todo[i]' \subseteq Bundle(i)'
    BY <1>2, <2>1, <2>3
  <2> QED
    BY <2>3, <2>5, <2>6 DEF Own, OwnStage, OwnCopy, OwnFiles, Installing
<1>8. CASE ExtractError(i)
  BY <1>8, OwnNothing DEF ExtractError, ReturnError
<1>9. CASE List(i)
  <2>1. CASE pc'[i] = "copy"
    <3>1. todo[i] = {} /\ Mine(i, Bundle(i) \ todo[i])
      BY <1>9 DEF List, Own, OwnStage
    <3>2. Mine(i, Bundle(i))
      BY <3>1
    <3>3. {g \in Files : Staged(i, g) # 0} = Bundle(i)
      BY <1>1, <3>2 DEF Mine
    <3>4. todo'[i] = Bundle(i) /\ outcome'[i] = "none" /\ stage' = stage
      BY <1>3, <1>9, <2>1, <3>3 DEF List, ReturnAfterDefer, Later
    <3>5. Mine(i, Bundle(i))'
      BY <1>2, <3>2, <3>4 DEF Mine, Staged
    <3> QED
      BY <1>2, <2>1, <3>4, <3>5 DEF Own, OwnStage, OwnCopy, OwnFiles, Installing, Done
  <2>2. CASE pc'[i] # "copy"
    BY <1>9, <2>2, OwnNothing DEF List, ReturnAfterDefer
  <2> QED
    BY <2>1, <2>2
<1> QED
  BY <1>4, <1>5, <1>6, <1>7, <1>8, <1>9

\* What it has copied stays its own: each of its steps in copyDir.
LEMMA OwnCopyingStep ==
  ASSUME TypeOK, Ordered, NEW i \in Applies, Own(i), NEW f \in Files, instr' = instr,
         CopyOpen(i, f) \/ CopyReadError(i, f) \/ CopyWrite(i) \/ CopyWriteFails(i) \/ CopyDone(i)
  PROVE  Own(i)'
<1> USE DEF TypeOK, ProgressOK, FilesOK, Goto, At, results, disk
<1>1. Profile(i) \in Profiles /\ Bundle(i) \subseteq Files /\ i # 0 /\ -i # 0
  BY InstructionParts, ContentOf
<1>2. Profile(i)' = Profile(i) /\ Bundle(i)' = Bundle(i)
  BY DEF Profile, Bundle
<1>3. outcome[i] = "none" \/ pc[i] \in Later
  BY DEF Ordered, Outcomes
<1>4. CASE CopyOpen(i, f)
  <2>1. /\ f \in todo[i] /\ todo[i] \subseteq Bundle(i) /\ Mine(i, Bundle(i))
        /\ Done(i, Bundle(i) \ todo[i])
    BY <1>4 DEF CopyOpen, Own, OwnCopy
  <2>2. /\ pc'[i] = "write" /\ todo'[i] = todo[i] \ {f} /\ held'[i].file = f /\ held'[i].from = i
        /\ outcome'[i] = "none" /\ stage' = stage
    BY <1>1, <1>3, <1>4, <2>1 DEF CopyOpen, Later, Mine
  <2>3. Mine(i, Bundle(i))'
    BY <1>2, <2>1, <2>2 DEF Mine, Staged
  <2>4. dir'[Profile(i)] = [dir[Profile(i)] EXCEPT ![f] = -i]
    BY <1>1, <1>4 DEF CopyOpen
  <2>5. dir'[Profile(i)][f] = -i /\ \A g \in (Bundle(i) \ (todo[i] \ {f})) \ {f} : dir'[Profile(i)][g] = i
    BY <1>1, <2>1, <2>4 DEF Done
  <2>6. OwnStage(i)' /\ OwnFiles(i)'
    BY <2>2 DEF OwnStage, OwnFiles, Installing
  <2>7. OwnCopy(i)'
    BY <1>2, <2>1, <2>2, <2>3, <2>5 DEF OwnCopy, Done
  <2> QED
    BY <2>6, <2>7 DEF Own
<1>5. CASE CopyWrite(i)
  <2>1. /\ todo[i] \subseteq Bundle(i) /\ Mine(i, Bundle(i))
        /\ held[i].file \in Bundle(i) \ todo[i] /\ held[i].from = i
        /\ dir[Profile(i)][held[i].file] = -i /\ Done(i, (Bundle(i) \ todo[i]) \ {held[i].file})
    BY <1>5 DEF CopyWrite, Own, OwnCopy
  <2>2. dir' = [dir EXCEPT ![Profile(i)][held[i].file] = i]
    <3>1. Written(dir[Profile(i)][held[i].file], i, held[i].from) = {i}
      BY <2>1, WrittenAlone
    <3> QED
      BY <1>5, <3>1 DEF CopyWrite
  <2>3. pc'[i] = "copy" /\ todo'[i] = todo[i] /\ outcome'[i] = "none" /\ stage' = stage
    BY <1>3, <1>5 DEF CopyWrite, Later
  <2>4. Mine(i, Bundle(i))'
    BY <1>2, <2>1, <2>3 DEF Mine, Staged
  <2>5. \A g \in Bundle(i) \ todo[i] : dir'[Profile(i)][g] = i
    BY <1>1, <2>1, <2>2 DEF Done
  <2>6. OwnStage(i)' /\ OwnFiles(i)'
    BY <2>3 DEF OwnStage, OwnFiles, Installing
  <2>7. OwnCopy(i)'
    BY <1>2, <2>1, <2>3, <2>4, <2>5 DEF OwnCopy, Done
  <2> QED
    BY <2>6, <2>7 DEF Own
<1>6. CASE CopyDone(i)
  <2>1. Done(i, Bundle(i) \ todo[i]) /\ todo[i] = {}
    BY <1>6 DEF CopyDone, Own, OwnCopy
  <2>2. Done(i, Bundle(i))
    BY <2>1
  <2>3. pc'[i] = "role-id" /\ dir' = dir
    BY <1>6 DEF CopyDone
  <2> QED
    BY <1>2, <2>2, <2>3 DEF Own, OwnStage, OwnCopy, OwnFiles, Done
<1>7. CASE CopyReadError(i, f) \/ CopyWriteFails(i)
  BY <1>7, OwnNothing DEF CopyReadError, CopyWriteFails, ReturnAfterDefer
<1> QED
  BY <1>4, <1>5, <1>6, <1>7

\* What it has installed stays its own: each of its other steps.
LEMMA OwnEndingStep ==
  ASSUME TypeOK, Ordered, NEW i \in Applies, Own(i), NEW c \in CredFiles, instr' = instr,
         \/ NoCredential(i, c) \/ WriteTmp(i, c) \/ WriteTmpFails(i, c) \/ Rename(i, c)
         \/ Unlink(i) \/ KeepLink(i) \/ Symlink(i) \/ Restart(i) \/ RestartFails(i)
         \/ Cleanup(i) \/ Report(i)
  PROVE  Own(i)'
<1> USE DEF TypeOK, ProgressOK, Goto, At, results, disk
<1>1. Profile(i)' = Profile(i) /\ Bundle(i)' = Bundle(i)
  BY DEF Profile, Bundle
<1>2. c \in Installing /\ Move[c] \in Installing /\ AfterIt[c] \in Installing
  BY CredentialLabels DEF Installing
<1>3. /\ pc'[i] \notin {"mkstage", "extract", "unpack", "copy", "write"} /\ dir' = dir
      /\ pc'[i] \in Installing => pc[i] \in Installing
      /\ outcome'[i] = "success" => pc[i] \in Installing \/ outcome[i] = "success"
  <2>1. CASE NoCredential(i, c) \/ WriteTmp(i, c)
    BY <1>2, <2>1 DEF NoCredential, WriteTmp, Installing
  <2>2. CASE WriteTmpFails(i, c) \/ Rename(i, c)
    BY <1>2, <2>2 DEF WriteTmpFails, Rename, Installing
  <2>3. CASE Unlink(i) \/ KeepLink(i) \/ Symlink(i)
    BY <2>3 DEF Unlink, KeepLink, Symlink, Installing
  <2>4. CASE Restart(i) \/ RestartFails(i)
    BY <2>4 DEF Restart, RestartFails, ReturnAfterDefer, Installing
  <2>5. CASE Cleanup(i) \/ Report(i)
    BY <2>5 DEF Cleanup, Report, Installing
  <2> QED
    BY <2>1, <2>2, <2>3, <2>4, <2>5
<1> QED
  BY <1>1, <1>3 DEF Own, OwnStage, OwnCopy, OwnFiles, Done

\* Every step leaves to each apply that is alone what is its own.
LEMMA OwnedStep == TypeOK /\ Ordered /\ Owned /\ [Next]_vars => Owned'
<1> SUFFICES ASSUME TypeOK, Ordered, Owned, [Next]_vars, NEW i \in Applies, Alone(i)'
             PROVE  Own(i)'
  BY DEF Owned
<1>1. Own(i) /\ instr' = instr
  BY AloneBefore DEF Owned
<1>2. Profile(i) \in Profiles
  BY InstructionParts DEF TypeOK
<1>3. ASSUME NEW j \in Applies, Frame(j), Receive(j) \/ Fetching(j) \/ Working(j)
      PROVE  Own(i)'
  <2>1. CASE j # i /\ pc[i] = "none"
    <3>1. pc'[i] = "none" /\ outcome'[i] = outcome[i] /\ outcome[i] = "none"
      BY <1>3, <2>1 DEF Frame, Ordered, Outcomes, Later
    <3> QED
      BY <3>1, OwnNothing
  <2>2. CASE j # i /\ pc[i] # "none"
    <3>1. Profile(j) # Profile(i)
      BY <1>3, <2>2, Private
    <3> QED
      BY <1>1, <1>2, <1>3, <2>2, <3>1, OwnUndisturbed DEF Frame
  <2>3. CASE j = i
    <3>0. "hcl" \in Files /\ "role-id" \in CredFiles
      BY NamesAssumption DEF CredFiles
    <3>1. CASE Receive(i) \/ Fetching(i)
      <4>1. pc[i] \in {"none", "fetch"} /\ outcome[i] # "success"
        BY <3>1 DEF Receive, Fetching, FetchError, FetchPanics, Fetched, At, Ordered, Outcomes, Later
      <4>2. /\ pc'[i] \in {"none", "fetch", "clean", "cleanup", "report", "ended", "lost"}
            /\ outcome'[i] # "success"
        BY <3>1, <4>1 DEF Receive, Fetching, FetchError, FetchPanics, Fetched, Die, ReturnError, Goto,
           results, TypeOK, ProgressOK
      <4> QED
        BY <4>2, OwnNothing
    <3>2. CASE Clean(i) \/ MakeStage(i) \/ ExtractWrite(i) \/ ExtractError(i) \/ List(i)
      BY <1>1, <3>0, <3>2, OwnStagingStep
    <3>3. CASE CopyWrite(i) \/ CopyWriteFails(i) \/ CopyDone(i)
      BY <1>1, <3>0, <3>3, OwnCopyingStep
    <3>4. ASSUME NEW f \in Files, ExtractOpen(i, f) \/ CopyOpen(i, f) \/ CopyReadError(i, f)
          PROVE  Own(i)'
      BY <1>1, <3>4, OwnStagingStep, OwnCopyingStep
    <3>5. ASSUME NEW c \in CredFiles, NoCredential(i, c) \/ WriteTmp(i, c) \/ WriteTmpFails(i, c) \/ Rename(i, c)
          PROVE  Own(i)'
      BY <1>1, <3>5, OwnEndingStep
    <3>6. CASE Unlink(i) \/ KeepLink(i) \/ Symlink(i) \/ Restart(i) \/ RestartFails(i) \/ Cleanup(i) \/ Report(i)
      BY <1>1, <3>0, <3>6, OwnEndingStep
    <3> QED
      BY <1>3, <2>3, <3>1, <3>2, <3>3, <3>4, <3>5, <3>6 DEF Working
  <2> QED
    BY <2>1, <2>2, <2>3
<1>4. CASE Lost
  BY <1>1, <1>4, OwnUndisturbed DEF Lost, TypeOK, ProgressOK
<1>5. CASE Calm
  BY <1>1, <1>5, OwnUndisturbed DEF Calm
<1> QED
  BY <1>3, <1>4, <1>5, StepCases

\* The invariant of the files.
LEMMA OwnedAlways == Spec => [](TypeOK /\ Ordered /\ Owned)
<1>1. Init => TypeOK /\ Ordered /\ Owned
  BY TypeInit, OrderedInit, OwnedInit
<1>2. TypeOK /\ Ordered /\ Owned /\ [Next]_vars => (TypeOK /\ Ordered /\ Owned)'
  BY TypeStep, OrderedStep, OwnedStep
<1> QED
  BY <1>1, <1>2, PTL DEF Spec

\* An apply that reports success, with no other of its profile beside it, has every file of
\* its bundle in the profile's directory, for any number of applies, failures and restarts.
THEOREM InstalledAlways == Spec => []Installed
<1>1. Owned => Installed
  BY DEF Owned, Own, OwnFiles, Done, Installed
<1> QED
  BY <1>1, OwnedAlways, PTL

-----------------------------------------------------------------------------
\* What a goroutine may do at some of its labels.

Step(i) == Frame(i) /\ (Receive(i) \/ Fetching(i) \/ Working(i))

\* At "write" it writes the file it has opened, or fails to.
LEMMA AtWrite ==
  ASSUME NEW i \in Applies, Step(i), pc[i] = "write"
  PROVE  CopyWrite(i) \/ CopyWriteFails(i)
BY CredentialLabels
   DEF Step, Frame, Finished, Receive, Fetching, FetchError, FetchPanics, Fetched, Working, At, Clean,
       MakeStage, ExtractWrite, ExtractError, List, CopyWrite, CopyWriteFails, CopyDone, ExtractOpen,
       CopyOpen, CopyReadError, NoCredential, WriteTmp, WriteTmpFails, Rename, Unlink, KeepLink,
       Symlink, Restart, RestartFails, Cleanup, Report

\* Once it has returned, it removes the staging directory and reports.
LEMMA AfterReturn ==
  ASSUME NEW i \in Applies, Step(i), pc[i] \in Later
  PROVE  Cleanup(i) \/ Report(i)
BY CredentialLabels
   DEF Step, Frame, Finished, Receive, Fetching, FetchError, FetchPanics, Fetched, Working, At, Clean,
       MakeStage, ExtractWrite, ExtractError, List, CopyWrite, CopyWriteFails, CopyDone, ExtractOpen,
       CopyOpen, CopyReadError, NoCredential, WriteTmp, WriteTmpFails, Rename, Unlink, KeepLink,
       Symlink, Restart, RestartFails, Cleanup, Report, Later

\* It writes to a profile's directory in copyDir only.
LEMMA DirSteps ==
  ASSUME TypeOK, NEW i \in Applies, Step(i)
  PROVE  dir' = dir \/ CopyWrite(i) \/ \E f \in Files : CopyOpen(i, f)
<1>1. CASE FetchPanics(i)
  BY <1>1 DEF FetchPanics, Die, disk
<1>2. CASE Unlink(i) \/ Symlink(i)
  BY <1>2 DEF Unlink, Symlink
<1> QED
  BY <1>1, <1>2, QuietSteps DEF Quiet, Step

-----------------------------------------------------------------------------
\* The files of a profile's directory are whole.

\* An apply of the profile that another may have disturbed.
Disturbed(p) == ~Serial /\ \E i \in Applies : Profile(i) = p /\ ~At(i, "none") /\ ~Alone(i)

\* The apply whose file it is writes it, or died or failed writing it.
Unfinished(i, p, f) ==
  /\ Profile(i) = p /\ dir[p][f] = -i
  /\ held[i].file = f /\ held[i].from = i
  /\ At(i, "write") \/ At(i, "lost") \/ outcome[i] = "error"

Whole(p, f) ==
  \/ dir[p][f] = 0
  \/ \E i \in Applies : dir[p][f] = i /\ Profile(i) = p /\ f \in Bundle(i)
  \/ \E i \in Applies : Unfinished(i, p, f)

AllWhole == \A p \in Profiles : Disturbed(p) \/ \A f \in Files : Whole(p, f)

\* The invariant is stronger than the property.
LEMMA WholeEnough == TypeOK /\ AllWhole => WholeFiles
<1> SUFFICES ASSUME AllWhole, NEW p \in Profiles, NEW f \in Files, Whole(p, f)
             PROVE  \/ dir[p][f] = 0
                    \/ dir[p][f] > 0 /\ Profile(dir[p][f]) = p /\ f \in Bundle(dir[p][f])
                    \/ \E i \in Applies : /\ dir[p][f] = -i /\ held[i].file = f /\ held[i].from = i
                                          /\ (At(i, "write") \/ At(i, "lost") \/ outcome[i] = "error")
  BY DEF WholeFiles, AllWhole, Disturbed
<1>1. ASSUME NEW i \in Applies, dir[p][f] = i /\ Profile(i) = p /\ f \in Bundle(i)
      PROVE  dir[p][f] > 0 /\ Profile(dir[p][f]) = p /\ f \in Bundle(dir[p][f])
  <2>1. i > 0
    BY NumbersAssumption DEF Applies
  <2> QED
    BY <1>1, <2>1
<1> QED
  BY <1>1 DEF Whole, Unfinished

\* The directories are empty at first.
LEMMA WholeInit == Init => AllWhole
BY DEF Init, AllWhole, Whole, Empty

\* A file that a step leaves alone stays what it is, unless the step is of the apply that
\* has not finished it.
LEMMA WholeKept ==
  ASSUME TypeOK, NEW p \in Profiles, NEW f \in Files, Whole(p, f), instr' = instr,
         dir'[p][f] = dir[p][f],
         \A i \in Applies : Unfinished(i, p, f) => Unfinished(i, p, f)'
  PROVE  Whole(p, f)'
<1>1. \A i \in Applies : Profile(i)' = Profile(i) /\ Bundle(i)' = Bundle(i)
  BY DEF Profile, Bundle
<1> QED
  BY <1>1 DEF Whole

\* An apply's own step leaves a file that it has not finished unfinished.
LEMMA UnfinishedStep ==
  ASSUME TypeOK, Ordered, NEW i \in Applies, Step(i), NEW p \in Profiles, NEW f \in Files,
         Unfinished(i, p, f), ~CopyWrite(i)
  PROVE  Unfinished(i, p, f)'
<1> USE DEF Unfinished, At, TypeOK, ProgressOK
<1>1. Profile(i)' = Profile(i)
  BY DEF Step, Frame, Profile
<1>2. pc[i] # "lost"
  BY DEF Step, Frame, Finished
<1>3. CASE pc[i] = "write"
  <2>1. CopyWriteFails(i)
    BY <1>3, AtWrite
  <2> QED
    BY <1>1, <2>1 DEF CopyWriteFails, ReturnAfterDefer, disk
<1>4. CASE outcome[i] = "error"
  <2>1. Cleanup(i) \/ Report(i)
    BY <1>4, AfterReturn DEF Ordered, Outcomes
  <2> QED
    BY <1>1, <1>4, <2>1 DEF Cleanup, Report, results, disk
<1> QED
  BY <1>2, <1>3, <1>4

\* Every step leaves the files whole.
LEMMA WholeStep == TypeOK /\ Ordered /\ Owned /\ AllWhole /\ [Next]_vars => AllWhole'
<1> SUFFICES ASSUME TypeOK, Ordered, Owned, AllWhole, [Next]_vars,
                    NEW p \in Profiles, ~Disturbed(p)', NEW f \in Files
             PROVE  Whole(p, f)'
  BY DEF AllWhole
<1>1. /\ instr' = instr /\ setting' = setting
      /\ \A i \in Applies : pc'[i] = "none" => pc[i] = "none"
  BY StepCases DEF Frame, Lost, Calm, Active, TypeOK, ProgressOK
<1>2. ~Disturbed(p)
  <2>1. (Serial' <=> Serial) /\ \A i \in Applies : Profile(i)' = Profile(i)
    BY <1>1 DEF Profile, Serial
  <2> QED
    BY <1>1, <2>1, AloneBefore DEF Disturbed, At
<1>3. Whole(p, f)
  BY <1>2 DEF AllWhole
<1>4. ASSUME NEW j \in Applies, Step(j)
      PROVE  Whole(p, f)'
  <2>1. ASSUME NEW i \in Applies, i # j, Unfinished(i, p, f), dir'[p][f] = dir[p][f]
        PROVE  Unfinished(i, p, f)'
    BY <1>1, <1>4, <2>1 DEF Step, Frame, Unfinished, Profile, At
  <2>2. CASE Profile(j) # p
    <3>1. dir'[p][f] = dir[p][f] /\ ~Unfinished(j, p, f)
      BY <1>4, <2>2 DEF Step, Frame, Unfinished
    <3> QED
      BY <1>1, <1>3, <2>1, <3>1, WholeKept
  <2>3. CASE Profile(j) = p
    <3>1. Own(j)
      <4>1. Profile(j)' = p /\ pc'[j] # "none"
        BY <1>1, <1>4, <2>3 DEF Step, Frame, Profile
      <4>2. CASE ~Serial'
        <5>1. Alone(j)'
          BY <4>1, <4>2 DEF Disturbed, At
        <5> QED
          BY <5>1, AloneBefore DEF Owned
      <4>3. CASE Serial'
        <5>1. Serial /\ ~Finished(j)
          BY <1>1, <1>4, <4>3 DEF Serial, Step, Frame
        <5>2. \A k \in Applies : j < k => pc[k] = "none"
          BY <5>1 DEF Ordered, Apart
        <5>3. \A k \in Applies \ {j} : k < j \/ j < k
          BY NumbersAssumption DEF Applies
        <5>4. Alone(j)
          BY <5>1, <5>2, <5>3 DEF Alone
        <5> QED
          BY <5>4 DEF Owned
      <4> QED
        BY <4>2, <4>3
    <3>2. Profile(j)' = Profile(j) /\ Bundle(j)' = Bundle(j)
      BY <1>1 DEF Profile, Bundle
    <3>3. ASSUME NEW g \in Files, CopyOpen(j, g)
          PROVE  Whole(p, f)'
      <4>1. /\ dir' = [dir EXCEPT ![p] = [dir[p] EXCEPT ![g] = -j]] /\ pc'[j] = "write"
            /\ held'[j].file = g /\ held'[j].from = Staged(j, g)
        BY <2>3, <3>3 DEF CopyOpen, Goto, At, TypeOK, ProgressOK
      <4>2. pc[j] = "copy" /\ g \in Bundle(j)
        BY <3>1, <3>3 DEF CopyOpen, At, Own, OwnCopy
      <4>3. Staged(j, g) = j
        BY <3>1, <4>2 DEF Own, OwnCopy, Mine, At
      <4>4. CASE f = g
        <5>1. Unfinished(j, p, f)'
          BY <2>3, <3>2, <4>1, <4>3, <4>4 DEF Unfinished, At, TypeOK, FilesOK
        <5> QED
          BY <5>1 DEF Whole
      <4>5. CASE f # g
        <5>1. dir'[p][f] = dir[p][f]
          BY <4>1, <4>5 DEF TypeOK, FilesOK
        <5>2. ~Unfinished(j, p, f)
          BY <4>2 DEF Unfinished, At, Ordered, Outcomes, Later
        <5> QED
          BY <1>1, <1>3, <2>1, <5>1, <5>2, WholeKept
      <4> QED
        BY <4>4, <4>5
    <3>4. CASE CopyWrite(j)
      <4>1. /\ pc[j] = "write" /\ held[j].file \in Bundle(j) /\ held[j].from = j
            /\ dir[p][held[j].file] = -j
        BY <2>3, <3>1, <3>4 DEF CopyWrite, At, Own, OwnCopy
      <4>2. Written(dir[Profile(j)][held[j].file], j, held[j].from) = {j}
        BY <2>3, <4>1, WrittenAlone
      <4>3. dir' = [dir EXCEPT ![p] = [dir[p] EXCEPT ![held[j].file] = j]]
        BY <2>3, <3>4, <4>2 DEF CopyWrite
      <4>4. CASE f = held[j].file
        <5>1. dir'[p][f] = j
          BY <4>3, <4>4 DEF TypeOK, FilesOK
        <5> QED
          BY <2>3, <3>2, <4>1, <4>4, <5>1 DEF Whole
      <4>5. CASE f # held[j].file
        <5>1. dir'[p][f] = dir[p][f] /\ ~Unfinished(j, p, f)
          BY <4>3, <4>5 DEF TypeOK, FilesOK, Unfinished
        <5> QED
          BY <1>1, <1>3, <2>1, <5>1, WholeKept
      <4> QED
        BY <4>4, <4>5
    <3>5. CASE dir' = dir /\ ~CopyWrite(j)
      <4>1. Unfinished(j, p, f) => Unfinished(j, p, f)'
        BY <1>4, <3>5, UnfinishedStep
      <4> QED
        BY <1>1, <1>3, <2>1, <3>5, <4>1, WholeKept
    <3> QED
      BY <1>4, <3>3, <3>4, <3>5, DirSteps
  <2> QED
    BY <2>2, <2>3
<1>5. CASE Lost
  <2>1. ASSUME NEW i \in Applies, Unfinished(i, p, f)
        PROVE  Unfinished(i, p, f)'
    BY <1>1, <1>5, <2>1 DEF Lost, Unfinished, Profile, At, Active, Finished, TypeOK, ProgressOK
  <2> QED
    BY <1>1, <1>3, <1>5, <2>1, WholeKept DEF Lost
<1>6. CASE Calm
  <2>1. ASSUME NEW i \in Applies, Unfinished(i, p, f)
        PROVE  Unfinished(i, p, f)'
    BY <1>1, <1>6, <2>1 DEF Calm, Unfinished, Profile, At
  <2> QED
    BY <1>1, <1>3, <1>6, <2>1, WholeKept DEF Calm
<1> QED
  BY <1>4, <1>5, <1>6, StepCases DEF Step

\* As long as the applies of a profile come one after the other, its directory holds whole
\* files of its own bundles, but for one that an apply is writing, or failed or died writing.
THEOREM WholeFilesAlways == Spec => []WholeFiles
<1>1. Init => AllWhole
  BY WholeInit
<1>2. TypeOK /\ Ordered /\ Owned /\ AllWhole /\ [Next]_vars => AllWhole'
  BY WholeStep
<1>3. TypeOK /\ AllWhole => WholeFiles
  BY WholeEnough
<1> QED
  BY <1>1, <1>2, <1>3, OwnedAlways, PTL DEF Spec

-----------------------------------------------------------------------------
\* The active link is made.

Made ==
  link = NoLink /\ crashes = 0 =>
    \A i \in Applies :
      Alone(i) /\ "hcl" \in Bundle(i) /\ (pc[i] = "restart" \/ outcome[i] = "success") =>
        \E j \in Applies : At(j, "symlink")

\* The steps of an apply that do not touch the link do not come to the restart either.
LEMMA LinkSteps ==
  ASSUME TypeOK, NEW i \in Applies, Step(i), ~Unlink(i), ~Symlink(i), ~KeepLink(i)
  PROVE  /\ link' = link /\ pc[i] # "symlink" /\ pc'[i] # "restart"
         /\ outcome'[i] = "success" => pc[i] = "restart" \/ outcome[i] = "success"
<1> USE DEF TypeOK, ProgressOK, Goto, At, ReturnError, ReturnAfterDefer, disk, results, creds
<1>1. CASE Receive(i)
  BY <1>1 DEF Receive
<1>2. CASE Fetching(i)
  BY <1>2 DEF Fetching, FetchError, Fetched, FetchPanics, Die
<1>3. CASE Clean(i) \/ MakeStage(i) \/ ExtractWrite(i) \/ ExtractError(i) \/ Cleanup(i)
  BY <1>3 DEF Clean, MakeStage, ExtractWrite, ExtractError, Cleanup
<1>4. CASE List(i) \/ CopyWrite(i) \/ CopyWriteFails(i) \/ CopyDone(i)
  BY <1>4 DEF List, CopyWrite, CopyWriteFails, CopyDone
<1>5. ASSUME NEW f \in Files, ExtractOpen(i, f) \/ CopyOpen(i, f) \/ CopyReadError(i, f)
      PROVE  /\ link' = link /\ pc[i] # "symlink" /\ pc'[i] # "restart"
             /\ outcome'[i] = "success" => pc[i] = "restart" \/ outcome[i] = "success"
  BY <1>5 DEF ExtractOpen, CopyOpen, CopyReadError
<1>6. ASSUME NEW c \in CredFiles, NoCredential(i, c) \/ WriteTmp(i, c) \/ WriteTmpFails(i, c) \/ Rename(i, c)
      PROVE  /\ link' = link /\ pc[i] # "symlink" /\ pc'[i] # "restart"
             /\ outcome'[i] = "success" => pc[i] = "restart" \/ outcome[i] = "success"
  <2>1. /\ c # "symlink" /\ Move[c] \notin {"symlink", "restart"} /\ AfterIt[c] # "restart"
    BY CredentialLabels
  <2> QED
    BY <1>6, <2>1 DEF NoCredential, WriteTmp, WriteTmpFails, Rename
<1>7. CASE Restart(i) \/ RestartFails(i) \/ Report(i)
  BY <1>7 DEF Restart, RestartFails, Report
<1> QED
  BY <1>1, <1>2, <1>3, <1>4, <1>5, <1>6, <1>7 DEF Step, Working

\* There is no apply to make a link at first.
LEMMA MadeInit == Init => Made
BY DEF Init, Made

\* Whoever removes the link is about to make it.
LEMMA MadeStep == TypeOK /\ Ordered /\ Owned /\ Made /\ [Next]_vars => Made'
<1> SUFFICES ASSUME TypeOK, Ordered, Owned, Made, [Next]_vars, link' = NoLink, crashes' = 0,
                    NEW i \in Applies, Alone(i)', "hcl" \in Bundle(i)',
                    pc'[i] = "restart" \/ outcome'[i] = "success"
             PROVE  \E j \in Applies : pc'[j] = "symlink"
  BY DEF Made, At
<1>1. Alone(i) /\ "hcl" \in Bundle(i) /\ Own(i)
  BY AloneBefore DEF Bundle, Owned
<1>2. ASSUME link = NoLink, crashes = 0, pc[i] = "restart" \/ outcome[i] = "success"
      PROVE  \E j \in Applies : pc[j] = "symlink"
  BY <1>1, <1>2 DEF Made, At
<1>3. ASSUME NEW j \in Applies, Step(j)
      PROVE  \E k \in Applies : pc'[k] = "symlink"
  <2>1. crashes = 0 /\ \A k \in Applies \ {j} : pc'[k] = pc[k] /\ outcome'[k] = outcome[k]
    BY <1>3 DEF Step, Frame
  <2>2. CASE Symlink(j)
    <3>1. Profile(j) # NoLink
      BY InstructionParts, NamesAssumption DEF TypeOK
    <3> QED
      BY <2>2, <3>1 DEF Symlink
  <2>3. CASE Unlink(j)
    BY <2>3 DEF Unlink, Goto, TypeOK, ProgressOK
  <2>4. CASE KeepLink(j)
    <3>1. link = NoLink /\ pc[j] = "unlink" /\ ~HasHCL(j) /\ outcome'[j] = outcome[j]
      BY <2>4 DEF KeepLink, disk, results, At
    <3>2. j # i
      <4>1. SUFFICES ASSUME j = i PROVE FALSE
        OBVIOUS
      <4>2. Done(i, Bundle(i))
        BY <1>1, <3>1, <4>1 DEF Own, OwnFiles, Installing
      <4> QED
        BY <1>1, <3>1, <4>1, <4>2, ContentOf DEF Done, HasHCL
    <3>3. PICK k \in Applies : pc[k] = "symlink"
      BY <1>2, <2>1, <3>1, <3>2
    <3> QED
      BY <2>1, <3>1, <3>3
  <2>5. CASE ~Unlink(j) /\ ~Symlink(j) /\ ~KeepLink(j)
    <3>1. /\ link' = link /\ pc[j] # "symlink" /\ pc'[j] # "restart"
          /\ outcome'[j] = "success" => pc[j] = "restart" \/ outcome[j] = "success"
      BY <1>3, <2>5, LinkSteps
    <3>2. PICK k \in Applies : pc[k] = "symlink"
      BY <1>2, <2>1, <3>1
    <3> QED
      BY <2>1, <3>1, <3>2
  <2> QED
    BY <2>2, <2>3, <2>4, <2>5
<1>4. CASE Lost
  BY <1>4 DEF Lost
<1>5. CASE Calm
  BY <1>2, <1>5 DEF Calm
<1> QED
  BY <1>3, <1>4, <1>5, StepCases DEF Step

\* However the applies race for the active bao-agent.hcl, the link that is there has a
\* target, and a link that an apply made is missing only while another is about to make it.
THEOREM LinkKeptAlways == Spec => []LinkKept
<1>1. Init => Made /\ Targets
  BY MadeInit, TargetsInit
<1>2. TypeOK /\ Ordered /\ Owned /\ Made /\ Targets /\ [Next]_vars => (Made /\ Targets)'
  BY MadeStep, TargetsStep
<1>3. Made /\ Targets => LinkKept
  BY DEF Made, Targets, LinkKept, LinkMade
<1> QED
  BY <1>1, <1>2, <1>3, OwnedAlways, PTL DEF Spec

-----------------------------------------------------------------------------
\* The staging directories go.

Staging == {"extract", "unpack", "copy", "write"} \cup Installing \cup {"cleanup"}

\* A damaged archive with a checksum is not unpacked.
Checked == \A i \in Applies : i \in bad /\ instr[i].checked => pc[i] \in Later

\* The apply failed to unpack.
Unpacked(i) == outcome[i] = "error" /\ (DiskFull \/ (i \in bad /\ ~instr[i].checked))

\* A staging directory is that of an apply that will remove it, or of one that failed to unpack.
Held ==
  crashes = 0 =>
    \A p \in Profiles : stage[p].exists =>
      \E i \in Applies : Profile(i) = p /\ (pc[i] \in Staging \/ Unpacked(i))

\* Both hold initially.
LEMMA HeldInit == Init => Checked /\ Held
BY DEF Init, Checked, Held, Gone

\* A step of an apply brings it, or leaves it, where it will remove its staging directory; or
\* it removes the directory; or fails to unpack; or has nothing to do with it.
LEMMA StageSteps ==
  ASSUME TypeOK, Ordered, NEW i \in Applies, Step(i)
  PROVE  \/ pc'[i] \in Staging \/ Clean(i) \/ Cleanup(i) \/ ExtractError(i)
         \/ /\ stage' = stage /\ pc[i] \notin Staging
            /\ outcome[i] = "error" => outcome'[i] = "error"
<1> USE DEF TypeOK, ProgressOK, Goto, At, ReturnError, ReturnAfterDefer, disk, results, creds,
            Staging, Installing
<1>1. outcome[i] = "error" => pc[i] \in Later
  BY DEF Ordered, Outcomes
<1>2. CASE Receive(i)
  BY <1>2 DEF Receive
<1>3. CASE Fetching(i)
  BY <1>1, <1>3 DEF Fetching, FetchError, Fetched, FetchPanics, Die, Later
<1>4. CASE MakeStage(i) \/ ExtractWrite(i)
  BY <1>4 DEF MakeStage, ExtractWrite
<1>5. CASE List(i) \/ CopyWrite(i) \/ CopyWriteFails(i) \/ CopyDone(i)
  BY <1>5 DEF List, CopyWrite, CopyWriteFails, CopyDone
<1>6. ASSUME NEW f \in Files, ExtractOpen(i, f) \/ CopyOpen(i, f) \/ CopyReadError(i, f)
      PROVE  pc'[i] \in Staging
  BY <1>6 DEF ExtractOpen, CopyOpen, CopyReadError
<1>7. ASSUME NEW c \in CredFiles, NoCredential(i, c) \/ WriteTmp(i, c) \/ WriteTmpFails(i, c) \/ Rename(i, c)
      PROVE  pc'[i] \in Staging
  <2>1. Move[c] \in Installing /\ AfterIt[c] \in Installing
    BY CredentialLabels
  <2> QED
    BY <1>7, <2>1 DEF NoCredential, WriteTmp, WriteTmpFails, Rename
<1>8. CASE Unlink(i) \/ Symlink(i) \/ KeepLink(i) \/ Restart(i) \/ RestartFails(i)
  BY <1>8 DEF Unlink, Symlink, KeepLink, Restart, RestartFails
<1>9. CASE Report(i)
  BY <1>9 DEF Report
<1> QED
  BY <1>2, <1>3, <1>4, <1>5, <1>6, <1>7, <1>8, <1>9 DEF Step, Working

\* An apply's outcome once it has one, or its damaged archive, does not go away.
LEMMA CheckedStep == TypeOK /\ Checked /\ [Next]_vars => Checked'
<1> SUFFICES ASSUME TypeOK, Checked, [Next]_vars, NEW i \in Applies, i \in bad', instr'[i].checked
             PROVE  pc'[i] \in Later
  BY DEF Checked
<1>1. ASSUME NEW j \in Applies, Step(j)
      PROVE  pc'[i] \in Later
  <2>1. instr' = instr
    BY <1>1 DEF Step, Frame
  <2>2. CASE i \in bad
    <3>1. pc[i] \in Later
      BY <2>1, <2>2 DEF Checked
    <3>2. CASE j = i
      <4>1. Cleanup(i) \/ Report(i)
        BY <1>1, <3>1, <3>2, AfterReturn
      <4> QED
        BY <4>1 DEF Cleanup, Report, Goto, Later, TypeOK, ProgressOK
    <3> QED
      BY <1>1, <3>1, <3>2 DEF Step, Frame
  <2>3. CASE i \notin bad
    <3>1. j = i
      BY <1>1, <2>3 DEF Step, Frame
    <3>2. bad' # bad
      BY <2>3
    <3>3. PICK d \in BOOLEAN : Fetched(i, d)
      BY <1>1, <3>1, <3>2 DEF Step, Receive, Fetching, FetchError, FetchPanics, Die, Working, results,
         Clean, MakeStage, ExtractWrite, ExtractError, List, CopyWrite, CopyWriteFails, CopyDone, ExtractOpen,
         CopyOpen, CopyReadError, NoCredential, WriteTmp, WriteTmpFails, Rename, Unlink, KeepLink,
         Symlink, Restart, RestartFails, Cleanup, Report
    <3>4. d
      BY <2>3, <3>3 DEF Fetched
    <3> QED
      BY <2>1, <3>3, <3>4 DEF Fetched, ReturnError, Goto, Later, TypeOK, ProgressOK
  <2> QED
    BY <2>2, <2>3
<1>2. CASE Lost
  BY <1>2 DEF Lost, Checked, Later, TypeOK, ProgressOK
<1>3. CASE Calm
  BY <1>3 DEF Calm, Checked
<1> QED
  BY <1>1, <1>2, <1>3, StepCases DEF Step

\* Every step leaves a staging directory to an apply that will remove it, or to one that
\* failed to unpack.
LEMMA HeldStep == TypeOK /\ Ordered /\ Checked /\ Held /\ [Next]_vars => Held'
<1> SUFFICES ASSUME TypeOK, Ordered, Checked, Held, [Next]_vars, crashes' = 0,
                    NEW p \in Profiles, stage'[p].exists
             PROVE  \E i \in Applies : Profile(i)' = p /\ (pc'[i] \in Staging \/ Unpacked(i)')
  BY DEF Held
<1>1. ASSUME crashes = 0, stage[p].exists
      PROVE  \E i \in Applies : Profile(i) = p /\ (pc[i] \in Staging \/ Unpacked(i))
  BY <1>1 DEF Held
<1>2. ASSUME NEW j \in Applies, Step(j)
      PROVE  \E i \in Applies : Profile(i)' = p /\ (pc'[i] \in Staging \/ Unpacked(i)')
  <2>1. crashes = 0 /\ instr' = instr /\ setting' = setting
    BY <1>2 DEF Step, Frame
  <2>2. \A i \in Applies : Profile(i)' = Profile(i)
    BY <2>1 DEF Profile
  <2>3. ASSUME NEW i \in Applies, i # j, pc[i] \in Staging \/ Unpacked(i)
        PROVE  pc'[i] \in Staging \/ Unpacked(i)'
    BY <1>2, <2>1, <2>3 DEF Step, Frame, Unpacked, DiskFull
  <2>4. CASE Profile(j) # p
    <3>1. stage'[p] = stage[p]
      BY <1>2, <2>4 DEF Step, Frame
    <3>2. PICK i \in Applies : Profile(i) = p /\ (pc[i] \in Staging \/ Unpacked(i))
      BY <1>1, <2>1, <3>1
    <3> QED
      BY <2>2, <2>3, <2>4, <3>2
  <2>5. CASE Profile(j) = p
    <3>1. CASE pc'[j] \in Staging
      BY <2>2, <2>5, <3>1
    <3>2. CASE Clean(j) \/ Cleanup(j)
      <4>1. stage' = [stage EXCEPT ![p] = Gone]
        BY <2>5, <3>2 DEF Clean, Cleanup, SetStage
      <4>2. stage'[p].exists = FALSE
        BY <4>1 DEF Gone, TypeOK, FilesOK
      <4> QED
        BY <4>2
    <3>3. CASE ExtractError(j)
      <4>1. pc[j] \in {"extract", "unpack"} /\ (j \in bad \/ DiskFull) /\ bad' = bad /\ outcome'[j] = "error"
        BY <3>3 DEF ExtractError, ReturnError, At, TypeOK, ProgressOK
      <4>2. j \in bad => ~instr[j].checked
        BY <4>1 DEF Checked, Later
      <4>3. Unpacked(j)'
        BY <2>1, <4>1, <4>2 DEF Unpacked, DiskFull
      <4> QED
        BY <2>2, <2>5, <4>3
    <3>4. CASE /\ stage' = stage /\ pc[j] \notin Staging
               /\ outcome[j] = "error" => outcome'[j] = "error"
      <4>1. PICK i \in Applies : Profile(i) = p /\ (pc[i] \in Staging \/ Unpacked(i))
        BY <1>1, <2>1, <3>4
      <4>2. CASE i # j
        BY <2>2, <2>3, <4>1, <4>2
      <4>3. CASE i = j
        <5>1. Unpacked(j) /\ outcome'[j] = "error"
          BY <3>4, <4>1, <4>3 DEF Unpacked
        <5>2. Cleanup(j) \/ Report(j)
          BY <1>2, <5>1, AfterReturn DEF Unpacked, Ordered, Outcomes
        <5>3. bad' = bad
          BY <5>2 DEF Cleanup, Report, results
        <5>4. Unpacked(j)'
          BY <2>1, <5>1, <5>3 DEF Unpacked, DiskFull
        <5> QED
          BY <2>2, <2>5, <5>4
      <4> QED
        BY <4>2, <4>3
    <3> QED
      BY <1>2, <3>1, <3>2, <3>3, <3>4, StageSteps
  <2> QED
    BY <2>4, <2>5
<1>3. CASE Lost
  BY <1>3 DEF Lost
<1>4. CASE Calm
  BY <1>1, <1>4 DEF Calm, Profile, Unpacked, DiskFull
<1> QED
  BY <1>2, <1>3, <1>4, StepCases DEF Step

\* No staging directory outlives the applies of its profile, unless one of them failed to
\* unpack or the agent died, however they interleave.
THEOREM StageGoneAlways == Spec => []StageGone
<1>1. Checked /\ Held => StageGone
  BY DEF Held, StageGone, Unpacked, Active, Finished, Staging, Installing
<1>2. Init => Checked /\ Held
  BY HeldInit
<1>3. TypeOK /\ Ordered /\ Checked /\ Held /\ [Next]_vars => (Checked /\ Held)'
  BY CheckedStep, HeldStep
<1> QED
  BY <1>1, <1>2, <1>3, OwnedAlways, PTL DEF Spec

-----------------------------------------------------------------------------
\* The last of a series of applies.

\* No later apply has begun.
Last(i) == \A j \in Applies : j > i => At(j, "none")

AfterRole   == {"secret-id", "move secret-id", "unlink", "symlink", "restart"}
AfterSecret == {"unlink", "symlink", "restart"}

RoleKept(i) ==
  /\ At(i, "move role-id") => tmp["role-id"] = i
  /\ (pc[i] \in AfterRole \/ outcome[i] = "success") /\ "role-id" \in Payload(i) =>
       cred["role-id"] = i \/ tmp["role-id"] = -i

SecretKept(i) ==
  /\ At(i, "move secret-id") => tmp["secret-id"] = i
  /\ (pc[i] \in AfterSecret \/ outcome[i] = "success") /\ "secret-id" \in Payload(i) =>
       cred["secret-id"] = i \/ tmp["secret-id"] = -i \/ cred["secret-id"] = 0

LinkOwn(i) ==
  /\ At(i, "symlink") => link = NoLink
  /\ (pc[i] = "restart" \/ outcome[i] = "success") /\ HasHCL(i) => link = Profile(i)

Latest == Serial => \A i \in Applies : Last(i) => RoleKept(i) /\ SecretKept(i) /\ LinkOwn(i)

\* The invariant has the property's two parts.
LEMMA LatestEnough == TypeOK /\ Latest => LastIsActive
<1> SUFFICES ASSUME TypeOK, Latest, Serial, NEW i \in Applies, outcome[i] = "success", Last(i)
             PROVE  /\ HasHCL(i) => link = Profile(i)
                    /\ \A c \in Payload(i) :
                         cred[c] = i \/ tmp[c] = -i \/ (c = "secret-id" /\ cred[c] = 0)
  BY DEF LastIsActive, Last
<1>1. RoleKept(i) /\ SecretKept(i) /\ LinkOwn(i)
  BY DEF Latest
<1>2. Payload(i) \subseteq CredFiles
  BY InstructionParts DEF TypeOK
<1> QED
  BY <1>1, <1>2 DEF RoleKept, SecretKept, LinkOwn, CredFiles

\* No apply has begun at first.
LEMMA LatestInit == Init => Latest
BY DEF Init, Latest, RoleKept, SecretKept, LinkOwn, At, AfterRole, AfterSecret

\* If nothing changes that it is about, it stays.
LEMMA LatestUndisturbed ==
  ASSUME TypeOK, NEW i \in Applies, RoleKept(i), SecretKept(i), LinkOwn(i), instr' = instr,
         pc'[i] = pc[i] \/ pc'[i] = "lost", outcome'[i] = outcome[i],
         tmp' = tmp, link' = link, dir'[Profile(i)] = dir[Profile(i)],
         cred' = cred \/ cred' = [cred EXCEPT !["secret-id"] = 0]
  PROVE  RoleKept(i)' /\ SecretKept(i)' /\ LinkOwn(i)'
<1> USE DEF At, Payload, Profile
<1>1. /\ cred'["role-id"] = cred["role-id"]
      /\ cred'["secret-id"] = cred["secret-id"] \/ cred'["secret-id"] = 0
  BY DEF TypeOK, CredentialsOK, CredFiles
<1>2. RoleKept(i)'
  BY <1>1 DEF RoleKept, AfterRole
<1>3. SecretKept(i)'
  BY <1>1 DEF SecretKept, AfterSecret
<1>4. LinkOwn(i)'
  BY DEF LinkOwn, HasHCL
<1> QED
  BY <1>2, <1>3, <1>4

\* An apply at none of the labels, that has not succeeded, has nothing to keep.
LEMMA LatestNothing ==
  ASSUME NEW i \in Applies, outcome'[i] # "success",
         pc'[i] \notin AfterRole, pc'[i] # "move role-id"
  PROVE  RoleKept(i)' /\ SecretKept(i)' /\ LinkOwn(i)'
BY DEF RoleKept, SecretKept, LinkOwn, At, AfterRole, AfterSecret

\* The steps on role-id.
LEMMA LatestRole ==
  ASSUME TypeOK, Ordered, NEW i \in Applies, instr' = instr,
         RoleKept(i), SecretKept(i), LinkOwn(i),
         \/ NoCredential(i, "role-id") \/ WriteTmp(i, "role-id")
         \/ WriteTmpFails(i, "role-id") \/ Rename(i, "role-id")
  PROVE  RoleKept(i)' /\ SecretKept(i)' /\ LinkOwn(i)'
<1> USE DEF TypeOK, ProgressOK, Goto, At, results
<1>1. Payload(i)' = Payload(i) /\ Move["role-id"] = "move role-id" /\ AfterIt["role-id"] = "secret-id"
      /\ "role-id" \in CredFiles
  BY DEF Payload, Move, AfterIt, CredFiles
<1>2. pc[i] \in {"role-id", "move role-id"} /\ outcome'[i] = "none"
  BY <1>1 DEF NoCredential, WriteTmp, WriteTmpFails, Rename, Ordered, Outcomes, Later
<1>3. pc'[i] \in {"secret-id", "move role-id"}
  BY <1>1 DEF NoCredential, WriteTmp, WriteTmpFails, Rename
<1>4. SecretKept(i)' /\ LinkOwn(i)'
  BY <1>2, <1>3 DEF SecretKept, LinkOwn, AfterSecret
<1>5. RoleKept(i)'
  <2>1. CASE NoCredential(i, "role-id")
    BY <1>1, <1>2, <2>1 DEF NoCredential, RoleKept
  <2>2. CASE WriteTmp(i, "role-id")
    BY <1>1, <1>2, <2>2 DEF WriteTmp, RoleKept, CredentialsOK, AfterRole
  <2>3. CASE WriteTmpFails(i, "role-id")
    BY <1>1, <1>2, <2>3 DEF WriteTmpFails, RoleKept, CredentialsOK
  <2>4. CASE Rename(i, "role-id")
    <3>1. tmp["role-id"] = i /\ i # 0
      BY <1>1, <2>4, ContentOf DEF Rename, RoleKept
    <3>2. cred'["role-id"] = i /\ pc'[i] = "secret-id"
      BY <1>1, <2>4, <3>1 DEF Rename, CredentialsOK
    <3> QED
      BY <3>2 DEF RoleKept
  <2> QED
    BY <2>1, <2>2, <2>3, <2>4
<1> QED
  BY <1>4, <1>5

\* The steps on secret-id.
LEMMA LatestSecret ==
  ASSUME TypeOK, Ordered, NEW i \in Applies, instr' = instr,
         RoleKept(i), SecretKept(i), LinkOwn(i),
         \/ NoCredential(i, "secret-id") \/ WriteTmp(i, "secret-id")
         \/ WriteTmpFails(i, "secret-id") \/ Rename(i, "secret-id")
  PROVE  RoleKept(i)' /\ SecretKept(i)' /\ LinkOwn(i)'
<1> USE DEF TypeOK, ProgressOK, Goto, At, results
<1>1. Payload(i)' = Payload(i) /\ Move["secret-id"] = "move secret-id" /\ AfterIt["secret-id"] = "unlink"
      /\ "role-id" \in CredFiles /\ "secret-id" \in CredFiles
  BY DEF Payload, Move, AfterIt, CredFiles
<1>2. pc[i] \in {"secret-id", "move secret-id"} /\ outcome'[i] = "none"
  BY <1>1 DEF NoCredential, WriteTmp, WriteTmpFails, Rename, Ordered, Outcomes, Later
<1>3. pc'[i] \in {"unlink", "move secret-id"}
  BY <1>1 DEF NoCredential, WriteTmp, WriteTmpFails, Rename
<1>4. LinkOwn(i)'
  BY <1>2, <1>3 DEF LinkOwn
<1>5. RoleKept(i)'
  <2>1. tmp'["role-id"] = tmp["role-id"] /\ cred'["role-id"] = cred["role-id"]
    BY <1>1 DEF NoCredential, WriteTmp, WriteTmpFails, Rename, CredentialsOK, disk, creds
  <2> QED
    BY <1>1, <1>2, <1>3, <2>1 DEF RoleKept, AfterRole
<1>6. SecretKept(i)'
  <2>1. CASE NoCredential(i, "secret-id")
    BY <1>1, <1>2, <2>1 DEF NoCredential, SecretKept
  <2>2. CASE WriteTmp(i, "secret-id")
    BY <1>1, <1>2, <2>2 DEF WriteTmp, SecretKept, CredentialsOK, AfterSecret
  <2>3. CASE WriteTmpFails(i, "secret-id")
    BY <1>1, <1>2, <2>3 DEF WriteTmpFails, SecretKept, CredentialsOK
  <2>4. CASE Rename(i, "secret-id")
    <3>1. tmp["secret-id"] = i /\ i # 0
      BY <1>1, <2>4, ContentOf DEF Rename, SecretKept
    <3>2. cred'["secret-id"] = i /\ pc'[i] = "unlink"
      BY <1>1, <2>4, <3>1 DEF Rename, CredentialsOK
    <3> QED
      BY <3>2 DEF SecretKept
  <2> QED
    BY <2>1, <2>2, <2>3, <2>4
<1> QED
  BY <1>4, <1>5, <1>6

\* The steps on the link, the restart and the end.
LEMMA LatestEnding ==
  ASSUME TypeOK, Ordered, NEW i \in Applies, instr' = instr,
         RoleKept(i), SecretKept(i), LinkOwn(i),
         \/ Unlink(i) \/ KeepLink(i) \/ Symlink(i) \/ Restart(i) \/ RestartFails(i)
         \/ Cleanup(i) \/ Report(i)
  PROVE  RoleKept(i)' /\ SecretKept(i)' /\ LinkOwn(i)'
<1> USE DEF TypeOK, ProgressOK, Goto, At, results, disk, creds
<1>1. Payload(i)' = Payload(i) /\ Profile(i)' = Profile(i)
  BY DEF Payload, Profile
<1>2. outcome[i] # "none" => pc[i] \in Later
  BY DEF Ordered, Outcomes
<1>3. cred' = cred /\ tmp' = tmp /\ dir' = dir
  BY DEF Unlink, KeepLink, Symlink, Restart, RestartFails, Cleanup, Report
<1>4. /\ pc'[i] \in {"symlink", "restart", "cleanup", "report", "ended"}
      /\ pc'[i] \in {"symlink", "restart"} \/ outcome'[i] = "success" =>
           pc[i] \in AfterSecret \/ outcome[i] = "success"
  BY DEF Unlink, KeepLink, Symlink, Restart, RestartFails, ReturnAfterDefer, Cleanup, Report, AfterSecret
<1>5. RoleKept(i)'
  BY <1>1, <1>3, <1>4 DEF RoleKept, AfterRole, AfterSecret
<1>6. SecretKept(i)'
  BY <1>1, <1>3, <1>4 DEF SecretKept, AfterSecret
<1>7. LinkOwn(i)'
  <2>1. HasHCL(i)' = HasHCL(i)
    BY <1>1, <1>3 DEF HasHCL
  <2>2. CASE Unlink(i)
    BY <1>2, <2>2 DEF Unlink, LinkOwn, Later
  <2>3. CASE KeepLink(i)
    BY <1>2, <2>1, <2>3 DEF KeepLink, LinkOwn, Later
  <2>4. CASE Symlink(i)
    BY <1>1, <1>2, <2>4 DEF Symlink, LinkOwn, Later
  <2>5. CASE Restart(i) \/ RestartFails(i) \/ Cleanup(i) \/ Report(i)
    BY <1>1, <2>1, <2>5 DEF Restart, RestartFails, ReturnAfterDefer, Cleanup, Report, LinkOwn
  <2> QED
    BY <2>2, <2>3, <2>4, <2>5
<1> QED
  BY <1>5, <1>6, <1>7

\* A step before the credentials leaves the apply with nothing to keep.
LEMMA LatestBefore ==
  ASSUME TypeOK, Ordered, NEW i \in Applies, NEW f \in Files,
         \/ Receive(i) \/ Fetching(i) \/ Clean(i) \/ MakeStage(i) \/ ExtractOpen(i, f)
         \/ ExtractWrite(i) \/ ExtractError(i) \/ List(i) \/ CopyOpen(i, f) \/ CopyReadError(i, f)
         \/ CopyWrite(i) \/ CopyWriteFails(i) \/ CopyDone(i)
  PROVE  outcome'[i] # "success" /\ pc'[i] \notin AfterRole /\ pc'[i] # "move role-id"
<1> USE DEF TypeOK, ProgressOK, Goto, At, ReturnError, ReturnAfterDefer, results, Ordered, Outcomes,
            Later, AfterRole
<1>1. CASE Receive(i) \/ Fetching(i)
  BY <1>1 DEF Receive, Fetching, FetchError, FetchPanics, Fetched, Die
<1>2. CASE Clean(i) \/ MakeStage(i) \/ ExtractOpen(i, f) \/ ExtractWrite(i) \/ ExtractError(i)
  BY <1>2 DEF Clean, MakeStage, ExtractOpen, ExtractWrite, ExtractError
<1>3. CASE List(i) \/ CopyOpen(i, f) \/ CopyReadError(i, f)
  BY <1>3 DEF List, CopyOpen, CopyReadError
<1>4. CASE CopyWrite(i) \/ CopyWriteFails(i) \/ CopyDone(i)
  BY <1>4 DEF CopyWrite, CopyWriteFails, CopyDone
<1> QED
  BY <1>1, <1>2, <1>3, <1>4

\* Every step leaves to the last of a series what it has written.
LEMMA LatestStep == TypeOK /\ Ordered /\ Latest /\ [Next]_vars => Latest'
<1> SUFFICES ASSUME TypeOK, Ordered, Latest, [Next]_vars, Serial', NEW i \in Applies, Last(i)'
             PROVE  RoleKept(i)' /\ SecretKept(i)' /\ LinkOwn(i)'
  BY DEF Latest
<1>1. instr' = instr /\ Serial /\ \A j \in Applies : pc'[j] = "none" => pc[j] = "none"
  BY StepCases DEF Frame, Lost, Calm, Active, Serial, TypeOK, ProgressOK
<1>2. RoleKept(i) /\ SecretKept(i) /\ LinkOwn(i)
  BY <1>1 DEF Latest, Last, At
<1>3. ASSUME NEW j \in Applies, Step(j)
      PROVE  RoleKept(i)' /\ SecretKept(i)' /\ LinkOwn(i)'
  <2>1. CASE j # i
    <3>1. ~(j > i)
      BY <1>3 DEF Step, Frame, Last, At
    <3>2. j < i
      BY <2>1, <3>1, NumbersAssumption DEF Applies
    <3>3. pc[i] = "none"
      BY <1>1, <1>3, <3>2 DEF Step, Frame, Ordered, Apart
    <3>4. pc'[i] = "none" /\ outcome'[i] = "none"
      BY <1>3, <2>1, <3>3 DEF Step, Frame, Ordered, Outcomes, Later, TypeOK, ProgressOK
    <3> QED
      BY <3>4, LatestNothing DEF AfterRole
  <2>2. CASE j = i
    <3>0. "hcl" \in Files
      BY NamesAssumption
    <3>1. CASE \/ Receive(i) \/ Fetching(i) \/ Clean(i) \/ MakeStage(i)
               \/ ExtractWrite(i) \/ ExtractError(i) \/ List(i)
               \/ CopyWrite(i) \/ CopyWriteFails(i) \/ CopyDone(i)
      BY <3>0, <3>1, LatestBefore, LatestNothing
    <3>2. ASSUME NEW f \in Files, ExtractOpen(i, f) \/ CopyOpen(i, f) \/ CopyReadError(i, f)
          PROVE  RoleKept(i)' /\ SecretKept(i)' /\ LinkOwn(i)'
      BY <3>2, LatestBefore, LatestNothing
    <3>3. ASSUME NEW c \in CredFiles, NoCredential(i, c) \/ WriteTmp(i, c) \/ WriteTmpFails(i, c) \/ Rename(i, c)
          PROVE  RoleKept(i)' /\ SecretKept(i)' /\ LinkOwn(i)'
      <4>1. CASE c = "role-id"
        BY <1>1, <1>2, <3>3, <4>1, LatestRole
      <4>2. CASE c = "secret-id"
        BY <1>1, <1>2, <3>3, <4>2, LatestSecret
      <4> QED
        BY <4>1, <4>2 DEF CredFiles
    <3>4. CASE Unlink(i) \/ KeepLink(i) \/ Symlink(i) \/ Restart(i) \/ RestartFails(i) \/ Cleanup(i) \/ Report(i)
      BY <1>1, <1>2, <3>4, LatestEnding
    <3> QED
      BY <1>3, <2>2, <3>1, <3>2, <3>3, <3>4 DEF Step, Working
  <2> QED
    BY <2>1, <2>2
<1>4. CASE Lost
  BY <1>1, <1>2, <1>4, LatestUndisturbed DEF Lost, TypeOK, ProgressOK
<1>5. CASE Calm
  BY <1>1, <1>2, <1>5, LatestUndisturbed DEF Calm
<1> QED
  BY <1>3, <1>4, <1>5, StepCases DEF Step

\* When the last of a series of applies has succeeded, the active link is its profile's and
\* the credentials are its own, unless the secret is burned or a write failed.
THEOREM LastIsActiveAlways == Spec => []LastIsActive
<1>1. Init => Latest
  BY LatestInit
<1>2. TypeOK /\ Ordered /\ Latest /\ [Next]_vars => Latest'
  BY LatestStep
<1>3. TypeOK /\ Latest => LastIsActive
  BY LatestEnough
<1> QED
  BY <1>1, <1>2, <1>3, OwnedAlways, PTL DEF Spec

-----------------------------------------------------------------------------
\* Applies one after the other.

\* Some applies have a last one: the sets of those after each of them are ordered by
\* inclusion, and one of them is empty.
LEMMA LastOfSome ==
  ASSUME NEW S \in SUBSET Applies, S # {}
  PROVE  \E k \in S : \A j \in S : j <= k
<1> DEFINE After(k) == {m \in S : m > k}
           Afters   == {After(k) : k \in S}
<1>1. IsFiniteSet(S)
  <2>1. N \in Int
    BY NumbersAssumption
  <2>2. IsFiniteSet(1..N)
    BY <2>1, FS_Interval
  <2> QED
    BY <2>2, FS_Subset DEF Applies
<1>2. IsWellFoundedOn(StrictSubsetOrdering(S), SUBSET S)
  BY <1>1, FS_StrictSubsetOrderingWellFounded, FS_FiniteSubsetsOfFinite
<1>3. Afters \subseteq SUBSET S /\ Afters # {}
  OBVIOUS
<1>4. PICK A \in Afters : \A B \in Afters : <<B, A>> \notin StrictSubsetOrdering(S)
  <2> HIDE DEF Afters
  <2> QED
    BY <1>2, <1>3, WFMin
<1>5. PICK k \in S : A = After(k)
  OBVIOUS
<1>6. ASSUME NEW j \in S, j > k
      PROVE  FALSE
  <2>1. k \in Nat /\ j \in Nat
    BY NumbersAssumption DEF Applies
  <2>2. \A m \in S : m \in Nat
    BY NumbersAssumption DEF Applies
  <2>3. After(j) \subseteq After(k) /\ j \in After(k) /\ j \notin After(j)
    <3>1. ASSUME NEW m \in S, m > j
          PROVE  m > k
      BY <1>6, <2>1, <2>2, <3>1
    <3>2. ~(j > j)
      BY <2>1
    <3> QED
      BY <1>6, <3>1, <3>2
  <2>4. <<After(j), After(k)>> \in StrictSubsetOrdering(S)
    BY <2>3 DEF StrictSubsetOrdering
  <2> QED
    BY <1>4, <1>5, <2>4
<1>7. \A j \in S : j <= k
  BY <1>5, <1>6, NumbersAssumption DEF Applies
<1> QED
  BY <1>7

\* apply.go:90 holds of a controller that waits for each apply before it sends the next: then
\* the profile's directory has one bundle's version of that bundle's files, the last one's.
\* What apply_versions shows needs two applies of a profile at once.
THEOREM VersionsOfPatience == Spec => [](Serial => OneVersion)
<1>1. ASSUME TypeOK, Ordered, Owned, Serial, \A i \in Applies : outcome[i] = "success" /\ Finished(i),
             NEW i \in Applies
      PROVE  \E k \in Applies : Profile(k) = Profile(i) /\ \A f \in Bundle(k) : dir[Profile(k)][f] = k
  <2> DEFINE Peers == {j \in Applies : Profile(j) = Profile(i)}
  <2>1. PICK k \in Peers : \A j \in Peers : j <= k
    <3>1. Peers \in SUBSET Applies /\ Peers # {}
      BY <1>1
    <3> HIDE DEF Peers
    <3> QED
      BY <3>1, LastOfSome
  <2>2. Alone(k)
    BY <1>1, <2>1, NumbersAssumption DEF Alone, Applies
  <2>3. Done(k, Bundle(k))
    BY <1>1, <2>2 DEF Owned, Own, OwnFiles
  <2> QED
    BY <2>3 DEF Done
<1>2. TypeOK /\ Ordered /\ Owned => (Serial => OneVersion)
  BY <1>1 DEF OneVersion
<1> QED
  BY <1>2, OwnedAlways, PTL

-----------------------------------------------------------------------------
\* How far an apply is from its end.

\* The places of an apply, from the end.
PlacesLeft(l) ==
  IF l = "clean" THEN 20
  ELSE IF l = "mkstage" THEN 19
  ELSE IF l = "unpack" THEN 18
  ELSE IF l = "extract" THEN 17
  ELSE IF l = "write" THEN 16
  ELSE IF l = "copy" THEN 15
  ELSE IF l = "role-id" THEN 10
  ELSE IF l = "move role-id" THEN 9
  ELSE IF l = "secret-id" THEN 8
  ELSE IF l = "move secret-id" THEN 7
  ELSE IF l = "unlink" THEN 6
  ELSE IF l = "symlink" THEN 5
  ELSE IF l = "restart" THEN 4
  ELSE IF l = "cleanup" THEN 3
  ELSE IF l = "report" THEN 2
  ELSE 0

\* The files it still has to unpack or to copy; each is opened and written.
FilesLeft(i) ==
  IF At(i, "clean") THEN 2 * Cardinality(Files)
  ELSE IF pc[i] \in {"mkstage", "extract", "unpack"} THEN Cardinality(Files) + Cardinality(todo[i])
  ELSE IF pc[i] \in {"copy", "write"} THEN Cardinality(todo[i])
  ELSE 0

WorkLeft(i) == PlacesLeft(pc[i]) + 2 * FilesLeft(i)

AllWork == 20 + 4 * Cardinality(Files)

\* What is left of it, once it is fetched.
Shrinks(i) ==
  ~At(i, "none") /\ ~At(i, "fetch") =>
    /\ {WorkLeft(i), WorkLeft(i)'} \subseteq 0..AllWork
    /\ WorkLeft(i)' <= WorkLeft(i)
    /\ Working(i) => WorkLeft(i)' < WorkLeft(i)

\* The numbers of files.
LEMMA FileCounts ==
  ASSUME IsFiniteSet(Files)
  PROVE  /\ Cardinality(Files) \in Nat
         /\ \A S \in SUBSET Files : /\ Cardinality(S) \in Nat /\ Cardinality(S) <= Cardinality(Files)
                                    /\ \A f \in S : Cardinality(S \ {f}) = Cardinality(S) - 1
<1>1. Cardinality(Files) \in Nat
  BY FS_CardinalityType
<1>2. ASSUME NEW S \in SUBSET Files
      PROVE  /\ Cardinality(S) \in Nat /\ Cardinality(S) <= Cardinality(Files)
             /\ \A f \in S : Cardinality(S \ {f}) = Cardinality(S) - 1
  <2>1. IsFiniteSet(S) /\ Cardinality(S) <= Cardinality(Files)
    BY FS_Subset
  <2>2. Cardinality(S) \in Nat
    BY <2>1, FS_CardinalityType
  <2>3. ASSUME NEW f \in S
        PROVE  Cardinality(S \ {f}) = Cardinality(S) - 1
    BY <2>1, FS_RemoveElement
  <2> QED
    BY <2>1, <2>2, <2>3
<1> QED
  BY <1>1, <1>2

\* What is left is a number, and less than all.
LEMMA WorkBounded ==
  ASSUME IsFiniteSet(Files), TypeOK, NEW i \in Applies
  PROVE  WorkLeft(i) \in 0..AllWork
<1>1. todo[i] \in SUBSET Files
  BY DEF TypeOK, ProgressOK
<1>2. FilesLeft(i) \in 0..(2 * Cardinality(Files))
  BY <1>1, FileCounts DEF FilesLeft
<1>3. PlacesLeft(pc[i]) \in 0..20
  BY DEF PlacesLeft
<1> HIDE DEF FilesLeft, PlacesLeft
<1> QED
  BY <1>2, <1>3, FileCounts DEF WorkLeft, AllWork

\* What is left, place by place.
Measured(i) ==
  /\ At(i, "clean") => WorkLeft(i) = 20 + 4 * Cardinality(Files)
  /\ At(i, "mkstage") => WorkLeft(i) = 19 + 2 * Cardinality(Files) + 2 * Cardinality(todo[i])
  /\ At(i, "unpack") => WorkLeft(i) = 18 + 2 * Cardinality(Files) + 2 * Cardinality(todo[i])
  /\ At(i, "extract") => WorkLeft(i) = 17 + 2 * Cardinality(Files) + 2 * Cardinality(todo[i])
  /\ At(i, "write") => WorkLeft(i) = 16 + 2 * Cardinality(todo[i])
  /\ At(i, "copy") => WorkLeft(i) = 15 + 2 * Cardinality(todo[i])
  /\ At(i, "role-id") => WorkLeft(i) = 10
  /\ At(i, "move role-id") => WorkLeft(i) = 9
  /\ At(i, "secret-id") => WorkLeft(i) = 8
  /\ At(i, "move secret-id") => WorkLeft(i) = 7
  /\ At(i, "unlink") => WorkLeft(i) = 6
  /\ At(i, "symlink") => WorkLeft(i) = 5
  /\ At(i, "restart") => WorkLeft(i) = 4
  /\ At(i, "cleanup") => WorkLeft(i) = 3
  /\ At(i, "report") => WorkLeft(i) = 2
  /\ At(i, "ended") => WorkLeft(i) = 0

LEMMA WorkMeasured ==
  ASSUME IsFiniteSet(Files), TypeOK, NEW i \in Applies
  PROVE  Measured(i)
<1>1. Cardinality(Files) \in Nat /\ Cardinality(todo[i]) \in Nat
  BY FileCounts DEF TypeOK, ProgressOK
<1>2. /\ At(i, "clean") => PlacesLeft(pc[i]) = 20 /\ FilesLeft(i) = 2 * Cardinality(Files)
      /\ At(i, "mkstage") => PlacesLeft(pc[i]) = 19 /\ FilesLeft(i) = Cardinality(Files) + Cardinality(todo[i])
      /\ At(i, "unpack") => PlacesLeft(pc[i]) = 18 /\ FilesLeft(i) = Cardinality(Files) + Cardinality(todo[i])
      /\ At(i, "extract") => PlacesLeft(pc[i]) = 17 /\ FilesLeft(i) = Cardinality(Files) + Cardinality(todo[i])
      /\ At(i, "write") => PlacesLeft(pc[i]) = 16 /\ FilesLeft(i) = Cardinality(todo[i])
      /\ At(i, "copy") => PlacesLeft(pc[i]) = 15 /\ FilesLeft(i) = Cardinality(todo[i])
  BY Zenon DEF At, PlacesLeft, FilesLeft
<1>3. /\ At(i, "role-id") => PlacesLeft(pc[i]) = 10 /\ FilesLeft(i) = 0
      /\ At(i, "secret-id") => PlacesLeft(pc[i]) = 8 /\ FilesLeft(i) = 0
      /\ At(i, "unlink") => PlacesLeft(pc[i]) = 6 /\ FilesLeft(i) = 0
  BY DEF At, PlacesLeft, FilesLeft
<1>4. /\ At(i, "move role-id") => PlacesLeft(pc[i]) = 9 /\ FilesLeft(i) = 0
      /\ At(i, "move secret-id") => PlacesLeft(pc[i]) = 7 /\ FilesLeft(i) = 0
  BY DEF At, PlacesLeft, FilesLeft
<1>5. /\ At(i, "symlink") => PlacesLeft(pc[i]) = 5 /\ FilesLeft(i) = 0
      /\ At(i, "restart") => PlacesLeft(pc[i]) = 4 /\ FilesLeft(i) = 0
      /\ At(i, "cleanup") => PlacesLeft(pc[i]) = 3 /\ FilesLeft(i) = 0
      /\ At(i, "report") => PlacesLeft(pc[i]) = 2 /\ FilesLeft(i) = 0
      /\ At(i, "ended") => PlacesLeft(pc[i]) = 0 /\ FilesLeft(i) = 0
  BY DEF At, PlacesLeft, FilesLeft
<1>6. WorkLeft(i) = PlacesLeft(pc[i]) + 2 * FilesLeft(i)
  BY DEF WorkLeft
<1>7. /\ At(i, "clean") => WorkLeft(i) = 20 + 4 * Cardinality(Files)
      /\ At(i, "mkstage") => WorkLeft(i) = 19 + 2 * Cardinality(Files) + 2 * Cardinality(todo[i])
  BY <1>1, <1>2, <1>6 DEF At
<1>8. /\ At(i, "unpack") => WorkLeft(i) = 18 + 2 * Cardinality(Files) + 2 * Cardinality(todo[i])
      /\ At(i, "extract") => WorkLeft(i) = 17 + 2 * Cardinality(Files) + 2 * Cardinality(todo[i])
  BY <1>1, <1>2, <1>6 DEF At
<1>9. /\ At(i, "write") => WorkLeft(i) = 16 + 2 * Cardinality(todo[i])
      /\ At(i, "copy") => WorkLeft(i) = 15 + 2 * Cardinality(todo[i])
  BY <1>1, <1>2, <1>6 DEF At
<1>10. /\ At(i, "role-id") => WorkLeft(i) = 10
       /\ At(i, "secret-id") => WorkLeft(i) = 8
       /\ At(i, "unlink") => WorkLeft(i) = 6
  BY <1>1, <1>3, <1>6 DEF At
<1>11. /\ At(i, "move role-id") => WorkLeft(i) = 9
       /\ At(i, "move secret-id") => WorkLeft(i) = 7
  <2>1. 9 + 2 * 0 = 9 /\ 7 + 2 * 0 = 7
    OBVIOUS
  <2> QED
    BY <1>4, <1>6, <2>1, Zenon
<1>12. /\ At(i, "symlink") => WorkLeft(i) = 5
       /\ At(i, "restart") => WorkLeft(i) = 4
       /\ At(i, "cleanup") => WorkLeft(i) = 3
       /\ At(i, "report") => WorkLeft(i) = 2
       /\ At(i, "ended") => WorkLeft(i) = 0
  BY <1>1, <1>5, <1>6 DEF At
<1> QED
  BY <1>7, <1>8, <1>9, <1>10, <1>11, <1>12, Zenon DEF Measured

\* A step of the goroutine, once the fetch is over, leaves less of it.
LEMMA WorkStep ==
  ASSUME IsFiniteSet(Files), TypeOK, TypeOK', NEW i \in Applies, Working(i)
  PROVE  WorkLeft(i)' < WorkLeft(i)
<1>1. /\ Cardinality(Files) \in Nat /\ Cardinality(todo[i]) \in Nat /\ Cardinality(todo'[i]) \in Nat
      /\ Cardinality(todo'[i]) <= Cardinality(Files)
      /\ \A f \in todo[i] : Cardinality(todo[i] \ {f}) = Cardinality(todo[i]) - 1
  BY FileCounts DEF TypeOK, ProgressOK
<1>2. Measured(i) /\ Measured(i)'
  <2>1. Measured(i)
    BY WorkMeasured
  <2>2. Measured(i)'
    BY WorkMeasured, PTL
  <2> QED
    BY <2>1, <2>2
<1>3. CASE Clean(i)
  <2>1. At(i, "clean") /\ At(i, "mkstage")'
    BY <1>3 DEF Clean, Goto, At, TypeOK, ProgressOK
  <2> QED
    BY <1>1, <1>2, <2>1 DEF Measured, At
<1>4. CASE MakeStage(i)
  <2>1. At(i, "mkstage") /\ At(i, "extract")' /\ todo' = todo
    BY <1>4 DEF MakeStage, Goto, At, TypeOK, ProgressOK
  <2> QED
    BY <1>1, <1>2, <2>1 DEF Measured, At
<1>5. CASE ExtractWrite(i)
  <2>1. At(i, "unpack") /\ At(i, "extract")' /\ todo' = todo
    BY <1>5 DEF ExtractWrite, Goto, At, TypeOK, ProgressOK
  <2> QED
    BY <1>1, <1>2, <2>1 DEF Measured, At
<1>6. CASE ExtractError(i)
  <2>1. (At(i, "extract") \/ At(i, "unpack")) /\ At(i, "report")'
    BY <1>6 DEF ExtractError, ReturnError, Goto, At, TypeOK, ProgressOK
  <2>2. CASE At(i, "extract")
    BY <1>1, <1>2, <2>1, <2>2 DEF Measured, At
  <2>3. CASE At(i, "unpack")
    BY <1>1, <1>2, <2>1, <2>3 DEF Measured, At
  <2> QED
    BY <2>1, <2>2, <2>3
<1>7. CASE List(i)
  <2>1. At(i, "extract") /\ (At(i, "copy")' \/ At(i, "cleanup")')
    BY <1>7 DEF List, ReturnAfterDefer, Goto, At, TypeOK, ProgressOK
  <2>2. CASE At(i, "copy")'
    BY <1>1, <1>2, <2>1, <2>2 DEF Measured, At
  <2>3. CASE At(i, "cleanup")'
    BY <1>1, <1>2, <2>1, <2>3 DEF Measured, At
  <2> QED
    BY <2>1, <2>2, <2>3
<1>8. CASE CopyWrite(i)
  <2>1. At(i, "write") /\ At(i, "copy")' /\ todo' = todo
    BY <1>8 DEF CopyWrite, Goto, At, TypeOK, ProgressOK
  <2> QED
    BY <1>1, <1>2, <2>1 DEF Measured, At
<1>9. CASE CopyWriteFails(i)
  <2>1. At(i, "write") /\ At(i, "cleanup")'
    BY <1>9 DEF CopyWriteFails, ReturnAfterDefer, Goto, At, TypeOK, ProgressOK
  <2> QED
    BY <1>1, <1>2, <2>1 DEF Measured, At
<1>10. CASE CopyDone(i)
  <2>1. At(i, "copy") /\ At(i, "role-id")'
    BY <1>10 DEF CopyDone, Goto, At, TypeOK, ProgressOK
  <2> QED
    BY <1>1, <1>2, <2>1 DEF Measured, At
<1>11. CASE Unlink(i) \/ KeepLink(i)
  <2>1. At(i, "unlink") /\ (At(i, "symlink")' \/ At(i, "restart")')
    BY <1>11 DEF Unlink, KeepLink, Goto, At, TypeOK, ProgressOK
  <2>2. CASE At(i, "symlink")'
    BY <1>1, <1>2, <2>1, <2>2 DEF Measured, At
  <2>3. CASE At(i, "restart")'
    BY <1>1, <1>2, <2>1, <2>3 DEF Measured, At
  <2> QED
    BY <2>1, <2>2, <2>3
<1>12. CASE Symlink(i)
  <2>1. At(i, "symlink") /\ At(i, "restart")'
    BY <1>12 DEF Symlink, Goto, At, TypeOK, ProgressOK
  <2> QED
    BY <1>1, <1>2, <2>1 DEF Measured, At
<1>13. CASE Restart(i) \/ RestartFails(i)
  <2>1. At(i, "restart") /\ At(i, "cleanup")'
    BY <1>13 DEF Restart, RestartFails, ReturnAfterDefer, Goto, At, TypeOK, ProgressOK
  <2> QED
    BY <1>1, <1>2, <2>1 DEF Measured, At
<1>14. CASE Cleanup(i)
  <2>1. At(i, "cleanup") /\ At(i, "report")'
    BY <1>14 DEF Cleanup, Goto, At, TypeOK, ProgressOK
  <2> QED
    BY <1>1, <1>2, <2>1 DEF Measured, At
<1>15. CASE Report(i)
  <2>1. At(i, "report") /\ At(i, "ended")'
    BY <1>15 DEF Report, Goto, At, TypeOK, ProgressOK
  <2> QED
    BY <1>1, <1>2, <2>1 DEF Measured, At
<1>16. ASSUME NEW f \in Files, ExtractOpen(i, f)
      PROVE  WorkLeft(i)' < WorkLeft(i)
  <2>1. At(i, "extract") /\ At(i, "unpack")' /\ f \in todo[i] /\ todo'[i] = todo[i] \ {f}
    BY <1>16 DEF ExtractOpen, Goto, At, TypeOK, ProgressOK
  <2>2. Cardinality(todo'[i]) = Cardinality(todo[i]) - 1
    BY <1>1, <2>1
  <2> QED
    BY <1>1, <1>2, <2>1, <2>2 DEF Measured, At
<1>17. ASSUME NEW f \in Files, CopyOpen(i, f)
      PROVE  WorkLeft(i)' < WorkLeft(i)
  <2>1. At(i, "copy") /\ At(i, "write")' /\ f \in todo[i] /\ todo'[i] = todo[i] \ {f}
    BY <1>17 DEF CopyOpen, Goto, At, TypeOK, ProgressOK
  <2>2. Cardinality(todo'[i]) = Cardinality(todo[i]) - 1
    BY <1>1, <2>1
  <2> QED
    BY <1>1, <1>2, <2>1, <2>2 DEF Measured, At
<1>18. ASSUME NEW f \in Files, CopyReadError(i, f)
      PROVE  WorkLeft(i)' < WorkLeft(i)
  <2>1. At(i, "copy") /\ At(i, "cleanup")'
    BY <1>18 DEF CopyReadError, ReturnAfterDefer, Goto, At, TypeOK, ProgressOK
  <2> QED
    BY <1>1, <1>2, <2>1 DEF Measured, At
<1>19. ASSUME NEW c \in CredFiles, NoCredential(i, c) \/ WriteTmp(i, c) \/ WriteTmpFails(i, c) \/ Rename(i, c)
      PROVE  WorkLeft(i)' < WorkLeft(i)
  <2>1. \/ pc[i] = c /\ pc'[i] \in {Move[c], AfterIt[c]}
        \/ pc[i] = Move[c] /\ pc'[i] = AfterIt[c]
    BY <1>19 DEF NoCredential, WriteTmp, WriteTmpFails, Rename, Goto, At, TypeOK, ProgressOK
  <2>2. \/ c = "role-id" /\ Move[c] = "move role-id" /\ AfterIt[c] = "secret-id"
        \/ c = "secret-id" /\ Move[c] = "move secret-id" /\ AfterIt[c] = "unlink"
    BY DEF CredFiles, Move, AfterIt
  <2>3. \/ At(i, "role-id") /\ (At(i, "move role-id")' \/ At(i, "secret-id")')
        \/ At(i, "move role-id") /\ At(i, "secret-id")'
        \/ At(i, "secret-id") /\ (At(i, "move secret-id")' \/ At(i, "unlink")')
        \/ At(i, "move secret-id") /\ At(i, "unlink")'
    BY <2>1, <2>2 DEF At
  <2>4. CASE At(i, "role-id") /\ At(i, "move role-id")'
    <3>1. WorkLeft(i) = 10 /\ WorkLeft(i)' = 9
      BY <1>2, <2>4, Zenon DEF Measured
    <3> QED
      BY <3>1
  <2>5. CASE At(i, "role-id") /\ At(i, "secret-id")'
    BY <1>1, <1>2, <2>5 DEF Measured, At
  <2>6. CASE At(i, "move role-id") /\ At(i, "secret-id")'
    <3>1. WorkLeft(i) = 9 /\ WorkLeft(i)' = 8
      BY <1>2, <2>6, Zenon DEF Measured
    <3> QED
      BY <3>1
  <2>7. CASE At(i, "secret-id") /\ At(i, "move secret-id")'
    <3>1. WorkLeft(i) = 8 /\ WorkLeft(i)' = 7
      BY <1>2, <2>7, Zenon DEF Measured
    <3> QED
      BY <3>1
  <2>8. CASE At(i, "secret-id") /\ At(i, "unlink")'
    BY <1>1, <1>2, <2>8 DEF Measured, At
  <2>9. CASE At(i, "move secret-id") /\ At(i, "unlink")'
    <3>1. WorkLeft(i) = 7 /\ WorkLeft(i)' = 6
      BY <1>2, <2>9, Zenon DEF Measured
    <3> QED
      BY <3>1
  <2> QED
    BY <2>3, <2>4, <2>5, <2>6, <2>7, <2>8, <2>9
<1> QED
  BY <1>3, <1>4, <1>5, <1>6, <1>7, <1>8, <1>9, <1>10, <1>11, <1>12, <1>13, <1>14, <1>15, <1>16, <1>17, <1>18, <1>19 DEF Working

\* A step of somebody else leaves as much, or nothing if the process ends.
LEMMA OthersStep ==
  ASSUME IsFiniteSet(Files), TypeOK, TypeOK', [Next]_vars, NEW i \in Applies,
         ~At(i, "none"), ~At(i, "fetch"), ~Working(i)
  PROVE  WorkLeft(i)' <= WorkLeft(i)
<1>0. WorkLeft(i) \in Nat
  BY WorkBounded, FileCounts DEF AllWork
<1>1. ASSUME pc'[i] = pc[i], todo'[i] = todo[i]
      PROVE  WorkLeft(i)' <= WorkLeft(i)
  <2>1. WorkLeft(i)' = WorkLeft(i)
    BY <1>1 DEF WorkLeft, FilesLeft, At
  <2> QED
    BY <1>0, <2>1
<1>2. CASE Lost
  <2>1. pc'[i] \in {"lost", pc[i]} /\ todo'[i] = todo[i]
    BY <1>2 DEF Lost
  <2>2. CASE pc'[i] = "lost"
    <3>1. WorkLeft(i)' = 0
      BY <2>2 DEF WorkLeft, FilesLeft, PlacesLeft, At
    <3> QED
      BY <1>0, <3>1
  <2> QED
    BY <1>1, <2>1, <2>2
<1>3. CASE Calm
  BY <1>1, <1>3 DEF Calm
<1>4. ASSUME NEW j \in Applies, Frame(j), Receive(j) \/ Fetching(j) \/ Working(j)
      PROVE  pc'[i] = pc[i] /\ todo'[i] = todo[i]
  <2>1. j # i
    BY <1>4 DEF Receive, Fetching, FetchError, Fetched, FetchPanics, At
  <2> QED
    BY <1>4, <2>1 DEF Frame
<1> QED
  BY <1>1, <1>2, <1>3, <1>4, StepCases

\* An apply whose fetch is over takes at most 20 + 4|Files| steps more, whatever the others
\* do (apply.go:67-139 has no loop but those over the archive and the directory): what is left
\* for FetchedEnds is that the scheduler runs it.
THEOREM WorkEnds ==
  ASSUME IsFiniteSet(Files)
  PROVE  Spec => [][\A i \in Applies : Shrinks(i)]_vars
<1>1. ASSUME TypeOK, TypeOK', [Next]_vars, NEW i \in Applies
      PROVE  Shrinks(i)
  <2>1. WorkLeft(i) \in 0..AllWork /\ WorkLeft(i)' \in 0..AllWork
    <3>1. WorkLeft(i) \in 0..AllWork
      BY <1>1, WorkBounded
    <3>2. (WorkLeft(i) \in 0..AllWork)'
      BY <1>1, WorkBounded, PTL
    <3> QED
      BY <3>1, <3>2 DEF AllWork
  <2>2. AllWork \in Nat
    BY FileCounts DEF AllWork
  <2>3. CASE Working(i)
    <3>1. WorkLeft(i)' < WorkLeft(i)
      BY <1>1, <2>3, WorkStep
    <3> QED
      BY <2>1, <2>2, <3>1 DEF Shrinks
  <2>4. CASE ~Working(i)
    BY <1>1, <2>1, <2>4, OthersStep DEF Shrinks
  <2> QED
    BY <2>3, <2>4
<1>2. TypeOK /\ TypeOK' /\ [Next]_vars => [\A i \in Applies : Shrinks(i)]_vars
  BY <1>1
<1> QED
  BY <1>2, TypeCorrect, PTL DEF Spec
=============================================================================
