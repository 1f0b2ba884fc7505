---------------------------- MODULE Apply_proofs ----------------------------
(***************************************************************************)
(* Proofs about Apply, for every number of applies, every set of profiles, *)
(* files and instructions, and every number of restarts of the agent.      *)
(***************************************************************************)
EXTENDS Apply, TLAPS

-----------------------------------------------------------------------------
\* The numbers of the applies, and what a file may hold.

\* A file holds the number of an apply, its negative or 0, and an apply's number is not 0.
LEMMA ContentOf ==
  ASSUME NEW i \in Applies
  PROVE  i \in Contents /\ -i \in Contents /\ 0 \in Contents /\ i # 0 /\ -i # 0
BY NumbersAssumption DEF Applies, Contents

\* A file that is not there is a content too.
LEMMA NothingIsContent == 0 \in Contents
BY NumbersAssumption DEF Contents

\* A write leaves a content in the file, and never takes away a file that is there,
\* as long as what is written is a content other than "not there".
LEMMA WrittenContent ==
  ASSUME NEW i \in Applies, NEW now \in Contents, NEW content \in Contents,
         NEW new \in Written(now, i, content)
  PROVE  new \in Contents /\ (now # 0 /\ content # 0 => new # 0)
<1>1. i \in Contents /\ -i \in Contents /\ -i # 0
  BY ContentOf
<1>2. CASE now = -i
  BY <1>1, <1>2 DEF Written
<1>3. CASE now # -i /\ now = 0
  BY <1>1, <1>3 DEF Written
<1>4. CASE now # -i /\ now # 0
  BY <1>1, <1>4 DEF Written
<1> QED
  BY <1>2, <1>3, <1>4

-----------------------------------------------------------------------------
\* The type invariant.

\* What the instructions are made of.
LEMMA InstructionParts ==
  ASSUME ProgressOK, NEW i \in Applies
  PROVE  Profile(i) \in Profiles /\ Bundle(i) \subseteq Files /\ Payload(i) \subseteq CredFiles
BY InstructionAssumption DEF ProgressOK, Profile, Bundle, Payload

\* The bound of the setting that holds is a number.
LEMMA SettingParts ==
  ASSUME ProgressOK
  PROVE  setting \in Settings /\ MaxCrashes \in Nat
BY SettingsAssumption DEF ProgressOK, MaxCrashes

\* The initial states have their types.
LEMMA TypeInit == Init => TypeOK
<1> SUFFICES ASSUME Init PROVE TypeOK
  OBVIOUS
<1>1. ProgressOK
  <2>1. "hcl" \in Files
    BY NamesAssumption
  <2>2. setting \in Settings /\ instr \in [Applies -> Instructions]
    BY SettingsAssumption DEF Init
  <2> QED
    BY <2>1, <2>2, NothingIsContent DEF Init, ProgressOK, Labels
<1>2. FilesOK
  <2>1. Empty \in [Files -> Contents]
    BY NothingIsContent DEF Empty
  <2>2. Gone \in [exists : BOOLEAN, files : [Files -> Contents]]
    BY <2>1 DEF Gone
  <2> QED
    BY <2>1, <2>2 DEF Init, FilesOK
<1>3. CredentialsOK
  BY NothingIsContent DEF Init, CredentialsOK
<1>4. CountersOK
  <2>1. queued = 0 /\ reported = {} /\ crashes = 0
    BY DEF Init
  <2>2. queued \in 0..Cap /\ crashes \in 0..MaxCrashes
    BY <1>1, <2>1, NumbersAssumption, SettingParts
  <2> QED
    BY <2>1, <2>2 DEF CountersOK, MaxCrashes
<1> QED
  BY <1>1, <1>2, <1>3, <1>4 DEF TypeOK

\* A step of the fetch keeps the types.
LEMMA TypeFetching ==
  ASSUME TypeOK, NEW i \in Applies, Fetching(i)
  PROVE  TypeOK'
<1>1. CASE FetchError(i)
  BY <1>1 DEF FetchError, ReturnError, Goto, TypeOK, ProgressOK, FilesOK, CredentialsOK, CountersOK, MaxCrashes,
     Labels, disk, creds, channel, fate
<1>2. CASE FetchPanics(i)
  <2>1. ProgressOK'
    BY <1>2 DEF FetchPanics, Die, TypeOK, ProgressOK, Labels, results
  <2>2. CountersOK'
    BY <1>2, NumbersAssumption, SettingParts DEF FetchPanics, Die, TypeOK, CountersOK, MaxCrashes
  <2> QED
    BY <1>2, <2>1, <2>2 DEF FetchPanics, Die, TypeOK, FilesOK, CredentialsOK, disk, creds
<1>3. ASSUME NEW damaged \in BOOLEAN, Fetched(i, damaged)
      PROVE  TypeOK'
  BY <1>3 DEF Fetched, ReturnError, Goto, TypeOK, ProgressOK, FilesOK, CredentialsOK, CountersOK, MaxCrashes,
     Labels, disk, creds, channel, fate
<1> QED
  BY <1>1, <1>2, <1>3 DEF Fetching

\* Each step on the staging directory keeps the types.
LEMMA TypeStaging ==
  ASSUME TypeOK, NEW i \in Applies, NEW f \in Files,
         Clean(i) \/ MakeStage(i) \/ ExtractOpen(i, f) \/ ExtractWrite(i) \/ ExtractError(i) \/ Cleanup(i)
  PROVE  TypeOK'
<1> USE DEF TypeOK, Goto, SetStage, disk, creds, channel, fate, results
<1>1. /\ Profile(i) \in Profiles /\ Bundle(i) \subseteq Files
      /\ i \in Contents /\ -i \in Contents
  BY InstructionParts, ContentOf
<1>2. Gone \in [exists : BOOLEAN, files : [Files -> Contents]]
  BY NothingIsContent DEF Gone, Empty
<1>3. stage[Profile(i)] \in [exists : BOOLEAN, files : [Files -> Contents]] /\ held[i].file \in Files
  BY <1>1 DEF FilesOK, ProgressOK
<1>4. CASE Clean(i)
  BY <1>1, <1>2, <1>4 DEF Clean, ProgressOK, FilesOK, CredentialsOK, CountersOK, MaxCrashes, Labels
<1>5. CASE MakeStage(i)
  BY <1>1, <1>3, <1>5 DEF MakeStage, ProgressOK, FilesOK, CredentialsOK, CountersOK, MaxCrashes, Labels
<1>6. CASE ExtractOpen(i, f)
  BY <1>1, <1>3, <1>6 DEF ExtractOpen, PutStaged, ProgressOK, FilesOK, CredentialsOK, CountersOK, MaxCrashes, Labels
<1>7. CASE ExtractWrite(i)
  <2>1. PICK new \in Written(Staged(i, held[i].file), i, i) :
          stage' = [stage EXCEPT ![Profile(i)] = [stage[Profile(i)] EXCEPT !.files[held[i].file] = new]]
    BY <1>7 DEF ExtractWrite
  <2>2. new \in Contents
    BY <1>1, <1>3, WrittenContent DEF Staged
  <2> QED
    BY <1>1, <1>3, <1>7, <2>1, <2>2 DEF ExtractWrite, ProgressOK, FilesOK, CredentialsOK, CountersOK, MaxCrashes, Labels
<1>8. CASE ExtractError(i)
  BY <1>8 DEF ExtractError, ReturnError, ProgressOK, FilesOK, CredentialsOK, CountersOK, MaxCrashes, Labels
<1>9. CASE Cleanup(i)
  BY <1>1, <1>2, <1>9 DEF Cleanup, ProgressOK, FilesOK, CredentialsOK, CountersOK, MaxCrashes, Labels
<1> QED
  BY <1>4, <1>5, <1>6, <1>7, <1>8, <1>9

\* Each step of copyDir keeps the types.
LEMMA TypeCopying ==
  ASSUME TypeOK, NEW i \in Applies, NEW f \in Files,
         \/ List(i) \/ CopyOpen(i, f) \/ CopyReadError(i, f)
         \/ CopyWrite(i) \/ CopyWriteFails(i) \/ CopyDone(i)
  PROVE  TypeOK'
<1> USE DEF TypeOK, Goto, ReturnAfterDefer, disk, creds, channel, fate, results
<1>1. Profile(i) \in Profiles /\ i \in Contents /\ -i \in Contents
  BY InstructionParts, ContentOf
<1>2. held[i].file \in Files /\ held[i].from \in Contents /\ Staged(i, f) \in Contents
  BY <1>1 DEF FilesOK, ProgressOK, Staged
<1>3. CASE List(i)
  <2>1. {g \in Files : Staged(i, g) # 0} \in SUBSET Files
    OBVIOUS
  <2> QED
    BY <1>3, <2>1 DEF List, ProgressOK, FilesOK, CredentialsOK, CountersOK, MaxCrashes, Labels
<1>4. CASE CopyOpen(i, f)
  BY <1>1, <1>2, <1>4 DEF CopyOpen, ProgressOK, FilesOK, CredentialsOK, CountersOK, MaxCrashes, Labels
<1>5. CASE CopyReadError(i, f)
  BY <1>5 DEF CopyReadError, ProgressOK, FilesOK, CredentialsOK, CountersOK, MaxCrashes, Labels
<1>6. CASE CopyWrite(i)
  <2>1. PICK new \in Written(dir[Profile(i)][held[i].file], i, held[i].from) :
          dir' = [dir EXCEPT ![Profile(i)][held[i].file] = new]
    BY <1>6 DEF CopyWrite
  <2>2. dir[Profile(i)][held[i].file] \in Contents
    BY <1>1, <1>2 DEF FilesOK
  <2>3. new \in Contents
    BY <1>2, <2>2, WrittenContent
  <2> QED
    BY <1>1, <1>2, <1>6, <2>1, <2>3 DEF CopyWrite, ProgressOK, FilesOK, CredentialsOK, CountersOK, MaxCrashes, Labels
<1>7. CASE CopyWriteFails(i)
  BY <1>7 DEF CopyWriteFails, ProgressOK, FilesOK, CredentialsOK, CountersOK, MaxCrashes, Labels
<1>8. CASE CopyDone(i)
  BY <1>8 DEF CopyDone, ProgressOK, FilesOK, CredentialsOK, CountersOK, MaxCrashes, Labels
<1> QED
  BY <1>3, <1>4, <1>5, <1>6, <1>7, <1>8

\* Each step on the credentials keeps the types.
LEMMA TypeCredentials ==
  ASSUME TypeOK, NEW i \in Applies, NEW c \in CredFiles,
         NoCredential(i, c) \/ WriteTmp(i, c) \/ WriteTmpFails(i, c) \/ Rename(i, c)
  PROVE  TypeOK'
<1> USE DEF TypeOK, Goto, disk, creds, channel, fate, results
<1>1. i \in Contents /\ -i \in Contents /\ 0 \in Contents
  BY ContentOf
<1>2. Move[c] \in Labels /\ AfterIt[c] \in Labels
  BY DEF CredFiles, Move, AfterIt, Labels
<1>3. CASE NoCredential(i, c)
  BY <1>2, <1>3 DEF NoCredential, ProgressOK, FilesOK, CredentialsOK, CountersOK, MaxCrashes
<1>4. CASE WriteTmp(i, c)
  BY <1>1, <1>2, <1>4 DEF WriteTmp, ProgressOK, FilesOK, CredentialsOK, CountersOK, MaxCrashes
<1>5. CASE WriteTmpFails(i, c)
  BY <1>1, <1>2, <1>5 DEF WriteTmpFails, ProgressOK, FilesOK, CredentialsOK, CountersOK, MaxCrashes
<1>6. CASE Rename(i, c)
  BY <1>1, <1>2, <1>6 DEF Rename, ProgressOK, FilesOK, CredentialsOK, CountersOK, MaxCrashes
<1> QED
  BY <1>3, <1>4, <1>5, <1>6

\* Each step at the end of an apply keeps the types.
LEMMA TypeEnding ==
  ASSUME TypeOK, NEW i \in Applies,
         Unlink(i) \/ KeepLink(i) \/ Symlink(i) \/ Restart(i) \/ RestartFails(i) \/ Report(i)
  PROVE  TypeOK'
<1> USE DEF TypeOK, Goto, ReturnAfterDefer, disk, creds, channel, fate, results
<1>1. Profile(i) \in Profiles
  BY InstructionParts
<1>2. CASE Unlink(i)
  BY <1>2 DEF Unlink, ProgressOK, FilesOK, CredentialsOK, CountersOK, MaxCrashes, Labels
<1>3. CASE KeepLink(i)
  BY <1>3 DEF KeepLink, ProgressOK, FilesOK, CredentialsOK, CountersOK, MaxCrashes, Labels
<1>4. CASE Symlink(i)
  BY <1>1, <1>4 DEF Symlink, ProgressOK, FilesOK, CredentialsOK, CountersOK, MaxCrashes, Labels
<1>5. CASE Restart(i)
  BY <1>5 DEF Restart, ProgressOK, FilesOK, CredentialsOK, CountersOK, MaxCrashes, Labels
<1>6. CASE RestartFails(i)
  BY <1>6 DEF RestartFails, ProgressOK, FilesOK, CredentialsOK, CountersOK, MaxCrashes, Labels
<1>7. CASE Report(i)
  <2>1. queued' \in 0..Cap
    BY <1>7, NumbersAssumption DEF Report, CountersOK, MaxCrashes
  <2>2. reported' \subseteq Applies
    BY <1>7 DEF Report, CountersOK, MaxCrashes
  <2>3. crashes' \in 0..MaxCrashes
    BY <1>7 DEF Report, CountersOK, MaxCrashes
  <2> QED
    BY <1>7, <2>1, <2>2, <2>3 DEF Report, ProgressOK, FilesOK, CredentialsOK, CountersOK, MaxCrashes, Labels
<1> QED
  BY <1>2, <1>3, <1>4, <1>5, <1>6, <1>7

\* Each step around the applies keeps the types.
LEMMA TypeAround ==
  ASSUME TypeOK, Emit \/ Drain \/ BaoLogin \/ Crash
  PROVE  TypeOK'
<1> USE DEF TypeOK, Others, progress, results, fate
<1>1. CASE Emit \/ Drain
  <2>1. queued' \in 0..Cap
    BY <1>1, NumbersAssumption DEF Emit, Drain, CountersOK, MaxCrashes
  <2>2. reported' \subseteq Applies /\ crashes' \in 0..MaxCrashes
    BY <1>1 DEF Emit, Drain, CountersOK, MaxCrashes
  <2> QED
    BY <1>1, <2>1, <2>2 DEF Emit, Drain, ProgressOK, FilesOK, CredentialsOK, CountersOK, MaxCrashes
<1>2. CASE BaoLogin
  <2>1. cred["role-id"] \in Contents /\ cred["secret-id"] \in Contents
    BY DEF CredentialsOK, CredFiles
  <2>2. CredentialsOK'
    BY <1>2, <2>1, NothingIsContent DEF BaoLogin, CredentialsOK
  <2> QED
    BY <1>2, <2>2 DEF BaoLogin, ProgressOK, FilesOK, CountersOK, MaxCrashes
<1>3. CASE Crash
  <2>1. ProgressOK'
    BY <1>3 DEF Crash, Die, ProgressOK, Labels
  <2>2. queued' \in 0..Cap /\ crashes' \in 0..MaxCrashes
    BY <1>3, NumbersAssumption, SettingParts DEF Crash, Die, CountersOK, MaxCrashes
  <2>3. reported' \subseteq Applies
    BY <1>3 DEF Crash, Die, CountersOK, MaxCrashes
  <2> QED
    BY <1>3, <2>1, <2>2, <2>3 DEF Crash, Die, FilesOK, CredentialsOK, CountersOK, MaxCrashes, disk, creds
<1> QED
  BY <1>1, <1>2, <1>3

\* Every step keeps the types.
LEMMA TypeStep == TypeOK /\ [Next]_vars => TypeOK'
<1> SUFFICES ASSUME TypeOK, [Next]_vars
             PROVE  TypeOK'
  OBVIOUS
<1>1. ASSUME NEW i \in Applies, Receive(i)
      PROVE  TypeOK'
  BY <1>1 DEF Receive, Goto, TypeOK, ProgressOK, FilesOK, CredentialsOK, CountersOK, MaxCrashes, Labels,
     results, disk, creds, channel, fate
<1>2. ASSUME NEW i \in Applies, Fetching(i)
      PROVE  TypeOK'
  BY <1>2, TypeFetching
<1>3. ASSUME NEW i \in Applies, Working(i)
      PROVE  TypeOK'
  <2>1. CASE Clean(i) \/ MakeStage(i) \/ ExtractWrite(i) \/ ExtractError(i) \/ Cleanup(i)
    <3>1. "hcl" \in Files
      BY NamesAssumption
    <3> QED
      BY <2>1, <3>1, TypeStaging
  <2>2. CASE List(i) \/ CopyWrite(i) \/ CopyWriteFails(i) \/ CopyDone(i)
    <3>1. "hcl" \in Files
      BY NamesAssumption
    <3> QED
      BY <2>2, <3>1, TypeCopying
  <2>3. ASSUME NEW f \in Files, ExtractOpen(i, f) \/ CopyOpen(i, f) \/ CopyReadError(i, f)
        PROVE  TypeOK'
    BY <2>3, TypeStaging, TypeCopying
  <2>4. ASSUME NEW c \in CredFiles, NoCredential(i, c) \/ WriteTmp(i, c) \/ WriteTmpFails(i, c) \/ Rename(i, c)
        PROVE  TypeOK'
    BY <2>4, TypeCredentials
  <2>5. CASE Unlink(i) \/ KeepLink(i) \/ Symlink(i) \/ Restart(i) \/ RestartFails(i) \/ Report(i)
    BY <2>5, TypeEnding
  <2> QED
    BY <1>3, <2>1, <2>2, <2>3, <2>4, <2>5 DEF Working
<1>4. CASE Emit \/ Drain \/ BaoLogin \/ Crash
  BY <1>4, TypeAround
<1>5. CASE UNCHANGED vars
  BY <1>5 DEF vars, progress, results, disk, creds, channel, fate, TypeOK, ProgressOK, FilesOK,
     CredentialsOK, CountersOK, MaxCrashes
<1> QED
  BY <1>1, <1>2, <1>3, <1>4, <1>5 DEF Next

\* Every variable has its type in every reachable state.
THEOREM TypeCorrect == Spec => []TypeOK
<1>1. Init => TypeOK
  BY TypeInit
<1>2. TypeOK /\ [Next]_vars => TypeOK'
  BY TypeStep
<1> QED
  BY <1>1, <1>2, PTL DEF Spec

-----------------------------------------------------------------------------
\* The active link.  It is made between os.Stat and os.Symlink of an apply, two
\* steps apart, while other applies remove it, make it, and write to any
\* profile's directory; what makes it safe is that no step takes a file out of
\* a profile's directory, and that an apply copies only files that were there.

Linking == \A i \in Applies : At(i, "symlink") => HasHCL(i)
Writing == \A i \in Applies : At(i, "write") => held[i].from # 0
Targets == LinkTarget /\ Linking /\ Writing

\* A step of apply i that leaves the link, the profiles' directories and the
\* other applies alone, and does not bring i to one of the two labels.
Quiet(i) ==
  /\ instr' = instr /\ link' = link /\ dir' = dir
  /\ pc'[i] \notin {"symlink", "write"}
  /\ \A j \in Applies \ {i} : pc'[j] = pc[j] /\ held'[j] = held[j]

\* All steps of an apply are quiet but four.
LEMMA QuietSteps ==
  ASSUME TypeOK, NEW i \in Applies, Receive(i) \/ Fetching(i) \/ Working(i)
  PROVE  \/ Quiet(i) \/ FetchPanics(i)
         \/ \E f \in Files : CopyOpen(i, f)
         \/ CopyWrite(i) \/ Unlink(i) \/ Symlink(i)
<1> USE DEF TypeOK, ProgressOK, Quiet, Goto, ReturnError, ReturnAfterDefer, SetStage,
            results, disk, creds, channel, fate
<1>1. CASE Receive(i)
  BY <1>1 DEF Receive
<1>2. CASE FetchError(i)
  BY <1>2 DEF FetchError
<1>3. ASSUME NEW d \in BOOLEAN, Fetched(i, d)
      PROVE  Quiet(i)
  BY <1>3 DEF Fetched
<1>4. CASE Clean(i) \/ MakeStage(i) \/ Cleanup(i)
  BY <1>4 DEF Clean, MakeStage, Cleanup
<1>5. CASE ExtractWrite(i) \/ ExtractError(i)
  BY <1>5 DEF ExtractWrite, ExtractError
<1>6. CASE List(i)
  BY <1>6 DEF List
<1>7. CASE CopyWriteFails(i) \/ CopyDone(i)
  BY <1>7 DEF CopyWriteFails, CopyDone
<1>8. ASSUME NEW f \in Files, ExtractOpen(i, f) \/ CopyReadError(i, f)
      PROVE  Quiet(i)
  BY <1>8 DEF ExtractOpen, PutStaged, CopyReadError
<1>9. ASSUME NEW c \in CredFiles, NoCredential(i, c) \/ WriteTmp(i, c) \/ WriteTmpFails(i, c) \/ Rename(i, c)
      PROVE  Quiet(i)
  <2>1. Move[c] \notin {"symlink", "write"} /\ AfterIt[c] \notin {"symlink", "write"}
    BY DEF CredFiles, Move, AfterIt
  <2> QED
    BY <1>9, <2>1 DEF NoCredential, WriteTmp, WriteTmpFails, Rename
<1>10. CASE KeepLink(i) \/ Restart(i) \/ RestartFails(i) \/ Report(i)
  BY <1>10 DEF KeepLink, Restart, RestartFails, Report
<1> QED
  BY <1>1, <1>2, <1>3, <1>4, <1>5, <1>6, <1>7, <1>8, <1>9, <1>10 DEF Fetching, Working

\* A step that leaves the directories alone, or adds a file to one of them, keeps
\* the bao-agent.hcl of every profile that has one.
LEMMA HCLKept ==
  ASSUME TypeOK, Writing, NEW i \in Applies,
         CopyWrite(i) \/ \E f \in Files : CopyOpen(i, f)
  PROVE  \A p \in Profiles : dir[p]["hcl"] # 0 => dir'[p]["hcl"] # 0
<1> USE DEF TypeOK, FilesOK
<1>1. Profile(i) \in Profiles /\ "hcl" \in Files /\ -i # 0
  BY InstructionParts, ContentOf, NamesAssumption
<1>2. ASSUME NEW f \in Files, CopyOpen(i, f)
      PROVE  \A p \in Profiles : dir[p]["hcl"] # 0 => dir'[p]["hcl"] # 0
  BY <1>1, <1>2 DEF CopyOpen
<1>3. CASE CopyWrite(i)
  <2>1. held[i].file \in Files /\ held[i].from \in Contents /\ held[i].from # 0
    BY <1>3 DEF ProgressOK, CopyWrite, Writing
  <2>2. PICK new \in Written(dir[Profile(i)][held[i].file], i, held[i].from) :
          dir' = [dir EXCEPT ![Profile(i)][held[i].file] = new]
    BY <1>3 DEF CopyWrite
  <2>3. dir[Profile(i)][held[i].file] \in Contents
    BY <1>1, <2>1
  <2>4. dir[Profile(i)][held[i].file] # 0 => new # 0
    BY <2>1, <2>3, WrittenContent
  <2> QED
    BY <1>1, <2>1, <2>2, <2>4
<1> QED
  BY <1>2, <1>3

\* The invariant holds initially.
LEMMA TargetsInit == Init => Targets
BY NamesAssumption DEF Init, Targets, LinkTarget, Linking, Writing, At

\* Every step keeps it.
LEMMA TargetsStep == TypeOK /\ Targets /\ [Next]_vars => Targets'
<1> SUFFICES ASSUME TypeOK, Targets, [Next]_vars
             PROVE  Targets'
  OBVIOUS
<1> USE DEF Targets
<1>1. "hcl" \in Files /\ NoLink \notin Profiles
  BY NamesAssumption
<1>2. \A j \in Applies : Profile(j) \in Profiles
  BY InstructionParts DEF TypeOK
<1>3. ASSUME NEW i \in Applies, Quiet(i)
      PROVE  Targets'
  <2>1. LinkTarget'
    BY <1>3 DEF Quiet, LinkTarget
  <2>2. Linking'
    BY <1>3 DEF Quiet, Linking, At, HasHCL, Profile
  <2>3. Writing'
    BY <1>3 DEF Quiet, Writing, At
  <2> QED
    BY <2>1, <2>2, <2>3
<1>4. ASSUME NEW i \in Applies, FetchPanics(i)
      PROVE  Targets'
  BY <1>4 DEF FetchPanics, Die, disk, TypeOK, ProgressOK, LinkTarget, Linking, Writing, At, HasHCL, Profile
<1>5. ASSUME NEW i \in Applies, NEW f \in Files, CopyOpen(i, f)
      PROVE  Targets'
  <2>1. \A p \in Profiles : dir[p]["hcl"] # 0 => dir'[p]["hcl"] # 0
    BY <1>5, HCLKept
  <2>2. LinkTarget'
    BY <1>5, <2>1, <1>1 DEF CopyOpen, LinkTarget, TypeOK, FilesOK
  <2>3. instr' = instr /\ \A j \in Applies : pc'[j] = "symlink" => pc[j] = "symlink"
    BY <1>5 DEF CopyOpen, Goto, fate, TypeOK, ProgressOK
  <2>4. Linking'
    BY <1>2, <2>1, <2>3 DEF Linking, At, HasHCL, Profile
  <2>5. Writing'
    BY <1>5 DEF CopyOpen, Goto, Writing, At, TypeOK, ProgressOK
  <2> QED
    BY <2>2, <2>4, <2>5
<1>6. ASSUME NEW i \in Applies, CopyWrite(i)
      PROVE  Targets'
  <2>1. \A p \in Profiles : dir[p]["hcl"] # 0 => dir'[p]["hcl"] # 0
    BY <1>6, HCLKept
  <2>2. LinkTarget'
    BY <1>6, <2>1, <1>1 DEF CopyWrite, LinkTarget, TypeOK, FilesOK
  <2>3. instr' = instr /\ held' = held
        /\ \A j \in Applies : pc'[j] = pc[j] \/ pc'[j] = "copy"
    BY <1>6 DEF CopyWrite, Goto, fate, TypeOK, ProgressOK
  <2>4. Linking'
    BY <1>2, <2>1, <2>3 DEF Linking, At, HasHCL, Profile
  <2>5. Writing'
    BY <2>3 DEF Writing, At
  <2> QED
    BY <2>2, <2>4, <2>5
<1>7. ASSUME NEW i \in Applies, Unlink(i)
      PROVE  Targets'
  BY <1>7 DEF Unlink, Goto, fate, TypeOK, ProgressOK, LinkTarget, Linking, Writing, At, HasHCL, Profile
<1>8. ASSUME NEW i \in Applies, Symlink(i)
      PROVE  Targets'
  BY <1>8 DEF Symlink, Goto, fate, TypeOK, ProgressOK, LinkTarget, Linking, Writing, At, HasHCL, Profile
<1>9. CASE Emit \/ Drain \/ BaoLogin
  BY <1>9 DEF Emit, Drain, BaoLogin, Others, progress, fate, LinkTarget, Linking, Writing, At, HasHCL, Profile
<1>10. CASE Crash
  BY <1>10 DEF Crash, Die, disk, TypeOK, ProgressOK, LinkTarget, Linking, Writing, At, HasHCL, Profile
<1>11. CASE UNCHANGED vars
  BY <1>11 DEF vars, progress, disk, fate, LinkTarget, Linking, Writing, At, HasHCL, Profile
<1> QED
  BY <1>3, <1>4, <1>5, <1>6, <1>7, <1>8, <1>9, <1>10, <1>11, QuietSteps DEF Next

\* The link to the active bao-agent.hcl never dangles, however the applies interleave,
\* fail and die.
THEOREM LinkNeverDangles == Spec => []LinkTarget
<1>1. Init => TypeOK /\ Targets
  BY TypeInit, TargetsInit
<1>2. TypeOK /\ Targets /\ [Next]_vars => (TypeOK /\ Targets)'
  BY TypeStep, TargetsStep
<1>3. Targets => LinkTarget
  BY DEF Targets
<1> QED
  BY <1>1, <1>2, <1>3, PTL DEF Spec
=============================================================================
