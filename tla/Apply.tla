------------------------------- MODULE Apply -------------------------------
(***************************************************************************)
(* The agent's "apply" instruction, internal/agent/apply.go: a goroutine   *)
(* per instruction fetches a config bundle, unpacks it in a staging        *)
(* directory named after the profile, copies it over the profile's         *)
(* directory, writes the Bao agent's two credential files, links the       *)
(* profile's bao-agent.hcl and restarts the Bao agent.                     *)
(*                                                                         *)
(* Nothing keeps two of these goroutines apart, so the file operations are *)
(* steps of their own; a bundle's file is opened and written in two steps, *)
(* a credential (a few bytes, of a fixed length) in one.  Applies are      *)
(* numbered in the order of arrival.  A file's content is the number of    *)
(* the apply whose bundle or payload it comes from; -i if it is not whole  *)
(* and i opened it last; 0 if the file is not there.                       *)
(***************************************************************************)
EXTENDS Integers, FiniteSets

CONSTANTS
  N,             \* bound: number of apply instructions
  Profiles,      \* names of profiles
  Files,         \* names of files in bundles; "hcl" stands for bao-agent.hcl
  Instructions,  \* payloads: profile, files of the bundle, credentials, and whether it
                 \* has a checksum and arrives through the leaf node
  NoLink,        \* the active bao-agent.hcl link is absent
  Settings,      \* what the applies meet: whether the controller waits for the end of one
                 \* before it sends another, whether writes may fail, the bound on restarts
                 \* of the agent, and which of the instructions are sent
  Cap            \* capacity of eventCh

Applies   == 1..N
CredFiles == {"role-id", "secret-id"}

ASSUME NumbersAssumption == N \in Nat /\ Cap \in Nat \ {0}

ASSUME NamesAssumption == NoLink \notin Profiles /\ "hcl" \in Files

ASSUME InstructionAssumption ==
  Instructions \subseteq [profile : Profiles, bundle : SUBSET Files, creds : SUBSET CredFiles,
                         checked : BOOLEAN, leaf : BOOLEAN]

ASSUME SettingsAssumption ==
  Settings \subseteq [serial : BOOLEAN, diskFull : BOOLEAN, restarts : Nat, sent : SUBSET Instructions]

VARIABLES
  setting,   \* the one of these that holds
  instr,     \* the instructions, sent or to be sent
  pc,        \* where each apply is
  todo,      \* the files it still has to unpack or copy
  held,      \* the file it is writing, and the content it writes
  bad,       \* the applies whose archive arrived damaged
  outcome,   \* what each apply returned
  stage,     \* the staging directory of each profile
  dir,       \* the directory of each profile
  cred,      \* role-id and secret-id
  tmp,       \* role-id.tmp and secret-id.tmp
  link,      \* the profile whose bao-agent.hcl is active
  agent,     \* the Bao agent and the credentials it last read
  queued,    \* number of events in eventCh
  reported,  \* the applies whose result went into eventCh
  crashes    \* number of restarts of the agent

progress == <<pc, todo, held>>
results  == <<bad, outcome>>
creds    == <<cred, tmp>>
disk     == <<stage, dir, creds, link>>
channel  == <<queued, reported>>
fate     == <<setting, instr, crashes>>
vars     == <<progress, results, disk, agent, channel, fate>>

Serial     == setting.serial
DiskFull   == setting.diskFull
MaxCrashes == setting.restarts

-----------------------------------------------------------------------------
Empty == [f \in Files |-> 0]
Gone  == [exists |-> FALSE, files |-> Empty]

Profile(i) == instr[i].profile
Bundle(i)  == instr[i].bundle
Payload(i) == instr[i].creds

Init ==
  /\ setting \in Settings /\ instr \in [Applies -> setting.sent]
  /\ pc = [i \in Applies |-> "none"]
  /\ todo = [i \in Applies |-> {}]
  /\ held = [i \in Applies |-> [file |-> "hcl", from |-> 0]]
  /\ bad = {} /\ outcome = [i \in Applies |-> "none"]
  /\ stage = [p \in Profiles |-> Gone]
  /\ dir = [p \in Profiles |-> Empty]
  /\ cred = [c \in CredFiles |-> 0] /\ tmp = [c \in CredFiles |-> 0]
  /\ link = NoLink
  /\ agent = [state |-> "down", role |-> 0, secret |-> 0]
  /\ queued = 0 /\ reported = {}
  /\ crashes = 0

Finished(i) == pc[i] \in {"ended", "lost"}
Active(i)   == pc[i] # "none" /\ ~Finished(i)

At(i, l) == pc[i] = l
Goto(i, l) == pc' = [pc EXCEPT ![i] = l] /\ UNCHANGED <<channel, fate>>

\* A return before `defer os.RemoveAll`, and one after it.
ReturnError(i) == outcome' = [outcome EXCEPT ![i] = "error"] /\ Goto(i, "report")
ReturnAfterDefer(i, o) == outcome' = [outcome EXCEPT ![i] = o] /\ Goto(i, "cleanup")

\* What a file holds once i has written `content` to the file it had opened:
\* if another opened it in between, either's content, a mix of both, or the
\* other's alone; nothing if it was removed.
Written(now, i, content) ==
  CASE now = -i -> {content}
    [] now = 0  -> {0}
    [] OTHER    -> {now, content, -i}

\* The instruction arrives: handleInstruction starts the goroutine.
Receive(i) ==
  /\ At(i, "none") /\ \A j \in 1..(i - 1) : pc[j] # "none"
  /\ Serial => \A j \in Applies : ~Active(j)
  /\ Goto(i, "fetch")
  /\ UNCHANGED <<todo, held, results, disk, agent>>

\* fetchBundle returns an error; or the archive, whose checksum is compared if there is one.
FetchError(i) ==
  /\ At(i, "fetch") /\ ~instr[i].leaf
  /\ ReturnError(i)
  /\ UNCHANGED <<todo, held, bad, disk, agent>>

Fetched(i, damaged) ==
  /\ At(i, "fetch") /\ ~instr[i].leaf
  /\ bad' = IF damaged THEN bad \cup {i} ELSE bad
  /\ IF damaged /\ instr[i].checked THEN ReturnError(i) ELSE Goto(i, "clean") /\ UNCHANGED outcome
  /\ UNCHANGED <<todo, held, disk, agent>>

\* The process is gone, and with it its goroutines and the channel.
Die ==
  /\ crashes < MaxCrashes /\ crashes' = crashes + 1
  /\ pc' = [i \in Applies |-> IF Active(i) THEN "lost" ELSE pc[i]]
  /\ queued' = 0
  /\ UNCHANGED <<setting, instr, todo, held, results, disk, agent, reported>>

\* runTelemetryWithLeaf passes a nil ziti.Context: Dial panics.
FetchPanics(i) ==
  /\ At(i, "fetch") /\ instr[i].leaf
  /\ Die

-----------------------------------------------------------------------------
\* The staging directory.

SetStage(i, s) == stage' = [stage EXCEPT ![Profile(i)] = s]
Staged(i, f)   == stage[Profile(i)].files[f]
PutStaged(i, f, content) ==
  SetStage(i, [exists |-> TRUE, files |-> [stage[Profile(i)].files EXCEPT ![f] = content]])

Mutant_Clean(i) ==   \* os.RemoveAll is left out
  /\ At(i, "clean")
  /\ todo' = [todo EXCEPT ![i] = Bundle(i)]
  /\ Goto(i, "mkstage")
  /\ UNCHANGED <<held, results, disk, agent>>
Clean(i) ==
  /\ At(i, "clean")
  /\ SetStage(i, Gone)
  /\ todo' = [todo EXCEPT ![i] = Bundle(i)]
  /\ Goto(i, "mkstage")
  /\ UNCHANGED <<held, results, dir, creds, link, agent>>

MakeStage(i) ==
  /\ At(i, "mkstage")
  /\ SetStage(i, [stage[Profile(i)] EXCEPT !.exists = TRUE])
  /\ Goto(i, "extract")
  /\ UNCHANGED <<todo, held, results, dir, creds, link, agent>>

\* An archive entry: its file is created or truncated, in a directory made
\* again if it is gone, then written.
ExtractOpen(i, f) ==
  /\ At(i, "extract") /\ f \in todo[i]
  /\ PutStaged(i, f, -i)
  /\ held' = [held EXCEPT ![i] = [file |-> f, from |-> i]]
  /\ todo' = [todo EXCEPT ![i] = @ \ {f}]
  /\ Goto(i, "unpack")
  /\ UNCHANGED <<results, dir, creds, link, agent>>

ExtractWrite(i) ==
  /\ At(i, "unpack")
  /\ \E now \in Written(Staged(i, held[i].file), i, i) :
       SetStage(i, [stage[Profile(i)] EXCEPT !.files[held[i].file] = now])
  /\ Goto(i, "extract")
  /\ UNCHANGED <<todo, held, results, dir, creds, link, agent>>

\* A damaged archive ends before, in or between its files; a full disk ends a write.
ExtractError(i) ==
  /\ \/ At(i, "extract") /\ i \in bad
     \/ At(i, "unpack") /\ (i \in bad \/ DiskFull)
  /\ ReturnError(i)
  /\ UNCHANGED <<todo, held, bad, disk, agent>>

-----------------------------------------------------------------------------
\* copyDir: the staging directory is listed ...
List(i) ==
  /\ At(i, "extract") /\ todo[i] = {} /\ i \notin bad
  /\ IF stage[Profile(i)].exists THEN Goto(i, "copy") /\ UNCHANGED outcome
                                 ELSE ReturnAfterDefer(i, "error")
  /\ todo' = [todo EXCEPT ![i] = {f \in Files : Staged(i, f) # 0}]
  /\ UNCHANGED <<held, bad, disk, agent>>

\* ... each file is read, unless it has gone, and opened in the profile's directory ...
CopyOpen(i, f) ==
  /\ At(i, "copy") /\ f \in todo[i] /\ Staged(i, f) # 0
  /\ held' = [held EXCEPT ![i] = [file |-> f, from |-> Staged(i, f)]]
  /\ todo' = [todo EXCEPT ![i] = @ \ {f}]
  /\ dir' = [dir EXCEPT ![Profile(i)][f] = -i]
  /\ Goto(i, "write")
  /\ UNCHANGED <<results, stage, creds, link, agent>>

CopyReadError(i, f) ==
  /\ At(i, "copy") /\ f \in todo[i] /\ Staged(i, f) = 0
  /\ ReturnAfterDefer(i, "error")
  /\ UNCHANGED <<todo, held, bad, disk, agent>>

\* ... and written.
CopyWrite(i) ==
  /\ At(i, "write")
  /\ \E now \in Written(dir[Profile(i)][held[i].file], i, held[i].from) :
       dir' = [dir EXCEPT ![Profile(i)][held[i].file] = now]
  /\ Goto(i, "copy")
  /\ UNCHANGED <<todo, held, results, stage, creds, link, agent>>

Mutant_CopyWriteFails(i) ==   \* WriteFile's error is not returned
  /\ At(i, "write") /\ DiskFull
  /\ Goto(i, "copy")
  /\ UNCHANGED <<todo, held, results, disk, agent>>
CopyWriteFails(i) ==
  /\ At(i, "write") /\ DiskFull
  /\ ReturnAfterDefer(i, "error")
  /\ UNCHANGED <<todo, held, bad, disk, agent>>

CopyDone(i) ==
  /\ At(i, "copy") /\ todo[i] = {}
  /\ Goto(i, "role-id")
  /\ UNCHANGED <<todo, held, results, disk, agent>>

-----------------------------------------------------------------------------
\* The credentials, role-id then secret-id; writeFile's error is not looked at.

Move    == [c \in CredFiles |-> IF c = "role-id" THEN "move role-id" ELSE "move secret-id"]
AfterIt == [c \in CredFiles |-> IF c = "role-id" THEN "secret-id" ELSE "unlink"]

NoCredential(i, c) ==
  /\ At(i, c) /\ c \notin Payload(i)
  /\ Goto(i, AfterIt[c])
  /\ UNCHANGED <<todo, held, results, disk, agent>>

WriteTmp(i, c) ==
  /\ At(i, c) /\ c \in Payload(i)
  /\ tmp' = [tmp EXCEPT ![c] = i]
  /\ Goto(i, Move[c])
  /\ UNCHANGED <<todo, held, results, stage, dir, cred, link, agent>>

WriteTmpFails(i, c) ==
  /\ At(i, c) /\ c \in Payload(i) /\ DiskFull
  /\ tmp' = [tmp EXCEPT ![c] = -i]
  /\ Goto(i, AfterIt[c])
  /\ UNCHANGED <<todo, held, results, stage, dir, cred, link, agent>>

\* The rename moves whatever has the name by now, and fails if nothing has.
Rename(i, c) ==
  /\ At(i, Move[c])
  /\ cred' = IF tmp[c] # 0 THEN [cred EXCEPT ![c] = tmp[c]] ELSE cred
  /\ tmp' = [tmp EXCEPT ![c] = 0]
  /\ Goto(i, AfterIt[c])
  /\ UNCHANGED <<todo, held, results, stage, dir, link, agent>>

-----------------------------------------------------------------------------
\* The link, the restart and the end.

HasHCL(i) == dir[Profile(i)]["hcl"] # 0

Mutant_UnlinkNot(i) ==   \* os.Remove is left out: os.Symlink fails if there is a link
  /\ At(i, "unlink") /\ HasHCL(i)
  /\ Goto(i, "symlink")
  /\ UNCHANGED <<todo, held, results, disk, agent>>
Unlink(i) ==
  /\ At(i, "unlink") /\ HasHCL(i)
  /\ link' = NoLink
  /\ Goto(i, "symlink")
  /\ UNCHANGED <<todo, held, results, stage, dir, creds, agent>>

KeepLink(i) ==
  /\ At(i, "unlink") /\ ~HasHCL(i)
  /\ Goto(i, "restart")
  /\ UNCHANGED <<todo, held, results, disk, agent>>

Mutant_Symlink(i) ==   \* os.Remove comes after os.Symlink
  /\ At(i, "symlink")
  /\ link' = NoLink
  /\ Goto(i, "restart")
  /\ UNCHANGED <<todo, held, results, stage, dir, creds, agent>>
Symlink(i) ==
  /\ At(i, "symlink")
  /\ link' = IF link = NoLink THEN Profile(i) ELSE link
  /\ Goto(i, "restart")
  /\ UNCHANGED <<todo, held, results, stage, dir, creds, agent>>

Restart(i) ==
  /\ At(i, "restart")
  /\ agent' = [agent EXCEPT !.state = "starting"]
  /\ ReturnAfterDefer(i, "success")
  /\ UNCHANGED <<todo, held, bad, disk>>

Mutant_RestartFails(i) ==   \* RemoveAll is called on success only
  /\ At(i, "restart")
  /\ ReturnError(i)
  /\ UNCHANGED <<todo, held, bad, disk, agent>>
RestartFails(i) ==
  /\ At(i, "restart")
  /\ ReturnAfterDefer(i, "error")
  /\ UNCHANGED <<todo, held, bad, disk, agent>>

\* The deferred RemoveAll.
Cleanup(i) ==
  /\ At(i, "cleanup")
  /\ SetStage(i, Gone)
  /\ Goto(i, "report")
  /\ UNCHANGED <<todo, held, results, dir, creds, link, agent>>

\* The result goes into eventCh if there is room.
Mutant_ReportOverflow(i) ==   \* off by one: the channel takes one more than its capacity
  /\ At(i, "report")
  /\ IF queued <= Cap THEN queued' = queued + 1 /\ reported' = reported \cup {i}
                      ELSE UNCHANGED channel
  /\ pc' = [pc EXCEPT ![i] = "ended"]
  /\ UNCHANGED <<todo, held, results, disk, agent, fate>>
Mutant_Report(i) ==   \* the send has no default case
  /\ At(i, "report") /\ queued < Cap
  /\ queued' = queued + 1 /\ reported' = reported \cup {i}
  /\ pc' = [pc EXCEPT ![i] = "ended"]
  /\ UNCHANGED <<todo, held, results, disk, agent, fate>>
Report(i) ==
  /\ At(i, "report")
  /\ IF queued < Cap THEN queued' = queued + 1 /\ reported' = reported \cup {i}
                     ELSE UNCHANGED channel
  /\ pc' = [pc EXCEPT ![i] = "ended"]
  /\ UNCHANGED <<todo, held, results, disk, agent, fate>>

-----------------------------------------------------------------------------
\* Around the applies: a collector fills the channel, the publisher empties
\* it, the Bao agent logs in and burns the secret, the process dies.

Others == UNCHANGED <<progress, results, stage, dir, tmp, link, reported, fate>>

Emit  == queued < Cap /\ queued' = queued + 1 /\ Others /\ UNCHANGED <<cred, agent>>
Drain == queued > 0 /\ queued' = queued - 1 /\ Others /\ UNCHANGED <<cred, agent>>

BaoLogin ==
  /\ agent.state = "starting"
  /\ agent' = [state |-> "up", role |-> cred["role-id"], secret |-> cred["secret-id"]]
  /\ cred' = [cred EXCEPT !["secret-id"] = 0]
  /\ Others /\ UNCHANGED queued

Crash == (\E i \in Applies : Active(i)) /\ Die

Fetching(i) ==
  \/ FetchError(i) \/ FetchPanics(i)
  \/ \E damaged \in BOOLEAN : Fetched(i, damaged)

\* A step of the goroutine once the fetch is over.
Working(i) ==
  \/ Clean(i) \/ MakeStage(i) \/ ExtractWrite(i) \/ ExtractError(i)
  \/ List(i) \/ CopyWrite(i) \/ CopyWriteFails(i) \/ CopyDone(i)
  \/ \E f \in Files : ExtractOpen(i, f) \/ CopyOpen(i, f) \/ CopyReadError(i, f)
  \/ \E c \in CredFiles :
       NoCredential(i, c) \/ WriteTmp(i, c) \/ WriteTmpFails(i, c) \/ Rename(i, c)
  \/ Unlink(i) \/ KeepLink(i) \/ Symlink(i) \/ Restart(i) \/ RestartFails(i)
  \/ Cleanup(i) \/ Report(i)

Next ==
  \/ \E i \in Applies : Receive(i) \/ Fetching(i) \/ Working(i)
  \/ Emit \/ Drain \/ BaoLogin \/ Crash

Spec == Init /\ [][Next]_vars

\* The scheduler runs every goroutine; fetchBundle has no timeout, so nothing
\* is assumed of it, nor of the publisher that empties eventCh.
FairSpec == Spec /\ \A i \in Applies : WF_vars(Working(i))
-----------------------------------------------------------------------------
Labels ==
  {"none", "fetch", "clean", "mkstage", "extract", "unpack", "copy", "write",
   "role-id", "move role-id", "secret-id", "move secret-id", "unlink", "symlink",
   "restart", "cleanup", "report", "ended", "lost"}
Contents == -N..N

ProgressOK ==
  /\ setting \in Settings /\ instr \in [Applies -> Instructions]
  /\ pc \in [Applies -> Labels]
  /\ todo \in [Applies -> SUBSET Files]
  /\ held \in [Applies -> [file : Files, from : Contents]]
  /\ bad \subseteq Applies /\ outcome \in [Applies -> {"none", "error", "success"}]

FilesOK ==
  /\ stage \in [Profiles -> [exists : BOOLEAN, files : [Files -> Contents]]]
  /\ dir \in [Profiles -> [Files -> Contents]]
  /\ link \in Profiles \cup {NoLink}

CredentialsOK ==
  /\ cred \in [CredFiles -> Contents] /\ tmp \in [CredFiles -> Contents]
  /\ agent \in [state : {"down", "starting", "up"}, role : Contents, secret : Contents]

CountersOK ==
  /\ queued \in 0..Cap /\ reported \subseteq Applies
  /\ crashes \in 0..MaxCrashes

\* Every variable has its type.
TypeOK == ProgressOK /\ FilesOK /\ CredentialsOK /\ CountersOK

\* Another apply of the same profile has not begun, or has ended before this one began.
Alone(i) ==
  \A j \in Applies \ {i} :
    Profile(j) = Profile(i) => pc[j] = "none" \/ (Serial /\ j < i)

\* A file in a profile's directory is whole, and of a bundle that was made for
\* this profile, unless an apply is writing it, or failed or died doing so:
\* whatever a damaged archive or a dead agent left in the staging directory
\* (apply.go:92, "os.RemoveAll(stageDir)") never gets there, as long as the applies of the
\* profile come one after the other.
WholeFiles ==
  \A p \in Profiles, f \in Files : LET now == dir[p][f] IN
    \/ ~Serial /\ \E i \in Applies : Profile(i) = p /\ ~At(i, "none") /\ ~Alone(i)
    \/ now = 0
    \/ now > 0 /\ Profile(now) = p /\ f \in Bundle(now)
    \/ \E i \in Applies : /\ now = -i /\ held[i].file = f /\ held[i].from = i
                          /\ (At(i, "write") \/ At(i, "lost") \/ outcome[i] = "error")

\* An apply that reports success, with no other of the same profile beside it,
\* has every file of its bundle in the profile's directory.
Installed ==
  \A i \in Applies : outcome[i] = "success" /\ Alone(i) =>
    \A f \in Bundle(i) : dir[Profile(i)][f] = i

\* The link never dangles.
LinkTarget == link # NoLink => dir[link]["hcl"] # 0

\* Once a success made it, with no apply of its own profile beside it, the link is missing
\* only while an apply is about to make it again, or after a crash.
LinkMade ==
  link = NoLink /\ crashes = 0 =>
    \A i \in Applies : outcome[i] = "success" /\ Alone(i) /\ "hcl" \in Bundle(i) =>
      \E j \in Applies : At(j, "symlink")

\* Applies of two profiles race for the active bao-agent.hcl (apply.go:121-122), and each
\* removes what the other made: there is one in the end, and it exists.
LinkKept == LinkTarget /\ LinkMade

\* When the last of a series of applies has succeeded, its profile is the
\* active one if it has a bao-agent.hcl, and the credentials are its own,
\* unless the secret has been burned or a write has failed.
LastIsActive ==
  Serial =>
    \A i \in Applies :
      outcome[i] = "success" /\ (\A j \in Applies : j > i => At(j, "none")) =>
        /\ HasHCL(i) => link = Profile(i)
        /\ \A c \in Payload(i) :
             \/ cred[c] = i
             \/ tmp[c] = -i
             \/ c = "secret-id" /\ cred[c] = 0

\* No staging directory outlives its applies, unless one of them failed to unpack.
StageGone ==
  crashes = 0 =>
    \A p \in Profiles :
      LET own == {i \in Applies : Profile(i) = p} IN
        (\A i \in own : ~Active(i)) /\ stage[p].exists =>
          \E i \in own : outcome[i] = "error" /\ (DiskFull \/ (i \in bad /\ ~instr[i].checked))

\* An apply whose fetch is over ends, although another's fetch may hang and the
\* publisher may have stopped reading eventCh (agent.go:362-366).
FetchedEnds == \A i \in Applies : At(i, "clean") ~> Finished(i)

-----------------------------------------------------------------------------
\* What the comments and documents say, and the code does otherwise.

\* apply.go:90: "Extract the archive to a staging dir, then move into place."
\* The profile's directory then holds one bundle's version of the files of a bundle.
OneVersion ==
  (\A i \in Applies : outcome[i] = "success" /\ Finished(i)) =>
    \A i \in Applies : \E k \in Applies :
      Profile(k) = Profile(i) /\ \A f \in Bundle(k) : dir[Profile(k)][f] = k
=============================================================================
