----------------------------- MODULE Bootstrap -----------------------------
(***************************************************************************)
(* `kontango controller install`: the step list of internal/controller/    *)
(* install.go with its sentinel files, and what each step does to the      *)
(* node's disk, to OpenBao (the vault) and to the Ziti controller.         *)
(*                                                                         *)
(* One installer runs at a time.  It may be killed, and any command or     *)
(* request of a step may fail, between any two operations; the operator    *)
(* then runs the same command again.  What the process keeps in memory     *)
(* (cfg) is lost, what is on disk and in the services stays.  `pc` is the  *)
(* operation that comes next, `pos` the step of the list, `item` the       *)
(* position in the list a step iterates over.                              *)
(*                                                                         *)
(* Certificates and vaults are numbered by the run of the generating       *)
(* command that made them; 0 is "none".                                    *)
(***************************************************************************)
EXTENDS Integers, Sequences, FiniteSets

CONSTANTS
  Nodes,       \* the kinds of node:
               \*   joinMode, testMode: cfg.JoinMode (join a leader's cluster instead of starting
               \*     one) and cfg.TestMode;
               \*   manual: the operator supplies what no step does, on a joining node the
               \*     leader's PKI files and an edge router with Caddy, else the Ziti admin user;
               \*   has: what the machine offers, see Lacks;
               \*   linked: /usr/local/bin and PATH lead to the bin directory of the installation
  MaxAborts,   \* bound: failed operations and kills of the installer
  MaxReboots   \* bound: restarts of the machine

ASSUME BootstrapAssumption ==
  /\ Nodes \subseteq [joinMode : BOOLEAN, testMode : BOOLEAN, manual : BOOLEAN,
                       has : SUBSET {"host", "releases", "leader", "ziti", "bao",
                                     "schmutz-controller", "schmutz-gateway"},
                       linked : BOOLEAN]
  /\ MaxAborts \in Nat /\ MaxReboots \in Nat

VARIABLES
  node,            \* the kind of this node; every run of the command is given the same
  pc, pos, item,   \* the running installer
  nodeIP,          \* cfg.NodePublicIP has been detected in this run
  freshKey,        \* the vault initialised in this run of bao-init, else 0
  done,            \* the steps whose sentinel file exists
  bins,            \* the files of the bin directory
  pkiDir,          \* the certificates last generated, in the PKI directory
  certIP,          \* whether the server certificate names the node's IP
  etcPki,          \* the files of /etc/kontango/pki
  initFile,        \* the vault whose key and token bao-init.json holds
  roleFile,        \* the vault that schmutz-approle.json belongs to
  vault,           \* the OpenBao server on this node
  vaults,          \* number of vaults initialised so far
  secrets,         \* what the steps stored in the vault
  ziti,            \* the Ziti controller: reachable, admin user, fabric objects
  schmutz,         \* the schmutz service runs
  aborts, reboots  \* counters for the bounds

process  == <<pc, pos, item, nodeIP, freshKey>>
files    == <<bins, pkiDir, certIP, etcPki, initFile, roleFile>>
bao      == <<vault, vaults, secrets>>
services == <<bao, ziti, schmutz>>
outside  == <<node, aborts, reboots>>
vars     == <<process, done, files, services, outside>>

JoinMode == node.joinMode
TestMode == node.testMode
Manual   == node.manual

-----------------------------------------------------------------------------
\* The lists the steps are made of.

StepNames == <<"preflight", "download", "pki", "pki-from-leader", "bao-init", "bao-join",
               "ziti", "store-creds", "caddy", "schmutz", "identities", "fabric", "acl", "verify">>

LeaderOnly == {"pki", "bao-init", "store-creds", "identities", "fabric", "acl"}
JoinOnly   == {"pki-from-leader", "bao-join"}

\* The steps that are not skipped; caddy always is.
Applies == {StepNames[i] : i \in DOMAIN StepNames} \ ({"caddy"} \cup IF JoinMode THEN LeaderOnly ELSE JoinOnly)

Binaries == IF TestMode THEN <<"ziti", "caddy">> ELSE <<"ziti", "caddy", "bao", "schmutz-controller">>

\* What stepPKI writes to /etc/kontango/pki, and what a joining node waits for.
PKIFiles  == <<"server.crt", "server.key", "intermediate.key", "signing-chain.crt", "ca-bundle.pem">>
JoinFiles == {"root-ca.crt", "intermediate.crt", "intermediate.key", "signing-chain.crt", "server.crt", "server.key"}

FabricObjects == <<"enrollment", "controller-api", "bao-api", "nats-hub", "all-routers",
                   "schmutz-binds-enrollment", "schmutz-binds-bao", "schmutz-binds-controller",
                   "devices-dial-enrollment">>

KVPaths == <<"bao/init", "ziti/admin", "pki/ca">>

\* A program that a step starts from /usr/local/bin or from PATH, where no step puts it: it
\* is the machine's, or the file that download has left in the bin directory, in one piece.
Runs(program) ==
  \/ program \in node.has
  \/ node.linked /\ program \in DOMAIN bins /\ bins[program] = "whole"

\* The program of the schmutz service of this node.
SchmutzProgram == IF JoinMode THEN "schmutz-gateway" ELSE "schmutz-controller"

\* cfg.BaoRootToken and cfg.BaoUnsealKey; no code assigns them.
BaoRootToken == 0

NoSecrets == [written |-> {}, init |-> 0, ca |-> <<0, 0>>, device |-> 0]

Init ==
  /\ node \in Nodes
  /\ pc = "stopped" /\ pos = 1 /\ item = 1 /\ nodeIP = FALSE /\ freshKey = 0
  /\ done = {}
  /\ bins = [b \in {"ziti", "caddy", "bao", "schmutz-controller"} |-> "absent"]
  /\ pkiDir = 0 /\ certIP = FALSE
  /\ etcPki = [f \in JoinFiles \cup {"ca-bundle.pem"} |-> 0]
  /\ initFile = 0 /\ roleFile = 0
  /\ vault = [up |-> FALSE, gen |-> 0, sealed |-> TRUE, joined |-> FALSE]
  /\ vaults = 0
  /\ secrets = NoSecrets
  /\ ziti = [up |-> FALSE, admin |-> FALSE, objects |-> {}]
  /\ schmutz = FALSE
  /\ aborts = 0 /\ reboots = 0

-----------------------------------------------------------------------------
\* The engine: Install.

Running == pc \notin {"stopped", "complete"}

\* A step reads the vault with the token of bao-init.json.
Usable == vault.up /\ ~vault.sealed /\ vault.gen # 0 /\ initFile = vault.gen

\* clients.SealStatus: whether the vault is initialised, and whether it is sealed.
SealStatus == [initialized |-> vault.gen # 0, sealed |-> vault.sealed]

\* checkBaoVault takes the first result for "sealed" and the second for "unsealed".
BaoVaultHealthy == vault.up /\ initFile # 0 /\ ~SealStatus.initialized /\ SealStatus.sealed

Healthy ==
  IF JoinMode THEN Manual /\ schmutz
  ELSE TestMode \/ (ziti.up /\ ziti.admin /\ BaoVaultHealthy /\ schmutz)

Binary == Binaries[item]
SchmutzSkipped == TestMode \/ bins["schmutz-controller"] = "absent"

\* What a step needs of the machine and of the operator, and no step gives.  "host" is all
\* that preflight insists on (root, platform, memory, disk, the commands, ufw among them, the
\* network), "releases" the servers of the binaries, "leader" a cluster that admits the node.
Lacks(step) ==
  \/ step = "preflight" /\ "host" \notin node.has
  \/ /\ step = "download" /\ "releases" \notin node.has
     /\ \E i \in DOMAIN Binaries : Binaries[i] # "schmutz-controller" /\ bins[Binaries[i]] = "absent"
  \/ step \in {"pki", "ziti"} /\ ~Runs("ziti")
  \/ step = "pki-from-leader" /\ \E f \in JoinFiles : etcPki[f] = 0
  \/ step \in {"bao-init", "bao-join"} /\ ~Runs("bao")
  \/ step = "bao-join" /\ "leader" \notin node.has
  \/ step = "ziti" /\ etcPki["ca-bundle.pem"] = 0
  \/ step = "schmutz" /\ ~SchmutzSkipped /\ ~Runs(SchmutzProgram)

\* The next operation cannot succeed in this state of the node.
Blocked ==
  \/ pc \in {"preflight", "pki", "pki-from-leader", "ziti", "schmutz"} /\ Lacks(pc)
  \/ /\ pc = "download" /\ "releases" \notin node.has
     /\ Binary # "schmutz-controller" /\ bins[Binary] = "absent"
  \/ pc = "bao-restart" /\ ~Runs("bao")
  \/ pc = "raft-join" /\ Lacks("bao-join")
  \/ pc = "bao-setup" /\ vault.gen # 0 /\ vault.sealed
  \/ pc = "bao-save" /\ freshKey = 0 /\ initFile = 0
  \/ pc = "store-creds" /\ ~Usable
  \/ pc = "fabric-objects" /\ FabricObjects[item] \in ziti.objects
  \/ pc = "acl" /\ ~TestMode /\ ~Usable
  \/ pc = "verify" /\ ~Healthy

Start ==
  /\ ~Running
  /\ pc' = "loop" /\ pos' = 1 /\ item' = 1 /\ nodeIP' = FALSE /\ freshKey' = 0
  /\ UNCHANGED <<done, files, services, outside>>

Mutant_Pending == StepNames[pos] \in Applies   \* the sentinel is not looked at
Mutant_Unskipped == StepNames[pos] \notin done   \* the skip conditions are not looked at
Pending == StepNames[pos] \in Applies \ done

PassOver ==
  /\ pc = "loop" /\ pos <= Len(StepNames) /\ ~Pending
  /\ pos' = pos + 1
  /\ UNCHANGED <<pc, item, nodeIP, freshKey, done, files, services, outside>>

\* The label of a step's first operation is the step's name.
Begin ==
  /\ pc = "loop" /\ pos <= Len(StepNames) /\ Pending
  /\ pc' = StepNames[pos] /\ item' = 1
  /\ UNCHANGED <<pos, nodeIP, freshKey, done, files, services, outside>>

Sentinel ==
  /\ pc = "sentinel"
  /\ done' = done \cup {StepNames[pos]}
  /\ pc' = "loop" /\ pos' = pos + 1
  /\ UNCHANGED <<item, nodeIP, freshKey, files, services, outside>>

Finish ==
  /\ pc = "loop" /\ pos > Len(StepNames)
  /\ pc' = "complete"
  /\ UNCHANGED <<pos, item, nodeIP, freshKey, done, files, services, outside>>

\* A step that returns an error ends Install; this one would go on with the next step.
Mutant_Fail ==
  /\ Blocked
  /\ pc' = "loop" /\ pos' = pos + 1
  /\ UNCHANGED <<item, nodeIP, freshKey, done, files, services, outside>>
Fail ==
  /\ Blocked
  /\ pc' = "stopped"
  /\ UNCHANGED <<pos, item, nodeIP, freshKey, done, files, services, outside>>

\* The process is killed, or a command or request fails, before the next operation
\* or after it without an answer.
Abort ==
  /\ Running /\ aborts < MaxAborts
  /\ pc' = "stopped" /\ aborts' = aborts + 1
  /\ UNCHANGED <<node, pos, item, nodeIP, freshKey, done, files, services, reboots>>

\* systemd brings the services back; OpenBao starts sealed.
Reboot ==
  /\ reboots < MaxReboots
  /\ pc' = "stopped" /\ reboots' = reboots + 1
  /\ vault' = [vault EXCEPT !.sealed = TRUE]
  /\ UNCHANGED <<node, pos, item, nodeIP, freshKey, done, files, vaults, secrets, ziti, schmutz, aborts>>

\* The operations of the steps: At(l) is enabled when l comes next and can succeed.
At(l) == pc = l /\ ~Blocked
Then(l) == pc' = l /\ item' = 1 /\ UNCHANGED <<pos, done, outside>>
Advance(list, l) ==
  IF item < Len(list) THEN item' = item + 1 /\ UNCHANGED <<pc, pos, done, outside>> ELSE Then(l)

-----------------------------------------------------------------------------
\* preflight and download.

Preflight ==
  /\ At("preflight")
  /\ nodeIP' = TRUE
  /\ Then("sentinel")
  /\ UNCHANGED <<freshKey, files, services>>

KeepOther == UNCHANGED <<nodeIP, freshKey, pkiDir, certIP, etcPki, initFile, roleFile, services>>

AlreadyDownloaded ==
  /\ At("download") /\ bins[Binary] # "absent"
  /\ Advance(Binaries, "sentinel")
  /\ KeepOther /\ UNCHANGED bins

\* io.Copy's error is not looked at when the file comes out of a zip.
Download(state) ==
  /\ At("download") /\ bins[Binary] = "absent"
  /\ state = "partial" => Binary = "bao"
  /\ state = "absent" => Binary = "schmutz-controller"
  /\ bins' = [bins EXCEPT ![Binary] = state]
  /\ Advance(Binaries, "sentinel")
  /\ KeepOther

\* The copy of an archive member fails, or the installer is killed while it copies.
DownloadCut ==
  /\ At("download") /\ bins[Binary] = "absent" /\ aborts < MaxAborts
  /\ bins' = [bins EXCEPT ![Binary] = "partial"]
  /\ pc' = "stopped" /\ aborts' = aborts + 1
  /\ KeepOther /\ UNCHANGED <<node, pos, item, done, reboots>>

-----------------------------------------------------------------------------
\* pki and pki-from-leader.

PKIGenerate ==
  /\ At("pki")
  /\ pkiDir' = pkiDir + 1 /\ certIP' = nodeIP
  /\ Then("pki-files")
  /\ UNCHANGED <<nodeIP, freshKey, bins, etcPki, initFile, roleFile, services>>

Mutant_PKIFile ==   \* a file that is there is left alone
  /\ At("pki-files")
  /\ etcPki' = [etcPki EXCEPT ![PKIFiles[item]] = IF @ = 0 THEN pkiDir ELSE @]
  /\ Advance(PKIFiles, "sentinel")
  /\ UNCHANGED <<nodeIP, freshKey, bins, pkiDir, certIP, initFile, roleFile, services>>
PKIFile ==
  /\ At("pki-files")
  /\ etcPki' = [etcPki EXCEPT ![PKIFiles[item]] = pkiDir]
  /\ Advance(PKIFiles, "sentinel")
  /\ UNCHANGED <<nodeIP, freshKey, bins, pkiDir, certIP, initFile, roleFile, services>>

PKIFromLeader ==
  /\ At("pki-from-leader")
  /\ Then("sentinel")
  /\ UNCHANGED <<nodeIP, freshKey, files, services>>

\* The operator copies the leader's files; no code does.  Those that the step asks for, and
\* with them or at another time the CA bundle, which it does not name.
OperatorCopiesPKI ==
  /\ Manual /\ JoinMode
  /\ \E copied \in {JoinFiles, JoinFiles \cup {"ca-bundle.pem"}} :
       /\ \E f \in copied : etcPki[f] = 0
       /\ etcPki' = [f \in DOMAIN etcPki |-> IF f \in copied THEN 1 ELSE etcPki[f]]
  /\ UNCHANGED <<process, done, bins, pkiDir, certIP, initFile, roleFile, services, outside>>

-----------------------------------------------------------------------------
\* bao-init and bao-join.

Mutant_BaoWipe ==   \* the data of an earlier attempt stays
  /\ At("bao-init") \/ At("bao-join")
  /\ Then("bao-restart")
  /\ UNCHANGED <<nodeIP, freshKey, files, services>>
BaoWipe ==
  /\ At("bao-init") \/ At("bao-join")
  /\ vault' = [vault EXCEPT !.gen = 0, !.sealed = TRUE, !.joined = FALSE]
  /\ secrets' = NoSecrets
  /\ Then("bao-restart")
  /\ UNCHANGED <<nodeIP, freshKey, files, vaults, ziti, schmutz>>

BaoRestart ==
  /\ At("bao-restart")
  /\ vault' = [vault EXCEPT !.up = TRUE, !.sealed = TRUE]
  /\ Then(IF JoinMode THEN "raft-join" ELSE "bao-setup")
  /\ UNCHANGED <<nodeIP, freshKey, files, vaults, secrets, ziti, schmutz>>

BaoSetup ==
  /\ At("bao-setup")
  /\ IF vault.gen # 0
       THEN freshKey' = 0 /\ Then("bao-save") /\ UNCHANGED <<vault, vaults>>
       ELSE /\ vaults' = vaults + 1 /\ freshKey' = vaults + 1
            /\ vault' = [vault EXCEPT !.gen = vaults + 1]
            /\ Then("bao-unseal")
  /\ UNCHANGED <<nodeIP, files, secrets, ziti, schmutz>>

BaoUnseal ==
  /\ At("bao-unseal")
  /\ vault' = [vault EXCEPT !.sealed = FALSE]
  /\ Then("bao-save")
  /\ UNCHANGED <<nodeIP, freshKey, files, vaults, secrets, ziti, schmutz>>

Mutant_BaoSave ==   \* a credentials file that is there is kept
  /\ At("bao-save")
  /\ initFile' = IF initFile = 0 THEN freshKey ELSE initFile
  /\ Then("sentinel")
  /\ UNCHANGED <<nodeIP, freshKey, bins, pkiDir, certIP, etcPki, roleFile, services>>
BaoSave ==
  /\ At("bao-save")
  /\ initFile' = IF freshKey # 0 THEN freshKey ELSE initFile
  /\ Then("sentinel")
  /\ UNCHANGED <<nodeIP, freshKey, bins, pkiDir, certIP, etcPki, roleFile, services>>

RaftJoin ==
  /\ At("raft-join")
  /\ vault' = [vault EXCEPT !.joined = TRUE]
  /\ Then("sentinel")
  /\ UNCHANGED <<nodeIP, freshKey, files, vaults, secrets, ziti, schmutz>>

-----------------------------------------------------------------------------
\* The steps that use the vault: store-creds and acl.

Mutant_KVPut ==   \* the loop stops one short
  /\ At("store-creds")
  /\ secrets' = [secrets EXCEPT
       !.written = @ \cup {KVPaths[item]},
       !.init = IF KVPaths[item] = "bao/init" THEN BaoRootToken ELSE @]
  /\ Advance(SubSeq(KVPaths, 1, 2), "caddy-token")
  /\ UNCHANGED <<nodeIP, freshKey, files, vault, vaults, ziti, schmutz>>
KVPut ==
  /\ At("store-creds")
  /\ secrets' = [secrets EXCEPT
       !.written = @ \cup {KVPaths[item]},
       !.init = IF KVPaths[item] = "bao/init" THEN BaoRootToken ELSE @,
       !.ca = IF KVPaths[item] = "pki/ca" THEN <<etcPki["ca-bundle.pem"], etcPki["server.crt"]>> ELSE @]
  /\ Advance(KVPaths, "caddy-token")
  /\ UNCHANGED <<nodeIP, freshKey, files, vault, vaults, ziti, schmutz>>

\* Policy, role and token for Caddy's certificate storage.
CaddyToken ==
  /\ At("caddy-token") /\ Usable
  /\ Then("sentinel")
  /\ UNCHANGED <<nodeIP, freshKey, files, services>>

ACLSkipped ==
  /\ At("acl") /\ TestMode
  /\ Then("sentinel")
  /\ UNCHANGED <<nodeIP, freshKey, files, services>>

ACLRole ==
  /\ At("acl") /\ ~TestMode
  /\ roleFile' = vault.gen
  /\ Then("acl-cert")
  /\ UNCHANGED <<nodeIP, freshKey, bins, pkiDir, certIP, etcPki, initFile, services>>

ACLCert ==
  /\ At("acl-cert")
  /\ secrets' = [secrets EXCEPT !.device = etcPki["signing-chain.crt"]]
  /\ Then("sentinel")
  /\ UNCHANGED <<nodeIP, freshKey, files, vault, vaults, ziti, schmutz>>

-----------------------------------------------------------------------------
\* The steps on the Ziti controller and the enrollment service, and verify.

ZitiStart ==
  /\ At("ziti")
  /\ ziti' = [ziti EXCEPT !.up = TRUE]
  /\ Then("sentinel")
  /\ UNCHANGED <<nodeIP, freshKey, files, bao, schmutz>>

\* The admin user is created with the Ziti CLI; no step does.
OperatorCreatesAdmin ==
  /\ Manual /\ ~JoinMode /\ ziti.up /\ ~ziti.admin
  /\ ziti' = [ziti EXCEPT !.admin = TRUE]
  /\ UNCHANGED <<process, done, files, bao, schmutz, outside>>

Schmutz ==
  /\ At("schmutz")
  /\ schmutz' = (schmutz \/ ~SchmutzSkipped)
  /\ Then("sentinel")
  /\ UNCHANGED <<nodeIP, freshKey, files, bao, ziti>>

Identities ==
  /\ At("identities")
  /\ Then("sentinel")
  /\ UNCHANGED <<nodeIP, freshKey, files, services>>

\* In test mode, and whenever the login fails, for whatever reason, the step is left
\* without an error.
FabricSkipped ==
  /\ At("fabric")
  /\ Then("sentinel")
  /\ UNCHANGED <<nodeIP, freshKey, files, services>>

FabricLogin ==
  /\ At("fabric") /\ ~TestMode /\ ziti.up /\ ziti.admin
  /\ Then("fabric-objects")
  /\ UNCHANGED <<nodeIP, freshKey, files, services>>

FabricCreate ==
  /\ At("fabric-objects")
  /\ ziti' = [ziti EXCEPT !.objects = @ \cup {FabricObjects[item]}]
  /\ Advance(FabricObjects, "sentinel")
  /\ UNCHANGED <<nodeIP, freshKey, files, bao, schmutz>>

Verify ==
  /\ At("verify")
  /\ Then("sentinel")
  /\ UNCHANGED <<nodeIP, freshKey, files, services>>

-----------------------------------------------------------------------------
Engine == PassOver \/ Begin \/ Sentinel \/ Finish \/ Fail

Operation ==
  \/ Preflight
  \/ AlreadyDownloaded \/ \E state \in {"whole", "partial", "absent"} : Download(state)
  \/ PKIGenerate \/ PKIFile \/ PKIFromLeader
  \/ BaoWipe \/ BaoRestart \/ BaoSetup \/ BaoUnseal \/ BaoSave \/ RaftJoin
  \/ KVPut \/ CaddyToken \/ ACLSkipped \/ ACLRole \/ ACLCert
  \/ ZitiStart \/ Schmutz \/ Identities
  \/ FabricSkipped \/ FabricLogin \/ FabricCreate
  \/ Verify

Fault == Abort \/ DownloadCut \/ Reboot

Next ==
  \/ Start \/ Engine \/ Operation \/ Fault
  \/ OperatorCopiesPKI \/ OperatorCreatesAdmin

Spec == Init /\ [][Next]_vars

\* The operator runs the command again until it succeeds, and a running installer goes on.
FairSpec == Spec /\ WF_vars(Start) /\ WF_vars(Engine \/ Operation)

-----------------------------------------------------------------------------
Labels == {"stopped", "complete", "loop", "sentinel", "pki-files", "bao-restart", "bao-setup",
           "bao-unseal", "bao-save", "raft-join", "caddy-token", "acl-cert", "fabric-objects"}

EngineOK ==
  /\ node \in Nodes
  /\ pc \in Labels \cup Applies
  /\ pos \in 1..15 /\ item \in 1..9
  /\ done \subseteq Applies
  /\ aborts \in 0..MaxAborts /\ reboots \in 0..MaxReboots

NumbersOK ==
  /\ vaults \in Nat /\ vault.gen \in 0..vaults
  /\ freshKey \in 0..vaults /\ initFile \in 0..vaults /\ roleFile \in 0..vaults

FilesOK ==
  /\ bins \in [{"ziti", "caddy", "bao", "schmutz-controller"} -> {"absent", "partial", "whole"}]
  /\ pkiDir \in Nat /\ etcPki \in [JoinFiles \cup {"ca-bundle.pem"} -> Nat]
  /\ nodeIP \in BOOLEAN /\ certIP \in BOOLEAN

ServicesOK ==
  /\ vault \in [up : BOOLEAN, gen : Nat, sealed : BOOLEAN, joined : BOOLEAN]
  /\ secrets \in [written : SUBSET {"bao/init", "ziti/admin", "pki/ca"}, init : {0},
                  ca : Nat \X Nat, device : Nat]
  /\ ziti \in [up : BOOLEAN, admin : BOOLEAN, objects : SUBSET {FabricObjects[i] : i \in DOMAIN FabricObjects}]
  /\ schmutz \in BOOLEAN

\* The pieces of state have their types; no file and no server refers to a vault that was
\* never initialised.
TypeOK == EngineOK /\ NumbersOK /\ FilesOK /\ ServicesOK

\* Once the sentinels say so, the credentials on disk are those of the vault that runs:
\* bao-init.json after bao-init and schmutz-approle.json after acl, however often the steps
\* before them were interrupted between sys/init and the write of the file.
CredsMatchVault ==
  /\ "bao-init" \in done => vault.gen # 0 /\ initFile = vault.gen
  /\ "acl" \in done /\ ~TestMode => roleFile = vault.gen

\* After pki no file of /etc/kontango/pki is left over from an interrupted generation:
\* server key, server chain, CA bundle and signing chain come from one run of it.
PKIConsistent == "pki" \in done => \A i \in DOMAIN PKIFiles : etcPki[PKIFiles[i]] = pkiDir

\* What the vault holds for the other nodes, and trusts for the devices' certificates, is
\* what is on disk.
Published ==
  /\ "store-creds" \in done =>
       /\ secrets.written = {"bao/init", "ziti/admin", "pki/ca"}
       /\ secrets.ca = <<etcPki["ca-bundle.pem"], etcPki["server.crt"]>>
  /\ "acl" \in done /\ ~TestMode => secrets.device = etcPki["signing-chain.crt"]

\* A vault whose initialisation was recorded is never wiped or initialised again: a second
\* run of the command skips the step that deletes its data.
VaultKept == [][{"bao-init", "bao-join"} \cap done # {} => vault'.gen = vault.gen /\ vault'.joined = vault.joined]_vars

\* The installation is the abstract step list: whatever stops a run, the steps are completed
\* in order, each once, and stay completed.
Steps == INSTANCE StepList WITH List <- StepNames, applicable <- Applies, completed <- done
ImplementsStepList == Steps!Spec

\* The step that a run of the command comes to: the first that applies and is not recorded.
Due(step) == \E i \in DOMAIN StepNames :
  /\ step = StepNames[i] /\ step \in Applies \ done
  /\ \A j \in 1..(i - 1) : StepNames[j] \notin Applies \ done

\* What no repetition of the command gets over.  The step lacks what neither the machine nor
\* the operator nor an earlier step supplies: a program where it is started from, among them
\* one that download has cut short or leaves out in test mode, the leader's files, or the CA
\* bundle that pki-from-leader does not ask for.  A restart has sealed the vault, and no step
\* unseals it.  An interrupted fabric is refused the objects it has already created.  Or
\* verify does not find the node healthy.
Stuck == \E step \in Applies : Due(step) /\
  \/ Lacks(step)
  \/ vault.sealed /\ (step = "store-creds" \/ (step = "acl" /\ ~TestMode))
  \/ step = "fabric" /\ ziti.objects # {}
  \/ step = "verify" /\ ~Healthy

\* If the operator repeats the command, the installation comes to its end or to rest at a step
\* for one of these reasons; nothing that its own interruptions leave behind is another.  In
\* particular a vault initialised just before a crash, whose key was lost, does not stop the
\* next run, and a leader in test mode that has its programs and is not restarted is completed.
Settles == <>(pc = "complete") \/ <>[]Stuck

-----------------------------------------------------------------------------
\* What the documentation and the comments say, and the code does not do.

\* "Write Bao init data (unseal key + root token)": what is stored is the vault's.
CredsStored == "bao/init" \in secrets.written => secrets.init = vault.gen
=============================================================================
