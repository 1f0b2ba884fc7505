------------------------------- MODULE Wizard -------------------------------
(***************************************************************************)
(* The terminal wizard of `kontango enroll` (cmd/kontango/enroll_tui.go)   *)
(* from cmdEnroll's call to its return.                                    *)
(*                                                                         *)
(* The program (bubbletea) handles one message after another: keys, the    *)
(* results of commands that run in goroutines of their own, signals.  A    *)
(* command is in `pending` from the return of the handler that issued it   *)
(* to the handling of its message; quitting is such a command, so that     *)
(* keys and results may be handled between a key that quits and the end.   *)
(*                                                                         *)
(* A text is empty, was given as a flag or was typed, for one of the       *)
(* fields; a URL is a controller with or without its scheme.  What the     *)
(* server does with the request is in Enroll.  The fingerprint and the     *)
(* lines of the stream are only shown; Collect never fails.                *)
(***************************************************************************)
EXTENDS Integers, Sequences, Functions

CONSTANTS
  Controllers,    \* the controllers a URL may name
  Profiles,       \* the profiles that exist
  ProfileLists    \* the lists a controller may answer with

Url    == [at : Controllers, scheme : BOOLEAN]
NoUrl  == [at |-> "nowhere", scheme |-> FALSE]
Urls   == Url \cup {NoUrl}

ASSUME WizardAssumption == "nowhere" \notin Controllers /\ ProfileLists \subseteq Seq(Profiles)

Kinds   == {"session", "role", "secret"}
NoText  == <<"none", "none">>
Flag(k) == <<k, "flag">>
Hand(k) == <<k, "hand">>
Texts   == {NoText} \cup (Kinds \X {"flag", "hand"})

Flags == [url : Urls, session : {NoText, Flag("session")}, role : {NoText, Flag("role")},
          secret : {NoText, Flag("secret")}]

Requests  == [url : Url, session : Texts, role : Texts, secret : Texts, profile : Profiles \cup {""}]
NoRequest == [url |-> NoUrl, session |-> NoText, role |-> NoText, secret |-> NoText, profile |-> ""]

\* The methods in the order of the menu, and the fields each asks for.
Methods  == <<"new", "approle", "invite">>
FieldsOf == [new |-> <<>>, approle |-> <<"role", "secret">>, invite |-> <<"session">>]

VARIABLES
  flags,     \* the arguments of runEnrollTUI
  step,      \* the screen
  url,       \* the text of the URL field
  choice,    \* methodCursor, from 0
  fields,    \* the texts of the credential fields
  focus,     \* the field that has the focus, from 1
  profiles,  \* the controller's list
  cursor,    \* profileCursor, from 0
  offered,   \* showProfiles
  pending,   \* commands whose message is not handled yet
  request,   \* the request runEnrollStream was started with
  err,       \* m.err is set
  result,    \* m.enrollResult is set
  end,       \* open, or what cmdEnroll does next: install, quit or error
  touched    \* history: the operator moved methodCursor or changed a field

menu    == <<url, choice, fields, focus, touched>>
choices == <<profiles, cursor, offered>>
answer  == <<request, err, result>>
vars    == <<flags, step, menu, choices, pending, answer, end>>

Method == Methods[choice + 1]

-----------------------------------------------------------------------------
\* newEnrollModel: a URL given as an argument is not completed, and asked for no more; the
\* method is chosen by the credentials given.
Mutant_Preselected(f) ==   \* the session comes first
  IF f.session # NoText THEN 2 ELSE IF f.role # NoText \/ f.secret # NoText THEN 1 ELSE 0
Preselected(f) ==
  IF f.role # NoText \/ f.secret # NoText THEN 1 ELSE IF f.session # NoText THEN 2 ELSE 0

Init ==
  /\ flags \in Flags
  /\ url = flags.url
  /\ step = IF url = NoUrl THEN "url" ELSE "method"
  /\ choice = Preselected(flags)
  /\ fields = <<>> /\ focus = 1 /\ touched = FALSE
  /\ profiles = <<>> /\ cursor = 0 /\ offered = FALSE
  /\ pending = {}
  /\ request = NoRequest /\ err = FALSE /\ result = FALSE
  /\ end = "open"

At(s) == end = "open" /\ step = s
Issue(c) == pending' = pending \cup {c}
Handle(c) == end = "open" /\ c \in pending /\ pending' = pending \ {c}

-----------------------------------------------------------------------------
\* The keys of each screen.  While the machine is scanned and enrolled, keys do nothing.

TypeURL(u) ==
  /\ At("url") /\ url' = u
  /\ UNCHANGED <<flags, step, choice, fields, focus, touched, choices, pending, answer, end>>

EnterURL ==
  /\ At("url") /\ url # NoUrl
  /\ url' = [url EXCEPT !.scheme = TRUE]
  /\ step' = "method"
  /\ UNCHANGED <<flags, choice, fields, focus, touched, choices, pending, answer, end>>

MoveMethod(c) ==
  /\ At("method") /\ c \in {choice - 1, choice + 1} \cap 0..2
  /\ choice' = c /\ touched' = TRUE
  /\ UNCHANGED <<flags, step, url, fields, focus, choices, pending, answer, end>>

\* enterMethod: the anonymous method has no fields and scans at once.
EnterNew ==
  /\ At("method") /\ Method = "new"
  /\ step' = "scanning" /\ Issue("fingerprint")
  /\ UNCHANGED <<flags, menu, choices, answer, end>>

Mutant_EnterMethod ==   \* fields that are there are kept
  /\ At("method") /\ Method # "new"
  /\ fields' = IF Len(fields) >= Len(FieldsOf[Method]) THEN fields
               ELSE [i \in DOMAIN FieldsOf[Method] |-> flags[FieldsOf[Method][i]]]
  /\ focus' = 1 /\ step' = "creds"
  /\ UNCHANGED <<flags, url, choice, touched, choices, pending, answer, end>>
EnterMethod ==
  /\ At("method") /\ Method # "new"
  /\ fields' = [i \in DOMAIN FieldsOf[Method] |-> flags[FieldsOf[Method][i]]]
  /\ focus' = 1 /\ step' = "creds"
  /\ UNCHANGED <<flags, url, choice, touched, choices, pending, answer, end>>

TypeField(t) ==
  /\ At("creds") /\ t \in {NoText, Hand(FieldsOf[Method][focus])}
  /\ fields' = [fields EXCEPT ![focus] = t] /\ touched' = TRUE
  /\ UNCHANGED <<flags, step, url, choice, focus, choices, pending, answer, end>>

\* Up and down go round; with two fields at most, either key is the other's.
MoveFocus ==
  /\ At("creds")
  /\ focus' = (focus % Len(fields)) + 1
  /\ UNCHANGED <<flags, step, url, choice, fields, touched, choices, pending, answer, end>>

\* Enter goes to the next field, or, empty as they may be, on from the last.
EnterField ==
  /\ At("creds")
  /\ IF focus < Len(fields)
       THEN focus' = focus + 1 /\ UNCHANGED <<step, pending>>
       ELSE step' = "scanning" /\ Issue("fingerprint") /\ UNCHANGED focus
  /\ UNCHANGED <<flags, url, choice, fields, touched, choices, answer, end>>

BackToMethod ==
  /\ At("creds") /\ step' = "method"
  /\ UNCHANGED <<flags, menu, choices, pending, answer, end>>

MoveProfile(c) ==
  /\ At("confirm") /\ offered
  /\ c \in {cursor - 1, cursor + 1} \cap 0..(Len(profiles) - 1)
  /\ cursor' = c
  /\ UNCHANGED <<flags, step, menu, profiles, offered, pending, answer, end>>

\* The text of field k if the method has it.
Field(k) ==
  IF \E i \in DOMAIN FieldsOf[Method] : FieldsOf[Method][i] = k
  THEN fields[CHOOSE i \in DOMAIN FieldsOf[Method] : FieldsOf[Method][i] = k]
  ELSE NoText

\* profiles[profileCursor], which counts from 0.
Chosen == IF offered /\ cursor > 0 THEN profiles[cursor + 1] ELSE ""

StartEnroll ==
  /\ At("confirm")
  /\ step' = "progress" /\ Issue("enroll")
  /\ request' = [url |-> url, session |-> Field("session"), role |-> Field("role"),
                 secret |-> Field("secret"), profile |-> Chosen]
  /\ UNCHANGED <<flags, menu, choices, err, result, end>>

QuitKey ==
  /\ \E s \in {"url", "method", "confirm", "done"} : At(s)
  /\ Issue("quit")
  /\ UNCHANGED <<flags, step, menu, choices, answer, end>>

-----------------------------------------------------------------------------
\* The messages of the commands.

\* fingerprintDoneMsg: the profiles are fetched while the confirm screen is shown.
Fingerprint ==
  /\ end = "open" /\ "fingerprint" \in pending
  /\ pending' = (pending \ {"fingerprint"}) \cup {"profiles"}
  /\ step' = "confirm"
  /\ UNCHANGED <<flags, menu, choices, answer, end>>

\* profileListMsg, on whatever screen: a failure and an empty list are the same.
Mutant_ProfileList(list) ==   \* the confirm screen is shown for the list
  /\ Handle("profiles") /\ (list # <<>> => url.scheme)
  /\ IF list = <<>> THEN UNCHANGED <<profiles, offered>> ELSE profiles' = list /\ offered' = TRUE
  /\ step' = "confirm"
  /\ UNCHANGED <<flags, menu, cursor, answer, end>>
ProfileList(list) ==
  /\ Handle("profiles") /\ (list # <<>> => url.scheme)
  /\ IF list = <<>> THEN UNCHANGED <<profiles, offered>> ELSE profiles' = list /\ offered' = TRUE
  /\ UNCHANGED <<flags, step, menu, cursor, answer, end>>

\* enrollDoneMsg.  Without its scheme the URL cannot be asked.
Granted ==
  /\ Handle("enroll") /\ request.url.scheme
  /\ result' = TRUE /\ step' = "done"
  /\ UNCHANGED <<flags, menu, choices, request, err, end>>

Mutant_Refused ==   \* the error is kept for the end
  /\ Handle("enroll")
  /\ err' = TRUE
  /\ UNCHANGED <<flags, step, menu, choices, request, result, end>>
Refused ==
  /\ Handle("enroll")
  /\ err' = TRUE /\ step' = "done"
  /\ UNCHANGED <<flags, menu, choices, request, result, end>>

\* The program panics, and that is its error: over an identity that could not be parsed and
\* so has no ID to show the first eight bytes of, or over a URL NewRequest does not take.
Panics ==
  /\ Handle("enroll")
  /\ end' = "error"
  /\ UNCHANGED <<flags, step, menu, choices, answer>>

\* The program ends: runEnrollTUI and cmdEnroll look at the model's error, then its result.
Quits ==
  /\ Handle("quit")
  /\ end' = IF err THEN "error" ELSE IF result THEN "install" ELSE "quit"
  /\ UNCHANGED <<flags, step, menu, choices, answer>>

\* SIGTERM quits, SIGINT is an error.
Terminated ==
  /\ end = "open" /\ Issue("quit")
  /\ UNCHANGED <<flags, step, menu, choices, answer, end>>

Interrupted ==
  /\ end = "open" /\ end' = "error"
  /\ UNCHANGED <<flags, step, menu, choices, pending, answer>>

-----------------------------------------------------------------------------
Answered == Granted \/ Refused \/ Panics

Operator ==
  \/ \E u \in Urls : TypeURL(u)
  \/ EnterURL
  \/ \E c \in 0..2 : MoveMethod(c)
  \/ EnterNew \/ EnterMethod
  \/ \E t \in Texts : TypeField(t)
  \/ MoveFocus \/ EnterField \/ BackToMethod
  \/ \E c \in 0..(Len(profiles) - 1) : MoveProfile(c)
  \/ StartEnroll \/ QuitKey \/ Terminated \/ Interrupted

Messages ==
  \/ Fingerprint \/ Answered \/ Quits
  \/ \E list \in ProfileLists \cup {<<>>} : ProfileList(list)

Next == Operator \/ Messages

Spec == Init /\ [][Next]_vars

\* The scan ends, the stream ends or is cut after two minutes, and the program handles
\* every message.  The operator may do nothing.
FairSpec == Spec /\ WF_vars(Fingerprint) /\ WF_vars(Answered) /\ WF_vars(Quits)

-----------------------------------------------------------------------------
MenuOK ==
  /\ flags \in Flags /\ url \in Urls
  /\ choice \in 0..2 /\ fields \in Seq(Texts) /\ focus \in 1..2 /\ touched \in BOOLEAN

ScreenOK ==
  /\ step \in {"url", "method", "creds", "scanning", "confirm", "progress", "done"}
  /\ pending \subseteq {"fingerprint", "profiles", "enroll", "quit"}
  /\ end \in {"open", "install", "quit", "error"}

\* The credential fields are those of the method from the moment they are shown: whoever
\* moves the cursor afterwards comes past enterMethod again.
FieldsFit ==
  /\ step = "creds" => Method # "new"
  /\ step \in {"creds", "scanning", "confirm", "progress", "done"} /\ Method # "new" =>
       Len(fields) = Len(FieldsOf[Method]) /\ focus <= Len(fields)

CursorFits ==
  /\ profiles \in Seq(Profiles) /\ offered \in BOOLEAN /\ (~offered => profiles = <<>>)
  /\ cursor \in Nat /\ (cursor = 0 \/ cursor < Len(profiles))

AnswerOK == request \in Requests \cup {NoRequest} /\ err \in BOOLEAN /\ result \in BOOLEAN

\* Every variable has its type, and the two cursors stay within the fields and the profiles.
TypeOK == MenuOK /\ ScreenOK /\ FieldsFit /\ CursorFits /\ AnswerOK

\* The request has no text but of the field it was typed into or the flag it was given as,
\* for one method, whatever was entered for another on the way; flags are sent, those of a
\* role before a session, unless the operator changed something; the URL is the one given,
\* and the profile one of the list.
RequestFits ==
  request # NoRequest =>
    /\ \A k \in Kinds : request[k] \in {NoText, flags[k], Hand(k)}
    /\ request.session = NoText \/ (request.role = NoText /\ request.secret = NoText)
    /\ ~touched => request.role = flags.role /\ request.secret = flags.secret
    /\ ~touched /\ flags.role = NoText /\ flags.secret = NoText => request.session = flags.session
    /\ request.url # NoUrl /\ (flags.url # NoUrl => request.url = flags.url)
    /\ request.profile \in {""} \cup Range(profiles)

\* The server has spoken once its answer is in the model.
Verdict == IF err THEN "refused" ELSE IF result THEN "granted" ELSE "none"

D == INSTANCE Dialogue WITH asked <- request, verdict <- Verdict

\* The wizard implements the dialogue, although keys, results and the end of the program
\* come in any order: it asks once, and cmdEnroll installs if and only if it was granted.
ImplementsDialogue == D!Spec

\* The operator is not left on a screen that takes no keys, and who quits gets out.
OperatorServed ==
  /\ step \in {"scanning", "progress"} ~> step \in {"confirm", "done"} \/ end # "open"
  /\ "quit" \in pending ~> end # "open"

\* enroll_tui.go:443: "If the chosen profile is not index 0 (which is "none"), include it."
\* The entry the confirm screen marks, "none" being the first, is the one sent.
Marked == IF offered /\ cursor > 0 THEN profiles[cursor] ELSE ""
ShownIsSent == request # NoRequest => request.profile = Marked
=============================================================================
