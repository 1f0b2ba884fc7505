--------------------------- MODULE Wizard_proofs ---------------------------
(***************************************************************************)
(* Proofs about the enrollment wizard, for all controllers and lists: its  *)
(* types and cursors, what its request consists of, and that it implements *)
(* the dialogue.                                                           *)
(***************************************************************************)
EXTENDS Wizard, SequenceTheorems, TLAPS

\* The menu's entries and their fields.
LEMMA Menu ==
  /\ FieldsOf["approle"] = <<"role", "secret">> /\ FieldsOf["invite"] = <<"session">> /\ FieldsOf["new"] = <<>>
  /\ \A c \in 0..2 : Methods[c + 1] \in {"new", "approle", "invite"}
BY DEF FieldsOf, Methods

\* Which commands may be outstanding on which screen, and what the model has of answers.
Phase ==
  /\ step \in {"url", "method", "creds"} => pending \subseteq {"quit"}
  /\ step = "scanning" => pending \subseteq {"fingerprint", "quit"}
  /\ "fingerprint" \in pending => step = "scanning"
  /\ "enroll" \in pending => step = "progress"
  /\ step \in {"url", "method", "creds", "scanning"} => ~offered
  /\ "profiles" \in pending => ~offered
  /\ request = NoRequest <=> step \notin {"progress", "done"}
  /\ err \/ result => step = "done"
  /\ ~(err /\ result)

\* The steps of the program as groups of actions: those that only move through the menu, the
\* others one by one.
MenuMove ==
  \/ \E u \in Urls : TypeURL(u)
  \/ EnterURL
  \/ \E c \in 0..2 : MoveMethod(c)
  \/ EnterMethod
  \/ \E t \in Texts : TypeField(t)
  \/ MoveFocus \/ BackToMethod

\* What such a step leaves alone, and the screens between which it moves.
LEMMA MenuMoves ==
  ASSUME MenuMove
  PROVE  /\ UNCHANGED <<flags, choices, pending, answer, end>>
         /\ step \in {"url", "method", "creds"} /\ step' \in {"url", "method", "creds"}
         /\ end = "open"
BY DEF MenuMove, TypeURL, EnterURL, MoveMethod, EnterMethod, TypeField, MoveFocus, BackToMethod, At

\* Every step is one of these.
LEMMA StepCases ==
  ASSUME [Next]_vars
  PROVE  \/ MenuMove \/ EnterNew \/ EnterField
         \/ (\E c \in 0..(Len(profiles) - 1) : MoveProfile(c))
         \/ StartEnroll \/ QuitKey \/ Terminated \/ Interrupted
         \/ Fingerprint \/ Granted \/ Refused \/ Panics \/ Quits
         \/ (\E list \in ProfileLists \cup {<<>>} : ProfileList(list))
         \/ UNCHANGED vars
BY DEF Next, Operator, Messages, Answered, MenuMove

\* The phase holds at the start.
LEMMA PhaseInit == Init => Phase
BY DEF Init, Phase

\* A request has a URL, so it is not the one that stands for none.
LEMMA RealRequest ==
  ASSUME NEW r \in Requests
  PROVE  r # NoRequest
<1>1. r.url \in Url
  BY DEF Requests
<1>2. NoUrl \notin Url
  <2>1. \A u \in Url : u.at \in Controllers
    BY DEF Url
  <2>2. NoUrl.at = "nowhere"
    BY DEF NoUrl
  <2> QED BY <2>1, <2>2, WizardAssumption
<1>3. NoRequest.url = NoUrl
  BY DEF NoRequest
<1> QED BY <1>1, <1>2, <1>3

\* What has been entered: a URL once its screen is left, the given one if there is one, and
\* texts that belong to the fields they are in.
Entered ==
  /\ step # "url" => url # NoUrl
  /\ flags.url # NoUrl => url = flags.url /\ step # "url"
  /\ ~touched => choice = Preselected(flags)
  /\ step \in {"creds", "scanning", "confirm", "progress", "done"} /\ Method # "new" =>
       \A i \in DOMAIN FieldsOf[Method] :
         /\ fields[i] \in {NoText, flags[FieldsOf[Method][i]], Hand(FieldsOf[Method][i])}
         /\ ~touched => fields[i] = flags[FieldsOf[Method][i]]

-----------------------------------------------------------------------------
\* Types.

\* A method with fields has one or two.
LEMMA FieldCount ==
  ASSUME Method \in {"approle", "invite"}
  PROVE  Len(FieldsOf[Method]) \in 1..2
<1>1. Len(FieldsOf["approle"]) = 2
  BY DEF FieldsOf
<1>2. Len(FieldsOf["invite"]) = 1
  BY DEF FieldsOf
<1> QED BY <1>1, <1>2

\* The focus goes round, or on, within two fields.
LEMMA FocusMoves ==
  ASSUME focus \in 1..2, Len(fields) \in 1..2, MoveFocus \/ EnterField
  PROVE  focus' \in 1..2
<1>1. \A f, l \in 1..2 : (f % l) + 1 \in 1..2 /\ (f < l => f + 1 \in 1..2)
  OBVIOUS
<1>2. CASE focus' = (focus % Len(fields)) + 1
  <2>1. (focus % Len(fields)) + 1 \in 1..2
    BY <1>1
  <2> QED BY <1>2, <2>1, Zenon
<1>3. CASE focus' = focus + 1 /\ focus < Len(fields)
  <2>1. focus + 1 \in 1..2
    BY <1>1, <1>3
  <2> QED BY <1>3, <2>1, Zenon
<1>4. CASE focus' = focus
  BY <1>4
<1> QED
  BY <1>2, <1>3, <1>4 DEF MoveFocus, EnterField

\* Every step keeps the types, given the phase.
LEMMA MenuTyped ==
  ASSUME TypeOK, Phase, Entered, [Next]_vars
  PROVE  MenuOK'
<1> USE DEF TypeOK, MenuOK
<1>1. CASE UNCHANGED <<flags, menu>>
  BY <1>1 DEF menu
<1>2. ASSUME NEW u \in Urls, TypeURL(u) PROVE MenuOK'
  BY <1>2 DEF TypeURL
<1>3. CASE EnterURL
  <2>1. url \in Url
    BY <1>3 DEF EnterURL, Urls
  <2>2. [url EXCEPT !.scheme = TRUE] \in Url
    BY <2>1 DEF Url
  <2> QED BY <1>3, <2>2 DEF EnterURL, Urls
<1>4. ASSUME NEW c \in 0..2, MoveMethod(c) PROVE MenuOK'
  BY <1>4 DEF MoveMethod
<1>5. CASE EnterMethod
  <2>1. Method \in {"approle", "invite"}
    BY <1>5, Menu DEF EnterMethod, Method
  <2>2. \A k \in Kinds : flags[k] \in Texts
    BY DEF Kinds, Flags, Texts, Flag, NoText
  <2>3. CASE Method = "approle"
    <3>1. fields' = [i \in 1..2 |-> IF i = 1 THEN flags["role"] ELSE flags["secret"]]
      BY <1>5, <2>3, Menu DEF EnterMethod
    <3> QED BY <1>5, <2>2, <3>1 DEF EnterMethod, Kinds
  <2>4. CASE Method = "invite"
    <3>1. fields' = [i \in 1..1 |-> flags["session"]]
      BY <1>5, <2>4, Menu DEF EnterMethod
    <3> QED BY <1>5, <2>2, <3>1 DEF EnterMethod, Kinds
  <2> QED BY <2>1, <2>3, <2>4
<1>6. ASSUME step = "creds" PROVE Len(fields) \in 1..2 /\ focus \in 1..Len(fields)
  <2>1. Method \in {"approle", "invite"}
    BY <1>6, Menu DEF Method, FieldsFit
  <2>2. Len(fields) = Len(FieldsOf[Method]) /\ focus <= Len(fields)
    BY <1>6 DEF FieldsFit
  <2>3. Len(FieldsOf[Method]) \in 1..2
    BY <2>1, FieldCount
  <2>4. focus \in 1..2
    BY DEF TypeOK, MenuOK
  <2> QED BY <2>2, <2>3, <2>4
<1>7. ASSUME NEW t \in Texts, TypeField(t) PROVE MenuOK'
  <2>1. [fields EXCEPT ![focus] = t] \in Seq(Texts)
    BY <1>6, <1>7, ExceptSeq DEF TypeField, At
  <2> QED BY <1>7, <2>1 DEF TypeField
<1>8. CASE MoveFocus
  BY <1>6, <1>8, FocusMoves DEF MoveFocus, At
<1>9. CASE EnterField
  <2>1. focus' \in 1..2
    BY <1>6, <1>9, FocusMoves DEF EnterField, At
  <2>2. UNCHANGED <<flags, url, choice, fields, touched>>
    BY <1>9 DEF EnterField
  <2> QED BY <2>1, <2>2
<1> QED
  BY StepCases, <1>1, <1>2, <1>3, <1>4, <1>5, <1>7, <1>8, <1>9
     DEF MenuMove, BackToMethod, EnterNew, MoveProfile, StartEnroll, QuitKey, Terminated, Interrupted,
         Fingerprint, Granted, Refused, Panics, Quits, ProfileList, Handle, menu, vars, choices

\* The steps that are not about the menu.
OtherMove ==
  \/ \E c \in 0..(Len(profiles) - 1) : MoveProfile(c)
  \/ StartEnroll \/ QuitKey \/ Terminated \/ Interrupted
  \/ Fingerprint \/ Granted \/ Refused \/ Panics \/ Quits
  \/ \E list \in ProfileLists \cup {<<>>} : ProfileList(list)
  \/ UNCHANGED vars

\* They leave the menu alone, and the screens are left in their order.
LEMMA OtherMoves ==
  ASSUME Phase, OtherMove
  PROVE  /\ UNCHANGED <<flags, url, choice, fields, focus, touched>>
         /\ \/ step' = step
            \/ step = "scanning" /\ step' = "confirm"
            \/ step = "confirm" /\ step' = "progress"
            \/ step = "progress" /\ step' = "done"
BY DEF OtherMove, MoveProfile, StartEnroll, QuitKey, Terminated, Interrupted, Fingerprint, Granted,
       Refused, Panics, Quits, ProfileList, Handle, At, Phase, menu, vars

\* Every step keeps the fields fitting.
LEMMA FieldsKeptFitting ==
  ASSUME TypeOK, Phase, [Next]_vars
  PROVE  FieldsFit'
<1> DEFINE late == {"creds", "scanning", "confirm", "progress", "done"}
<1>1. CASE OtherMove
  <2>1. step' = "creds" => step = "creds"
    BY <1>1, OtherMoves
  <2>2. step' \in late => step \in late
    BY <1>1, OtherMoves
  <2> QED BY <1>1, <2>1, <2>2, OtherMoves DEF TypeOK, FieldsFit, Method
<1>2. CASE EnterNew
  BY <1>2 DEF EnterNew, FieldsFit, Method, menu
<1>3. CASE EnterMethod
  <2>1. Method \in {"approle", "invite"} /\ Method' = Method /\ focus' = 1
    BY <1>3, Menu DEF EnterMethod, Method, TypeOK, MenuOK
  <2>2. CASE Method = "approle"
    <3>1. fields' = [i \in 1..2 |-> flags[FieldsOf[Method][i]]]
      BY <1>3, <2>2, Menu DEF EnterMethod
    <3>2. Len(fields') = 2 /\ Len(FieldsOf["approle"]) = 2
      BY <3>1 DEF FieldsOf
    <3> QED BY <2>1, <2>2, <3>2 DEF FieldsFit
  <2>3. CASE Method = "invite"
    <3>1. fields' = [i \in 1..1 |-> flags[FieldsOf[Method][i]]]
      BY <1>3, <2>3, Menu DEF EnterMethod
    <3>2. Len(fields') = 1 /\ Len(FieldsOf["invite"]) = 1
      BY <3>1 DEF FieldsOf
    <3> QED BY <2>1, <2>3, <3>2 DEF FieldsFit
  <2> QED BY <2>1, <2>2, <2>3
<1>4. ASSUME step = "creds" PROVE Len(fields) \in 1..2 /\ focus \in 1..Len(fields) /\ Method # "new"
  <2>1. Method \in {"approle", "invite"}
    BY <1>4, Menu DEF TypeOK, MenuOK, Method, FieldsFit
  <2>2. Len(fields) = Len(FieldsOf[Method]) /\ focus <= Len(fields)
    BY <1>4, <2>1 DEF TypeOK, FieldsFit
  <2>3. Len(FieldsOf[Method]) \in 1..2
    BY <2>1, FieldCount
  <2>4. focus \in 1..2
    BY DEF TypeOK, MenuOK
  <2> QED BY <2>1, <2>2, <2>3, <2>4
<1>5. ASSUME NEW t \in Texts, TypeField(t) PROVE FieldsFit'
  <2>1. Len([fields EXCEPT ![focus] = t]) = Len(fields)
    BY <1>4, <1>5, ExceptSeq DEF TypeField, At, TypeOK, MenuOK
  <2> QED BY <1>5, <2>1 DEF TypeField, At, TypeOK, FieldsFit, Method
<1>6. CASE MoveFocus \/ EnterField
  <2>1. step = "creds" /\ fields' = fields /\ choice' = choice
    BY <1>6 DEF MoveFocus, EnterField, At
  <2>2. Len(fields) \in 1..2 /\ focus \in 1..Len(fields)
    BY <1>4, <2>1
  <2>3. focus' <= Len(fields)
    <3>1. \A l \in 1..2 : \A f \in 1..l : (f % l) + 1 <= l /\ f <= l /\ (f < l => f + 1 <= l)
      OBVIOUS
    <3>2. focus' = (focus % Len(fields)) + 1 \/ focus' = focus \/ (focus' = focus + 1 /\ focus < Len(fields))
      BY <1>6 DEF MoveFocus, EnterField
    <3>3. (focus % Len(fields)) + 1 <= Len(fields) /\ focus <= Len(fields)
          /\ (focus < Len(fields) => focus + 1 <= Len(fields))
      BY <2>2, <3>1
    <3> QED BY <3>2, <3>3, Zenon
  <2> QED BY <2>1, <2>3 DEF TypeOK, FieldsFit, Method
<1>7. CASE step' \in {"url", "method"}
  BY <1>7 DEF FieldsFit
<1> QED
  BY StepCases, <1>1, <1>2, <1>3, <1>5, <1>6, <1>7
     DEF MenuMove, OtherMove, TypeURL, EnterURL, MoveMethod, BackToMethod, At

\* Every step keeps the screens, commands and ends.
LEMMA ScreenTyped ==
  ASSUME TypeOK, [Next]_vars
  PROVE  ScreenOK'
<1> USE DEF TypeOK, ScreenOK
<1>1. CASE MenuMove
  BY <1>1, MenuMoves
<1>2. CASE UNCHANGED <<step, pending, end>>
  BY <1>2
<1>3. CASE EnterNew \/ EnterField \/ StartEnroll \/ QuitKey \/ Terminated \/ Interrupted
  BY <1>3 DEF EnterNew, EnterField, StartEnroll, QuitKey, Terminated, Interrupted, Issue
<1>4. CASE Fingerprint \/ Granted \/ Refused \/ Panics \/ Quits
  BY <1>4 DEF Fingerprint, Granted, Refused, Panics, Quits, Handle
<1> QED
  BY StepCases, <1>1, <1>2, <1>3, <1>4 DEF MoveProfile, ProfileList, Handle, vars

\* Every step keeps the cursor within the profiles; a list comes only while there is none.
LEMMA CursorKeptFitting ==
  ASSUME TypeOK, Phase, [Next]_vars
  PROVE  CursorFits'
<1>1. CASE UNCHANGED choices
  BY <1>1 DEF choices, TypeOK, CursorFits
<1>2. ASSUME NEW c \in 0..(Len(profiles) - 1), MoveProfile(c) PROVE CursorFits'
  BY <1>2 DEF MoveProfile, TypeOK, CursorFits
<1>3. ASSUME NEW list \in ProfileLists \cup {<<>>}, ProfileList(list) PROVE CursorFits'
  <2>1. ~offered /\ cursor' = cursor /\ cursor = 0 /\ profiles \in Seq(Profiles)
    BY <1>3 DEF ProfileList, Handle, Phase, TypeOK, CursorFits
  <2>2. CASE list = <<>>
    BY <1>3, <2>1, <2>2 DEF ProfileList, TypeOK, CursorFits
  <2>3. CASE list # <<>>
    <3>1. profiles' = list /\ offered' = TRUE
      BY <1>3, <2>3 DEF ProfileList
    <3>2. list \in Seq(Profiles) /\ list # <<>>
      BY <2>3, WizardAssumption
    <3> QED BY <2>1, <3>1, <3>2 DEF CursorFits
  <2> QED BY <2>2, <2>3
<1> QED
  BY StepCases, MenuMoves, <1>1, <1>2, <1>3
     DEF EnterNew, EnterField, StartEnroll, QuitKey, Terminated, Interrupted,
         Fingerprint, Granted, Refused, Panics, Quits, vars

\* The texts of a request are texts.
LEMMA FieldTyped ==
  ASSUME TypeOK, step = "confirm", NEW k \in Kinds
  PROVE  Field(k) \in Texts
<1>1. Method \in {"new", "approle", "invite"}
  BY Menu DEF TypeOK, MenuOK, Method
<1>2. NoText \in Texts
  BY DEF Texts
<1>3. ASSUME NEW i \in 1..Len(fields) PROVE fields[i] \in Texts
  BY DEF TypeOK, MenuOK
<1>4. CASE Method = "approle"
  <2>1. Len(fields) = 2
    <3>1. Len(FieldsOf["approle"]) = 2
      BY DEF FieldsOf
    <3> QED BY <1>4, <3>1 DEF TypeOK, FieldsFit
  <2>2. DOMAIN FieldsOf[Method] = 1..2
    BY <1>4 DEF FieldsOf
  <2> QED BY <1>2, <1>3, <2>1, <2>2 DEF Field
<1>5. CASE Method = "invite"
  <2>1. Len(fields) = 1
    <3>1. Len(FieldsOf["invite"]) = 1
      BY DEF FieldsOf
    <3> QED BY <1>5, <3>1 DEF TypeOK, FieldsFit
  <2>2. DOMAIN FieldsOf[Method] = 1..1
    BY <1>5 DEF FieldsOf
  <2> QED BY <1>2, <1>3, <2>1, <2>2 DEF Field
<1>6. CASE Method = "new"
  <2>1. DOMAIN FieldsOf[Method] = {}
    BY <1>6 DEF FieldsOf
  <2> QED BY <1>2, <2>1 DEF Field
<1> QED BY <1>1, <1>4, <1>5, <1>6

\* A request is one.
LEMMA RequestTyped ==
  ASSUME TypeOK, Entered, StartEnroll
  PROVE  request' \in Requests
<1>1. step = "confirm"
  BY DEF StartEnroll, At
<1>2. url \in Url
  BY <1>1 DEF Entered, TypeOK, MenuOK, Urls
<1>3. Field("session") \in Texts /\ Field("role") \in Texts /\ Field("secret") \in Texts
  BY <1>1, FieldTyped DEF Kinds
<1>4. Chosen \in Profiles \cup {""}
  <2>1. CASE offered /\ cursor > 0
    <3>1. cursor + 1 \in 1..Len(profiles) /\ profiles \in Seq(Profiles)
      BY <2>1 DEF TypeOK, CursorFits
    <3>2. profiles[cursor + 1] \in Profiles
      BY <3>1
    <3> QED BY <2>1, <3>2 DEF Chosen
  <2>2. CASE ~(offered /\ cursor > 0)
    <3>1. Chosen = ""
      BY <2>2 DEF Chosen
    <3> QED BY <3>1
  <2> QED BY <2>1, <2>2
<1> QED BY <1>2, <1>3, <1>4 DEF StartEnroll, Requests

\* Every step keeps the answer's types.
LEMMA AnswerTyped ==
  ASSUME TypeOK, Entered, [Next]_vars
  PROVE  AnswerOK'
<1>1. CASE UNCHANGED answer
  BY <1>1 DEF answer, TypeOK, AnswerOK
<1>2. CASE StartEnroll
  BY <1>2, RequestTyped DEF StartEnroll, TypeOK, AnswerOK
<1>3. CASE Granted \/ Refused
  BY <1>3 DEF Granted, Refused, TypeOK, AnswerOK
<1> QED
  BY StepCases, MenuMoves, <1>1, <1>2, <1>3
     DEF EnterNew, EnterField, MoveProfile, QuitKey, Terminated, Interrupted,
         Fingerprint, Panics, Quits, ProfileList, vars

\* Every step keeps the phase.
LEMMA PhaseStep ==
  ASSUME TypeOK, Phase, Entered, [Next]_vars
  PROVE  Phase'
<1> USE DEF Phase
<1>1. CASE MenuMove
  BY <1>1, MenuMoves DEF choices, answer
<1>2. CASE EnterNew \/ EnterField
  BY <1>2 DEF EnterNew, EnterField, At, Issue, choices, answer
<1>3. CASE StartEnroll
  <2>1. request' # NoRequest
    BY <1>3, RequestTyped, RealRequest
  <2> QED BY <1>3, <2>1 DEF StartEnroll, At, Issue, choices
<1>4. CASE QuitKey \/ Terminated
  BY <1>4 DEF QuitKey, Terminated, Issue, choices, answer
<1>5. CASE Interrupted \/ Panics \/ Quits
  BY <1>5 DEF Interrupted, Panics, Quits, Handle, choices, answer
<1>6. CASE Fingerprint
  BY <1>6 DEF Fingerprint, choices, answer
<1>7. CASE Granted \/ Refused
  BY <1>7 DEF Granted, Refused, Handle, choices
<1>8. ASSUME NEW list \in ProfileLists \cup {<<>>}, ProfileList(list) PROVE Phase'
  BY <1>8 DEF ProfileList, Handle, answer
<1>9. ASSUME NEW c \in 0..(Len(profiles) - 1), MoveProfile(c) PROVE Phase'
  BY <1>9 DEF MoveProfile, answer
<1>10. CASE UNCHANGED vars
  BY <1>10 DEF vars, choices, answer
<1> QED
  BY StepCases, <1>1, <1>2, <1>3, <1>4, <1>5, <1>6, <1>7, <1>8, <1>9, <1>10

\* Types and phase hold at the start, and nothing has been entered but what was given.
LEMMA WizardInit == Init => TypeOK /\ Phase /\ Entered
<1> SUFFICES ASSUME Init PROVE TypeOK /\ Phase /\ Entered
  OBVIOUS
<1>1. MenuOK
  <2>1. flags.url \in Urls
    BY DEF Init, Flags
  <2>2. choice \in 0..2
    BY DEF Init, Preselected
  <2>3. fields \in Seq(Texts) /\ focus \in 1..2
    BY DEF Init
  <2> QED BY <2>1, <2>2, <2>3 DEF Init, MenuOK
<1>2. step \in {"url", "method"} /\ (step # "url" => url # NoUrl) /\ (flags.url # NoUrl => step # "url")
  BY DEF Init
<1>3. ScreenOK /\ CursorFits /\ AnswerOK
  <2>1. profiles \in Seq(Profiles) /\ cursor \in Nat /\ cursor = 0
    BY DEF Init
  <2>2. CursorFits
    BY <2>1 DEF Init, CursorFits
  <2>3. ScreenOK
    BY <1>2 DEF Init, ScreenOK
  <2>4. AnswerOK
    BY DEF Init, AnswerOK
  <2> QED BY <2>2, <2>3, <2>4
<1>4. FieldsFit
  BY <1>2 DEF FieldsFit
<1>5. Entered
  BY <1>2 DEF Init, Entered
<1> QED BY <1>1, <1>3, <1>4, <1>5, PhaseInit DEF TypeOK

-----------------------------------------------------------------------------
\* What has been entered.

\* Every step keeps it.
LEMMA EnteredStep ==
  ASSUME TypeOK, Phase, Entered, [Next]_vars
  PROVE  Entered'
<1> DEFINE fit == \A i \in DOMAIN FieldsOf[Method] :
                    /\ fields[i] \in {NoText, flags[FieldsOf[Method][i]], Hand(FieldsOf[Method][i])}
                    /\ ~touched => fields[i] = flags[FieldsOf[Method][i]]
           late == {"creds", "scanning", "confirm", "progress", "done"}
<1>1. CASE OtherMove
  <2>1. UNCHANGED <<flags, url, choice, fields, touched>> /\ (step' = "url" <=> step = "url")
        /\ (step' \in late => step \in late)
    BY <1>1, OtherMoves
  <2> QED BY <2>1 DEF Entered, Method
<1>2. CASE EnterNew \/ EnterField
  BY <1>2 DEF EnterNew, EnterField, At, Entered, Method, menu
<1>3. ASSUME NEW u \in Urls, TypeURL(u) PROVE Entered'
  BY <1>3 DEF TypeURL, At, Entered
<1>4. CASE EnterURL
  <2>1. flags.url = NoUrl /\ url \in Url /\ step' = "method" /\ flags' = flags
    BY <1>4 DEF EnterURL, At, Entered, TypeOK, MenuOK, Urls
  <2>2. [url EXCEPT !.scheme = TRUE] \in Url
    BY <2>1 DEF Url
  <2>3. url' # NoUrl
    <3>1. NoUrl \notin Url
      <4>1. \A u \in Url : u.at \in Controllers
        BY DEF Url
      <4>2. NoUrl.at = "nowhere"
        BY DEF NoUrl
      <4> QED BY <4>1, <4>2, WizardAssumption
    <3> QED BY <1>4, <2>2, <3>1 DEF EnterURL
  <2> QED BY <1>4, <2>1, <2>3 DEF EnterURL, Entered
<1>5. ASSUME NEW c \in 0..2, MoveMethod(c) PROVE Entered'
  BY <1>5 DEF MoveMethod, At, Entered
<1>6. CASE EnterMethod
  <2>1. fields' = [i \in DOMAIN FieldsOf[Method] |-> flags[FieldsOf[Method][i]]] /\ Method' = Method
    BY <1>6 DEF EnterMethod, Method
  <2>2. \A i \in DOMAIN FieldsOf[Method] : fields'[i] = flags[FieldsOf[Method][i]]
    BY <2>1
  <2>3. UNCHANGED <<flags, url, choice, touched>> /\ step = "method" /\ step' = "creds"
    BY <1>6 DEF EnterMethod, At
  <2> QED BY <2>1, <2>2, <2>3 DEF Entered
<1>7. ASSUME NEW t \in Texts, TypeField(t) PROVE Entered'
  <2>1. step = "creds" /\ step' = "creds" /\ UNCHANGED <<flags, url, choice>> /\ touched' = TRUE
        /\ t \in {NoText, Hand(FieldsOf[Method][focus])} /\ Method' = Method
        /\ fields' = [fields EXCEPT ![focus] = t]
    BY <1>7 DEF TypeField, At, Method
  <2>2. Method # "new" /\ Len(fields) = Len(FieldsOf[Method])
    BY <2>1 DEF TypeOK, FieldsFit
  <2>3. Method \in {"approle", "invite"}
    BY <2>2, Menu DEF TypeOK, MenuOK, Method
  <2>4. DOMAIN FieldsOf[Method] = 1..Len(FieldsOf[Method])
    BY <2>3 DEF FieldsOf
  <2>5. fields \in Seq(Texts)
    BY DEF TypeOK, MenuOK
  <2>6. DOMAIN fields = DOMAIN FieldsOf[Method]
    BY <2>2, <2>4, <2>5
  <2>7. \A i \in DOMAIN FieldsOf[Method] : fields'[i] = IF i = focus THEN t ELSE fields[i]
    BY <2>1, <2>6
  <2>8. \A i \in DOMAIN FieldsOf[Method] : fields[i] \in {NoText, flags[FieldsOf[Method][i]], Hand(FieldsOf[Method][i])}
    BY <2>1, <2>2 DEF Entered
  <2>9. \A i \in DOMAIN FieldsOf[Method] : fields'[i] \in {NoText, flags[FieldsOf[Method][i]], Hand(FieldsOf[Method][i])}
    BY <2>1, <2>7, <2>8
  <2> QED BY <2>1, <2>9 DEF Entered
<1>8. CASE MoveFocus \/ BackToMethod
  BY <1>8 DEF MoveFocus, BackToMethod, At, Entered, Method, menu
<1> QED
  BY StepCases, <1>1, <1>2, <1>3, <1>4, <1>5, <1>6, <1>7, <1>8 DEF MenuMove, OtherMove

-----------------------------------------------------------------------------
\* The invariant: types, phase and what has been entered, each of which needs the others.
WizardInv == TypeOK /\ Phase /\ Entered

LEMMA WizardStep == WizardInv /\ [Next]_vars => WizardInv'
BY MenuTyped, ScreenTyped, FieldsKeptFitting, CursorKeptFitting, AnswerTyped, PhaseStep, EnteredStep
   DEF WizardInv, TypeOK

\* TypeOK is an invariant: whatever keys and messages come, both cursors stay in range.
THEOREM TypeCorrect == Spec => []TypeOK
<1>1. Init => WizardInv
  BY WizardInit DEF WizardInv
<1>2. WizardInv => TypeOK
  BY DEF WizardInv
<1> QED BY <1>1, <1>2, WizardStep, PTL DEF Spec

-----------------------------------------------------------------------------
\* The request.

\* Every step of the wizard is one of the dialogue, or none of its business.
THEOREM DialogueImplemented == Spec => ImplementsDialogue
<1>1. Init => D!Init
  BY DEF Init, D!Init, Verdict
<1>2. ASSUME WizardInv, [Next]_vars PROVE D!Next \/ UNCHANGED D!vars
  <2> USE DEF Verdict, D!vars
  <2>1. CASE UNCHANGED <<answer, end>>
    BY <2>1 DEF answer
  <2>2. CASE StartEnroll
    <3>1. request = NoRequest /\ request' \in Requests
      BY <1>2, <2>2, RequestTyped DEF WizardInv, Phase, StartEnroll, At
    <3> QED BY <2>2, <3>1 DEF StartEnroll, At, D!Next, D!Ask
  <2>3. CASE Granted \/ Refused
    <3>1. step = "progress" /\ request # NoRequest /\ ~err /\ ~result
      BY <1>2, <2>3 DEF Granted, Refused, Handle, WizardInv, Phase
    <3> QED BY <2>3, <3>1 DEF Granted, Refused, Handle, D!Next, D!Answer
  <2>4. CASE Panics \/ Interrupted
    BY <2>4 DEF Panics, Interrupted, Handle, answer, D!Next, D!Fail
  <2>5. CASE Quits
    BY <2>5 DEF Quits, Handle, answer, D!Next, D!Fail, D!Install, D!Quit
  <2> QED
    BY <1>2, StepCases, MenuMoves, <2>1, <2>2, <2>3, <2>4, <2>5
       DEF EnterNew, EnterField, MoveProfile, QuitKey, Terminated, Fingerprint, ProfileList, vars, answer
<1>3. Init => WizardInv
  BY WizardInit DEF WizardInv
<1> QED BY <1>1, <1>2, <1>3, WizardStep, PTL DEF Spec, ImplementsDialogue, D!Spec

\* What the request takes from the fields, method by method.
LEMMA FieldValues ==
  /\ Method = "new" => Field("session") = NoText /\ Field("role") = NoText /\ Field("secret") = NoText
  /\ Method = "approle" => Field("session") = NoText /\ Field("role") = fields[1] /\ Field("secret") = fields[2]
  /\ Method = "invite" => Field("session") = fields[1] /\ Field("role") = NoText /\ Field("secret") = NoText
<1>1. CASE Method = "new"
  <2>1. DOMAIN FieldsOf[Method] = {}
    BY <1>1 DEF FieldsOf
  <2> QED BY <1>1, <2>1 DEF Field
<1>2. CASE Method = "approle"
  <2>1. DOMAIN FieldsOf[Method] = 1..2 /\ FieldsOf[Method][1] = "role" /\ FieldsOf[Method][2] = "secret"
    BY <1>2 DEF FieldsOf
  <2> DEFINE at(k) == CHOOSE i \in DOMAIN FieldsOf[Method] : FieldsOf[Method][i] = k
  <2>2. at("role") = 1 /\ at("secret") = 2
    BY <2>1
  <2> QED BY <1>2, <2>1, <2>2 DEF Field
<1>3. CASE Method = "invite"
  <2>1. DOMAIN FieldsOf[Method] = 1..1 /\ FieldsOf[Method][1] = "session"
    BY <1>3 DEF FieldsOf
  <2> DEFINE at(k) == CHOOSE i \in DOMAIN FieldsOf[Method] : FieldsOf[Method][i] = k
  <2>2. at("session") = 1
    BY <2>1
  <2> QED BY <1>3, <2>1, <2>2 DEF Field
<1> QED BY <1>1, <1>2, <1>3

\* The request fits when it is made.
LEMMA RequestMade ==
  ASSUME WizardInv, StartEnroll
  PROVE  RequestFits' /\ (~offered' => request'.profile = "")
<1> USE DEF WizardInv
<1>1. /\ request' = [url |-> url, session |-> Field("session"), role |-> Field("role"),
                     secret |-> Field("secret"), profile |-> Chosen]
      /\ UNCHANGED <<flags, touched, profiles, offered>> /\ step = "confirm"
  BY DEF StartEnroll, At, menu, choices
<1>2. url # NoUrl /\ (flags.url # NoUrl => url = flags.url)
  BY <1>1 DEF Entered
<1>3. Chosen \in {""} \cup Range(profiles) /\ (~offered => Chosen = "")
  <2>1. CASE offered /\ cursor > 0
    <3>1. cursor + 1 \in 1..Len(profiles) /\ profiles \in Seq(Profiles)
      BY <2>1 DEF TypeOK, CursorFits
    <3>2. cursor + 1 \in DOMAIN profiles
      BY <3>1
    <3> QED BY <2>1, <3>2, Zenon DEF Chosen, Range
  <2>2. CASE ~(offered /\ cursor > 0)
    BY <2>2 DEF Chosen
  <2> QED BY <2>1, <2>2
<1>4. /\ flags.session \in {NoText, Flag("session")} /\ flags.role \in {NoText, Flag("role")}
      /\ flags.secret \in {NoText, Flag("secret")}
  BY DEF TypeOK, MenuOK, Flags
<1> DEFINE se == Field("session")  ro == Field("role")  sc == Field("secret")
<1>5. /\ se \in {NoText, flags.session, Hand("session")} /\ ro \in {NoText, flags.role, Hand("role")}
      /\ sc \in {NoText, flags.secret, Hand("secret")}
      /\ se = NoText \/ (ro = NoText /\ sc = NoText)
      /\ ~touched => ro = flags.role /\ sc = flags.secret
      /\ ~touched /\ flags.role = NoText /\ flags.secret = NoText => se = flags.session
  <2>1. Method \in {"new", "approle", "invite"}
    BY Menu DEF TypeOK, MenuOK, Method
  <2>2. ~touched => choice = Preselected(flags)
    BY DEF Entered
  <2>3. CASE Method = "new"
    <3>1. choice = 0
      BY <2>3 DEF TypeOK, MenuOK, Method, Methods
    <3>2. ~touched => flags.role = NoText /\ flags.secret = NoText /\ flags.session = NoText
      BY <2>2, <3>1 DEF Preselected
    <3> QED BY <2>3, <3>2, FieldValues
  <2>4. CASE Method = "approle"
    <3>1. choice = 1
      BY <2>4 DEF TypeOK, MenuOK, Method, Methods
    <3>2. ~touched => flags.role # NoText \/ flags.secret # NoText
      BY <2>2, <3>1 DEF Preselected
    <3>3. DOMAIN FieldsOf[Method] = 1..2 /\ FieldsOf[Method][1] = "role" /\ FieldsOf[Method][2] = "secret"
      BY <2>4 DEF FieldsOf
    <3>4. \A i \in DOMAIN FieldsOf[Method] :
            /\ fields[i] \in {NoText, flags[FieldsOf[Method][i]], Hand(FieldsOf[Method][i])}
            /\ ~touched => fields[i] = flags[FieldsOf[Method][i]]
      BY <1>1, <2>4 DEF Entered
    <3>5. /\ fields[1] \in {NoText, flags.role, Hand("role")} /\ (~touched => fields[1] = flags.role)
          /\ fields[2] \in {NoText, flags.secret, Hand("secret")} /\ (~touched => fields[2] = flags.secret)
      BY <3>3, <3>4
    <3> QED BY <2>4, <3>2, <3>5, FieldValues
  <2>5. CASE Method = "invite"
    <3>1. choice = 2
      BY <2>5 DEF TypeOK, MenuOK, Method, Methods
    <3>2. ~touched => flags.role = NoText /\ flags.secret = NoText
      BY <2>2, <3>1 DEF Preselected
    <3>3. DOMAIN FieldsOf[Method] = 1..1 /\ FieldsOf[Method][1] = "session"
      BY <2>5 DEF FieldsOf
    <3>4. \A i \in DOMAIN FieldsOf[Method] :
            /\ fields[i] \in {NoText, flags[FieldsOf[Method][i]], Hand(FieldsOf[Method][i])}
            /\ ~touched => fields[i] = flags[FieldsOf[Method][i]]
      BY <1>1, <2>5 DEF Entered
    <3>5. fields[1] \in {NoText, flags.session, Hand("session")} /\ (~touched => fields[1] = flags.session)
      BY <3>3, <3>4
    <3> QED BY <2>5, <3>2, <3>5, FieldValues
  <2> QED BY <2>1, <2>3, <2>4, <2>5
<1>6. request'.session = se /\ request'.role = ro /\ request'.secret = sc /\ request'.url = url /\ request'.profile = Chosen
  BY <1>1
<1>7. \A k \in Kinds : request'[k] \in {NoText, flags[k], Hand(k)}
  BY <1>5, <1>6 DEF Kinds
<1> QED BY <1>1, <1>2, <1>3, <1>5, <1>6, <1>7 DEF RequestFits

\* The request is what was entered: its texts are in the fields they were typed into, flags
\* are honoured, the URL is the one given, the profile one of the list.
THEOREM RequestAsEntered == Spec => []RequestFits
<1> DEFINE Inv == RequestFits /\ (~offered => request.profile = "")
<1>1. Init => WizardInv /\ Inv
  <2>1. Init => request = NoRequest
    BY DEF Init
  <2>2. NoRequest.profile = ""
    BY DEF NoRequest
  <2>3. request = NoRequest => Inv
    BY <2>2 DEF RequestFits
  <2> QED BY <2>1, <2>3, WizardInit DEF WizardInv
<1>2. ASSUME WizardInv, Inv, [Next]_vars PROVE Inv'
  <2>1. CASE request = NoRequest /\ request' = NoRequest
    BY <1>2, <2>1 DEF RequestFits, NoRequest
  <2>2. CASE StartEnroll
    BY <1>2, <2>2, RequestMade
  <2>3. CASE request # NoRequest /\ request' = request
    <3>1. step \in {"progress", "done"}
      BY <1>2, <2>3 DEF WizardInv, Phase
    <3>2. UNCHANGED <<flags, touched>>
      <4>1. ~MenuMove
        BY <3>1, MenuMoves
      <4>2. UNCHANGED <<flags, touched>> \/ MenuMove
        BY <1>2, StepCases
           DEF EnterNew, EnterField, MoveProfile, StartEnroll, QuitKey, Terminated, Interrupted,
               Fingerprint, Granted, Refused, Panics, Quits, ProfileList, menu, vars
      <4> QED BY <4>1, <4>2
    <3>3. (UNCHANGED <<profiles, offered>>) \/ (~offered /\ request.profile = "")
      BY <1>2, StepCases, MenuMoves
         DEF EnterNew, EnterField, MoveProfile, StartEnroll, QuitKey, Terminated, Interrupted,
             Fingerprint, Granted, Refused, Panics, Quits, ProfileList, Handle, WizardInv, Phase, choices, vars
    <3> QED BY <1>2, <2>3, <3>2, <3>3 DEF RequestFits
  <2>4. request' = request \/ StartEnroll
    BY <1>2, StepCases, MenuMoves
       DEF EnterNew, EnterField, MoveProfile, QuitKey, Terminated, Interrupted,
           Fingerprint, Granted, Refused, Panics, Quits, ProfileList, answer, vars
  <2> QED BY <2>1, <2>2, <2>3, <2>4
<1> QED BY <1>1, <1>2, WizardStep, PTL DEF Spec

-----------------------------------------------------------------------------
\* The profile of the request.

\* The request's profile is the chosen one, and stays so: the list cannot change under a
\* cursor that has been moved.
OneOff ==
  request # NoRequest =>
    \/ cursor = 0 /\ request.profile = ""
    \/ cursor \in 1..(Len(profiles) - 1) /\ offered /\ request.profile = profiles[cursor + 1]

LEMMA ChosenOff ==
  ASSUME WizardInv
  PROVE  \/ cursor = 0 /\ Chosen = ""
         \/ cursor \in 1..(Len(profiles) - 1) /\ offered /\ Chosen = profiles[cursor + 1]
<1>1. /\ cursor \in Nat /\ profiles \in Seq(Profiles) /\ (cursor = 0 \/ cursor < Len(profiles))
      /\ (~offered => profiles = <<>>)
  BY DEF WizardInv, TypeOK, CursorFits
<1>2. CASE cursor = 0
  BY <1>2 DEF Chosen
<1>3. CASE cursor # 0
  <2>1. Len(profiles) \in Nat /\ cursor < Len(profiles) /\ cursor > 0
    BY <1>1, <1>3
  <2>2. cursor \in 1..(Len(profiles) - 1) /\ Len(<<>>) = 0
    BY <1>1, <2>1
  <2>3. offered
    <3>1. profiles # <<>>
      BY <2>1, <2>2
    <3> QED
      BY <1>1, <3>1
  <2>4. Chosen = profiles[cursor + 1]
    BY <2>1, <2>3, Zenon DEF Chosen
  <2> QED
    BY <2>2, <2>3, <2>4
<1> QED
  BY <1>2, <1>3

\* Every step keeps it.
LEMMA OneOffStep == WizardInv /\ OneOff /\ [Next]_vars => OneOff'
<1> SUFFICES ASSUME WizardInv, OneOff, [Next]_vars
             PROVE  OneOff'
  OBVIOUS
<1>1. ASSUME UNCHANGED <<request, choices>>
      PROVE  OneOff'
  BY <1>1 DEF OneOff, choices
<1>2. CASE StartEnroll
  <2>1. request'.profile = Chosen /\ UNCHANGED <<profiles, cursor, offered>>
    BY <1>2 DEF StartEnroll, choices
  <2> QED
    BY <2>1, ChosenOff DEF OneOff
<1>3. ASSUME NEW c \in 0..(Len(profiles) - 1), MoveProfile(c)
      PROVE  OneOff'
  BY <1>3 DEF MoveProfile, At, WizardInv, Phase, OneOff, answer
<1>4. ASSUME NEW list \in ProfileLists \cup {<<>>}, ProfileList(list)
      PROVE  OneOff'
  <2>1. ~offered /\ UNCHANGED <<cursor, request>>
    BY <1>4 DEF ProfileList, Handle, WizardInv, Phase, answer
  <2> QED
    BY <2>1 DEF OneOff
<1>5. CASE MenuMove
  BY <1>1, <1>5, MenuMoves DEF answer
<1> QED
  BY <1>1, <1>2, <1>3, <1>4, <1>5, StepCases
     DEF EnterNew, EnterField, QuitKey, Terminated, Interrupted, Fingerprint, Granted, Refused, Panics, Quits,
         Handle, answer, vars

\* What wizard_profile shows, in full: the request carries no profile if the cursor is on the
\* first entry, and the entry after the one that is marked otherwise.  The first profile of
\* the list is never asked for, and the last can be asked for only by marking the one before.
THEOREM SentIsTheNext == Spec => []OneOff
<1>1. Init => WizardInv /\ OneOff
  BY WizardInit DEF WizardInv, Init, OneOff
<1> QED
  BY <1>1, WizardStep, OneOffStep, PTL DEF Spec

\* So, in a list that names no profile twice, what is shown is sent only if that is "none".
THEOREM OnlyNoneIsSentAsShown ==
  Spec => [](IsInjective(profiles) => (ShownIsSent <=> request = NoRequest \/ cursor = 0))
<1>1. ASSUME TypeOK, OneOff, IsInjective(profiles)
      PROVE  ShownIsSent <=> request = NoRequest \/ cursor = 0
  <2>1. CASE request # NoRequest /\ cursor # 0
    <3>1. cursor \in 1..(Len(profiles) - 1) /\ offered /\ request.profile = profiles[cursor + 1]
      BY <1>1, <2>1 DEF OneOff
    <3>2. Marked = profiles[cursor]
      <4>1. cursor > 0
        BY <3>1
      <4> QED
        BY <3>1, <4>1, Zenon DEF Marked
    <3>3. profiles \in Seq(Profiles)
      BY <1>1 DEF TypeOK, CursorFits
    <3>4. cursor \in DOMAIN profiles /\ cursor + 1 \in DOMAIN profiles /\ cursor # cursor + 1
      BY <3>1, <3>3
    <3>5. profiles[cursor] # profiles[cursor + 1]
      BY <1>1, <3>4 DEF IsInjective
    <3> QED
      BY <2>1, <3>1, <3>2, <3>5 DEF ShownIsSent
  <2>2. CASE request = NoRequest
    BY <2>2 DEF ShownIsSent
  <2>3. CASE request # NoRequest /\ cursor = 0
    <3>1. request.profile = ""
      <4>1. cursor \notin 1..(Len(profiles) - 1)
        BY <2>3
      <4> QED
        BY <1>1, <2>3, <4>1, Zenon DEF OneOff
    <3>2. Marked = ""
      <4>1. ~(cursor > 0)
        BY <2>3
      <4> QED
        BY <4>1, Zenon DEF Marked
    <3> QED
      BY <2>3, <3>1, <3>2 DEF ShownIsSent
  <2> QED
    BY <2>1, <2>2, <2>3
<1>2. TypeOK /\ OneOff => (IsInjective(profiles) => (ShownIsSent <=> request = NoRequest \/ cursor = 0))
  BY <1>1
<1> QED
  BY <1>2, TypeCorrect, SentIsTheNext, PTL
==============================================================================
