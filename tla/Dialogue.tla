------------------------------ MODULE Dialogue ------------------------------
(***************************************************************************)
(* What the enrollment wizard promises, whatever its screens: the server   *)
(* is asked once at most, with what was asked for; the machine is changed  *)
(* only after the server granted it, and then always; a wizard that was    *)
(* quit without an answer changes nothing.                                 *)
(***************************************************************************)
CONSTANTS Requests, NoRequest

VARIABLES
  asked,    \* the request the server got, or NoRequest
  verdict,  \* none, granted or refused
  end       \* open, or how the wizard ended: install, quit or error

vars == <<asked, verdict, end>>

Init == asked = NoRequest /\ verdict = "none" /\ end = "open"

Ask ==
  /\ end = "open" /\ asked = NoRequest
  /\ asked' \in Requests
  /\ UNCHANGED <<verdict, end>>

Answer ==
  /\ end = "open" /\ asked # NoRequest /\ verdict = "none"
  /\ verdict' \in {"granted", "refused"}
  /\ UNCHANGED <<asked, end>>

Install == end = "open" /\ verdict = "granted" /\ end' = "install" /\ UNCHANGED <<asked, verdict>>
Quit    == end = "open" /\ verdict = "none" /\ end' = "quit" /\ UNCHANGED <<asked, verdict>>
Fail    == end = "open" /\ end' = "error" /\ UNCHANGED <<asked, verdict>>

Next == Ask \/ Answer \/ Install \/ Quit \/ Fail

Spec == Init /\ [][Next]_vars
=============================================================================
