------------------------------ MODULE MCApply ------------------------------
(***************************************************************************)
(* Applies on small instances: two profiles, each of which has a version   *)
(* without a file of the other.                                            *)
(***************************************************************************)
EXTENDS Apply

MCFiles == {"hcl", "env"}

Instr(p, files, credentials, checked, leaf) ==
  [profile |-> p, bundle |-> files, creds |-> credentials, checked |-> checked, leaf |-> leaf]

Web1 == Instr("web", MCFiles, CredFiles, FALSE, FALSE)
Web2 == Instr("web", {"hcl"}, CredFiles, FALSE, FALSE)
DB   == Instr("db", {"hcl"}, {}, TRUE, FALSE)
Cron == Instr("db", {"env"}, {"secret-id"}, FALSE, FALSE)

Leaf == [DB EXCEPT !.leaf = TRUE]
Bare == Instr("web", {"hcl"}, {"role-id"}, FALSE, FALSE)

MCInstructions == {Web1, Web2, DB, Cron, Leaf, Bare, [Web2 EXCEPT !.leaf = TRUE]}

Setting(serial, diskFull, restarts, sent) ==
  [serial |-> serial, diskFull |-> diskFull, restarts |-> restarts, sent |-> sent]

\* Side by side on a disk that has room; one of two panics, as it came through the leaf, and
\* takes the other with it; one after the other on a disk that may be full, in an agent that
\* may die.
MCSettings == {Setting(FALSE, FALSE, 0, {Web2, DB}),
               Setting(FALSE, FALSE, 1, {Bare, Leaf}),
               Setting(TRUE, TRUE, 1, {Web1, DB, Cron, [Web2 EXCEPT !.leaf = TRUE]})}

\* The same bundle twice.
MCSame == {Setting(FALSE, FALSE, 0, {Web1})}
=============================================================================
