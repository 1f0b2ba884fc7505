------------------------------ MODULE MCWizard ------------------------------
(***************************************************************************)
(* Wizard with two controllers; one of the lists has as many profiles as   *)
(* it takes to move the cursor past one.                                   *)
(***************************************************************************)
EXTENDS Wizard

MCLists == {<<"edge">>, <<"edge", "web", "db">>}
=============================================================================
