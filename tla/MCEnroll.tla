------------------------------ MODULE MCEnroll ------------------------------
(***************************************************************************)
(* Enroll on a small instance.                                             *)
(***************************************************************************)
EXTENDS Enroll
=============================================================================
