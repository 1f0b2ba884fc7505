------------------------------ MODULE StepList ------------------------------
(***************************************************************************)
(* What a resumable installation promises about its steps: each applicable *)
(* step is completed at most once, in the order of the list, and stays     *)
(* completed whatever interrupts the runs in between.                      *)
(***************************************************************************)
EXTENDS Integers, Sequences

CONSTANT
  List          \* the names of the steps, in order

VARIABLES
  applicable,   \* the steps this kind of node takes
  completed     \* the steps completed so far

\* Every applicable step before position i has been completed.
ReachedInOrder(i) == \A j \in 1..(i - 1) : List[j] \in applicable => List[j] \in completed

Init == completed = {}

Complete(i) ==
  /\ List[i] \in applicable \ completed
  /\ ReachedInOrder(i)
  /\ completed' = completed \cup {List[i]}
  /\ UNCHANGED applicable

Next == \E i \in DOMAIN List : Complete(i)

Spec == Init /\ [][Next]_<<applicable, completed>>
=============================================================================
