----------------------------- MODULE EventQueue -----------------------------
(***************************************************************************)
(* What the telemetry publisher promises about the events it accepts,      *)
(* whatever transport it is on: it is a queue of distinct events, entered  *)
(* at the back in order of emission, that events leave only by being       *)
(* delivered or dropped.  Events that stay keep their order; an event that *)
(* left never comes back.                                                  *)
(***************************************************************************)
EXTENDS Integers, Sequences, FiniteSets, Functions

VARIABLES
  offered,    \* number of events offered so far
  backlog,    \* the events held, in order
  delivered,  \* the events NATS has received at least once
  dropped     \* the events given up

vars == <<offered, backlog, delivered, dropped>>

Init == offered = 0 /\ backlog = <<>> /\ delivered = {} /\ dropped = {}

Accept ==
  /\ offered' = offered + 1
  /\ backlog' = Append(backlog, offered + 1)
  /\ UNCHANGED <<delivered, dropped>>

Refuse ==
  /\ offered' = offered + 1
  /\ dropped' = dropped \cup {offered + 1}
  /\ UNCHANGED <<backlog, delivered>>

\* Some events are delivered, some dropped; those that leave the backlog are
\* among them, the others keep their places.
Settle ==
  \E kept \in SUBSET DOMAIN backlog :
    LET gone == {backlog[i] : i \in DOMAIN backlog \ kept}
    IN  /\ \E f \in [1..Cardinality(kept) -> kept] :
             /\ Range(f) = kept
             /\ \A i, j \in DOMAIN f : i < j => f[i] < f[j]
             /\ backlog' = [i \in DOMAIN f |-> backlog[f[i]]]
        /\ gone \subseteq delivered' \cup dropped'
        /\ delivered \subseteq delivered' /\ delivered' \subseteq delivered \cup Range(backlog)
        /\ dropped \subseteq dropped' /\ dropped' \subseteq dropped \cup Range(backlog)
        /\ UNCHANGED offered

Next == Accept \/ Refuse \/ Settle

Spec == Init /\ [][Next]_vars
=============================================================================
