------------------------------ MODULE MCRouting -------------------------------
(***************************************************************************)
(* HTTPRouter with two requests: one whose attributes match a tier without *)
(* its "@", and one with the identity header only, whose attribute matches *)
(* the tier as it is written.                                              *)
(***************************************************************************)
EXTENDS HTTPRouter, TLC

MCHost == "r1" :> "shop" @@ "r2" :> "wiki"
MCAttributes == "r1" :> {"gold"} @@ "r2" :> {}
MCIdentity == "r1" :> {"silver"} @@ "r2" :> {"@gold"}
MCBare == "@gold" :> "gold" @@ "gold" :> "gold" @@ "silver" :> "silver"

App(on, auth, tiers, backend) ==
  [enabled |-> on, requiresAuth |-> auth, tiers |-> tiers, backend |-> backend]

MCApps == {
  App(TRUE, FALSE, {}, "b1"), App(FALSE, FALSE, {}, "b1"), App(TRUE, TRUE, {}, "b1"),
  App(TRUE, TRUE, {"@gold"}, "b2"), App(TRUE, TRUE, {"silver"}, "b3"), App(TRUE, TRUE, {"gold"}, "://")}
=============================================================================
