---------------------------- MODULE MCTelemetry ----------------------------
(***************************************************************************)
(* Telemetry on small instances: three events, a channel of two, a buffer  *)
(* that keeps entries for one tick.                                        *)
(***************************************************************************)
EXTENDS Telemetry
=============================================================================
