---------------------------- MODULE MCTelemetryRing ----------------------------
(***************************************************************************)
(* Instances of TelemetryRing for TLC: a ring of a few bytes in which      *)
(* three or four records fill it, so that every append after them wraps,   *)
(* pads and evicts.                                                        *)
(***************************************************************************)
EXTENDS TelemetryRing
==============================================================================
