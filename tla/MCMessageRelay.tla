--------------------------- MODULE MCMessageRelay ---------------------------
(* Instances of MessageRelay for TLC; the configurations give the bounds.   *)
EXTENDS MessageRelay

(* An unassigned identifier that means nothing, and one that happens to     *)
(* read as a measurement.                                                   *)
MCGarbage == {"other", "primaryAQC_Data2Server"}
=============================================================================
