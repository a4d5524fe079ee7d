----------------------------- MODULE MCKeepAlive -----------------------------
(* Instances of KeepAlive for TLC.                                          *)
EXTENDS KeepAlive

Both    == {AQC, WdgAqc}
OnlyAqc == {AQC}
=============================================================================
