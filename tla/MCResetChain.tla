---------------------------- MODULE MCResetChain ----------------------------
(* Instances of ResetChain for TLC.                                         *)
EXTENDS ResetChain

Reset(b) == [auth |-> TRUE, reset |-> TRUE, bits |-> b]
Stranger == [auth |-> FALSE, reset |-> TRUE, bits |-> Relay]

MCText   == {Reset({1}), Reset({1, 2}), Stranger}
OneText  == {Reset({1})}
NoRelay  == {{}}
Leftover == {{2}}
=============================================================================
