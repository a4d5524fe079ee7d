------------------------------ MODULE MCSerial ------------------------------
(* Small frames and registers for TLC; the values hold the syncs too.       *)
EXTENDS Serial

MCPeerFrames ==
  [id : {0, 2}, device : {1}, payload : {<<>>, <<0>>, <<0, 2>>, <<3, 2>>, <<3, 2, 1>>}]

MCGreeting == <<1, 0>>
MCMessages ==
  {[id |-> 1, payload |-> <<>>], [id |-> 0, payload |-> <<2, 3, 1>>],
   [id |-> 2, payload |-> <<3, 2, 0, 1, 2>>]}

Call(f, t, r, v) == [fun |-> f, type |-> t, reg |-> r, value |-> v]
MCRequests ==
  {Call(1, 1, 1, <<4, 0, 0, 0>>), Call(1, 2, 1, <<9, 0, 0, 0>>),
   Call(0, 1, 1, <<0, 0, 0, 0>>), Call(1, 6, 0, <<9, 8, 3, 1>>),
   Call(1, 3, 0, <<7, 2, 0, 0>>), Call(0, 7, 0, <<0, 0, 0, 0>>)}
=============================================================================
