----------------------------- MODULE FifoRelay -----------------------------
(***************************************************************************)
(* What the station promises of the measurements the AQC program hands it: *)
(* it passes every one of them on to the central server, once and in order.*)
(***************************************************************************)
EXTENDS Naturals, Sequences

VARIABLES in,   \* measurements received from the AQC program
          out   \* payloads sent to the central server

Init == in = <<>> /\ out = <<>>

(* Measurements are numbered as they come.                                  *)
Accept  == in' = Append(in, Len(in) + 1) /\ UNCHANGED out

Deliver == /\ Len(out) < Len(in)
           /\ out' = Append(out, in[Len(out) + 1])
           /\ UNCHANGED in

Next == Accept \/ Deliver

vars == <<in, out>>

Safety == Init /\ [][Next]_vars

Spec == Safety /\ WF_vars(Deliver)
=============================================================================
