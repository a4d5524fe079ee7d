------------------------------- MODULE Serial -------------------------------
(***************************************************************************)
(* The three byte protocols of the program side by side: frames read from  *)
(* the network (FrameParser), frames written to it (FrameSender), and the  *)
(* registers of a card over SPI (RegisterLink).  They share no state; a    *)
(* behaviour is one of one of them.                                        *)
(***************************************************************************)
EXTENDS FrameParser, FrameSender, RegisterLink

VARIABLE part

vars == <<part, frameVars, sendVars, regVars>>

Init ==
  /\ part \in {"parser", "sender", "registers"}
  /\ FramesInit /\ SenderInit /\ RegistersInit
  /\ part # "parser" => parser = "Tcp_Client"
  /\ part # "sender" => sender = "Tcp_Client"

Parsing == part = "parser" /\ FramesNext /\ UNCHANGED <<part, sendVars, regVars>>
Sending == part = "sender" /\ SenderNext /\ UNCHANGED <<part, frameVars, regVars>>
Storing == part = "registers" /\ RegistersNext /\ UNCHANGED <<part, frameVars, sendVars>>

Next == Parsing \/ Sending \/ Storing

Spec ==
  /\ Init /\ [][Next]_vars
  /\ WF_vars(part = "parser" /\ readTcpData /\ UNCHANGED <<part, sendVars, regVars>>)
  /\ WF_vars(part = "registers" /\ Transfer /\ UNCHANGED <<part, frameVars, sendVars>>)
=============================================================================
