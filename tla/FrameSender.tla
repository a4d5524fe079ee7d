---------------------------- MODULE FrameSender -----------------------------
(***************************************************************************)
(* The frames the program sends: Tcp_Client::transMsgLAN to the AQC        *)
(* program, and the copies of it in Lan_Conn and in a client that is not   *)
(* built.  A frame has a length of four bytes, low byte first:             *)
(*   Tr_Sync1 Tr_Sync2 ID length(4) payload sum                            *)
(***************************************************************************)
EXTENDS Bytes

CONSTANTS
  Tr_Sync1, Tr_Sync2,
  Greeting,    \* "Hi Server", which opens a connection
  Messages,    \* what there is to send: identifier and payload
  LanSize,     \* the bytes of Lan_Conn's PayloadLAN: 60000 in the code
  MaxTold      \* bounds the messages of a connection

ASSUME SenderAssumption ==
  /\ Tr_Sync1 \in Byte /\ Tr_Sync2 \in Byte /\ Greeting \in Seq(Byte)
  /\ Messages \subseteq [id : Byte, payload : Seq(Byte)]
  /\ \A m \in Messages : Len(m.payload) < Width * Width * Width * Width
  /\ LanSize \in Nat /\ MaxTold \in Nat

VARIABLES
  sender,      \* whose function sends
  linked,      \* whether the socket is connected
  wire,        \* what was written since it is
  told,        \* the messages that were sent since then
  tcpCnnStatus_b   \* whether the last one found the socket connected

sendVars == <<sender, linked, wire, told, tcpCnnStatus_b>>

SenderInit ==
  /\ sender \in {"Tcp_Client", "Lan_Conn", "WebServer_TcpClient"}
  /\ linked = FALSE /\ wire = <<>> /\ told = <<>> /\ tcpCnnStatus_b = FALSE
-----------------------------------------------------------------------------
(* A number without its low byte.                                           *)
High(n) == n \div Width

(* Mutant: the order of QDataStream, high byte first.                       *)
LengthBytes_Stream(n) ==
  <<High(High(High(n))) % Width, High(High(n)) % Width, High(n) % Width, n % Width>>

(* The four bytes of the length that QDataStream gives, low byte first.     *)
LengthBytes(n) ==
  <<n % Width, High(n) % Width, High(High(n)) % Width, High(High(High(n))) % Width>>

FrameOf(m) ==
  LET counted == <<m.id>> \o LengthBytes(Len(m.payload)) \o m.payload
  IN <<Tr_Sync1, Tr_Sync2>> \o counted \o <<Total(counted)>>

connect2Server ==
  /\ ~linked /\ linked' = TRUE
  /\ wire' = IF sender = "Lan_Conn" THEN <<>> ELSE Greeting
  /\ told' = <<>> /\ UNCHANGED <<sender, tcpCnnStatus_b>>

LinkDown == linked /\ linked' = FALSE /\ UNCHANGED <<sender, wire, told, tcpCnnStatus_b>>

(* What is sent to a socket that is not connected is gone.                  *)
Write(m, bytes) ==
  IF linked THEN wire' = wire \o bytes /\ told' = Append(told, m)
            ELSE UNCHANGED <<wire, told>>

transMsgLAN(m) ==
  /\ sender # "Lan_Conn" /\ Len(told) < MaxTold
  /\ Write(m, FrameOf(m))
  /\ tcpCnnStatus_b' = IF sender = "Tcp_Client" THEN linked ELSE tcpCnnStatus_b
  /\ UNCHANGED <<sender, linked>>

(* The frame is made in PayloadLAN, which is not checked: its callers in    *)
(* SPI_Conn.cpp (201, 240, 316) are taken to keep to messages that fit.     *)
transmitMessage_LAN(m) ==
  /\ sender = "Lan_Conn" /\ Len(told) < MaxTold /\ Len(FrameOf(m)) <= LanSize
  /\ Write(m, FrameOf(m))
  /\ UNCHANGED <<sender, linked, tcpCnnStatus_b>>

-----------------------------------------------------------------------------
SenderNext ==
  \/ connect2Server \/ LinkDown
  \/ \E m \in Messages : transMsgLAN(m) \/ transmitMessage_LAN(m)

SenderSpec == SenderInit /\ [][SenderNext]_sendVars
-----------------------------------------------------------------------------
(* The peer: a frame that begins at i, and the messages of the frames that *)
(* follow one another from there.                                           *)
LengthAt(w, i) == w[i + 3] + Width * (w[i + 4] + Width * (w[i + 5] + Width * w[i + 6]))

Framed(w, i) ==
  /\ i + 7 <= Len(w) /\ w[i] = Tr_Sync1 /\ w[i + 1] = Tr_Sync2
  /\ i + 7 + LengthAt(w, i) <= Len(w)
  /\ w[i + 7 + LengthAt(w, i)] = Total(SubSeq(w, i + 2, i + 6 + LengthAt(w, i)))

MessageAt(w, i) ==
  [id |-> w[i + 2], payload |-> SubSeq(w, i + 7, i + 6 + LengthAt(w, i))]

Hears(w) ==
  LET from[i \in Nat] ==
        IF Framed(w, i) THEN <<MessageAt(w, i)>> \o from[i + 8 + LengthAt(w, i)] ELSE <<>>
  IN from

(* The greeting comes first, except from Lan_Conn.                          *)
FirstFrame == IF sender = "Lan_Conn" THEN 1 ELSE Len(Greeting) + 1
Heard(w)   == Hears(w)[FirstFrame]

(* Who reads a connection from its start, frame by frame, hears the         *)
(* messages sent on it, all and in order, of any length, and whatever       *)
(* syncs they contain; what was sent while the link was down is not there.  *)
WireReads == Heard(wire) = told
=============================================================================
