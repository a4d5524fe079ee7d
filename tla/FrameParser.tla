---------------------------- MODULE FrameParser ----------------------------
(***************************************************************************)
(* The automata that take frames from a stream of bytes.  The repository   *)
(* has four hand-made copies of Parse_Byte: of the AQC link (Tcp_Client),  *)
(* of the server's link (TC_CentServer, whose frames have one more field), *)
(* of the LAN command link (Lan_Conn) and of a client that is not built    *)
(* (WebServer_TcpClient).  One of them, chosen at the start, reads what a  *)
(* peer sends: frames, and bytes that belong to none.                      *)
(*                                                                         *)
(* A frame: Sync1 Sync2 ID [DeviceID] length payload sum, where length is  *)
(* one byte and the sum is that of all between the syncs and itself.       *)
(***************************************************************************)
EXTENDS Bytes

CONSTANTS
  Sync1,       \* LAN_Rx_Sync1, CentServer_Rx_Sync1
  Sync2,       \* LAN_Rx_Sync2, CentServer_Rx_Sync2
  PeerFrames,  \* what the peer sends: identifier, device, payload
  Acted,       \* the identifiers that Lan_Conn and WebServer_TcpClient act on
  MsgSize,     \* the bytes of their msg: 50 in the code
  MaxNoise     \* bounds the bytes that belong to no frame

Frame == [id : Byte, device : Byte, payload : Seq(Byte)]

ASSUME FrameAssumption ==
  /\ Sync1 \in Byte /\ Sync2 \in Byte /\ Sync1 # Sync2
  /\ PeerFrames \subseteq Frame /\ \A f \in PeerFrames : Len(f.payload) < Width
  /\ Acted \subseteq Byte /\ MsgSize \in Nat \ {0} /\ MaxNoise \in Nat

Parser == {"Tcp_Client", "TC_CentServer", "Lan_Conn", "WebServer_TcpClient"}
NoFrame == [id |-> 0, device |-> 0, payload |-> <<>>]

VARIABLES
  parser,      \* whose Parse_Byte reads
  msgStatus, msgID, msgDeviceID, msgLen, CheckSumm,
  msg,         \* the payload so far; its length is msgIndex
  beyond,      \* whether a byte was ever stored behind the end of msg
  since,       \* the bytes read since the first sync of what is being read
  line,        \* the bytes of the frame under way that are still to be read
  frame,       \* the frame last sent, or NoFrame after a byte of noise
  clean,       \* whether nothing was being read when it began
  got,         \* what was handed on since then
  noise        \* bytes that belonged to no frame

fields    == <<msgID, msgDeviceID, msgLen, msg, CheckSumm>>
peerVars  == <<parser, frame, clean, noise>>
frameVars == <<parser, msgStatus, fields, beyond, since, line, frame, clean, got, noise>>

Status == {"UINIT", "GOT_SYNC1", "GOT_SYNC2", "GOT_ID", "GOT_DeviceID", "GOT_LEN",
           "GOT_PAYLOAD"}

FramesTypeOK ==
  /\ parser \in Parser /\ msgStatus \in Status
  /\ msgID \in Byte /\ msgDeviceID \in Byte /\ msgLen \in Byte /\ CheckSumm \in Byte
  /\ msg \in Seq(Byte) /\ since \in Seq(Byte) /\ line \in Seq(Byte)
  /\ frame \in PeerFrames \cup {NoFrame} /\ clean \in BOOLEAN
  /\ got \in Seq([id : Byte, device : Byte, len : Byte, msg : Seq(Byte),
                  bytes : Seq(Byte)])
  /\ noise \in 0..MaxNoise /\ beyond \in BOOLEAN

(* The fields are unassigned before the first frame; none is read then.     *)
(* WebServer_TcpClient names the globals that Lan_Conn defines.             *)
FramesInit ==
  /\ parser \in Parser
  /\ msgStatus = "UINIT" /\ msgID = 0 /\ msgDeviceID = 0 /\ msgLen = 0
  /\ msg = <<>> /\ CheckSumm = 0 /\ since = <<>> /\ beyond = FALSE
  /\ line = <<>> /\ frame = NoFrame /\ clean = FALSE /\ got = <<>> /\ noise = 0
-----------------------------------------------------------------------------
(* The peer.                                                                *)

HasDevice(p) == p = "TC_CentServer"

Summed(f) ==
  <<f.id>> \o (IF HasDevice(parser) THEN <<f.device>> ELSE <<>>)
    \o <<Len(f.payload)>> \o f.payload

SendFrame ==
  /\ line = <<>>
  /\ \E f \in PeerFrames : \E sum \in Byte :
       /\ sum = Total(Summed(f))
       /\ frame' = f /\ line' = <<Sync1, Sync2>> \o Summed(f) \o <<sum>>
  /\ clean' = (msgStatus = "UINIT") /\ got' = <<>>
  /\ UNCHANGED <<parser, msgStatus, fields, beyond, since, noise>>

SendNoise ==
  /\ line = <<>> /\ noise < MaxNoise /\ noise' = noise + 1
  /\ \E b \in Byte : line' = <<b>>
  /\ frame' = NoFrame /\ clean' = FALSE /\ got' = <<>>
  /\ UNCHANGED <<parser, msgStatus, fields, beyond, since>>
-----------------------------------------------------------------------------
(* The cases of the switch.                                                 *)
Take(b, to) == msgStatus' = to /\ since' = Append(since, b)
Restart     == msgStatus' = "UINIT" /\ since' = <<>>
Counted(b)  == CheckSumm' = Plus(CheckSumm, b)

Uninit(b) ==
  /\ msgStatus = "UINIT"
  /\ IF b = Sync1 THEN Take(b, "GOT_SYNC1") ELSE UNCHANGED <<msgStatus, since>>
  /\ UNCHANGED <<fields, got>>

(* Mutant: the sum goes on from that of the frame before.                   *)
GotSync1_Summed(b) ==
  /\ msgStatus = "GOT_SYNC1"
  /\ IF b = Sync2 THEN Take(b, "GOT_SYNC2") ELSE Restart
  /\ UNCHANGED <<fields, got>>

GotSync1(b) ==
  /\ msgStatus = "GOT_SYNC1"
  /\ \/ b = Sync2 /\ Take(b, "GOT_SYNC2") /\ CheckSumm' = 0
     \/ b # Sync2 /\ Restart /\ UNCHANGED CheckSumm
  /\ UNCHANGED <<msgID, msgDeviceID, msgLen, msg, got>>

GotSync2(b) ==
  /\ msgStatus = "GOT_SYNC2"
  /\ Take(b, "GOT_ID") /\ msgID' = b /\ Counted(b)
  /\ UNCHANGED <<msgDeviceID, msgLen, msg, got>>

GotID(b) ==
  /\ msgStatus = "GOT_ID"
  /\ Take(b, "GOT_DeviceID") /\ msgDeviceID' = b /\ Counted(b)
  /\ UNCHANGED <<msgID, msgLen, msg, got>>

(* Mutant: the payload is not cleared.                                      *)
Length_Kept(b) ==
  /\ Take(b, "GOT_LEN") /\ msgLen' = b /\ Counted(b)
  /\ UNCHANGED <<msgID, msgDeviceID, msg, got>>

Length(b) ==
  /\ Take(b, "GOT_LEN") /\ msgLen' = b /\ msg' = <<>> /\ Counted(b)
  /\ UNCHANGED <<msgID, msgDeviceID, got>>

(* Tcp_Client and TC_CentServer append to a QByteArray; the two others      *)
(* store at msgIndex, and nothing keeps that below the size of msg.         *)
Fits == parser \in {"Tcp_Client", "TC_CentServer"} \/ Len(msg) < MsgSize

(* Mutant: the sum is wider than a byte.                                    *)
GotLen_Wide(b) ==
  /\ msgStatus = "GOT_LEN" /\ Fits
  /\ msg' = Append(msg, b) /\ CheckSumm' = CheckSumm + b
  /\ Take(b, IF Len(msg') >= msgLen THEN "GOT_PAYLOAD" ELSE "GOT_LEN")
  /\ UNCHANGED <<msgID, msgDeviceID, msgLen, got>>

(* At least one byte of payload is read, whatever the length.               *)
GotLen(b) ==
  /\ msgStatus = "GOT_LEN" /\ Fits
  /\ msg' = Append(msg, b) /\ Counted(b)
  /\ Take(b, IF Len(msg') >= msgLen THEN "GOT_PAYLOAD" ELSE "GOT_LEN")
  /\ UNCHANGED <<msgID, msgDeviceID, msgLen, got>>

(* A byte behind the end of msg lands on another of the globals: one that   *)
(* the automaton does not use, or one of its own.  What the switch does     *)
(* with a number that is no status is not followed; nor is since.           *)
GotLen_Beyond(b) ==
  /\ msgStatus = "GOT_LEN" /\ ~Fits
  /\ \E hit \in {"other", "msgStatus", "msgID", "msgLen", "CheckSumm", "msgIndex"} :
       /\ msgID' = IF hit = "msgID" THEN b ELSE msgID
       /\ msgLen' = IF hit = "msgLen" THEN b ELSE msgLen
       /\ CheckSumm' = Plus(IF hit = "CheckSumm" THEN b ELSE CheckSumm, b)
       /\ msg' = IF hit # "msgIndex" THEN Append(msg, b)
                 ELSE [i \in 1..Plus(b, 1) |-> IF i <= Len(msg) THEN msg[i] ELSE b]
       /\ \E to \in Status :
            /\ hit # "msgStatus" => to = "GOT_LEN"
            /\ msgStatus' = IF Len(msg') >= msgLen' THEN "GOT_PAYLOAD" ELSE to
  /\ since' = <<>> /\ UNCHANGED <<msgDeviceID, got>>

(* Mutant: a sum that is wrong leaves the automaton where it is.            *)
GotPayload_Stuck(b, acts) ==
  /\ msgStatus = "GOT_PAYLOAD"
  /\ got' = IF b = CheckSumm /\ acts
            THEN Append(got, [id |-> msgID, device |-> msgDeviceID, len |-> msgLen,
                              msg |-> msg, bytes |-> Append(since, b)])
            ELSE got
  /\ IF b = CheckSumm THEN Restart ELSE UNCHANGED <<msgStatus, since>>
  /\ UNCHANGED fields

(* A frame with a right sum is handed on to who acts on it.                 *)
GotPayload(b, acts) ==
  /\ msgStatus = "GOT_PAYLOAD"
  /\ got' = IF b = CheckSumm /\ acts
            THEN Append(got, [id |-> msgID, device |-> msgDeviceID, len |-> msgLen,
                              msg |-> msg, bytes |-> Append(since, b)])
            ELSE got
  /\ Restart
  /\ UNCHANGED fields

(* The common part: no field between identifier and length.                 *)
Short(b, acts) ==
  \/ Uninit(b) \/ GotSync1(b) \/ GotSync2(b)
  \/ msgStatus = "GOT_ID" /\ Length(b)
  \/ GotLen(b) \/ GotLen_Beyond(b) \/ GotPayload(b, acts)

(* Tcp_Client stores every frame in its mailbox; the others act on some.    *)
Tcp_Client_Parse_Byte(b) == parser = "Tcp_Client" /\ Short(b, TRUE)

Lan_Conn_Parse_Byte(b) == parser = "Lan_Conn" /\ Short(b, msgID \in Acted)

WebServer_Parse_Byte(b) == parser = "WebServer_TcpClient" /\ Short(b, msgID \in Acted)

TC_CentServer_Parse_Byte(b) ==
  /\ parser = "TC_CentServer"
  /\ \/ Uninit(b) \/ GotSync1(b) \/ GotSync2(b)
     \/ GotID(b)
     \/ msgStatus = "GOT_DeviceID" /\ Length(b)
     \/ GotLen(b) \/ GotPayload(b, TRUE)

readTcpData ==
  /\ line # <<>> /\ line' = Tail(line)
  /\ LET b == Head(line)
     IN \/ Tcp_Client_Parse_Byte(b) \/ TC_CentServer_Parse_Byte(b)
        \/ Lan_Conn_Parse_Byte(b) \/ WebServer_Parse_Byte(b)
  /\ beyond' = (beyond \/ (msgStatus = "GOT_LEN" /\ ~Fits))
  /\ UNCHANGED peerVars
-----------------------------------------------------------------------------
FramesNext == SendFrame \/ SendNoise \/ readTcpData

(* The loop in readTcpData runs over all that has come.                     *)
FramesFairness == WF_frameVars(readTcpData)

FramesSpec == FramesInit /\ [][FramesNext]_frameVars /\ FramesFairness
-----------------------------------------------------------------------------
(* What TC_CentServer composes again to hand it to the AQC program.         *)
msgOptFull(g) ==
  <<Sync1, Sync2, g.id, g.device, g.len>> \o g.msg \o <<g.bytes[Len(g.bytes)]>>

(* Nothing below is promised of Lan_Conn and WebServer_TcpClient once they  *)
(* have stored a byte behind the end of their msg (Lan_Conn.cpp:18, 143),   *)
(* as a frame of a longer payload makes them do.                            *)

(* Until then, whatever came before, what is handed on are the very bytes   *)
(* that came last, from the syncs to the sum, and the payload has the       *)
(* announced length, or one byte when that is 0.                            *)
HandedAsReceived ==
  ~beyond => \A i \in 1..Len(got) :
    LET g == got[i] IN
    /\ g.bytes = IF HasDevice(parser) THEN msgOptFull(g)
                 ELSE <<Sync1, Sync2, g.id, g.len>> \o g.msg \o <<g.bytes[Len(g.bytes)]>>
    /\ Len(g.msg) = IF g.len = 0 THEN 1 ELSE g.len

(* Until then, a frame with a payload that begins when nothing is being     *)
(* read is handed on once, at its last byte, and nothing else is; also when *)
(* it contains the syncs.                                                   *)
ActedOn(f) == parser \in {"Tcp_Client", "TC_CentServer"} \/ f.id \in Acted

HandedOnce ==
  ~beyond /\ clean /\ frame.payload # <<>> =>
    IF line # <<>> \/ ~ActedOn(frame) THEN got = <<>>
    ELSE Len(got) = 1 /\ got[1].id = frame.id /\ got[1].msg = frame.payload

(* Once the peer sends nothing but frames that have a payload and the first *)
(* sync only at their start, each is handed on in the end, whatever noise   *)
(* and whatever other frames came before, unless they or a length read in   *)
(* their midst have led behind the end of msg.                              *)
Plain(f) ==
  /\ f \in PeerFrames /\ f.payload # <<>>
  /\ \A b \in Range(Summed(f)) \cup {Total(Summed(f))} : b # Sync1

Resynchronises ==
  []~beyond /\ <>[](frame # NoFrame /\ Plain(frame)) /\ []<>(line = <<>>) /\ []<>(line # <<>>)
    => <>[](ActedOn(frame) /\ line = <<>> => Len(got) = 1)
=============================================================================
