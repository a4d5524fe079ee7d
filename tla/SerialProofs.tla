---------------------------- MODULE SerialProofs ----------------------------
(***************************************************************************)
(* Proofs about the byte protocols, for every width of a byte and all      *)
(* syncs.  Frames that are read: the fields of an automaton stay bytes,    *)
(* what it hands on are the bytes that it read, and a frame is handed on   *)
(* once; the invariant says of each state what was read since the first    *)
(* sync, and where in the frame that is.  Frames that are sent: who reads  *)
(* them from the start hears the messages; the invariant says where each   *)
(* frame begins.  Registers: the link implements a register file; the      *)
(* invariant says of a link that no restart disturbed what the card has    *)
(* made of the bytes it was sent, and what is read of the answer.          *)
(***************************************************************************)
EXTENDS Serial, SequenceTheorems, WellFoundedInduction, TLAPS

FrameHeader == IF HasDevice(parser) THEN <<Sync1, Sync2, msgID, msgDeviceID, msgLen>>
                               ELSE <<Sync1, Sync2, msgID, msgLen>>
Announced == IF msgLen = 0 THEN 1 ELSE msgLen

ReadSoFar ==
  /\ msgStatus = "UINIT" => since = <<>>
  /\ msgStatus = "GOT_SYNC1" => since = <<Sync1>>
  /\ msgStatus = "GOT_SYNC2" => since = <<Sync1, Sync2>>
  /\ msgStatus = "GOT_ID" => since = <<Sync1, Sync2, msgID>>
  /\ msgStatus = "GOT_DeviceID" =>
       HasDevice(parser) /\ since = <<Sync1, Sync2, msgID, msgDeviceID>>
  /\ msgStatus = "GOT_LEN" => since = FrameHeader \o msg /\ Len(msg) < Announced
  /\ msgStatus = "GOT_PAYLOAD" => since = FrameHeader \o msg /\ Len(msg) = Announced

FramesInv == FramesTypeOK /\ (~beyond => ReadSoFar) /\ HandedAsReceived

Handed == [id : Byte, device : Byte, len : Byte, msg : Seq(Byte), bytes : Seq(Byte)]

(* A byte plus a byte is a byte.                                            *)
LEMMA PlusInByte == ASSUME NEW a \in Byte, NEW b \in Byte PROVE Plus(a, b) \in Byte
  BY WidthAssumption DEF Byte, Plus

(* The last byte of a sequence that was extended.                           *)
LEMMA LastOfAppend ==
  ASSUME NEW h \in Seq(Byte), NEW m \in Seq(Byte), NEW b \in Byte
  PROVE  /\ Append(h \o m, b) = h \o m \o <<b>>
         /\ Append(h \o m, b)[Len(Append(h \o m, b))] = b
  OBVIOUS

(* Extending what follows a header extends the whole.                       *)
LEMMA AppendAfter ==
  ASSUME NEW h \in Seq(Byte), NEW m \in Seq(Byte), NEW b \in Byte
  PROVE  /\ Append(h \o m, b) = h \o Append(m, b)
         /\ Append(m, b) \in Seq(Byte) /\ Append(h \o m, b) \in Seq(Byte)
         /\ Len(Append(m, b)) = Len(m) + 1
  OBVIOUS

(* The sequences that are read before the payload.                          *)
LEMMA OneRead == ASSUME NEW a \in Byte
                 PROVE  Append(<<>>, a) = <<a>> /\ <<>> \in Seq(Byte) /\ <<a>> \in Seq(Byte)
  OBVIOUS

LEMMA TwoRead ==
  ASSUME NEW a \in Byte, NEW b \in Byte
  PROVE  Append(<<a>>, b) = <<a, b>> /\ <<a, b>> \in Seq(Byte)
<1>1. /\ Append(<<a>>, b) \in Seq(Byte) /\ Len(Append(<<a>>, b)) = 2
      /\ <<a, b>> \in Seq(Byte) /\ Len(<<a, b>>) = 2
  OBVIOUS
<1>2. \A i \in 1..2 : Append(<<a>>, b)[i] = <<a, b>>[i]
  OBVIOUS
<1>. QED BY <1>1, <1>2, SeqEqual

LEMMA ThreeRead ==
  ASSUME NEW a \in Byte, NEW b \in Byte, NEW c \in Byte
  PROVE  Append(<<a, b>>, c) = <<a, b, c>> /\ <<a, b, c>> \in Seq(Byte)
<1>1. /\ Append(<<a, b>>, c) \in Seq(Byte) /\ Len(Append(<<a, b>>, c)) = 3
      /\ <<a, b, c>> \in Seq(Byte) /\ Len(<<a, b, c>>) = 3
  OBVIOUS
<1>2. \A i \in 1..3 : Append(<<a, b>>, c)[i] = <<a, b, c>>[i]
  OBVIOUS
<1>. QED BY <1>1, <1>2, SeqEqual

LEMMA FourRead ==
  ASSUME NEW a \in Byte, NEW b \in Byte, NEW c \in Byte, NEW d \in Byte
  PROVE  Append(<<a, b, c>>, d) = <<a, b, c, d>> /\ <<a, b, c, d>> \in Seq(Byte)
<1>1. /\ Append(<<a, b, c>>, d) \in Seq(Byte) /\ Len(Append(<<a, b, c>>, d)) = 4
      /\ <<a, b, c, d>> \in Seq(Byte) /\ Len(<<a, b, c, d>>) = 4
  OBVIOUS
<1>2. \A i \in 1..4 : Append(<<a, b, c>>, d)[i] = <<a, b, c, d>>[i]
  OBVIOUS
<1>. QED BY <1>1, <1>2, SeqEqual

LEMMA FiveRead ==
  ASSUME NEW a \in Byte, NEW b \in Byte, NEW c \in Byte, NEW d \in Byte, NEW e \in Byte
  PROVE  Append(<<a, b, c, d>>, e) = <<a, b, c, d, e>> /\ <<a, b, c, d, e>> \in Seq(Byte)
<1>1. /\ Append(<<a, b, c, d>>, e) \in Seq(Byte) /\ Len(Append(<<a, b, c, d>>, e)) = 5
      /\ <<a, b, c, d, e>> \in Seq(Byte) /\ Len(<<a, b, c, d, e>>) = 5
  OBVIOUS
<1>2. \A i \in 1..5 : Append(<<a, b, c, d>>, e)[i] = <<a, b, c, d, e>>[i]
  OBVIOUS
<1>. QED BY <1>1, <1>2, SeqEqual

(* What the peer puts on the line are bytes.                                *)
LEMMA LineOfBytes ==
  ASSUME FramesInv, SendFrame \/ SendNoise
  PROVE  line' \in Seq(Byte) /\ frame' \in PeerFrames \cup {NoFrame} /\ noise' \in 0..MaxNoise
<1>1. CASE SendNoise
  BY <1>1, FrameAssumption DEF SendNoise, FramesInv, FramesTypeOK, Byte
<1>2. CASE SendFrame
  <2>1. PICK f \in PeerFrames, sum \in Byte :
          frame' = f /\ line' = <<Sync1, Sync2>> \o Summed(f) \o <<sum>>
    BY <1>2 DEF SendFrame
  <2>2. f \in Frame /\ Len(f.payload) \in Byte
    BY FrameAssumption, WidthAssumption DEF Frame, Byte
  <2>3. Summed(f) \in Seq(Byte)
    BY <2>2 DEF Summed, Frame
  <2>4. <<Sync1, Sync2>> \in Seq(Byte) /\ <<sum>> \in Seq(Byte)
    BY FrameAssumption
  <2>5. line' \in Seq(Byte)
    BY <2>1, <2>3, <2>4
  <2>6. noise' \in 0..MaxNoise
    BY <1>2 DEF SendFrame, FramesInv, FramesTypeOK
  <2>. QED BY <2>1, <2>5, <2>6
<1>. QED BY <1>1, <1>2

(* Whether the frame that was read is one to act on.                        *)
Acts == parser \in {"Tcp_Client", "TC_CentServer"} \/ msgID \in Acted

(* The step of the automaton, whichever parser reads.                       *)
Case(b) ==
  \/ Uninit(b) \/ GotSync1(b) \/ GotSync2(b)
  \/ HasDevice(parser) /\ GotID(b)
  \/ /\ msgStatus = IF HasDevice(parser) THEN "GOT_DeviceID" ELSE "GOT_ID"
     /\ Length(b)
  \/ GotLen(b)
  \/ GotPayload(b, Acts)

LEMMA ReadIsCase ==
  ASSUME FramesInv, readTcpData
  PROVE  /\ Head(line) \in Byte
         /\ Case(Head(line)) \/ GotLen_Beyond(Head(line))
         /\ ~beyond' => Case(Head(line)) /\ ~beyond
<1>1. Head(line) \in Byte
  BY DEF readTcpData, FramesInv, FramesTypeOK
<1>2. ASSUME NEW b, Tcp_Client_Parse_Byte(b) PROVE Case(b) \/ GotLen_Beyond(b)
  BY <1>2 DEF Tcp_Client_Parse_Byte, Short, Case, HasDevice, Acts, GotPayload
<1>3. ASSUME NEW b, TC_CentServer_Parse_Byte(b) PROVE Case(b)
  BY <1>3 DEF TC_CentServer_Parse_Byte, Case, HasDevice, Acts, GotPayload
<1>4. ASSUME NEW b, Lan_Conn_Parse_Byte(b) PROVE Case(b) \/ GotLen_Beyond(b)
  BY <1>4 DEF Lan_Conn_Parse_Byte, Short, Case, HasDevice, Acts, GotPayload
<1>5. ASSUME NEW b, WebServer_Parse_Byte(b) PROVE Case(b) \/ GotLen_Beyond(b)
  BY <1>5 DEF WebServer_Parse_Byte, Short, Case, HasDevice, Acts, GotPayload
<1>6. Case(Head(line)) \/ GotLen_Beyond(Head(line))
  BY <1>2, <1>3, <1>4, <1>5 DEF readTcpData
<1>7. ASSUME ~beyond' PROVE ~GotLen_Beyond(Head(line)) /\ ~beyond
  BY <1>7 DEF readTcpData, GotLen_Beyond
<1>. QED BY <1>1, <1>6, <1>7

(* The fields stay bytes, also behind the end of msg.                       *)
FieldsOK ==
  /\ msgStatus \in Status /\ msgID \in Byte /\ msgDeviceID \in Byte /\ msgLen \in Byte
  /\ CheckSumm \in Byte /\ msg \in Seq(Byte) /\ since \in Seq(Byte) /\ got \in Seq(Handed)

LEMMA CaseTypes ==
  ASSUME FramesTypeOK, NEW b \in Byte, Case(b) \/ GotLen_Beyond(b)
  PROVE  FieldsOK'
<1>0. FieldsOK
  BY DEF FramesTypeOK, FieldsOK, Handed
<1>1. Plus(CheckSumm, b) \in Byte /\ Plus(b, b) \in Byte /\ Plus(b, 1) \in Byte /\ 0 \in Byte
  <2>1. 0 \in Byte /\ 1 \in Byte
    BY WidthAssumption DEF Byte
  <2>2. QED
    BY <1>0, <2>1, PlusInByte DEF FieldsOK
<1>2. /\ Append(since, b) \in Seq(Byte) /\ Append(msg, b) \in Seq(Byte) /\ <<>> \in Seq(Byte)
  BY <1>0 DEF FieldsOK
<1>3. CASE Uninit(b)
  BY <1>0, <1>2, <1>3 DEF Uninit, Take, fields, FieldsOK, Status
<1>4. CASE GotSync1(b)
  BY <1>0, <1>1, <1>2, <1>4 DEF GotSync1, Take, Restart, FieldsOK, Status
<1>5. CASE GotSync2(b)
  BY <1>0, <1>1, <1>2, <1>5 DEF GotSync2, Take, Counted, FieldsOK, Status
<1>6. CASE GotID(b)
  BY <1>0, <1>1, <1>2, <1>6 DEF GotID, Take, Counted, FieldsOK, Status
<1>7. CASE Length(b)
  BY <1>0, <1>1, <1>2, <1>7 DEF Length, Take, Counted, FieldsOK, Status
<1>8. CASE GotLen(b)
  BY <1>0, <1>1, <1>2, <1>8 DEF GotLen, Take, Counted, FieldsOK, Status
<1>9. CASE GotPayload(b, Acts)
  <2> DEFINE g == [id |-> msgID, device |-> msgDeviceID, len |-> msgLen,
                   msg |-> msg, bytes |-> Append(since, b)]
  <2>1. g \in Handed
    BY <1>0, <1>2 DEF FieldsOK, Handed
  <2> HIDE DEF g
  <2>2. Append(got, g) \in Seq(Handed)
    BY <1>0, <2>1 DEF FieldsOK
  <2>3. got' = got \/ got' = Append(got, g)
    BY <1>9 DEF GotPayload, g
  <2>4. got' \in Seq(Handed)
    BY <1>0, <2>2, <2>3 DEF FieldsOK
  <2>5. QED
    BY <1>0, <1>2, <1>9, <2>4 DEF GotPayload, Restart, fields, FieldsOK, Status
<1>10. CASE GotLen_Beyond(b)
  <2>1. PICK hit \in {"other", "msgStatus", "msgID", "msgLen", "CheckSumm", "msgIndex"} :
          /\ msgID' = IF hit = "msgID" THEN b ELSE msgID
          /\ msgLen' = IF hit = "msgLen" THEN b ELSE msgLen
          /\ CheckSumm' = Plus(IF hit = "CheckSumm" THEN b ELSE CheckSumm, b)
          /\ msg' = IF hit # "msgIndex" THEN Append(msg, b)
                    ELSE [i \in 1..Plus(b, 1) |-> IF i <= Len(msg) THEN msg[i] ELSE b]
          /\ \E to \in Status :
               /\ hit # "msgStatus" => to = "GOT_LEN"
               /\ msgStatus' = IF Len(msg') >= msgLen' THEN "GOT_PAYLOAD" ELSE to
    BY <1>10, Zenon DEF GotLen_Beyond
  <2>2. msgStatus' \in Status
    <3>1. "GOT_PAYLOAD" \in Status
      BY DEF Status
    <3>2. PICK to \in Status :
            msgStatus' = IF Len(msg') >= msgLen' THEN "GOT_PAYLOAD" ELSE to
      BY <2>1
    <3>3. QED
      BY <3>1, <3>2
  <2>3. CheckSumm' \in Byte
    BY <1>1, <2>1
  <2>4. [i \in 1..Plus(b, 1) |-> IF i <= Len(msg) THEN msg[i] ELSE b] \in Seq(Byte)
    <3>1. Plus(b, 1) \in Nat /\ msg \in Seq(Byte)
      BY <1>0, <1>1 DEF Byte, FieldsOK
    <3>2. \A i \in 1..Plus(b, 1) : (IF i <= Len(msg) THEN msg[i] ELSE b) \in Byte
      BY <3>1
    <3>3. QED
      BY <3>1, <3>2
  <2>5. msg' \in Seq(Byte)
    BY <1>2, <2>1, <2>4
  <2>6. since' = <<>> /\ UNCHANGED <<msgDeviceID, got>>
    BY <1>10 DEF GotLen_Beyond
  <2>7. msgID' \in Byte /\ msgLen' \in Byte
    BY <1>0, <2>1 DEF FieldsOK
  <2>8. QED
    BY <1>0, <1>2, <2>2, <2>3, <2>5, <2>6, <2>7 DEF FieldsOK
<1>11. QED
  BY <1>3, <1>4, <1>5, <1>6, <1>7, <1>8, <1>9, <1>10 DEF Case

(* What the automaton has read stays described by its state.                *)
LEMMA CaseKeeps ==
  ASSUME FramesTypeOK, ReadSoFar, NEW b \in Byte, Case(b), UNCHANGED parser
  PROVE  /\ ReadSoFar' /\ msgStatus' \in Status
         /\ msgID' \in Byte /\ msgDeviceID' \in Byte /\ msgLen' \in Byte
         /\ CheckSumm' \in Byte /\ msg' \in Seq(Byte) /\ since' \in Seq(Byte)
<1>0. /\ msgStatus \in Status /\ msgID \in Byte /\ msgDeviceID \in Byte /\ msgLen \in Byte
      /\ CheckSumm \in Byte /\ msg \in Seq(Byte) /\ since \in Seq(Byte)
  BY DEF FramesTypeOK
<1>1. Plus(CheckSumm, b) \in Byte /\ 0 \in Byte
  <2>1. Plus(CheckSumm, b) \in Byte
    BY <1>0, PlusInByte
  <2>2. 0 \in Byte
    BY WidthAssumption DEF Byte
  <2>. QED BY <2>1, <2>2
<1>2. Sync1 \in Byte /\ Sync2 \in Byte
  BY FrameAssumption
<1>3. CASE Uninit(b)
  <2>1. since = <<>> /\ UNCHANGED fields
    BY <1>3 DEF Uninit, ReadSoFar
  <2>2. CASE b = Sync1
    <3>1. msgStatus' = "GOT_SYNC1" /\ since' = <<Sync1>>
      BY <1>2, <1>3, <2>1, <2>2, OneRead DEF Uninit, Take
    <3>. QED BY <1>0, <1>2, <2>1, <3>1, OneRead DEF fields, ReadSoFar, Status
  <2>3. CASE b # Sync1
    BY <1>0, <1>3, <2>1, <2>3 DEF Uninit, fields, ReadSoFar
  <2>. QED BY <2>2, <2>3
<1>4. CASE GotSync1(b)
  <2>1. since = <<Sync1>>
    BY <1>4 DEF GotSync1, ReadSoFar
  <2>2. CASE b = Sync2
    <3>1. msgStatus' = "GOT_SYNC2" /\ since' = <<Sync1, Sync2>>
      BY <1>2, <1>4, <2>1, <2>2, TwoRead DEF GotSync1, Take
    <3>. QED BY <1>0, <1>1, <1>2, <1>4, <2>2, <3>1, TwoRead DEF GotSync1, ReadSoFar, Status
  <2>3. CASE b # Sync2
    <3>1. msgStatus' = "UINIT" /\ since' = <<>> /\ since' \in Seq(Byte)
      BY <1>2, <1>4, <2>3, OneRead DEF GotSync1, Restart
    <3>. QED BY <1>0, <1>4, <2>3, <3>1 DEF GotSync1, ReadSoFar, Status
  <2>. QED BY <2>2, <2>3
<1>5. CASE GotSync2(b)
  <2>1. since = <<Sync1, Sync2>>
    BY <1>5 DEF GotSync2, ReadSoFar
  <2>2. msgStatus' = "GOT_ID" /\ msgID' = b /\ since' = <<Sync1, Sync2, msgID'>>
    BY <1>2, <1>5, <2>1, ThreeRead DEF GotSync2, Take
  <2>3. since' \in Seq(Byte)
    BY <1>2, <2>2, ThreeRead
  <2>. QED BY <1>0, <1>1, <1>5, <2>2, <2>3 DEF GotSync2, Counted, ReadSoFar, Status
<1>6. CASE HasDevice(parser) /\ GotID(b)
  <2>1. since = <<Sync1, Sync2, msgID>>
    BY <1>6 DEF GotID, ReadSoFar
  <2>2. /\ msgStatus' = "GOT_DeviceID" /\ msgDeviceID' = b /\ UNCHANGED msgID
        /\ since' = <<Sync1, Sync2, msgID', msgDeviceID'>>
    BY <1>0, <1>2, <1>6, <2>1, FourRead DEF GotID, Take
  <2>3. since' \in Seq(Byte)
    BY <1>0, <1>2, <2>2, FourRead
  <2>. QED BY <1>0, <1>1, <1>6, <2>2, <2>3 DEF GotID, Counted, ReadSoFar, HasDevice, Status
<1>7. CASE /\ msgStatus = IF HasDevice(parser) THEN "GOT_DeviceID" ELSE "GOT_ID"
           /\ Length(b)
  <2>1. /\ msgStatus' = "GOT_LEN" /\ msg' = <<>> /\ msgLen' = b
        /\ UNCHANGED <<msgID, msgDeviceID>> /\ since' = Append(since, b)
        /\ CheckSumm' = Plus(CheckSumm, b)
    BY <1>7 DEF Length, Take, Counted
  <2>2. FrameHeader' = since' /\ since' \in Seq(Byte)
    <3>1. CASE HasDevice(parser)
      <4>1. since = <<Sync1, Sync2, msgID, msgDeviceID>>
        BY <1>7, <3>1 DEF ReadSoFar
      <4>2. since' = <<Sync1, Sync2, msgID, msgDeviceID, b>> /\ since' \in Seq(Byte)
        BY <1>0, <1>2, <2>1, <4>1, FiveRead
      <4>. QED BY <2>1, <3>1, <4>2 DEF FrameHeader, HasDevice
    <3>2. CASE ~HasDevice(parser)
      <4>1. since = <<Sync1, Sync2, msgID>>
        BY <1>7, <3>2 DEF ReadSoFar
      <4>2. since' = <<Sync1, Sync2, msgID, b>> /\ since' \in Seq(Byte)
        BY <1>0, <1>2, <2>1, <4>1, FourRead
      <4>. QED BY <2>1, <3>2, <4>2 DEF FrameHeader, HasDevice
    <3>. QED BY <3>1, <3>2
  <2>3. since' = FrameHeader' \o msg' /\ Len(msg') = 0 /\ msg' \in Seq(Byte)
    BY <2>1, <2>2
  <2>4. Len(msg') < Announced'
    BY <2>1, <2>3 DEF Announced, Byte
  <2>. QED BY <1>0, <1>1, <2>1, <2>2, <2>3, <2>4 DEF ReadSoFar, Status
<1>8. CASE GotLen(b)
  <2>1. FrameHeader \in Seq(Byte) /\ FrameHeader' = FrameHeader /\ Announced' = Announced
    BY <1>0, <1>2, <1>8 DEF GotLen, FrameHeader, HasDevice, Announced
  <2>2. since = FrameHeader \o msg /\ Len(msg) < Announced
    BY <1>8 DEF GotLen, ReadSoFar
  <2>3. /\ since' = FrameHeader \o msg' /\ since' \in Seq(Byte)
        /\ msg' \in Seq(Byte) /\ Len(msg') = Len(msg) + 1
    BY <1>0, <1>8, <2>1, <2>2, AppendAfter DEF GotLen, Take
  <2>4. msgStatus' = IF Len(msg') >= msgLen THEN "GOT_PAYLOAD" ELSE "GOT_LEN"
    BY <1>8 DEF GotLen, Take
  <2>5. /\ Len(msg') >= msgLen => Len(msg') = Announced
        /\ ~(Len(msg') >= msgLen) => Len(msg') < Announced
    BY <1>0, <2>2, <2>3 DEF Announced, Byte
  <2>. QED BY <1>0, <1>1, <1>8, <2>1, <2>3, <2>4, <2>5 DEF GotLen, Counted, ReadSoFar, Status
<1>9. CASE GotPayload(b, Acts)
  <2>1. msgStatus' = "UINIT" /\ since' = <<>> /\ UNCHANGED fields /\ since' \in Seq(Byte)
    BY <1>9, OneRead DEF GotPayload, Restart
  <2>. QED BY <1>0, <2>1 DEF fields, ReadSoFar, Status
<1>. QED BY <1>3, <1>4, <1>5, <1>6, <1>7, <1>8, <1>9 DEF Case

(* What is handed on is what was read.                                      *)
Right(g) ==
  /\ g.bytes = IF HasDevice(parser) THEN msgOptFull(g)
               ELSE <<Sync1, Sync2, g.id, g.len>> \o g.msg \o <<g.bytes[Len(g.bytes)]>>
  /\ Len(g.msg) = IF g.len = 0 THEN 1 ELSE g.len

LEMMA CaseHands ==
  ASSUME FramesInv, ~beyond, NEW b \in Byte, Case(b), UNCHANGED parser
  PROVE  got' \in Seq(Handed) /\ \A i \in 1..Len(got') : Right(got'[i])
<1>. DEFINE g == [id |-> msgID, device |-> msgDeviceID, len |-> msgLen,
                  msg |-> msg, bytes |-> Append(since, b)]
<1>1. got \in Seq(Handed) /\ \A i \in 1..Len(got) : Right(got[i])
  BY DEF FramesInv, FramesTypeOK, Handed, HandedAsReceived, Right
<1>2. got' = got \/ (got' = Append(got, g) /\ msgStatus = "GOT_PAYLOAD")
  BY DEF Case, Uninit, GotSync1, GotSync2, GotID, Length, GotLen, GotPayload
<1>3. ASSUME got' = Append(got, g), msgStatus = "GOT_PAYLOAD"
      PROVE  g \in Handed /\ Right(g)
  <2>1. since = FrameHeader \o msg /\ Len(msg) = Announced
    BY <1>3 DEF FramesInv, ReadSoFar
  <2>2. /\ msg \in Seq(Byte) /\ msgID \in Byte /\ msgDeviceID \in Byte
        /\ msgLen \in Byte /\ since \in Seq(Byte)
    BY DEF FramesInv, FramesTypeOK
  <2>3. FrameHeader \in Seq(Byte)
    BY <2>2, FrameAssumption DEF FrameHeader
  <2>4. g.bytes = FrameHeader \o msg \o <<b>> /\ g.bytes[Len(g.bytes)] = b
    BY <2>1, <2>2, <2>3, LastOfAppend
  <2>5. g \in Handed
    BY <2>2 DEF Handed
  <2>6. Right(g)
    BY <2>1, <2>4 DEF Right, FrameHeader, Announced, msgOptFull
  <2>. QED BY <2>5, <2>6
<1>4. CASE got' = got
  BY <1>1, <1>4
<1>5. CASE got' = Append(got, g) /\ msgStatus = "GOT_PAYLOAD"
  <2>. HIDE DEF g
  <2>1. g \in Handed /\ Right(g)
    BY <1>3, <1>5
  <2>2. \A i \in 1..Len(got') : got'[i] = IF i = Len(got) + 1 THEN g ELSE got[i]
    BY <1>1, <1>5
  <2>3. \A i \in 1..Len(got') : i = Len(got) + 1 \/ i \in 1..Len(got)
    BY <1>1, <1>5
  <2>4. \A i \in 1..Len(got') : Right(got'[i])
    BY <1>1, <2>1, <2>2, <2>3
  <2>. QED BY <1>1, <1>5, <2>1, <2>4
<1>. QED BY <1>2, <1>4, <1>5

LEMMA FramesInvInit == FramesInit => FramesInv
<1>. SUFFICES ASSUME FramesInit PROVE FramesInv
  OBVIOUS
<1>1. 0 \in Byte /\ 0 \in 0..MaxNoise
  BY WidthAssumption, FrameAssumption DEF Byte
<1>2. FramesTypeOK
  <2>1. got \in Seq(Handed) /\ line \in Seq(Byte) /\ msg \in Seq(Byte) /\ since \in Seq(Byte)
    BY DEF FramesInit
  <2>. QED BY <1>1, <2>1 DEF FramesInit, FramesTypeOK, Status, Handed
<1>3. ReadSoFar
  BY DEF FramesInit, ReadSoFar
<1>4. HandedAsReceived
  BY DEF FramesInit, HandedAsReceived
<1>. QED BY <1>2, <1>3, <1>4 DEF FramesInv

LEMMA FramesInvNext == FramesInv /\ [FramesNext]_frameVars => FramesInv'
<1>. SUFFICES ASSUME FramesInv, [FramesNext]_frameVars PROVE FramesInv'
  OBVIOUS
<1>1. CASE SendFrame \/ SendNoise
  <2>1. line' \in Seq(Byte) /\ frame' \in PeerFrames \cup {NoFrame} /\ noise' \in 0..MaxNoise
    BY <1>1, LineOfBytes
  <2>2. /\ got' = <<>> /\ clean' \in BOOLEAN
        /\ UNCHANGED <<parser, msgStatus, fields, beyond, since>>
    BY <1>1 DEF SendFrame, SendNoise
  <2>3. FramesTypeOK'
    BY <2>1, <2>2 DEF FramesInv, FramesTypeOK, fields
  <2>4. ~beyond' => ReadSoFar'
    BY <2>2 DEF FramesInv, ReadSoFar, fields, FrameHeader, Announced, HasDevice
  <2>5. HandedAsReceived'
    BY <2>2 DEF HandedAsReceived
  <2>. QED BY <2>3, <2>4, <2>5 DEF FramesInv
<1>2. CASE readTcpData
  <2>. DEFINE b == Head(line)
  <2>1. /\ b \in Byte /\ (Case(b) \/ GotLen_Beyond(b))
        /\ ~beyond' => Case(b) /\ ~beyond
    BY <1>2, ReadIsCase
  <2>. HIDE DEF b
  <2>2. UNCHANGED peerVars /\ line' \in Seq(Byte) /\ beyond' \in BOOLEAN
    BY <1>2 DEF readTcpData, FramesInv, FramesTypeOK
  <2>3. FieldsOK'
    <3>1. FramesTypeOK
      BY DEF FramesInv
    <3>2. CASE Case(b)
      BY <2>1, <3>1, <3>2, CaseTypes
    <3>3. CASE GotLen_Beyond(b)
      BY <2>1, <3>1, <3>3, CaseTypes
    <3>4. QED
      BY <2>1, <3>2, <3>3
  <2>4. ASSUME ~beyond'
        PROVE  ReadSoFar' /\ \A i \in 1..Len(got') : Right(got'[i])
    <3>1. Case(b) /\ ReadSoFar /\ FramesTypeOK /\ ~beyond /\ UNCHANGED parser
      BY <2>1, <2>2, <2>4 DEF FramesInv, peerVars
    <3>2. ReadSoFar'
      BY <2>1, <3>1, CaseKeeps
    <3>3. \A i \in 1..Len(got') : Right(got'[i])
      BY <2>1, <3>1, CaseHands
    <3>4. QED
      BY <3>2, <3>3
  <2>5. FramesTypeOK'
    BY <2>2, <2>3 DEF FramesInv, FramesTypeOK, FieldsOK, Handed, peerVars
  <2>6. HandedAsReceived'
    BY <2>2, <2>4 DEF HandedAsReceived, Right, peerVars, HasDevice, msgOptFull
  <2>. QED BY <2>4, <2>5, <2>6 DEF FramesInv
<1>3. CASE UNCHANGED frameVars
  BY <1>3 DEF FramesInv, FramesTypeOK, ReadSoFar, HandedAsReceived, frameVars, fields,
              FrameHeader, Announced, HasDevice, msgOptFull
<1>. QED BY <1>1, <1>2, <1>3 DEF FramesNext

-----------------------------------------------------------------------------
(* A set of numbers that holds 0 and what follows each of its members up to *)
(* n holds n.                                                               *)
LEMMA Reaches ==
  ASSUME NEW S, NEW n \in Nat, 0 \in S, \A k \in 0..n : k \in S /\ k < n => k + 1 \in S
  PROVE  n \in S
<1> DEFINE T == {k \in 0..n : k \notin S}
<1>1. SUFFICES ASSUME n \notin S PROVE FALSE
  OBVIOUS
<1>2. T \subseteq Nat /\ n \in T
  BY <1>1
<1>3. \E x \in T : \A y \in T : <<y, x>> \notin OpToRel(<, Nat)
  <2>1. T # {}
    BY <1>2
  <2> HIDE DEF T
  <2>2. QED
    BY <1>2, <2>1, WFMin, NatLessThanWellFounded, Zenon
<1>4. \A x, y \in Nat : y < x => <<y, x>> \in OpToRel(<, Nat)
  BY DEF OpToRel
<1>5. PICK x \in T : \A y \in T : ~(y < x)
  <2>1. T \subseteq Nat
    BY <1>2
  <2> HIDE DEF T
  <2>2. QED
    BY <1>3, <1>4, <2>1, Zenon
<1>6. x \in 1..n /\ x - 1 \in 0..n /\ x - 1 < x
  OBVIOUS
<1>7. QED
  BY <1>5, <1>6

(* A function that is made step by step from a base exists, and so are all  *)
(* its values of the kind that a step makes of one of that kind.            *)
MadeBy(f, S, base, n, step) ==
  /\ f \in [0..n -> S] /\ f[0] = base
  /\ \A k \in 1..n : f[k] = step[<<f[k - 1], k>>]

LEMMA StepsExist ==
  ASSUME NEW S, NEW base \in S, NEW n \in Nat, NEW step \in [S \X (1..n) -> S]
  PROVE  \E f : MadeBy(f, S, base, n, step)
<1> DEFINE Made(f, m) == MadeBy(f, S, base, m, step)
           T == {m \in 0..n : \E f : Made(f, m)}
<1>1. 0 \in T
  <2>1. Made([k \in 0..0 |-> base], 0)
    BY DEF MadeBy
  <2> HIDE DEF Made
  <2>2. QED
    BY <2>1
<1>2. ASSUME NEW m \in 0..n, m \in T, m < n PROVE m + 1 \in T
  <2>1. PICK f : Made(f, m)
    BY <1>2
  <2> DEFINE v == step[<<f[m], m + 1>>]
             g == [k \in 0..(m + 1) |-> IF k = m + 1 THEN v ELSE f[k]]
  <2>2. v \in S /\ m + 1 \in 1..n
    <3>1. f[m] \in S /\ m + 1 \in 1..n
      BY <1>2, <2>1 DEF MadeBy
    <3>2. <<f[m], m + 1>> \in S \X (1..n)
      BY <3>1
    <3>3. QED
      BY <3>1, <3>2
  <2> HIDE DEF v
  <2>3. g \in [0..(m + 1) -> S] /\ g[0] = base
    BY <2>1, <2>2 DEF MadeBy
  <2>4. \A k \in 1..(m + 1) : g[k] = step[<<g[k - 1], k>>]
    <3> SUFFICES ASSUME NEW k \in 1..(m + 1) PROVE g[k] = step[<<g[k - 1], k>>]
      OBVIOUS
    <3>1. k - 1 \in 0..m /\ g[k - 1] = f[k - 1]
      OBVIOUS
    <3>2. CASE k = m + 1
      <4>1. g[k] = v /\ k - 1 = m
        BY <3>2
      <4>2. QED
        BY <3>1, <3>2, <4>1 DEF v
    <3>3. CASE k # m + 1
      <4>1. k \in 1..m /\ g[k] = f[k]
        BY <3>3
      <4>2. QED
        BY <2>1, <3>1, <4>1 DEF MadeBy
    <3>4. QED
      BY <3>2, <3>3
  <2> HIDE DEF g
  <2>5. Made(g, m + 1)
    BY <2>3, <2>4 DEF MadeBy
  <2>6. QED
    BY <1>2, <2>5
<1>3. n \in T
  <2> HIDE DEF T
  <2>1. QED
    BY <1>1, <1>2, Reaches
<1>4. QED
  BY <1>3

LEMMA StepsIn ==
  ASSUME NEW S, NEW n \in Nat, NEW f, f[0] \in S,
         \A k \in 1..n : f[k - 1] \in S => f[k] \in S
  PROVE  \A k \in 0..n : f[k] \in S
<1> DEFINE T == {k \in 0..n : f[k] \in S}
<1>1. 0 \in T
  OBVIOUS
<1>2. ASSUME NEW k \in 0..n, k \in T, k < n PROVE k + 1 \in T
  <2>1. k + 1 \in 1..n /\ (k + 1) - 1 = k
    BY <1>2
  <2>2. QED
    BY <1>2, <2>1
<1>3. \A m \in 0..n : m \in T
  <2> SUFFICES ASSUME NEW m \in 0..n PROVE m \in T
    OBVIOUS
  <2>1. m \in Nat /\ \A k \in 0..m : k \in T /\ k < m => k + 1 \in T
    BY <1>2
  <2> HIDE DEF T
  <2>2. QED
    BY <1>1, <2>1, Reaches
<1>4. QED
  BY <1>3

(* The sums of the first bytes of s.                                        *)
SumsStep(s) ==
  Sums(s)[0] = 0 /\ \A k \in 1..Len(s) : Sums(s)[k] = Plus(Sums(s)[k - 1], s[k])

LEMMA SumsAre ==
  ASSUME NEW s \in Seq(Byte)
  PROVE  SumsStep(s) /\ \A k \in 0..Len(s) : Sums(s)[k] \in Byte
<1> DEFINE E(f) == f = [n \in 0..Len(s) |-> IF n = 0 THEN 0 ELSE Plus(f[n - 1], s[n])]
           step == [x \in Byte \X (1..Len(s)) |-> Plus(x[1], s[x[2]])]
<1>1. Len(s) \in Nat /\ 0 \in Byte /\ \A k \in 1..Len(s) : s[k] \in Byte
  BY WidthAssumption DEF Byte
<1>2. step \in [Byte \X (1..Len(s)) -> Byte]
  BY <1>1, PlusInByte
<1>3. \A x \in Byte, k \in 1..Len(s) : step[<<x, k>>] = Plus(x, s[k])
  OBVIOUS
<1> HIDE DEF step
<1>4. PICK f : MadeBy(f, Byte, 0, Len(s), step)
  <2> DEFINE N == Len(s)
  <2>1. N \in Nat /\ 0 \in Byte /\ step \in [Byte \X (1..N) -> Byte]
    BY <1>1, <1>2
  <2> HIDE DEF N
  <2>2. \E f : MadeBy(f, Byte, 0, N, step)
    BY <2>1, StepsExist
  <2>3. QED
    BY <2>2 DEF N
<1>5. E(f)
  BY <1>1, <1>3, <1>4 DEF MadeBy
<1>6. Sums(s) = CHOOSE h : E(h)
  BY DEF Sums
<1>7. E(Sums(s))
  <2> HIDE DEF E
  <2>1. QED
    BY <1>5, <1>6
<1> DEFINE h == Sums(s)
<1>8. h[0] = 0 /\ \A k \in 1..Len(s) : h[k] = Plus(h[k - 1], s[k])
  BY <1>1, <1>7
<1> HIDE DEF h
<1>9. \A k \in 1..Len(s) : h[k - 1] \in Byte => h[k] \in Byte
  BY <1>1, <1>8, PlusInByte
<1>10. \A k \in 0..Len(s) : h[k] \in Byte
  BY <1>1, <1>8, <1>9, StepsIn
<1>11. QED
  BY <1>8, <1>10 DEF h, SumsStep
-----------------------------------------------------------------------------
(* A frame that begins when nothing is being read.                          *)
Whole(f) == <<Sync1, Sync2>> \o Summed(f) \o <<Total(Summed(f))>>
Fixed    == IF HasDevice(parser) THEN 5 ELSE 4

LEMMA Joined ==
  ASSUME NEW S, NEW s \in Seq(S), NEW t \in Seq(S)
  PROVE  /\ s \o t \in Seq(S) /\ Len(s \o t) = Len(s) + Len(t)
         /\ \A k \in 1..Len(s) : (s \o t)[k] = s[k]
         /\ \A k \in 1..Len(t) : (s \o t)[Len(s) + k] = t[k]
  OBVIOUS

LEMMA JoinedThree ==
  ASSUME NEW S, NEW r \in Seq(S), NEW s \in Seq(S), NEW t \in Seq(S)
  PROVE  /\ r \o s \o t \in Seq(S) /\ Len(r \o s \o t) = Len(r) + Len(s) + Len(t)
         /\ \A k \in 1..Len(r) : (r \o s \o t)[k] = r[k]
         /\ \A k \in 1..Len(s) : (r \o s \o t)[Len(r) + k] = s[k]
         /\ \A k \in 1..Len(t) : (r \o s \o t)[Len(r) + Len(s) + k] = t[k]
<1>1. /\ r \o s \in Seq(S) /\ Len(r \o s) = Len(r) + Len(s)
      /\ \A k \in 1..Len(r) : (r \o s)[k] = r[k]
      /\ \A k \in 1..Len(s) : (r \o s)[Len(r) + k] = s[k]
  BY Joined
<1> DEFINE u == r \o s
<1> HIDE DEF u
<1>2. /\ u \o t \in Seq(S) /\ Len(u \o t) = Len(u) + Len(t)
      /\ \A k \in 1..Len(u) : (u \o t)[k] = u[k]
      /\ \A k \in 1..Len(t) : (u \o t)[Len(u) + k] = t[k]
  BY <1>1, Joined DEF u
<1>3. Len(r) \in Nat /\ Len(s) \in Nat /\ Len(t) \in Nat
  OBVIOUS
<1>4. /\ \A k \in 1..Len(r) : k \in 1..Len(u)
      /\ \A k \in 1..Len(s) : Len(r) + k \in 1..Len(u)
  BY <1>1, <1>3 DEF u
<1>5. /\ \A k \in 1..Len(r) : (u \o t)[k] = r[k]
      /\ \A k \in 1..Len(s) : (u \o t)[Len(r) + k] = s[k]
  BY <1>1, <1>2, <1>4 DEF u
<1>6. QED
  BY <1>1, <1>2, <1>5 DEF u

LEMMA Concat ==
  ASSUME NEW s \in Seq(Byte), NEW t \in Seq(Byte)
  PROVE  /\ s \o t \in Seq(Byte) /\ Len(s \o t) = Len(s) + Len(t)
         /\ \A k \in 1..Len(s) : (s \o t)[k] = s[k]
         /\ \A k \in 1..Len(t) : (s \o t)[Len(s) + k] = t[k]
  OBVIOUS

LEMMA ConcatThree ==
  ASSUME NEW r \in Seq(Byte), NEW s \in Seq(Byte), NEW t \in Seq(Byte)
  PROVE  /\ r \o s \o t \in Seq(Byte) /\ Len(r \o s \o t) = Len(r) + Len(s) + Len(t)
         /\ \A k \in 1..Len(r) : (r \o s \o t)[k] = r[k]
         /\ \A k \in 1..Len(s) : (r \o s \o t)[Len(r) + k] = s[k]
         /\ \A k \in 1..Len(t) : (r \o s \o t)[Len(r) + Len(s) + k] = t[k]
  BY JoinedThree

LEMMA SummedIs ==
  ASSUME NEW f \in PeerFrames
  PROVE  /\ Summed(f) \in Seq(Byte) /\ Len(Summed(f)) = Fixed - 2 + Len(f.payload)
         /\ Summed(f)[1] = f.id /\ Summed(f)[Fixed - 2] = Len(f.payload)
         /\ \A k \in 1..Len(f.payload) : Summed(f)[Fixed - 2 + k] = f.payload[k]
<1>1. /\ f.id \in Byte /\ f.device \in Byte /\ f.payload \in Seq(Byte)
      /\ Len(f.payload) \in Byte
  BY FrameAssumption, WidthAssumption DEF Frame, Byte
<1> DEFINE d == IF HasDevice(parser) THEN <<f.device>> ELSE <<>>
           n == <<Len(f.payload)>>
           i == <<f.id>>
<1>2. /\ d \in Seq(Byte) /\ n \in Seq(Byte) /\ i \in Seq(Byte)
      /\ Len(d) = Fixed - 4 /\ Len(n) = 1 /\ Len(i) = 1
      /\ i[1] = f.id /\ n[1] = Len(f.payload)
  BY <1>1 DEF Fixed
<1>3. Summed(f) = i \o d \o n \o f.payload
  BY DEF Summed
<1>4. Fixed \in {4, 5}
  BY DEF Fixed
<1> HIDE DEF d, n, i
<1> DEFINE u == i \o d \o n
<1>5. /\ u \in Seq(Byte) /\ Len(u) = Len(i) + Len(d) + Len(n)
      /\ \A k \in 1..Len(i) : u[k] = i[k]
      /\ \A k \in 1..Len(n) : u[Len(i) + Len(d) + k] = n[k]
  BY <1>2, ConcatThree
<1> HIDE DEF u
<1>6. Len(u) = Fixed - 2 /\ u[1] = f.id /\ u[Fixed - 2] = Len(f.payload)
  <2>1. 1 \in 1..Len(i) /\ 1 \in 1..Len(n) /\ Len(i) + Len(d) + 1 = Fixed - 2
    BY <1>2, <1>4
  <2>2. QED
    BY <1>2, <1>4, <1>5, <2>1
<1>7. /\ Summed(f) \in Seq(Byte) /\ Len(Summed(f)) = Len(u) + Len(f.payload)
      /\ \A k \in 1..Len(u) : Summed(f)[k] = u[k]
      /\ \A k \in 1..Len(f.payload) : Summed(f)[Len(u) + k] = f.payload[k]
  BY <1>1, <1>3, <1>5, Concat DEF u
<1>8. 1 \in 1..Len(u) /\ Fixed - 2 \in 1..Len(u)
  BY <1>4, <1>6
<1>9. QED
  BY <1>6, <1>7, <1>8

LEMMA WholeIs ==
  ASSUME NEW f \in PeerFrames
  PROVE  /\ Whole(f) \in Seq(Byte) /\ Len(Whole(f)) = Fixed + 1 + Len(f.payload)
         /\ Whole(f)[1] = Sync1 /\ Whole(f)[2] = Sync2
         /\ \A k \in 1..Len(Summed(f)) : Whole(f)[k + 2] = Summed(f)[k]
         /\ Whole(f)[Fixed + 1 + Len(f.payload)] = Total(Summed(f))
<1>1. /\ Summed(f) \in Seq(Byte) /\ Len(Summed(f)) = Fixed - 2 + Len(f.payload)
      /\ Len(f.payload) \in Nat /\ Fixed \in {4, 5}
  <2>1. Fixed \in {4, 5}
    BY DEF Fixed
  <2>2. f.payload \in Seq(Byte)
    BY FrameAssumption DEF Frame
  <2>3. QED
    BY <2>1, <2>2, SummedIs
<1>2. Total(Summed(f)) \in Byte
  BY <1>1, SumsAre DEF Total
<1> DEFINE y == <<Sync1, Sync2>>
           t == <<Total(Summed(f))>>
           s == Summed(f)
           n == Len(f.payload)
<1>3. /\ y \in Seq(Byte) /\ t \in Seq(Byte) /\ Len(y) = 2 /\ Len(t) = 1
      /\ y[1] = Sync1 /\ y[2] = Sync2 /\ t[1] = Total(s)
  BY <1>2, FrameAssumption
<1>4. Whole(f) = y \o s \o t
  BY DEF Whole
<1>5. s \in Seq(Byte) /\ Len(s) = Fixed - 2 + n /\ n \in Nat /\ Fixed \in {4, 5}
  BY <1>1
<1> HIDE DEF y, t, s, n
<1>6. /\ Whole(f) \in Seq(Byte) /\ Len(Whole(f)) = 2 + Len(s) + 1
      /\ \A k \in 1..2 : Whole(f)[k] = y[k]
      /\ \A k \in 1..Len(s) : Whole(f)[2 + k] = s[k]
      /\ Whole(f)[2 + Len(s) + 1] = t[1]
  <2>1. /\ Whole(f) \in Seq(Byte) /\ Len(Whole(f)) = Len(y) + Len(s) + Len(t)
        /\ \A k \in 1..Len(y) : Whole(f)[k] = y[k]
        /\ \A k \in 1..Len(s) : Whole(f)[Len(y) + k] = s[k]
        /\ \A k \in 1..Len(t) : Whole(f)[Len(y) + Len(s) + k] = t[k]
    <3>1. y \in Seq(Byte) /\ s \in Seq(Byte) /\ t \in Seq(Byte)
      BY <1>3, <1>5
    <3>2. /\ y \o s \o t \in Seq(Byte) /\ Len(y \o s \o t) = Len(y) + Len(s) + Len(t)
          /\ \A k \in 1..Len(y) : (y \o s \o t)[k] = y[k]
          /\ \A k \in 1..Len(s) : (y \o s \o t)[Len(y) + k] = s[k]
          /\ \A k \in 1..Len(t) : (y \o s \o t)[Len(y) + Len(s) + k] = t[k]
      BY <3>1, ConcatThree
    <3>3. QED
      BY <1>4, <3>2, Zenon
  <2>2. 1 \in 1..Len(t)
    BY <1>3
  <2>3. QED
    BY <1>3, <2>1, <2>2
<1>7. 2 + Len(s) + 1 = Fixed + 1 + n
  BY <1>5
<1>8. \A k \in 1..Len(s) : 2 + k = k + 2
  BY <1>5
<1>9. QED
  BY <1>3, <1>6, <1>7, <1>8 DEF s, n

(* While a frame that began cleanly is read, what was read and what is to   *)
(* come make it up, nothing was handed on, and the sum is that of what was  *)
(* read after the syncs.                                                    *)
UnderWay ==
  ~beyond /\ clean /\ frame.payload # <<>> /\ line # <<>> =>
    /\ got = <<>> /\ Len(since) + Len(line) = Len(Whole(frame))
    /\ \A k \in 1..Len(since) : since[k] = Whole(frame)[k]
    /\ \A k \in 1..Len(line) : line[k] = Whole(frame)[Len(since) + k]
    /\ msgStatus \notin {"UINIT", "GOT_SYNC1"} =>
         CheckSumm = Sums(Summed(frame))[Len(since) - 2]

HandInv == FramesInv /\ UnderWay /\ HandedOnce

(* How much is read in each state, and where the fields are in it.          *)
LEMMA PlacesRead ==
  ASSUME FramesTypeOK, ReadSoFar
  PROVE  /\ msgStatus = "UINIT" => Len(since) = 0
         /\ msgStatus = "GOT_SYNC1" => Len(since) = 1
         /\ msgStatus = "GOT_SYNC2" => Len(since) = 2
         /\ msgStatus = "GOT_ID" => Len(since) = 3
         /\ msgStatus = "GOT_DeviceID" => HasDevice(parser) /\ Len(since) = 4
         /\ msgStatus = "GOT_LEN" => Len(msg) < Announced
         /\ msgStatus = "GOT_PAYLOAD" => Len(msg) = Announced
         /\ msgStatus \in {"GOT_LEN", "GOT_PAYLOAD"} =>
              /\ Len(since) = Fixed + Len(msg) /\ since[3] = msgID
              /\ since[Fixed] = msgLen
              /\ \A k \in 1..Len(msg) : since[Fixed + k] = msg[k]
<1>1. /\ msgStatus = "UINIT" => Len(since) = 0
      /\ msgStatus = "GOT_SYNC1" => Len(since) = 1
      /\ msgStatus = "GOT_SYNC2" => Len(since) = 2
      /\ msgStatus = "GOT_ID" => Len(since) = 3
      /\ msgStatus = "GOT_DeviceID" => HasDevice(parser) /\ Len(since) = 4
      /\ msgStatus = "GOT_LEN" => Len(msg) < Announced
      /\ msgStatus = "GOT_PAYLOAD" => Len(msg) = Announced
  BY DEF ReadSoFar
<1>2. ASSUME msgStatus \in {"GOT_LEN", "GOT_PAYLOAD"}
      PROVE  /\ Len(since) = Fixed + Len(msg) /\ since[3] = msgID
             /\ since[Fixed] = msgLen
             /\ \A k \in 1..Len(msg) : since[Fixed + k] = msg[k]
  <2>1. since = FrameHeader \o msg
    BY <1>2 DEF ReadSoFar
  <2>2. /\ FrameHeader \in Seq(Byte) /\ Len(FrameHeader) = Fixed
        /\ FrameHeader[3] = msgID /\ FrameHeader[Fixed] = msgLen
    BY FrameAssumption DEF FramesTypeOK, FrameHeader, Fixed
  <2>3. msg \in Seq(Byte) /\ 3 \in 1..Fixed /\ Fixed \in 1..Fixed
    BY DEF FramesTypeOK, Fixed
  <2>4. /\ Len(since) = Len(FrameHeader) + Len(msg)
        /\ \A k \in 1..Len(FrameHeader) : since[k] = FrameHeader[k]
        /\ \A k \in 1..Len(msg) : since[Len(FrameHeader) + k] = msg[k]
    <3>1. /\ Len(FrameHeader \o msg) = Len(FrameHeader) + Len(msg)
          /\ \A k \in 1..Len(FrameHeader) : (FrameHeader \o msg)[k] = FrameHeader[k]
          /\ \A k \in 1..Len(msg) : (FrameHeader \o msg)[Len(FrameHeader) + k] = msg[k]
      BY <2>2, <2>3, Concat
    <3>2. QED
      BY <2>1, <3>1, Zenon
  <2>5. QED
    BY <2>2, <2>3, <2>4
<1>3. QED
  BY <1>1, <1>2

(* A frame with a payload that is being read began at its first byte: the   *)
(* fields are its own, and the automaton is where the frame is.             *)
Begun == ~beyond /\ clean /\ frame.payload # <<>> /\ line # <<>>

LEMMA FieldsAre ==
  ASSUME HandInv, Begun
  PROVE  /\ frame \in PeerFrames /\ Len(frame.payload) \in Nat /\ Len(frame.payload) > 0
         /\ frame.payload \in Seq(Byte) /\ Fixed \in {4, 5}
         /\ msgStatus \in {"GOT_LEN", "GOT_PAYLOAD"} =>
              /\ msgID = frame.id /\ Announced = Len(frame.payload)
              /\ \A k \in 1..Len(msg) : msg[k] = frame.payload[k]
         /\ msgStatus = "GOT_PAYLOAD" => Len(since) = Fixed + Len(frame.payload)
         /\ msgStatus # "GOT_PAYLOAD" => Len(since) < Fixed + Len(frame.payload)
<1>1. frame \in PeerFrames
  BY DEF HandInv, FramesInv, FramesTypeOK, Begun, NoFrame
<1>2. /\ frame.payload \in Seq(Byte) /\ Fixed \in {4, 5}
      /\ Len(frame.payload) \in Nat /\ Len(frame.payload) > 0
  <2>1. frame.payload \in Seq(Byte) /\ frame.payload # <<>>
    BY <1>1, FrameAssumption DEF Frame, Begun
  <2>2. QED
    BY <2>1 DEF Fixed
<1>3. /\ FramesTypeOK /\ ReadSoFar
      /\ \A k \in 1..Len(since) : since[k] = Whole(frame)[k]
  BY DEF HandInv, FramesInv, UnderWay, Begun
<1>4. /\ Len(Summed(frame)) = Fixed - 2 + Len(frame.payload)
      /\ Summed(frame)[1] = frame.id /\ Summed(frame)[Fixed - 2] = Len(frame.payload)
      /\ \A k \in 1..Len(frame.payload) : Summed(frame)[Fixed - 2 + k] = frame.payload[k]
      /\ \A k \in 1..Len(Summed(frame)) : Whole(frame)[k + 2] = Summed(frame)[k]
  BY <1>1, SummedIs, WholeIs
<1>5. /\ Whole(frame)[3] = frame.id /\ Whole(frame)[Fixed] = Len(frame.payload)
      /\ \A k \in 1..Len(frame.payload) : Whole(frame)[Fixed + k] = frame.payload[k]
  <2>1. /\ 1 \in 1..Len(Summed(frame)) /\ Fixed - 2 \in 1..Len(Summed(frame))
        /\ (Fixed - 2) + 2 = Fixed
        /\ \A k \in 1..Len(frame.payload) :
             Fixed - 2 + k \in 1..Len(Summed(frame)) /\ (Fixed - 2 + k) + 2 = Fixed + k
    <3>1. \A h \in {4, 5}, n \in Nat :
            /\ 1 \in 1..(h - 2 + n) /\ h - 2 \in 1..(h - 2 + n) /\ (h - 2) + 2 = h
            /\ \A k \in 1..n : h - 2 + k \in 1..(h - 2 + n) /\ (h - 2 + k) + 2 = h + k
      OBVIOUS
    <3>2. Len(Summed(frame)) = Fixed - 2 + Len(frame.payload)
      BY <1>4
    <3>3. QED
      BY <1>2, <3>1, <3>2
  <2>2. Whole(frame)[1 + 2] = Summed(frame)[1]
    BY <1>4, <2>1
  <2>3. Whole(frame)[Fixed] = Summed(frame)[Fixed - 2]
    BY <1>4, <2>1
  <2>4. \A k \in 1..Len(frame.payload) : Whole(frame)[Fixed + k] = Summed(frame)[Fixed - 2 + k]
    BY <1>4, <2>1
  <2>5. QED
    BY <1>4, <2>2, <2>3, <2>4
<1>6. ASSUME msgStatus \in {"GOT_LEN", "GOT_PAYLOAD"}
      PROVE  /\ msgID = frame.id /\ Announced = Len(frame.payload)
             /\ \A k \in 1..Len(msg) : msg[k] = frame.payload[k]
             /\ Len(since) = Fixed + Len(msg)
  <2>1. /\ Len(since) = Fixed + Len(msg) /\ since[3] = msgID /\ since[Fixed] = msgLen
        /\ \A k \in 1..Len(msg) : since[Fixed + k] = msg[k]
        /\ Len(msg) \in Nat
    BY <1>3, <1>6, PlacesRead DEF FramesTypeOK
  <2>2. 3 \in 1..Len(since) /\ Fixed \in 1..Len(since)
    BY <1>2, <2>1
  <2>3. msgID = frame.id /\ msgLen = Len(frame.payload)
    BY <1>3, <1>5, <2>1, <2>2
  <2>4. Announced = Len(frame.payload) /\ Len(msg) <= Announced
    BY <1>2, <1>3, <1>6, <2>3, PlacesRead DEF Announced
  <2>5. \A k \in 1..Len(msg) :
          k \in 1..Len(frame.payload) /\ Fixed + k \in 1..Len(since)
    BY <1>2, <2>1, <2>4
  <2>6. \A k \in 1..Len(msg) : msg[k] = frame.payload[k]
    BY <1>3, <1>5, <2>1, <2>5
  <2>7. QED
    BY <2>1, <2>3, <2>4, <2>6
<1>7. msgStatus = "GOT_PAYLOAD" => Len(since) = Fixed + Len(frame.payload)
  BY <1>3, <1>6, PlacesRead
<1>8. msgStatus # "GOT_PAYLOAD" => Len(since) < Fixed + Len(frame.payload)
  <2>1. CASE msgStatus = "GOT_LEN"
    <3>1. Len(msg) < Len(frame.payload) /\ Len(since) = Fixed + Len(msg) /\ Len(msg) \in Nat
      BY <1>3, <1>6, <2>1, PlacesRead DEF FramesTypeOK
    <3>2. QED
      BY <1>2, <3>1
  <2>2. CASE msgStatus \notin {"GOT_LEN", "GOT_PAYLOAD"}
    <3>1. Len(since) \in 0..4
      BY <1>3, <2>2, PlacesRead DEF FramesTypeOK, Status
    <3>2. \A i \in 0..4, h \in {4, 5}, n \in Nat : n > 0 => i < h + n
      OBVIOUS
    <3>3. QED
      BY <1>2, <3>1, <3>2
  <2>3. QED
    BY <2>1, <2>2
<1>9. QED
  BY <1>1, <1>2, <1>6, <1>7, <1>8

(* A byte before the sum is taken, and the automaton does not fall back.    *)
LEMMA ReadOn ==
  ASSUME HandInv, Begun, readTcpData, ~beyond', msgStatus # "GOT_PAYLOAD"
  PROVE  UnderWay' /\ HandedOnce'
<1> DEFINE b == Head(line)
           W == Whole(frame)
           S == Summed(frame)
           j == Len(since)
           n == Len(frame.payload)
<1>1. /\ W \in Seq(Byte) /\ Len(W) = Fixed + 1 + n /\ W[1] = Sync1 /\ W[2] = Sync2
      /\ S \in Seq(Byte) /\ Len(S) = Fixed - 2 + n
      /\ \A k \in 1..Len(S) : W[k + 2] = S[k]
  BY FieldsAre, WholeIs, SummedIs
<1>2. /\ n \in Nat /\ n > 0 /\ Fixed \in {4, 5} /\ j \in Nat /\ j < Fixed + n
      /\ line \in Seq(Byte) /\ since \in Seq(Byte)
  BY FieldsAre DEF HandInv, FramesInv, FramesTypeOK
<1>3. /\ got = <<>> /\ j + Len(line) = Len(W)
      /\ \A k \in 1..j : since[k] = W[k]
      /\ \A k \in 1..Len(line) : line[k] = W[j + k]
      /\ msgStatus \notin {"UINIT", "GOT_SYNC1"} => CheckSumm = Sums(S)[j - 2]
  BY DEF HandInv, UnderWay, Begun
<1>4. b \in Byte /\ Case(b) /\ line' = Tail(line) /\ UNCHANGED <<parser, frame, clean, noise>>
  BY ReadIsCase DEF HandInv, readTcpData, peerVars
<1>5. W' = W /\ Sums(S)' = Sums(S)
  BY <1>4 DEF Whole, Summed, HasDevice, Total, Sums
<1>6. /\ msgStatus = "UINIT" => j = 0
      /\ msgStatus = "GOT_SYNC1" => j = 1
      /\ msgStatus = "GOT_SYNC2" => j = 2
      /\ msgStatus \in {"GOT_ID", "GOT_DeviceID", "GOT_LEN"} => j >= 3
  <2>1. FramesTypeOK /\ ReadSoFar /\ Len(msg) \in Nat
    BY DEF HandInv, FramesInv, FramesTypeOK, Begun
  <2>2. msgStatus = "GOT_LEN" => j = Fixed + Len(msg)
    BY <2>1, PlacesRead
  <2>3. \A h \in {4, 5}, m \in Nat : h + m >= 3
    OBVIOUS
  <2>4. msgStatus = "GOT_LEN" => j >= 3
    BY <1>2, <2>1, <2>2, <2>3
  <2>5. /\ msgStatus = "UINIT" => j = 0
        /\ msgStatus = "GOT_SYNC1" => j = 1
        /\ msgStatus = "GOT_SYNC2" => j = 2
        /\ msgStatus = "GOT_ID" => j = 3
        /\ msgStatus = "GOT_DeviceID" => j = 4
    BY <2>1, PlacesRead
  <2> HIDE DEF j
  <2>6. QED
    BY <2>4, <2>5
<1>7. SumsStep(S)
  BY <1>1, SumsAre DEF SumsStep
<1> HIDE DEF b, W, S, j, n
<1>8. /\ Len(line) \in Nat /\ Len(line) >= 2 /\ Len(line') = Len(line) - 1 /\ line' # <<>>
      /\ \A k \in 1..Len(line') : line'[k] = line[k + 1]
      /\ b = W[j + 1]
  <2>1. Len(line) \in Nat /\ Len(line) >= 2
    BY <1>1, <1>2, <1>3
  <2>2. Len(line') = Len(line) - 1 /\ \A k \in 1..Len(line') : line'[k] = line[k + 1]
    BY <1>2, <1>4, <2>1
  <2>3. b = line[1]
    BY <1>2, <2>1 DEF b
  <2>4. line' # <<>>
    BY <2>1, <2>2
  <2>5. b = W[j + 1]
    BY <1>3, <2>1, <2>3
  <2>6. QED
    BY <2>1, <2>2, <2>4, <2>5
<1>9. /\ since' = Append(since, b) /\ got' = got
      /\ msgStatus = "UINIT" => msgStatus' = "GOT_SYNC1"
      /\ msgStatus = "GOT_SYNC1" => CheckSumm' = 0
      /\ msgStatus \notin {"UINIT", "GOT_SYNC1"} => CheckSumm' = Plus(CheckSumm, b)
  <2>1. CASE Uninit(b)
    <3>1. b = Sync1
      BY <1>1, <1>6, <1>8, <2>1 DEF Uninit
    <3>2. QED
      BY <2>1, <3>1 DEF Uninit, Take
  <2>2. CASE GotSync1(b)
    <3>1. b = Sync2
      BY <1>1, <1>6, <1>8, <2>2 DEF GotSync1
    <3>2. QED
      BY <2>2, <3>1 DEF GotSync1, Take
  <2>3. CASE GotSync2(b) \/ GotID(b) \/ GotLen(b)
    BY <2>3 DEF GotSync2, GotID, GotLen, Take, Counted
  <2>4. CASE /\ msgStatus = IF HasDevice(parser) THEN "GOT_DeviceID" ELSE "GOT_ID"
             /\ Length(b)
    BY <2>4 DEF Length, Take, Counted
  <2>5. ~GotPayload(b, Acts)
    BY DEF GotPayload
  <2>6. QED
    BY <1>4, <2>1, <2>2, <2>3, <2>4, <2>5 DEF Case
<1>10. /\ Len(since') = j + 1 /\ since'[j + 1] = b
       /\ \A k \in 1..j : since'[k] = since[k]
  BY <1>2, <1>4, <1>9 DEF j
<1>11. \A k \in 1..Len(since') : since'[k] = W[k]
  <2> SUFFICES ASSUME NEW k \in 1..Len(since') PROVE since'[k] = W[k]
    OBVIOUS
  <2>1. k \in 1..j \/ k = j + 1
    BY <1>2, <1>10
  <2>2. QED
    BY <1>3, <1>8, <1>10, <2>1
<1>12. \A k \in 1..Len(line') : line'[k] = W[Len(since') + k]
  <2> SUFFICES ASSUME NEW k \in 1..Len(line') PROVE line'[k] = W[Len(since') + k]
    OBVIOUS
  <2>1. k + 1 \in 1..Len(line) /\ Len(since') + k = j + (k + 1)
    BY <1>2, <1>8, <1>10
  <2>2. QED
    BY <1>3, <1>8, <2>1
<1>13. msgStatus' \notin {"UINIT", "GOT_SYNC1"} => CheckSumm' = Sums(S)[Len(since') - 2]
  <2>1. CASE msgStatus = "UINIT"
    BY <1>9, <2>1
  <2>2. CASE msgStatus = "GOT_SYNC1"
    <3>1. Len(since') - 2 = 0
      BY <1>6, <1>10, <2>2
    <3>2. QED
      BY <1>7, <1>9, <2>2, <3>1 DEF SumsStep
  <2>3. CASE msgStatus \notin {"UINIT", "GOT_SYNC1"}
    <3>1. j >= 2
      <4>1. msgStatus \in Status
        BY DEF HandInv, FramesInv, FramesTypeOK
      <4>2. QED
        BY <1>2, <1>6, <2>3, <4>1 DEF Status
    <3>2. /\ j - 1 \in 1..Len(S) /\ (j - 1) + 2 = j + 1 /\ (j - 1) - 1 = j - 2
          /\ Len(since') - 2 = j - 1
      BY <1>1, <1>2, <1>10, <3>1
    <3>3. b = S[j - 1]
      BY <1>1, <1>8, <3>2
    <3>4. Sums(S)[j - 1] = Plus(Sums(S)[j - 2], S[j - 1])
      BY <1>7, <3>2 DEF SumsStep
    <3>5. QED
      BY <1>3, <1>9, <2>3, <3>2, <3>3, <3>4
  <2>4. QED
    BY <2>1, <2>2, <2>3
<1>14. Len(since') + Len(line') = Len(W)
  <2>1. j \in Nat /\ Len(line) \in Nat /\ j + Len(line) = Len(W)
    BY <1>2, <1>3
  <2>2. Len(line') = Len(line) - 1 /\ Len(since') = j + 1
    BY <1>8, <1>10
  <2>3. \A k, l \in Nat : (k + 1) + (l - 1) = k + l
    OBVIOUS
  <2>4. QED
    BY <2>1, <2>2, <2>3
<1>15. UnderWay'
  BY <1>3, <1>5, <1>9, <1>11, <1>12, <1>13, <1>14 DEF UnderWay, W, S
<1>16. HandedOnce'
  BY <1>3, <1>8, <1>9 DEF HandedOnce
<1>17. QED
  BY <1>15, <1>16

(* At its last byte the sum agrees, and the frame is handed on.             *)
LEMMA ReadLast ==
  ASSUME HandInv, Begun, readTcpData, ~beyond', msgStatus = "GOT_PAYLOAD"
  PROVE  UnderWay' /\ HandedOnce'
<1> DEFINE b == Head(line)
           W == Whole(frame)
           S == Summed(frame)
           j == Len(since)
           n == Len(frame.payload)
<1>1. /\ Len(W) = Fixed + 1 + n /\ W[Fixed + 1 + n] = Total(S)
      /\ S \in Seq(Byte) /\ Len(S) = Fixed - 2 + n
  BY FieldsAre, WholeIs, SummedIs
<1>2. /\ n \in Nat /\ Fixed \in {4, 5} /\ j = Fixed + n /\ line \in Seq(Byte)
      /\ frame.payload \in Seq(Byte) /\ msg \in Seq(Byte)
      /\ msgID = frame.id /\ Announced = n
      /\ \A k \in 1..Len(msg) : msg[k] = frame.payload[k]
  BY FieldsAre DEF HandInv, FramesInv, FramesTypeOK
<1>3. /\ got = <<>> /\ j + Len(line) = Len(W) /\ CheckSumm = Sums(S)[j - 2]
      /\ \A k \in 1..Len(line) : line[k] = W[j + k]
  BY DEF HandInv, UnderWay, Begun
<1>4. Case(b) /\ line' = Tail(line) /\ UNCHANGED <<parser, frame, clean, noise>>
  BY ReadIsCase DEF HandInv, readTcpData, peerVars
<1>5. Len(msg) = n
  BY <1>2, PlacesRead DEF HandInv, FramesInv, Begun
<1> HIDE DEF b, W, S, j, n
<1>6. Len(line) = 1
  <2>1. Len(line) \in Nat
    BY <1>2
  <2>2. \A h \in {4, 5}, m, l \in Nat : (h + m) + l = h + 1 + m => l = 1
    OBVIOUS
  <2>3. QED
    BY <1>1, <1>2, <1>3, <2>1, <2>2
<1>7. line' = <<>>
  BY <1>2, <1>4, <1>6
<1>8. b = CheckSumm
  <2>1. b = line[1] /\ 1 \in 1..Len(line)
    BY <1>2, <1>6 DEF b
  <2>2. j + 1 = Fixed + 1 + n /\ j - 2 = Len(S)
    BY <1>1, <1>2
  <2>3. b = Total(S)
    BY <1>1, <1>3, <2>1, <2>2
  <2>4. QED
    BY <1>3, <2>2, <2>3 DEF Total
<1>9. GotPayload(b, Acts)
  BY <1>4 DEF Case, Uninit, GotSync1, GotSync2, GotID, GotLen, Length
<1>10. Acts = ActedOn(frame) /\ ActedOn(frame)' = ActedOn(frame)
  BY <1>2, <1>4 DEF Acts, ActedOn
<1>11. CASE ~Acts
  <2>1. got' = <<>>
    BY <1>3, <1>9, <1>11 DEF GotPayload
  <2>2. QED
    BY <1>4, <1>7, <1>10, <1>11, <2>1 DEF UnderWay, HandedOnce
<1>12. CASE Acts
  <2>1. PICK g : got' = Append(<<>>, g) /\ g.id = msgID /\ g.msg = msg
    BY <1>3, <1>8, <1>9, <1>12 DEF GotPayload
  <2>2. Len(got') = 1 /\ got'[1] = g
    BY <2>1
  <2>3. msg = frame.payload
    BY <1>2, <1>5 DEF n
  <2>4. QED
    BY <1>2, <1>4, <1>7, <1>10, <1>12, <2>1, <2>2, <2>3 DEF UnderWay, HandedOnce
<1>13. QED
  BY <1>11, <1>12

(* A frame that is sent while nothing is being read is all to come.         *)
LEMMA Sent ==
  ASSUME HandInv, SendFrame \/ SendNoise PROVE UnderWay' /\ HandedOnce'
<1>1. CASE SendNoise
  BY <1>1 DEF SendNoise, UnderWay, HandedOnce
<1>2. CASE SendFrame
  <2>1. PICK f \in PeerFrames :
          frame' = f /\ line' = <<Sync1, Sync2>> \o Summed(f) \o <<Total(Summed(f))>>
    BY <1>2 DEF SendFrame
  <2>2. /\ got' = <<>> /\ clean' = (msgStatus = "UINIT")
        /\ UNCHANGED <<parser, msgStatus, fields, beyond, since>>
    BY <1>2 DEF SendFrame
  <2>3. line' = Whole(f) /\ Whole(frame)' = Whole(f)
    BY <2>1, <2>2 DEF Whole, Summed, HasDevice, Total, Sums
  <2>4. Whole(f) \in Seq(Byte) /\ Len(Whole(f)) > 0
    <3>1. Len(f.payload) \in Nat /\ Fixed \in {4, 5}
      BY FrameAssumption DEF Frame, Fixed
    <3>2. Whole(f) \in Seq(Byte) /\ Len(Whole(f)) = Fixed + 1 + Len(f.payload)
      BY WholeIs
    <3>3. \A h \in {4, 5}, m \in Nat : h + 1 + m > 0
      OBVIOUS
    <3>4. QED
      BY <3>1, <3>2, <3>3
  <2>5. line' # <<>>
    BY <2>3, <2>4
  <2>6. clean' /\ ~beyond' => since' = <<>> /\ msgStatus' = "UINIT"
    BY <2>2 DEF HandInv, FramesInv, ReadSoFar
  <2>7. UnderWay'
    <3>1. ASSUME clean', ~beyond'
          PROVE  /\ Len(since') = 0 /\ Len(since') + Len(line') = Len(Whole(f))
                 /\ \A k \in 1..Len(line') : line'[k] = Whole(f)[Len(since') + k]
      BY <2>3, <2>4, <2>6, <3>1
    <3>2. QED
      BY <2>2, <2>3, <2>6, <3>1 DEF UnderWay
  <2>8. HandedOnce'
    BY <2>2, <2>5 DEF HandedOnce
  <2>9. QED
    BY <2>7, <2>8
<1>3. QED
  BY <1>1, <1>2

LEMMA HandInit == FramesInit => HandInv
  BY FramesInvInit DEF FramesInit, HandInv, UnderWay, HandedOnce

LEMMA HandNext == HandInv /\ [FramesNext]_frameVars => HandInv'
<1> SUFFICES ASSUME HandInv, [FramesNext]_frameVars PROVE HandInv'
  OBVIOUS
<1>1. FramesInv'
  BY FramesInvNext DEF HandInv
<1>2. CASE SendFrame \/ SendNoise
  BY <1>1, <1>2, Sent DEF HandInv
<1>3. CASE readTcpData /\ Begun /\ ~beyond'
  BY <1>1, <1>3, ReadOn, ReadLast DEF HandInv
<1>4. CASE readTcpData /\ (~Begun \/ beyond')
  <2>1. /\ UNCHANGED <<clean, frame>>
        /\ beyond' \/ ~(clean /\ frame.payload # <<>>)
    BY <1>4 DEF readTcpData, peerVars, Begun
  <2>2. beyond' \/ ~(clean' /\ frame'.payload # <<>>)
    BY <2>1
  <2>3. UnderWay' /\ HandedOnce'
    BY <2>2 DEF UnderWay, HandedOnce
  <2>4. QED
    BY <1>1, <2>3 DEF HandInv
<1>5. CASE UNCHANGED frameVars
  <2>1. UNCHANGED <<parser, msgStatus, CheckSumm, beyond, since, line, frame, clean, got>>
    BY <1>5 DEF frameVars, fields
  <2>2. /\ Whole(frame)' = Whole(frame) /\ Sums(Summed(frame))' = Sums(Summed(frame))
        /\ ActedOn(frame)' = ActedOn(frame)
    BY <2>1 DEF Whole, Summed, HasDevice, Total, Sums, ActedOn
  <2>3. UnderWay'
    BY <2>1, <2>2 DEF HandInv, UnderWay
  <2>4. HandedOnce'
    BY <2>1, <2>2 DEF HandInv, HandedOnce
  <2>5. QED
    BY <1>1, <2>3, <2>4 DEF HandInv
<1>6. QED
  BY <1>2, <1>3, <1>4, <1>5 DEF FramesNext

(* The fields of the automaton are bytes, the sum among them, for every     *)
(* width of a byte.                                                         *)
THEOREM FramesTypeCorrect == FramesSpec => []FramesTypeOK
<1>1. FramesInv => FramesTypeOK
  BY DEF FramesInv
<1>. QED BY <1>1, FramesInvInit, FramesInvNext, PTL DEF FramesSpec

(* Parse_Byte hands on the very bytes it read, from the syncs to the sum,   *)
(* with as much payload as announced, or one byte when that is nothing;     *)
(* what TC_CentServer composes for the AQC program is what the server sent. *)
(* In Lan_Conn and WebServer_TcpClient that holds until a payload runs over *)
(* the end of their msg.                                                    *)
THEOREM HandedCorrect == FramesSpec => []HandedAsReceived
<1>1. FramesInv => HandedAsReceived
  BY DEF FramesInv
<1>. QED BY <1>1, FramesInvInit, FramesInvNext, PTL DEF FramesSpec

(* A frame with a payload that begins when nothing is being read is handed  *)
(* on once, at its last byte, and nothing else is, whatever its bytes; in   *)
(* Lan_Conn and WebServer_TcpClient until a payload runs over the end of    *)
(* their msg.                                                               *)
THEOREM HandedOnceCorrect == FramesSpec => []HandedOnce
<1>1. HandInv => HandedOnce
  BY DEF HandInv
<1>. QED BY <1>1, HandInit, HandNext, PTL DEF FramesSpec
-----------------------------------------------------------------------------
(* The frames that are sent.                                                *)
LEMMA Division ==
  \A a \in Nat : /\ a = (a % Width) + Width * High(a) /\ a % Width \in Byte /\ High(a) \in Nat
                 /\ \A y \in Nat : a < Width * y => High(a) < y
<1>1. Width \in Nat /\ Width > 1
  BY WidthAssumption
<1>2. \A W \in Nat : W > 1 =>
        \A a \in Nat : /\ a = (a % W) + W * (a \div W) /\ a % W \in 0..(W - 1)
                       /\ a \div W \in Nat
  OBVIOUS
<1>3. \A W \in Nat : W > 1 => \A a, y \in Nat : a < W * y => a \div W < y
  OBVIOUS
<1>4. QED
  BY <1>1, <1>2, <1>3 DEF Byte, High

LEMMA Products == \A a, b \in Nat : a * b \in Nat /\ a + b \in Nat
OBVIOUS

(* The four bytes of a length that fits into them give it back.             *)
LEMMA LengthRead ==
  ASSUME NEW n \in Nat, n < Width * Width * Width * Width
  PROVE  /\ LengthBytes(n) \in Seq(Byte) /\ Len(LengthBytes(n)) = 4
         /\ LengthBytes(n)[1] + Width * (LengthBytes(n)[2] + Width *
              (LengthBytes(n)[3] + Width * LengthBytes(n)[4])) = n
<1> DEFINE n1 == High(n)
           n2 == High(n1)
           n3 == High(n2)
<1>1. Width \in Nat /\ Width * Width \in Nat /\ Width * Width * Width \in Nat
  BY WidthAssumption, Products
<1>2. n < Width * (Width * Width * Width)
  <2>1. \A W \in Nat : W * W * W * W = W * (W * W * W)
    OBVIOUS
  <2>2. QED
    BY <1>1, <2>1
<1>3. /\ n1 \in Nat /\ n = (n % Width) + Width * n1 /\ n % Width \in Byte
      /\ n1 < Width * Width * Width
  BY <1>1, <1>2, Division
<1>4. n1 < Width * (Width * Width)
  <2>1. \A W \in Nat : W * W * W = W * (W * W)
    OBVIOUS
  <2>2. QED
    BY <1>1, <1>3, <2>1
<1> HIDE DEF n1
<1>5. /\ n2 \in Nat /\ n1 = (n1 % Width) + Width * n2 /\ n1 % Width \in Byte
      /\ n2 < Width * Width
  BY <1>1, <1>3, <1>4, Division
<1> HIDE DEF n2
<1>6. /\ n3 \in Nat /\ n2 = (n2 % Width) + Width * n3 /\ n2 % Width \in Byte /\ n3 < Width
  BY <1>1, <1>5, Division
<1> HIDE DEF n3
<1>7. n3 % Width = n3 /\ n3 % Width \in Byte
  <2>1. \A W \in Nat : W > 1 => \A a \in Nat : a < W => a % W = a
    OBVIOUS
  <2>2. QED
    BY <1>1, <1>6, <2>1, Division, WidthAssumption
<1>8. LengthBytes(n) = <<n % Width, n1 % Width, n2 % Width, n3 % Width>>
  BY DEF LengthBytes, n1, n2, n3
<1>9. (n % Width) + Width * ((n1 % Width) + Width * ((n2 % Width) + Width * (n3 % Width))) = n
  BY <1>3, <1>5, <1>6, <1>7
<1>10. QED
  BY <1>3, <1>5, <1>6, <1>7, <1>8, <1>9
-----------------------------------------------------------------------------
(* The function of Hears exists: it is built down from the end, where no    *)
(* frame begins.                                                            *)
HearsAt(f, w, i) ==
  f[i] = IF Framed(w, i) THEN <<MessageAt(w, i)>> \o f[i + 8 + LengthAt(w, i)] ELSE <<>>

LEMMA LengthOfBytes ==
  ASSUME NEW w \in Seq(Byte), NEW i \in Nat, i + 7 <= Len(w)
  PROVE  LengthAt(w, i) \in Nat
<1>1. /\ w[i + 3] \in Nat /\ w[i + 4] \in Nat /\ w[i + 5] \in Nat /\ w[i + 6] \in Nat
      /\ Width \in Nat
  BY WidthAssumption DEF Byte
<1>2. QED
  BY <1>1, Products DEF LengthAt

LEMMA HearsExists ==
  ASSUME NEW w \in Seq(Byte)
  PROVE  \E f : f = [i \in Nat |-> f[i]] /\ \A i \in Nat : HearsAt(f, w, i)
<1> DEFINE Fun(f)  == f = [i \in Nat |-> f[i]]
           From(k) == \E f : Fun(f) /\ \A i \in Nat : i + k > Len(w) => HearsAt(f, w, i)
           S       == {k \in 0..(Len(w) + 1) : From(k)}
<1>1. Len(w) \in Nat
  OBVIOUS
<1>2. 0 \in S
  <2> DEFINE f == [i \in Nat |-> <<>>]
  <2>1. Fun(f)
    OBVIOUS
  <2>2. \A i \in Nat : i > Len(w) => ~Framed(w, i)
    BY <1>1 DEF Framed
  <2>3. \A i \in Nat : i + 0 > Len(w) => HearsAt(f, w, i)
    BY <1>1, <2>2 DEF HearsAt
  <2> HIDE DEF f
  <2>4. From(0)
    BY <2>1, <2>3
  <2>5. QED
    BY <1>1, <2>4
<1>3. ASSUME NEW k \in 0..(Len(w) + 1), k \in S, k < Len(w) + 1 PROVE k + 1 \in S
  <2>1. PICK f : Fun(f) /\ \A i \in Nat : i + k > Len(w) => HearsAt(f, w, i)
    BY <1>3
  <2> DEFINE j == Len(w) - k
             v == IF Framed(w, j) THEN <<MessageAt(w, j)>> \o f[j + 8 + LengthAt(w, j)] ELSE <<>>
             g == [i \in Nat |-> IF i = j THEN v ELSE f[i]]
  <2>2. j \in Nat
    BY <1>1, <1>3
  <2> HIDE DEF j, v
  <2>3. Fun(g)
    OBVIOUS
  <2>4. ASSUME NEW i \in Nat, i + (k + 1) > Len(w) PROVE HearsAt(g, w, i)
    <3>1. i = j \/ (i > j /\ i + k > Len(w))
      BY <1>1, <1>3, <2>2, <2>4 DEF j
    <3>2. ASSUME Framed(w, i) PROVE g[i + 8 + LengthAt(w, i)] = f[i + 8 + LengthAt(w, i)]
      <4>1. LengthAt(w, i) \in Nat
        BY <3>2, LengthOfBytes DEF Framed
      <4>2. i + 8 + LengthAt(w, i) \in Nat /\ i + 8 + LengthAt(w, i) # j
        BY <2>2, <3>1, <4>1
      <4>3. QED
        BY <4>2
    <3>3. CASE i = j
      <4>1. g[i] = v
        BY <3>3
      <4>2. v = IF Framed(w, i) THEN <<MessageAt(w, i)>> \o f[i + 8 + LengthAt(w, i)] ELSE <<>>
        BY <3>3 DEF v
      <4> HIDE DEF g
      <4>3. QED
        BY <3>2, <4>1, <4>2 DEF HearsAt
    <3>4. CASE i # j
      <4>1. g[i] = f[i] /\ HearsAt(f, w, i)
        BY <2>1, <3>1, <3>4
      <4> HIDE DEF g
      <4>2. QED
        BY <3>2, <4>1 DEF HearsAt
    <3>5. QED
      BY <3>3, <3>4
  <2> HIDE DEF g
  <2>5. From(k + 1)
    BY <2>3, <2>4
  <2>6. QED
    BY <1>1, <1>3, <2>5
<1>4. Len(w) + 1 \in S
  <2> DEFINE N == Len(w) + 1
  <2>1. N \in Nat /\ \A k \in 0..N : k \in S /\ k < N => k + 1 \in S
    BY <1>1, <1>3
  <2> HIDE DEF S, N
  <2>2. N \in S
    BY <1>2, <2>1, Reaches
  <2>3. QED
    BY <2>2 DEF N
<1>5. PICK f : Fun(f) /\ \A i \in Nat : i + (Len(w) + 1) > Len(w) => HearsAt(f, w, i)
  BY <1>4
<1>6. \A i \in Nat : i + (Len(w) + 1) > Len(w)
  BY <1>1
<1>7. QED
  BY <1>5, <1>6

LEMMA HearsIs == ASSUME NEW w \in Seq(Byte), NEW i \in Nat PROVE HearsAt(Hears(w), w, i)
<1> DEFINE E(f) ==
      f = [k \in Nat |-> IF Framed(w, k) THEN <<MessageAt(w, k)>> \o f[k + 8 + LengthAt(w, k)]
                         ELSE <<>>]
<1>1. PICK f : f = [k \in Nat |-> f[k]] /\ \A k \in Nat : HearsAt(f, w, k)
  BY HearsExists
<1>2. E(f)
  BY <1>1 DEF HearsAt
<1>3. Hears(w) = CHOOSE h : E(h)
  BY DEF Hears
<1>4. E(Hears(w))
  <2> HIDE DEF E
  <2>1. QED
    BY <1>2, <1>3
<1> DEFINE h == Hears(w)
<1>5. E(h)
  BY <1>4
<1> HIDE DEF h
<1>6. HearsAt(h, w, i)
  BY <1>5 DEF HearsAt
<1>7. QED
  BY <1>6 DEF h
-----------------------------------------------------------------------------
(* A frame that was written stays where it is when more is written.         *)
LEMMA SubIs ==
  ASSUME NEW w \in Seq(Byte), NEW from \in Nat, NEW to \in Nat
  PROVE  SubSeq(w, from, to) = [k \in 1..(to + 1 - from) |-> w[from + k - 1]]
OBVIOUS

LEMMA SubStays ==
  ASSUME NEW w \in Seq(Byte), NEW b \in Seq(Byte), NEW from \in Nat \ {0}, NEW to \in Nat,
         to <= Len(w)
  PROVE  SubSeq(w \o b, from, to) = SubSeq(w, from, to)
<1>1. /\ w \o b \in Seq(Byte) /\ Len(w \o b) = Len(w) + Len(b)
      /\ \A k \in 1..Len(w) : (w \o b)[k] = w[k]
  BY Concat
<1> DEFINE x == w \o b
<1> HIDE DEF x
<1>2. Len(x) \in Nat /\ Len(w) \in Nat /\ to <= Len(x)
  BY <1>1 DEF x
<1>3. \A k \in from..to : x[k] = w[k]
  BY <1>1, <1>2 DEF x
<1>4. /\ SubSeq(x, from, to) = [k \in 1..(to + 1 - from) |-> x[from + k - 1]]
      /\ SubSeq(w, from, to) = [k \in 1..(to + 1 - from) |-> w[from + k - 1]]
  OBVIOUS
<1>5. \A k \in 1..(to + 1 - from) : x[from + k - 1] = w[from + k - 1]
  BY <1>3
<1>6. QED
  BY <1>4, <1>5 DEF x

LEMMA FrameStays ==
  ASSUME NEW w \in Seq(Byte), NEW b \in Seq(Byte), NEW i \in Nat \ {0}, Framed(w, i)
  PROVE  /\ Framed(w \o b, i) /\ MessageAt(w \o b, i) = MessageAt(w, i)
         /\ LengthAt(w \o b, i) = LengthAt(w, i)
<1> DEFINE x == w \o b
           n == LengthAt(w, i)
<1>1. Len(x) = Len(w) + Len(b) /\ \A k \in 1..Len(w) : x[k] = w[k]
  BY Concat
<1>2. Len(x) \in Nat /\ Len(w) \in Nat /\ Len(x) >= Len(w)
  BY <1>1
<1>3. i + 7 <= Len(w) /\ i + 7 + n <= Len(w) /\ n \in Nat
  BY LengthOfBytes DEF Framed
<1>4. /\ SubSeq(x, i + 2, i + 6 + n) = SubSeq(w, i + 2, i + 6 + n)
      /\ SubSeq(x, i + 7, i + 6 + n) = SubSeq(w, i + 7, i + 6 + n)
  <2> HIDE DEF n
  <2>1. i + 2 \in Nat \ {0} /\ i + 7 \in Nat \ {0} /\ i + 6 + n \in Nat /\ i + 6 + n <= Len(w)
    BY <1>2, <1>3
  <2>2. QED
    BY <2>1, SubStays
<1> HIDE DEF x, n
<1>5. /\ x[i] = w[i] /\ x[i + 1] = w[i + 1] /\ x[i + 2] = w[i + 2] /\ x[i + 3] = w[i + 3]
      /\ x[i + 4] = w[i + 4] /\ x[i + 5] = w[i + 5] /\ x[i + 6] = w[i + 6]
      /\ x[i + 7 + n] = w[i + 7 + n]
  <2>1. /\ i \in 1..Len(w) /\ i + 1 \in 1..Len(w) /\ i + 2 \in 1..Len(w)
        /\ i + 3 \in 1..Len(w) /\ i + 4 \in 1..Len(w) /\ i + 5 \in 1..Len(w)
        /\ i + 6 \in 1..Len(w) /\ i + 7 + n \in 1..Len(w)
    BY <1>2, <1>3
  <2>2. QED
    BY <1>1, <2>1
<1>6. LengthAt(x, i) = n
  BY <1>5 DEF LengthAt, n
<1>7. Framed(x, i)
  <2>1. /\ w[i] = Tr_Sync1 /\ w[i + 1] = Tr_Sync2
        /\ w[i + 7 + n] = Total(SubSeq(w, i + 2, i + 6 + n))
    BY DEF Framed, n
  <2>2. i + 7 <= Len(x) /\ i + 7 + n <= Len(x)
    BY <1>2, <1>3
  <2>3. QED
    BY <1>4, <1>5, <1>6, <2>1, <2>2 DEF Framed
<1>8. MessageAt(x, i) = MessageAt(w, i)
  BY <1>4, <1>5, <1>6 DEF MessageAt, n
<1>9. QED
  BY <1>6, <1>7, <1>8 DEF x, n

(* What transMsgLAN appends is a frame, and says the message.               *)
LEMMA FrameBegins ==
  ASSUME NEW w \in Seq(Byte), NEW m \in Messages
  PROVE  /\ FrameOf(m) \in Seq(Byte)
         /\ Framed(w \o FrameOf(m), Len(w) + 1)
         /\ MessageAt(w \o FrameOf(m), Len(w) + 1) = m
         /\ Len(w \o FrameOf(m)) + 1
              = (Len(w) + 1) + 8 + LengthAt(w \o FrameOf(m), Len(w) + 1)
<1> DEFINE n == Len(m.payload)
           l == LengthBytes(n)
           c == <<m.id>> \o l \o m.payload
           f == FrameOf(m)
           x == w \o f
           i == Len(w) + 1
<1>1. /\ m.id \in Byte /\ m.payload \in Seq(Byte) /\ n \in Nat
      /\ m = [id |-> m.id, payload |-> m.payload] /\ n < Width * Width * Width * Width
  <2>1. m \in [id : Byte, payload : Seq(Byte)] /\ n < Width * Width * Width * Width
    BY SenderAssumption
  <2>2. QED
    BY <2>1
<1>2. /\ l \in Seq(Byte) /\ Len(l) = 4
      /\ l[1] + Width * (l[2] + Width * (l[3] + Width * l[4])) = n
  BY <1>1, LengthRead
<1> HIDE DEF n, l
<1>3. /\ c \in Seq(Byte) /\ Len(c) = n + 5 /\ c[1] = m.id
      /\ \A k \in 1..4 : c[1 + k] = l[k]
      /\ \A k \in 1..n : c[5 + k] = m.payload[k]
  <2> DEFINE one == <<m.id>>
             pay == m.payload
  <2>1. one \in Seq(Byte) /\ Len(one) = 1 /\ one[1] = m.id
    BY <1>1
  <2>2. pay \in Seq(Byte) /\ Len(pay) = n
    BY <1>1 DEF n
  <2>3. c = one \o l \o pay
    OBVIOUS
  <2> HIDE DEF one, pay, c
  <2>4. /\ one \o l \o pay \in Seq(Byte)
        /\ Len(one \o l \o pay) = Len(one) + Len(l) + Len(pay)
        /\ \A k \in 1..Len(one) : (one \o l \o pay)[k] = one[k]
        /\ \A k \in 1..Len(l) : (one \o l \o pay)[Len(one) + k] = l[k]
        /\ \A k \in 1..Len(pay) : (one \o l \o pay)[Len(one) + Len(l) + k] = pay[k]
    <3>1. one \in Seq(Byte) /\ l \in Seq(Byte) /\ pay \in Seq(Byte)
      BY <1>2, <2>1, <2>2
    <3>2. QED
      BY <3>1, ConcatThree, Zenon
  <2>5. /\ c \in Seq(Byte) /\ Len(c) = 1 + 4 + n
        /\ \A k \in 1..1 : c[k] = one[k]
        /\ \A k \in 1..4 : c[1 + k] = l[k]
        /\ \A k \in 1..n : c[1 + 4 + k] = pay[k]
    BY <1>2, <2>1, <2>2, <2>3, <2>4, Zenon
  <2>6. 1 + 4 + n = n + 5 /\ \A k \in 1..n : 1 + 4 + k = 5 + k
    BY <1>1
  <2>7. QED
    BY <2>1, <2>5, <2>6 DEF pay
<1>4. /\ f \in Seq(Byte) /\ Len(f) = n + 8 /\ f[1] = Tr_Sync1 /\ f[2] = Tr_Sync2
      /\ \A k \in 1..(n + 5) : f[2 + k] = c[k]
      /\ f[n + 8] = Total(c)
  <2> DEFINE s == <<Tr_Sync1, Tr_Sync2>>
             t == <<Total(c)>>
  <2>1. s \in Seq(Byte) /\ Len(s) = 2 /\ s[1] = Tr_Sync1 /\ s[2] = Tr_Sync2
    BY SenderAssumption
  <2>2. Total(c) \in Byte
    <3>1. Len(c) \in 0..Len(c)
      BY <1>1, <1>3
    <3> HIDE DEF c
    <3>2. QED
      BY <1>3, <3>1, SumsAre DEF Total
  <2>3. t \in Seq(Byte) /\ Len(t) = 1 /\ t[1] = Total(c)
    BY <2>2
  <2>4. f = s \o c \o t
    BY DEF FrameOf, n, l
  <2> HIDE DEF s, t, c
  <2>5. /\ s \o c \o t \in Seq(Byte) /\ Len(s \o c \o t) = Len(s) + Len(c) + Len(t)
        /\ \A k \in 1..Len(s) : (s \o c \o t)[k] = s[k]
        /\ \A k \in 1..Len(c) : (s \o c \o t)[Len(s) + k] = c[k]
        /\ \A k \in 1..Len(t) : (s \o c \o t)[Len(s) + Len(c) + k] = t[k]
    BY <1>3, <2>1, <2>3, ConcatThree
  <2> HIDE DEF f
  <2>6. /\ Len(f) = n + 8 /\ f[1] = s[1] /\ f[2] = s[2]
        /\ \A k \in 1..(n + 5) : f[2 + k] = c[k]
        /\ f[2 + (n + 5) + 1] = t[1]
    <3>1. Len(s) = 2 /\ Len(c) = n + 5 /\ Len(t) = 1 /\ n \in Nat
      BY <1>1, <1>3, <2>1, <2>3
    <3>2. /\ f \in Seq(Byte) /\ Len(f) = 2 + (n + 5) + 1
          /\ \A k \in 1..2 : f[k] = s[k]
          /\ \A k \in 1..(n + 5) : f[2 + k] = c[k]
          /\ \A k \in 1..1 : f[2 + (n + 5) + k] = t[k]
      BY <2>4, <2>5, <3>1, Zenon
    <3>3. 2 + (n + 5) + 1 = n + 8
      BY <3>1
    <3>4. QED
      BY <3>2, <3>3
  <2>7. 2 + (n + 5) + 1 = n + 8
    BY <1>1
  <2>8. QED
    BY <2>1, <2>3, <2>4, <2>5, <2>6, <2>7
<1> HIDE DEF c, f
<1>5. /\ x \in Seq(Byte) /\ Len(x) = Len(w) + Len(f)
      /\ \A k \in 1..Len(f) : x[Len(w) + k] = f[k]
  BY <1>4, Concat
<1> HIDE DEF x
<1>6. Len(w) \in Nat /\ i \in Nat \ {0} /\ Len(x) = Len(w) + (n + 8)
  BY <1>4, <1>5
<1>7. \A k \in 0..(n + 7) : x[i + k] = f[k + 1]
  <2> SUFFICES ASSUME NEW k \in 0..(n + 7) PROVE x[i + k] = f[k + 1]
    OBVIOUS
  <2>1. k + 1 \in 1..Len(f) /\ i + k = Len(w) + (k + 1)
    <3>1. Len(f) = n + 8 /\ n \in Nat /\ Len(w) \in Nat
      BY <1>1, <1>4, <1>6
    <3>2. QED
      BY <3>1
  <2>2. QED
    BY <1>5, <2>1
<1> HIDE DEF i
<1>8. /\ x[i + 0] = f[1] /\ x[i + 1] = f[2] /\ x[i + (n + 7)] = f[n + 8]
      /\ \A k \in 1..(n + 5) : x[i + (k + 1)] = c[k]
  <2>1. 0 \in 0..(n + 7) /\ 1 \in 0..(n + 7) /\ n + 7 \in 0..(n + 7) /\ (n + 7) + 1 = n + 8
    BY <1>1
  <2>2. ASSUME NEW k \in 1..(n + 5) PROVE x[i + (k + 1)] = c[k]
    <3>1. k + 1 \in 0..(n + 7) /\ (k + 1) + 1 = 2 + k
      BY <1>1
    <3>2. QED
      BY <1>4, <1>7, <3>1
  <2>3. QED
    BY <1>7, <2>1, <2>2
<1>9. /\ x[i] = Tr_Sync1 /\ x[i + 1] = Tr_Sync2 /\ x[i + 2] = m.id
      /\ x[i + 3] = l[1] /\ x[i + 4] = l[2] /\ x[i + 5] = l[3] /\ x[i + 6] = l[4]
      /\ x[i + 7 + n] = Total(c)
  <2>1. c[2] = l[1] /\ c[3] = l[2] /\ c[4] = l[3] /\ c[5] = l[4]
    BY <1>3
  <2>2. /\ 1 \in 1..(n + 5) /\ 2 \in 1..(n + 5) /\ 3 \in 1..(n + 5)
        /\ 4 \in 1..(n + 5) /\ 5 \in 1..(n + 5)
    BY <1>1
  <2>3. /\ x[i + 2] = c[1] /\ x[i + 3] = c[2] /\ x[i + 4] = c[3] /\ x[i + 5] = c[4]
        /\ x[i + 6] = c[5]
    BY <1>8, <2>2
  <2>4. i + 0 = i /\ i + (n + 7) = i + 7 + n
    BY <1>1, <1>6
  <2>5. QED
    BY <1>3, <1>4, <1>8, <2>1, <2>3, <2>4
<1>10. LengthAt(x, i) = n
  BY <1>2, <1>9 DEF LengthAt
<1>11. SubSeq(x, i + 2, i + 6 + n) = c
  <2>1. SubSeq(x, i + 2, i + 6 + n)
          = [k \in 1..((i + 6 + n) + 1 - (i + 2)) |-> x[(i + 2) + k - 1]]
    <3>1. i + 2 \in Nat /\ i + 6 + n \in Nat
      BY <1>1, <1>6
    <3>2. QED
      BY <1>5, <3>1, SubIs
  <2>2. (i + 6 + n) + 1 - (i + 2) = n + 5 /\ \A k \in 1..(n + 5) : (i + 2) + k - 1 = i + (k + 1)
    BY <1>1, <1>6
  <2>3. c = [k \in 1..(n + 5) |-> c[k]]
    BY <1>3
  <2>4. QED
    BY <1>8, <2>1, <2>2, <2>3
<1>12. SubSeq(x, i + 7, i + 6 + n) = m.payload
  <2>1. SubSeq(x, i + 7, i + 6 + n)
          = [k \in 1..((i + 6 + n) + 1 - (i + 7)) |-> x[(i + 7) + k - 1]]
    <3>1. i + 7 \in Nat /\ i + 6 + n \in Nat
      BY <1>1, <1>6
    <3>2. QED
      BY <1>5, <3>1, SubIs
  <2>2. (i + 6 + n) + 1 - (i + 7) = n /\ \A k \in 1..n : (i + 7) + k - 1 = i + ((5 + k) + 1)
    BY <1>1, <1>6
  <2>3. \A k \in 1..n : 5 + k \in 1..(n + 5)
    BY <1>1
  <2>4. m.payload = [k \in 1..n |-> m.payload[k]]
    BY <1>1 DEF n
  <2>5. \A k \in 1..n : x[i + ((5 + k) + 1)] = m.payload[k]
    BY <1>3, <1>8, <2>3
  <2>6. QED
    BY <2>1, <2>2, <2>4, <2>5
<1>13. i + 7 <= Len(x) /\ i + 7 + n <= Len(x) /\ Len(x) + 1 = i + 8 + n
  BY <1>1, <1>6 DEF i
<1>14. Framed(x, i)
  BY <1>9, <1>10, <1>11, <1>13 DEF Framed
<1>15. MessageAt(x, i) = m
  BY <1>1, <1>9, <1>10, <1>12 DEF MessageAt
<1>16. QED
  BY <1>4, <1>10, <1>13, <1>14, <1>15 DEF x, i, f
-----------------------------------------------------------------------------
(* The frames of the messages t, at the places at, one after the other from *)
(* the first to the end of w.                                               *)
Places == Nat \ {0}

FollowOn(w, t, at, k) ==
  /\ Framed(w, at[k]) /\ MessageAt(w, at[k]) = t[k]
  /\ at[k + 1] = at[k] + 8 + LengthAt(w, at[k])

Follow(w, t, at, first) ==
  /\ at \in Seq(Places) /\ Len(at) = Len(t) + 1
  /\ at[1] = first /\ at[Len(t) + 1] = Len(w) + 1
  /\ \A k \in 1..Len(t) : FollowOn(w, t, at, k)

WireInv ==
  /\ wire \in Seq(Byte) /\ told \in Seq(Messages)
  /\ \/ ~linked /\ wire = <<>> /\ told = <<>>
     \/ \E at : Follow(wire, told, at, FirstFrame)

LEMMA ConcatMessages ==
  ASSUME NEW s \in Seq(Messages), NEW t \in Seq(Messages)
  PROVE  /\ s \o t \in Seq(Messages) /\ Len(s \o t) = Len(s) + Len(t)
         /\ \A k \in 1..Len(s) : (s \o t)[k] = s[k]
         /\ \A k \in 1..Len(t) : (s \o t)[Len(s) + k] = t[k]
  OBVIOUS

LEMMA LastHeard ==
  ASSUME NEW t \in Seq(Messages), NEW k \in 1..Len(t)
  PROVE  SubSeq(t, k, Len(t)) = <<t[k]>> \o SubSeq(t, k + 1, Len(t))
<1> DEFINE u == SubSeq(t, k + 1, Len(t))
           v == <<t[k]>>
<1>1. Len(t) \in Nat
  OBVIOUS
<1>2. /\ u \in Seq(Messages) /\ Len(u) = Len(t) - k
      /\ \A j \in 1..Len(u) : u[j] = t[k + j]
  BY <1>1
<1>3. v \in Seq(Messages) /\ Len(v) = 1 /\ v[1] = t[k]
  OBVIOUS
<1> DEFINE x == v \o u
           y == SubSeq(t, k, Len(t))
<1>4. y \in Seq(Messages) /\ Len(y) = Len(t) - k + 1 /\ \A j \in 1..Len(y) : y[j] = t[k + j - 1]
  BY <1>1
<1> HIDE DEF u, v
<1>5. /\ x \in Seq(Messages) /\ Len(x) = 1 + Len(u) /\ x[1] = t[k]
      /\ \A j \in 1..Len(u) : x[1 + j] = u[j]
  <2>1. v \in Seq(Messages) /\ u \in Seq(Messages)
    BY <1>2, <1>3
  <2>2. /\ x \in Seq(Messages) /\ Len(x) = Len(v) + Len(u)
        /\ \A j \in 1..Len(v) : x[j] = v[j]
        /\ \A j \in 1..Len(u) : x[Len(v) + j] = u[j]
    BY <2>1, ConcatMessages
  <2> HIDE DEF x
  <2>3. QED
    BY <1>3, <2>2
<1> HIDE DEF x, y
<1>6. Len(x) = Len(y)
  BY <1>1, <1>2, <1>4, <1>5
<1>7. \A j \in 1..Len(x) : x[j] = y[j]
  <2> SUFFICES ASSUME NEW j \in 1..Len(x) PROVE x[j] = y[j]
    OBVIOUS
  <2>1. y[j] = t[k + j - 1]
    BY <1>4, <1>6
  <2>2. CASE j = 1
    BY <1>5, <2>1, <2>2
  <2>3. CASE j # 1
    <3>1. j - 1 \in 1..Len(u) /\ 1 + (j - 1) = j /\ k + (j - 1) = k + j - 1
      BY <1>1, <1>2, <1>5, <2>3
    <3>2. QED
      BY <1>2, <1>5, <2>1, <3>1
  <2>4. QED
    BY <2>2, <2>3
<1>8. x = y
  BY <1>4, <1>5, <1>6, <1>7, SeqEqual
<1>9. QED
  BY <1>8 DEF x, y, u, v

(* Who reads them from the first place hears the messages.                  *)
LEMMA FollowHeard ==
  ASSUME NEW w \in Seq(Byte), NEW t \in Seq(Messages), NEW at, NEW first,
         Follow(w, t, at, first)
  PROVE  Hears(w)[first] = t
<1> DEFINE Told(k) == Hears(w)[at[k]] = SubSeq(t, k, Len(t))
           S == {d \in 0..Len(t) : Told(Len(t) + 1 - d)}
<1>1. Len(t) \in Nat /\ Len(w) \in Nat /\ at \in Seq(Places) /\ Len(at) = Len(t) + 1
  BY DEF Follow
<1>2. \A k \in 1..(Len(t) + 1) : at[k] \in Nat
  BY <1>1 DEF Places
<1>3. 0 \in S
  <2>1. at[Len(t) + 1] = Len(w) + 1
    BY DEF Follow
  <2>2. ~Framed(w, Len(w) + 1)
    BY <1>1 DEF Framed
  <2>3. Len(w) + 1 \in Nat
    BY <1>1
  <2>4. Hears(w)[Len(w) + 1] = <<>>
    BY <2>2, <2>3, HearsIs DEF HearsAt
  <2>5. SubSeq(t, Len(t) + 1, Len(t)) = <<>>
    BY <1>1
  <2>6. Told(Len(t) + 1)
    BY <2>1, <2>4, <2>5
  <2>7. Len(t) + 1 - 0 = Len(t) + 1 /\ 0 \in 0..Len(t)
    BY <1>1
  <2> HIDE DEF Told
  <2>8. QED
    BY <2>6, <2>7
<1>4. ASSUME NEW d \in 0..Len(t), d \in S, d < Len(t) PROVE d + 1 \in S
  <2> DEFINE k == Len(t) - d
  <2>1. k \in 1..Len(t) /\ Len(t) + 1 - d = k + 1 /\ Len(t) + 1 - (d + 1) = k
    BY <1>1, <1>4
  <2> HIDE DEF k
  <2>2. Hears(w)[at[k + 1]] = SubSeq(t, k + 1, Len(t))
    BY <1>4, <2>1
  <2>3. FollowOn(w, t, at, k) /\ at[k] \in Nat
    BY <1>2, <2>1 DEF Follow
  <2>4. Hears(w)[at[k]] = <<t[k]>> \o SubSeq(t, k + 1, Len(t))
    BY <2>2, <2>3, HearsIs DEF HearsAt, FollowOn
  <2>5. Told(k)
    BY <2>1, <2>4, LastHeard
  <2> HIDE DEF Told
  <2>6. d + 1 \in 0..Len(t) /\ Told(Len(t) + 1 - (d + 1))
    BY <1>1, <1>4, <2>1, <2>5
  <2>7. QED
    BY <2>6
<1>5. Len(t) \in S
  <2> HIDE DEF S
  <2>1. QED
    BY <1>1, <1>3, <1>4, Reaches
<1>6. Told(1)
  <2>1. Len(t) + 1 - Len(t) = 1
    BY <1>1
  <2> HIDE DEF Told
  <2>2. QED
    BY <1>5, <2>1
<1>7. SubSeq(t, 1, Len(t)) = t
  BY <1>1
<1>8. QED
  BY <1>6, <1>7 DEF Follow

LEMMA WireGives == WireInv => WireReads
<1> SUFFICES ASSUME WireInv PROVE Hears(wire)[FirstFrame] = told
  BY DEF WireReads, Heard
<1>1. CASE wire = <<>> /\ told = <<>>
  <2>1. FirstFrame \in Nat /\ ~Framed(wire, FirstFrame) /\ wire \in Seq(Byte)
    <3>1. Len(Greeting) \in Nat
      BY SenderAssumption
    <3>2. FirstFrame \in Nat
      BY <3>1 DEF FirstFrame
    <3>3. Len(wire) = 0
      BY <1>1
    <3>4. QED
      BY <1>1, <3>2, <3>3 DEF Framed
  <2>2. Hears(wire)[FirstFrame] = <<>>
    BY <2>1, HearsIs DEF HearsAt
  <2>3. QED
    BY <1>1, <2>2
<1>2. CASE \E at : Follow(wire, told, at, FirstFrame)
  BY <1>2, FollowHeard DEF WireInv
<1>3. QED
  BY <1>1, <1>2 DEF WireInv

(* One more frame at the end of those that are there.                       *)
LEMMA FollowMore ==
  ASSUME NEW w \in Seq(Byte), NEW t \in Seq(Messages), NEW at, NEW first,
         Follow(w, t, at, first), NEW m \in Messages
  PROVE  \E more : Follow(w \o FrameOf(m), Append(t, m), more, first)
<1> DEFINE x == w \o FrameOf(m)
           u == Append(t, m)
           more == Append(at, Len(x) + 1)
<1>1. /\ FrameOf(m) \in Seq(Byte) /\ Framed(x, Len(w) + 1) /\ MessageAt(x, Len(w) + 1) = m
      /\ Len(x) + 1 = (Len(w) + 1) + 8 + LengthAt(x, Len(w) + 1)
  BY FrameBegins
<1>2. x \in Seq(Byte) /\ Len(x) \in Nat
  BY <1>1
<1>3. at \in Seq(Places) /\ Len(at) = Len(t) + 1 /\ Len(t) \in Nat
  BY DEF Follow
<1>4. \A k \in 1..Len(t) : Framed(x, at[k]) /\ MessageAt(x, at[k]) = MessageAt(w, at[k])
                           /\ LengthAt(x, at[k]) = LengthAt(w, at[k])
  <2> SUFFICES ASSUME NEW k \in 1..Len(t)
               PROVE  Framed(x, at[k]) /\ MessageAt(x, at[k]) = MessageAt(w, at[k])
                      /\ LengthAt(x, at[k]) = LengthAt(w, at[k])
    OBVIOUS
  <2>1. at[k] \in Nat \ {0} /\ Framed(w, at[k])
    BY <1>3 DEF Follow, FollowOn, Places
  <2>2. QED
    BY <1>1, <2>1, FrameStays
<1> HIDE DEF x
<1>5. /\ u \in Seq(Messages) /\ Len(u) = Len(t) + 1 /\ u[Len(t) + 1] = m
      /\ \A k \in 1..Len(t) : u[k] = t[k]
  BY <1>3
<1>6. /\ more \in Seq(Places) /\ Len(more) = Len(t) + 2 /\ more[Len(t) + 2] = Len(x) + 1
      /\ \A k \in 1..(Len(t) + 1) : more[k] = at[k]
  <2>1. Len(x) + 1 \in Places
    BY <1>2 DEF Places
  <2>2. QED
    BY <1>3, <2>1
<1> HIDE DEF u, more
<1>7. ASSUME NEW k \in 1..Len(u) PROVE FollowOn(x, u, more, k)
  <2>1. k \in 1..Len(t) \/ k = Len(t) + 1
    BY <1>3, <1>5
  <2>2. CASE k \in 1..Len(t)
    <3>1. /\ more[k] = at[k] /\ more[k + 1] = at[k + 1] /\ u[k] = t[k]
      BY <1>3, <1>5, <1>6, <2>2
    <3>2. FollowOn(w, t, at, k)
      BY <2>2 DEF Follow
    <3>3. QED
      BY <1>4, <2>2, <3>1, <3>2 DEF FollowOn
  <2>3. CASE k = Len(t) + 1
    <3>1. more[k] = Len(w) + 1 /\ u[k] = m
      BY <1>3, <1>5, <1>6, <2>3 DEF Follow
    <3>2. more[k + 1] = Len(x) + 1
      <4>1. k + 1 = Len(t) + 2
        BY <1>3, <2>3
      <4>2. QED
        BY <1>6, <4>1
    <3>3. QED
      BY <1>1, <3>1, <3>2 DEF FollowOn
  <2>4. QED
    BY <2>1, <2>2, <2>3
<1>8. more[1] = first /\ more[Len(u) + 1] = Len(x) + 1 /\ Len(more) = Len(u) + 1
  <2>1. 1 \in 1..(Len(t) + 1) /\ Len(u) + 1 = Len(t) + 2
    BY <1>3, <1>5
  <2>2. QED
    BY <1>6, <2>1 DEF Follow
<1>9. Follow(x, u, more, first)
  BY <1>6, <1>7, <1>8 DEF Follow
<1>10. QED
  BY <1>9 DEF x, u

LEMMA WireInit == SenderInit => WireInv
  BY DEF SenderInit, WireInv

LEMMA WireNext == WireInv /\ [SenderNext]_sendVars => WireInv'
<1> SUFFICES ASSUME WireInv, [SenderNext]_sendVars PROVE WireInv'
  OBVIOUS
<1>1. CASE connect2Server
  <2>1. /\ linked' = TRUE /\ told' = <<>> /\ sender' = sender
        /\ wire' = IF sender = "Lan_Conn" THEN <<>> ELSE Greeting
    BY <1>1 DEF connect2Server
  <2>2. wire' \in Seq(Byte) /\ told' \in Seq(Messages) /\ Len(wire') + 1 = FirstFrame'
    BY <2>1, SenderAssumption DEF FirstFrame
  <2>3. FirstFrame' \in Places
    BY <2>2 DEF Places
  <2> DEFINE at == <<FirstFrame'>>
  <2>4. at \in Seq(Places) /\ Len(at) = 1 /\ at[1] = FirstFrame'
    BY <2>3
  <2>5. Len(told') = 0
    BY <2>1
  <2>6. Follow(wire', told', at, FirstFrame')
    <3> HIDE DEF at
    <3>1. QED
      BY <2>2, <2>4, <2>5 DEF Follow
  <2>7. \E y : Follow(wire', told', y, FirstFrame')
    BY <2>6
  <2>8. QED
    BY <2>2, <2>7 DEF WireInv
<1>2. ASSUME NEW m \in Messages, transMsgLAN(m) \/ transmitMessage_LAN(m) PROVE WireInv'
  <2>1. Write(m, FrameOf(m)) /\ UNCHANGED <<sender, linked>>
    BY <1>2 DEF transMsgLAN, transmitMessage_LAN
  <2>2. CASE linked
    <3>1. wire' = wire \o FrameOf(m) /\ told' = Append(told, m) /\ FirstFrame' = FirstFrame
      BY <2>1, <2>2 DEF Write, FirstFrame
    <3>2. PICK at : Follow(wire, told, at, FirstFrame)
      BY <2>2 DEF WireInv
    <3>3. \E more : Follow(wire \o FrameOf(m), Append(told, m), more, FirstFrame)
      BY <3>2, FollowMore DEF WireInv
    <3>4. FrameOf(m) \in Seq(Byte)
      BY FrameBegins DEF WireInv
    <3>5. wire' \in Seq(Byte) /\ told' \in Seq(Messages)
      BY <3>1, <3>4 DEF WireInv
    <3>6. \E more : Follow(wire', told', more, FirstFrame')
      BY <3>1, <3>3
    <3>7. QED
      BY <3>5, <3>6 DEF WireInv
  <2>3. CASE ~linked
    <3>1. UNCHANGED <<wire, told, sender, linked>>
      BY <2>1, <2>3 DEF Write
    <3>2. QED
      BY <3>1 DEF WireInv, FirstFrame
  <2>4. QED
    BY <2>2, <2>3
<1>3. CASE LinkDown \/ UNCHANGED sendVars
  <2>1. UNCHANGED <<wire, told, sender>> /\ (linked' => linked)
    BY <1>3 DEF LinkDown, sendVars
  <2>2. QED
    BY <2>1 DEF WireInv, FirstFrame
<1>4. QED
  BY <1>1, <1>2, <1>3 DEF SenderNext

(* Who reads a connection from its start hears the messages sent on it, all *)
(* and in order, of any length that four bytes hold, whatever bytes they    *)
(* contain and however often the link fails (transMsgLAN of Tcp_Client and  *)
(* its copies).                                                             *)
THEOREM WireReadsCorrect == SenderSpec => []WireReads
BY WireInit, WireNext, WireGives, PTL DEF SenderSpec
-----------------------------------------------------------------------------
(* Numbers of two bytes.                                                    *)
LEMMA RegWidths ==
  /\ RegWidth \in Nat /\ RegWidth > 7 /\ RegWidth * RegWidth \in Nat
  /\ RegWidth * RegWidth > RegWidth
  /\ \A n \in 0..7 : n \in RegByte
<1>1. RegWidth \in Nat /\ RegWidth > 7
  BY RegisterAssumption
<1>2. \A W \in Nat : W > 7 => W * W \in Nat /\ W * W > W
  OBVIOUS
<1>3. QED
  BY <1>1, <1>2 DEF RegByte

LEMMA Words ==
  /\ \A a, b \in RegByte : FromLow(a, b) \in Word
  /\ \A a, b \in Word : Add16(a, b) \in Word
  /\ \A b \in RegByte : b \in Word
  /\ 0 \in Word /\ 0 \in RegByte
<1>1. \A W \in Nat : W > 7 =>
        \A a, b \in 0..(W - 1) : a + W * b \in 0..(W * W - 1)
  OBVIOUS
<1>2. \A W \in Nat : W > 7 => \A a, b \in 0..(W - 1) : (a + b) % W \in 0..(W - 1)
  OBVIOUS
<1>3. \A a, b \in RegByte : FromLow(a, b) \in Word
  BY <1>1, RegWidths DEF RegByte, Word, FromLow
<1>4. \A a, b \in Word : Add16(a, b) \in Word
  <2> DEFINE V == RegWidth * RegWidth
  <2>1. V \in Nat /\ V > 7
    BY RegWidths
  <2> HIDE DEF V
  <2>2. \A a, b \in 0..(V - 1) : (a + b) % V \in 0..(V - 1)
    BY <1>2, <2>1
  <2>3. QED
    BY <2>2 DEF Word, Add16, V
<1>5. (\A b \in RegByte : b \in Word) /\ 0 \in Word /\ 0 \in RegByte
  BY RegWidths DEF RegByte, Word
<1>6. QED
  BY <1>3, <1>4, <1>5

(* The two bytes of a number make it again.                                 *)
LEMMA LowFirstIs ==
  ASSUME NEW n \in Word
  PROVE  /\ LowFirst(n) \in Seq(RegByte) /\ Len(LowFirst(n)) = 2
         /\ FromLow(LowFirst(n)[1], LowFirst(n)[2]) = n
         /\ n \in RegByte => LowFirst(n)[1] = n /\ LowFirst(n)[2] = 0
<1>1. n \in Nat /\ n < RegWidth * RegWidth
  BY RegWidths DEF Word
<1>2. \A W \in Nat : W > 7 => \A a \in Nat :
        /\ a = (a % W) + W * (a \div W) /\ a % W \in 0..(W - 1) /\ a \div W \in Nat
        /\ a < W => a % W = a /\ a \div W = 0
  OBVIOUS
<1>3. \A W \in Nat : W > 7 => \A a \in Nat : a < W * W => a \div W < W
  OBVIOUS
<1>4. /\ n = (n % RegWidth) + RegWidth * (n \div RegWidth) /\ n % RegWidth \in RegByte
      /\ n \div RegWidth \in 0..(RegWidth - 1)
      /\ n < RegWidth => n % RegWidth = n /\ n \div RegWidth = 0
  BY <1>1, <1>2, <1>3, RegWidths DEF RegByte
<1>5. (n \div RegWidth) % RegWidth = n \div RegWidth /\ n \div RegWidth \in RegByte
  BY <1>2, <1>4, RegWidths DEF RegByte
<1> DEFINE a == n % RegWidth
           b == n \div RegWidth
<1>6. LowFirst(n) = <<a, b>>
  BY <1>5 DEF LowFirst
<1>7. a \in RegByte /\ b \in RegByte /\ FromLow(a, b) = n
  BY <1>4, <1>5 DEF FromLow
<1>8. n \in RegByte => a = n /\ b = 0
  BY <1>4, RegWidths DEF RegByte
<1> HIDE DEF a, b
<1>9. QED
  BY <1>6, <1>7, <1>8

(* The sums of the bytes of a sequence.                                     *)
LEMMA SumOfIs ==
  ASSUME NEW s \in Seq(RegByte)
  PROVE  /\ SumOf(s)[0] = 0
         /\ \A k \in 1..Len(s) : SumOf(s)[k] = Add16(SumOf(s)[k - 1], s[k])
         /\ \A k \in 0..Len(s) : SumOf(s)[k] \in Word
         /\ summation(s) \in Word
<1> DEFINE E(f) == f = [n \in 0..Len(s) |-> IF n = 0 THEN 0 ELSE Add16(f[n - 1], s[n])]
           step == [x \in Word \X (1..Len(s)) |-> Add16(x[1], s[x[2]])]
<1>1. Len(s) \in Nat /\ \A k \in 1..Len(s) : s[k] \in Word
  BY Words
<1>2. step \in [Word \X (1..Len(s)) -> Word]
  BY <1>1, Words
<1>3. \A x \in Word, k \in 1..Len(s) : step[<<x, k>>] = Add16(x, s[k])
  OBVIOUS
<1> HIDE DEF step
<1>4. PICK f : MadeBy(f, Word, 0, Len(s), step)
  <2> DEFINE N == Len(s)
  <2>1. N \in Nat /\ 0 \in Word /\ step \in [Word \X (1..N) -> Word]
    BY <1>1, <1>2, Words
  <2> HIDE DEF N
  <2>2. \E f : MadeBy(f, Word, 0, N, step)
    BY <2>1, StepsExist
  <2>3. QED
    BY <2>2 DEF N
<1>5. E(f)
  <2>1. f \in [0..Len(s) -> Word] /\ f[0] = 0
    BY <1>4 DEF MadeBy
  <2>2. \A k \in 1..Len(s) : f[k] = Add16(f[k - 1], s[k])
    <3> SUFFICES ASSUME NEW k \in 1..Len(s) PROVE f[k] = Add16(f[k - 1], s[k])
      OBVIOUS
    <3>1. k - 1 \in 0..Len(s)
      BY <1>1
    <3>2. f[k - 1] \in Word
      BY <2>1, <3>1
    <3>3. f[k] = step[<<f[k - 1], k>>]
      BY <1>4 DEF MadeBy
    <3>4. QED
      BY <1>3, <3>2, <3>3
  <2>3. \A n \in 0..Len(s) : f[n] = IF n = 0 THEN 0 ELSE Add16(f[n - 1], s[n])
    <3> SUFFICES ASSUME NEW n \in 0..Len(s), n # 0 PROVE n \in 1..Len(s)
      BY <2>1, <2>2
    <3>1. QED
      BY <1>1
  <2>4. QED
    BY <2>1, <2>3
<1>6. SumOf(s) = CHOOSE h : E(h)
  BY DEF SumOf
<1>7. E(SumOf(s))
  <2> HIDE DEF E
  <2>1. QED
    BY <1>5, <1>6
<1> DEFINE h == SumOf(s)
<1>8. h[0] = 0 /\ \A k \in 1..Len(s) : h[k] = Add16(h[k - 1], s[k])
  BY <1>1, <1>7
<1> HIDE DEF h
<1>9. \A k \in 1..Len(s) : h[k - 1] \in Word => h[k] \in Word
  BY <1>1, <1>8, Words
<1>10. \A k \in 0..Len(s) : h[k] \in Word
  BY <1>1, <1>8, <1>9, Words, StepsIn
<1>11. QED
  BY <1>1, <1>8, <1>10 DEF h, summation
-----------------------------------------------------------------------------
(* A frame.                                                                 *)
LEMMA SizeIs ==
  /\ \A t : Size(t) \in {0, 1, 2, 4}
  /\ \A t \in 1..7 : Size(t) \in {1, 2, 4}
BY DEF Size

LEMMA JoinedRegs ==
  ASSUME NEW s \in Seq(RegByte), NEW t \in Seq(RegByte)
  PROVE  /\ s \o t \in Seq(RegByte) /\ Len(s \o t) = Len(s) + Len(t)
         /\ \A k \in 1..Len(s) : (s \o t)[k] = s[k]
         /\ \A k \in 1..Len(t) : (s \o t)[Len(s) + k] = t[k]
  BY Joined

LEMMA JoinedThreeRegs ==
  ASSUME NEW r \in Seq(RegByte), NEW s \in Seq(RegByte), NEW t \in Seq(RegByte)
  PROVE  /\ r \o s \o t \in Seq(RegByte) /\ Len(r \o s \o t) = Len(r) + Len(s) + Len(t)
         /\ \A k \in 1..Len(r) : (r \o s \o t)[k] = r[k]
         /\ \A k \in 1..Len(s) : (r \o s \o t)[Len(r) + k] = s[k]
         /\ \A k \in 1..Len(t) : (r \o s \o t)[Len(r) + Len(s) + k] = t[k]
  BY JoinedThree

LEMMA LowFirstIn ==
  ASSUME NEW n \in Nat
  PROVE  LowFirst(n) \in Seq(RegByte) /\ Len(LowFirst(n)) = 2
<1>1. \A W \in Nat : W > 7 => \A a \in Nat : a % W \in 0..(W - 1) /\ a \div W \in Nat
  OBVIOUS
<1>2. n % RegWidth \in RegByte /\ (n \div RegWidth) % RegWidth \in RegByte
  BY <1>1, RegWidths DEF RegByte
<1>3. QED
  BY <1>2 DEF LowFirst

LEMMA SendMessageIn ==
  ASSUME NEW id \in RegByte, NEW fun \in RegByte, NEW payload \in Seq(RegByte)
  PROVE  /\ SendMessage(id, fun, payload) \in Seq(RegByte)
         /\ Len(SendMessage(id, fun, payload)) = Len(payload) + 8
<1> DEFINE l == LowFirst(Len(payload))
           c == <<id, fun>> \o l \o payload
           h == LowFirst(summation(c))
<1>1. l \in Seq(RegByte) /\ Len(l) = 2
  BY LowFirstIn
<1> HIDE DEF l
<1>2. c \in Seq(RegByte) /\ Len(c) = Len(payload) + 4
  <2> DEFINE i == <<id, fun>>
  <2>1. i \in Seq(RegByte) /\ Len(i) = 2
    OBVIOUS
  <2> HIDE DEF i
  <2>2. i \o l \o payload \in Seq(RegByte)
        /\ Len(i \o l \o payload) = Len(i) + Len(l) + Len(payload)
    BY <1>1, <2>1, JoinedThreeRegs
  <2>3. Len(payload) \in Nat
    OBVIOUS
  <2>4. QED
    BY <1>1, <2>1, <2>2, <2>3 DEF i
<1> HIDE DEF c
<1>3. h \in Seq(RegByte) /\ Len(h) = 2
  <2>1. summation(c) \in Word
    BY <1>2, SumOfIs
  <2>2. QED
    BY <2>1, LowFirstIs
<1> HIDE DEF h
<1>4. SYNC1 \in RegByte /\ SYNC2 \in RegByte
  BY RegisterAssumption
<1>5. /\ <<SYNC1, SYNC2>> \o c \o h \in Seq(RegByte)
      /\ Len(<<SYNC1, SYNC2>> \o c \o h) = Len(payload) + 8
  <2> DEFINE i == <<SYNC1, SYNC2>>
  <2>1. i \in Seq(RegByte) /\ Len(i) = 2
    BY <1>4
  <2> HIDE DEF i
  <2>2. i \o c \o h \in Seq(RegByte) /\ Len(i \o c \o h) = Len(i) + Len(c) + Len(h)
    BY <1>2, <1>3, <2>1, JoinedThreeRegs
  <2>3. Len(payload) \in Nat
    OBVIOUS
  <2>4. QED
    BY <1>2, <1>3, <2>1, <2>2, <2>3 DEF i
<1>6. SendMessage(id, fun, payload) = <<SYNC1, SYNC2>> \o c \o h
  BY DEF SendMessage, c, h, l
<1>7. QED
  BY <1>5, <1>6

LEMMA PackedIn ==
  ASSUME NEW r \in Request
  PROVE  Packed(r) \in Seq(RegByte) /\ Len(Packed(r)) = 3 + Size(r.type)
<1>1. r.type \in RegByte /\ r.reg \in Nat /\ r.value \in Cell /\ r.type \in 1..7
  <2>1. r.reg \in Registers /\ r.value \in Cell /\ r.type \in 1..7
    BY DEF Request
  <2>2. Registers \subseteq Nat
    <3>1. Registers \subseteq 0..(RegWidth * RegWidth - 1)
      BY RegisterAssumption
    <3> DEFINE V == RegWidth * RegWidth
    <3>2. V \in Nat
      BY RegWidths
    <3> HIDE DEF V
    <3>3. 0..(V - 1) \subseteq Nat
      BY <3>2
    <3>4. QED
      BY <3>1, <3>3 DEF V
  <2>3. r.type \in RegByte
    BY <2>1, RegWidths
  <2>4. QED
    BY <2>1, <2>2, <2>3
<1>2. r.value \in Seq(RegByte) /\ Len(r.value) = 4
  <2> DEFINE w == r.value
  <2>1. w \in [1..4 -> RegByte]
    BY <1>1 DEF Cell
  <2> HIDE DEF w
  <2>2. ASSUME NEW n \in Nat, NEW v \in [1..n -> RegByte]
        PROVE  v \in Seq(RegByte) /\ Len(v) = n
    OBVIOUS
  <2>3. w \in Seq(RegByte) /\ Len(w) = 4
    BY <2>1, <2>2
  <2>4. QED
    BY <2>3 DEF w
<1>3. Size(r.type) \in 1..4
  BY <1>1, SizeIs
<1> DEFINE v == SubSeq(r.value, 1, Size(r.type))
           l == LowFirst(r.reg)
<1>4. v \in Seq(RegByte) /\ Len(v) = Size(r.type)
  BY <1>2, <1>3
<1>5. l \in Seq(RegByte) /\ Len(l) = 2
  BY <1>1, LowFirstIn
<1>6. Packed(r) = <<r.type>> \o l \o v
  BY DEF Packed
<1> DEFINE i == <<r.type>>
<1>7. i \in Seq(RegByte) /\ Len(i) = 1
  BY <1>1
<1> HIDE DEF v, l, i
<1>8. i \o l \o v \in Seq(RegByte) /\ Len(i \o l \o v) = Len(i) + Len(l) + Len(v)
  BY <1>4, <1>5, <1>7, JoinedThreeRegs
<1>9. QED
  BY <1>3, <1>4, <1>5, <1>6, <1>7, <1>8 DEF i
-----------------------------------------------------------------------------
(* The records of a payload.                                                *)
LoopState(L) ==
  {s \in [at : Nat \ {0}, msg : Seq(RegByte), mem : [Registers -> Cell]] : Len(s.msg) = L}

LEMMA FurtherIn ==
  ASSUME NEW L \in Nat, NEW fun, NEW s \in LoopState(L)
  PROVE  Further(fun)[s] \in LoopState(L)
<1> DEFINE at == s.at  bytes == s.msg  mem == s.mem
           n == Size(s.msg[s.at])
           r == RegAt(s.msg, s.at)
<1>1. at \in Nat \ {0} /\ bytes \in Seq(RegByte) /\ mem \in [Registers -> Cell] /\ Len(bytes) = L
  BY DEF LoopState
<1>0. s \in Progress
  BY DEF LoopState, Progress
<1>2. CASE ~Known(s)
  BY <1>0, <1>2 DEF Further
<1>3. CASE Known(s)
  <2>1. n \in {0, 1, 2, 4}
    BY SizeIs
  <2>2. at + 2 + n <= L /\ r \in Registers
    BY <1>1, <1>3 DEF Known
  <2> HIDE DEF n, r
  <2>3. mem[r] \in Cell
    BY <1>1, <2>2
  <2>4. Filled(s, n) \in Seq(RegByte) /\ Len(Filled(s, n)) = L
    <3>1. DOMAIN bytes = 1..L
      BY <1>1
    <3>2. Filled(s, n) = [k \in 1..L |-> IF k \in (at + 3)..(at + 2 + n)
                                         THEN mem[r][k - at - 2] ELSE bytes[k]]
      BY <3>1 DEF Filled, r
    <3>3. ASSUME NEW k \in 1..L
          PROVE  (IF k \in (at + 3)..(at + 2 + n) THEN mem[r][k - at - 2] ELSE bytes[k]) \in RegByte
      <4>1. CASE k \in (at + 3)..(at + 2 + n)
        <5>1. k - at - 2 \in 1..4
          BY <1>1, <2>1, <4>1
        <5>2. QED
          BY <2>3, <4>1, <5>1 DEF Cell
      <4>2. CASE k \notin (at + 3)..(at + 2 + n)
        BY <1>1, <4>2
      <4>3. QED
        BY <4>1, <4>2
    <3>4. Filled(s, n) \in [1..L -> RegByte]
      BY <3>2, <3>3
    <3>5. QED
      BY <3>4
  <2>5. Stored(s, n) \in [Registers -> Cell]
    <3> DEFINE c == [k \in 1..4 |-> IF k <= n THEN bytes[at + 2 + k] ELSE mem[r][k]]
    <3>1. ASSUME NEW k \in 1..4 PROVE (IF k <= n THEN bytes[at + 2 + k] ELSE mem[r][k]) \in RegByte
      <4>1. CASE k <= n
        <5>1. at + 2 + k \in 1..L
          BY <1>1, <2>1, <2>2, <4>1
        <5>2. QED
          BY <1>1, <4>1, <5>1
      <4>2. CASE ~(k <= n)
        BY <2>3, <4>2 DEF Cell
      <4>3. QED
        BY <4>1, <4>2
    <3>2. c \in Cell
      BY <3>1 DEF Cell
    <3>3. Stored(s, n) = [mem EXCEPT ![r] = c]
      BY <1>1, <2>2 DEF Stored, r
    <3> HIDE DEF c
    <3>4. QED
      BY <1>1, <3>2, <3>3
  <2>6. Further(fun)[s] = [at  |-> at + 3 + n,
                           msg |-> IF fun = 0 THEN Filled(s, n) ELSE bytes,
                           mem |-> IF fun = 1 THEN Stored(s, n) ELSE mem]
    BY <1>0, <1>3 DEF Further, Record, n
  <2>7. at + 3 + n \in Nat \ {0}
    BY <1>1, <2>1
  <2> HIDE DEF at, bytes, mem
  <2>8. QED
    BY <1>1, <2>4, <2>5, <2>6, <2>7 DEF LoopState
<1>4. QED
  BY <1>2, <1>3

LEMMA RecordsIs ==
  ASSUME NEW fun, NEW payload \in Seq(RegByte), MemMAP \in [Registers -> Cell]
  PROVE  /\ Most(payload) \in Nat
         /\ Records(fun, payload)[0] = [at |-> 1, msg |-> payload, mem |-> MemMAP]
         /\ \A k \in 1..Most(payload) :
              Records(fun, payload)[k] = Further(fun)[Records(fun, payload)[k - 1]]
         /\ \A k \in 0..Most(payload) : Records(fun, payload)[k] \in LoopState(Len(payload))
<1> DEFINE S == LoopState(Len(payload))
           first == [at |-> 1, msg |-> payload, mem |-> MemMAP]
           E(f) == f = [n \in 0..Most(payload) |->
                          IF n = 0 THEN first ELSE Further(fun)[f[n - 1]]]
           step == [x \in S \X (1..Most(payload)) |-> Further(fun)[x[1]]]
<1>1. Len(payload) \in Nat /\ Most(payload) \in Nat
  BY DEF Most
<1>2. first \in S
  BY DEF LoopState
<1>3. \A s \in S : Further(fun)[s] \in S
  BY <1>1, FurtherIn
<1>4. Records(fun, payload) = CHOOSE h : E(h)
  BY DEF Records
<1> HIDE DEF first, S
<1>5. step \in [S \X (1..Most(payload)) -> S]
  BY <1>3
<1>6. \A x \in S, k \in 1..Most(payload) : step[<<x, k>>] = Further(fun)[x]
  OBVIOUS
<1> HIDE DEF step
<1>7. PICK f : MadeBy(f, S, first, Most(payload), step)
  <2> DEFINE N == Most(payload)
  <2>1. N \in Nat /\ step \in [S \X (1..N) -> S]
    BY <1>1, <1>5
  <2> HIDE DEF N
  <2>2. \E f : MadeBy(f, S, first, N, step)
    BY <1>2, <2>1, StepsExist
  <2>3. QED
    BY <2>2 DEF N
<1>8. E(f)
  <2> DEFINE N == Most(payload)
  <2>1. /\ N \in Nat /\ f \in [0..N -> S] /\ f[0] = first
        /\ \A k \in 1..N : f[k] = step[<<f[k - 1], k>>]
    BY <1>1, <1>7 DEF MadeBy
  <2>2. \A x \in S, k \in 1..N : step[<<x, k>>] = Further(fun)[x]
    BY <1>6
  <2> HIDE DEF N
  <2>3. ASSUME NEW n \in 0..N
        PROVE  f[n] = IF n = 0 THEN first ELSE Further(fun)[f[n - 1]]
    <3>1. CASE n = 0
      BY <2>1, <3>1
    <3>2. CASE n # 0
      <4>1. n \in 1..N /\ n - 1 \in 0..N
        BY <2>1, <3>2
      <4>2. f[n - 1] \in S /\ f[n] = step[<<f[n - 1], n>>]
        BY <2>1, <4>1
      <4>3. QED
        BY <2>2, <3>2, <4>1, <4>2
    <3>3. QED
      BY <3>1, <3>2
  <2>4. f = [n \in 0..N |-> IF n = 0 THEN first ELSE Further(fun)[f[n - 1]]]
    <3> DEFINE g == [n \in 0..N |-> IF n = 0 THEN first ELSE Further(fun)[f[n - 1]]]
    <3>1. \A n \in 0..N : f[n] = g[n]
      BY <2>3
    <3>2. DOMAIN f = 0..N /\ DOMAIN g = 0..N /\ f = [n \in 0..N |-> f[n]]
          /\ g = [n \in 0..N |-> g[n]]
      BY <2>1
    <3> HIDE DEF g
    <3>3. f = g
      BY <3>1, <3>2
    <3>4. QED
      BY <3>3 DEF g
  <2>5. QED
    BY <2>4 DEF N
<1> DEFINE h == Records(fun, payload)
<1>9. E(h)
  <2> HIDE DEF E
  <2>1. QED
    BY <1>4, <1>8
<1>10. h[0] = first /\ \A k \in 1..Most(payload) : h[k] = Further(fun)[h[k - 1]]
  <2> DEFINE N == Most(payload)
             F == Further(fun)
  <2>1. h = [n \in 0..N |-> IF n = 0 THEN first ELSE F[h[n - 1]]]
    BY <1>9
  <2> HIDE DEF h, N, F
  <2>2. N \in Nat
    BY <1>1 DEF N
  <2>3. 0 \in 0..N /\ \A k \in 1..N : k \in 0..N /\ k # 0
    BY <2>2
  <2>4. \A k \in 0..N : h[k] = IF k = 0 THEN first ELSE F[h[k - 1]]
    BY <2>1, Zenon
  <2>5. h[0] = first /\ \A k \in 1..N : h[k] = F[h[k - 1]]
    BY <2>3, <2>4, Zenon
  <2>6. QED
    BY <2>5 DEF N, F
<1> HIDE DEF h, E
<1>11. \A k \in 1..Most(payload) : h[k - 1] \in S => h[k] \in S
  BY <1>3, <1>10
<1>12. \A k \in 0..Most(payload) : h[k] \in S
  BY <1>1, <1>2, <1>10, <1>11, StepsIn
<1>13. QED
  BY <1>1, <1>10, <1>12 DEF h, first, S
-----------------------------------------------------------------------------
(* The types.  A byte waits in msgCheckSum and in Length for its second     *)
(* one, and nothing is sent of a frame that has ended.                      *)
CardOK ==
  /\ out \in Seq(RegByte) /\ status \in ParserStatus
  /\ CheckSum \in Word /\ msgCheckSum \in Word
  /\ head \in [ID : RegByte, FUN : RegByte, Length : Word, Payload : Seq(RegByte)]
  /\ MemMAP \in [Registers -> Cell] /\ obeyed \in BOOLEAN
  /\ status = "GOT_CHKSUM1" => msgCheckSum \in RegByte
  /\ status = "GOT_LEN1" => head.Length \in RegByte

StationOK ==
  /\ station \in {"idle", "sending", "paused", "reading"}
  /\ data \in Request \cup {Nothing} /\ tx \in Seq(RegByte) /\ p \in Seq(RegByte)
  /\ station = "sending" => tx # <<>>
  /\ station # "idle" => data \in Request

RegInv == CardOK /\ StationOK /\ shaken \in BOOLEAN /\ resets \in 0..MaxResets

LEMMA NoMessageIn ==
  NoMessage \in [ID : RegByte, FUN : RegByte, Length : Word, Payload : Seq(RegByte)]
<1>1. 0 \in RegByte /\ 0 \in Word /\ <<>> \in Seq(RegByte)
  BY Words
<1>2. QED
  BY <1>1 DEF NoMessage

LEMMA ParseMsgOK ==
  ASSUME CardOK, NEW queued \in Seq(RegByte), ParseMsg(queued)
  PROVE  out' \in Seq(RegByte) /\ MemMAP' \in [Registers -> Cell]
<1> DEFINE L    == Len(head.Payload)
           last == Records(head.FUN, head.Payload)[Most(head.Payload)]
           a    == SendMessage(head.ID, 0, last.msg)
<1>1. /\ head.Payload \in Seq(RegByte) /\ head.ID \in RegByte
      /\ MemMAP \in [Registers -> Cell]
  BY DEF CardOK
<1>2. last \in LoopState(L)
  <2>1. Most(head.Payload) \in Nat
    BY <1>1, RecordsIs
  <2>2. \A n \in Nat : n \in 0..n
    OBVIOUS
  <2>3. Most(head.Payload) \in 0..Most(head.Payload)
    BY <2>1, <2>2, Zenon
  <2>4. QED
    BY <1>1, <2>3, RecordsIs
<1>3. \/ out' = queued /\ UNCHANGED MemMAP
      \/ /\ MemMAP' = last.mem
         /\ out' = IF head.FUN = 0 THEN queued \o a ELSE queued
  BY DEF ParseMsg
<1> HIDE DEF last
<1>4. last.msg \in Seq(RegByte) /\ last.mem \in [Registers -> Cell]
  BY <1>2 DEF LoopState
<1>5. a \in Seq(RegByte)
  BY <1>1, <1>4, SendMessageIn, Words
<1> HIDE DEF a
<1>6. queued \o a \in Seq(RegByte)
  BY <1>5, JoinedRegs
<1>7. QED
  BY <1>1, <1>3, <1>4, <1>6

LEMMA ParseByteOK ==
  ASSUME CardOK, NEW b \in RegByte, ParseByte(b)
  PROVE  CardOK'
<1> DEFINE queued == IF out = <<>> THEN <<>> ELSE Tail(out)
           Head4  == [ID : RegByte, FUN : RegByte, Length : Word, Payload : Seq(RegByte)]
<1>1. queued \in Seq(RegByte)
  BY DEF CardOK
<1>2. \/ (Sync(b) \/ Header(b)) /\ NoParse(queued) /\ UNCHANGED msgCheckSum
      \/ Sum(b, queued) /\ UNCHANGED <<CheckSum, head>>
  BY DEF ParseByte
<1>3. Add16(CheckSum, b) \in Word
  BY Words DEF CardOK
<1> HIDE DEF queued
<1>4. ASSUME Sync(b) \/ Header(b), NoParse(queued), UNCHANGED msgCheckSum PROVE CardOK'
  <2>1. /\ out' \in Seq(RegByte) /\ msgCheckSum' \in Word
        /\ MemMAP' \in [Registers -> Cell] /\ obeyed' \in BOOLEAN
    BY <1>1, <1>4 DEF NoParse, CardOK
  <2>2. CASE Sync(b)
    <3>1. CheckSum' \in Word
      BY <1>3, <2>2, Words DEF Sync, Summing
    <3>2. head' \in Head4
      BY <2>2, NoMessageIn DEF Sync, CardOK
    <3>3. status' \in {"UNINIT", "GOT_SYNC1", "GOT_SYNC2"}
      BY <2>2 DEF Sync, To
    <3>4. QED
      BY <2>1, <3>1, <3>2, <3>3 DEF CardOK, ParserStatus
  <2>3. CASE Header(b)
    <3>1. CheckSum' \in Word
      BY <1>3, <2>3 DEF Header, Summing
    <3>2. CASE status = "GOT_SYNC2" /\ To("GOT_ID") /\ head' = [head EXCEPT !.ID = b]
      <4>1. head' \in Head4
        BY <3>2 DEF CardOK
      <4>2. QED
        BY <2>1, <3>1, <3>2, <4>1 DEF CardOK, ParserStatus, To
    <3>3. CASE status = "GOT_ID" /\ To("GOT_FUN") /\ head' = [head EXCEPT !.FUN = b]
      <4>1. head' \in Head4
        BY <3>3 DEF CardOK
      <4>2. QED
        BY <2>1, <3>1, <3>3, <4>1 DEF CardOK, ParserStatus, To
    <3>4. CASE status = "GOT_FUN" /\ To("GOT_LEN1") /\ head' = [head EXCEPT !.Length = b]
      <4>1. head' \in Head4 /\ head'.Length = b
        BY <3>4, Words DEF CardOK
      <4>2. QED
        BY <2>1, <3>1, <3>4, <4>1 DEF CardOK, ParserStatus, To
    <3>5. CASE /\ status = "GOT_LEN1" /\ head' = [head EXCEPT !.Length = FromLow(@, b)]
               /\ To(IF head'.Length = 0 THEN "GOT_PAYLOAD" ELSE "GOT_LEN2")
      <4>1. FromLow(head.Length, b) \in Word
        BY <3>5, Words DEF CardOK
      <4>2. head' \in Head4
        BY <3>5, <4>1 DEF CardOK
      <4>3. status' \in {"GOT_PAYLOAD", "GOT_LEN2"}
        BY <3>5 DEF To
      <4>4. QED
        BY <2>1, <3>1, <4>2, <4>3 DEF CardOK, ParserStatus
    <3>6. CASE /\ status = "GOT_LEN2" /\ head' = [head EXCEPT !.Payload = Append(@, b)]
               /\ To(IF Len(head'.Payload) = head.Length THEN "GOT_PAYLOAD" ELSE "GOT_LEN2")
      <4>1. Append(head.Payload, b) \in Seq(RegByte)
        BY DEF CardOK
      <4>2. head' \in Head4
        BY <3>6, <4>1 DEF CardOK
      <4>3. status' \in {"GOT_PAYLOAD", "GOT_LEN2"}
        BY <3>6 DEF To
      <4>4. QED
        BY <2>1, <3>1, <4>2, <4>3 DEF CardOK, ParserStatus
    <3>7. QED
      BY <2>3, <3>2, <3>3, <3>4, <3>5, <3>6 DEF Header
  <2>4. QED
    BY <1>4, <2>2, <2>3
<1>5. ASSUME Sum(b, queued), UNCHANGED <<CheckSum, head>> PROVE CardOK'
  <2>1. CheckSum' \in Word /\ head' \in Head4
    BY <1>5 DEF CardOK
  <2>2. CASE status = "GOT_PAYLOAD" /\ To("GOT_CHKSUM1") /\ msgCheckSum' = b /\ NoParse(queued)
    BY <1>1, <2>1, <2>2, Words DEF CardOK, ParserStatus, To, NoParse
  <2>3. CASE /\ status = "GOT_CHKSUM1" /\ To("UNINIT")
             /\ msgCheckSum' = FromLow(msgCheckSum, b)
             /\ IF msgCheckSum' = CheckSum
                THEN ParseMsg(queued) /\ obeyed' = TRUE ELSE NoParse(queued)
    <3>1. msgCheckSum' \in Word
      BY <2>3, Words DEF CardOK
    <3>2. out' \in Seq(RegByte) /\ MemMAP' \in [Registers -> Cell] /\ obeyed' \in BOOLEAN
      <4>1. CASE ParseMsg(queued) /\ obeyed' = TRUE
        BY <1>1, <4>1, ParseMsgOK
      <4>2. CASE NoParse(queued)
        BY <1>1, <4>2 DEF NoParse, CardOK
      <4>3. QED
        BY <2>3, <4>1, <4>2
    <3>3. status' = "UNINIT"
      BY <2>3 DEF To
    <3>4. QED
      BY <2>1, <3>1, <3>2, <3>3 DEF CardOK, ParserStatus
  <2>4. QED
    BY <1>5, <2>2, <2>3 DEF Sum
<1>6. QED
  BY <1>2, <1>4, <1>5

LEMMA RegInvInit == RegistersInit => RegInv
<1> SUFFICES ASSUME RegistersInit PROVE RegInv
  OBVIOUS
<1> USE DEF RegistersInit
<1>1. MemMAP \in [Registers -> Cell]
  <2>1. <<0, 0, 0, 0>> \in Cell
    <3>1. 0 \in RegByte
      BY Words
    <3>2. QED
      BY <3>1 DEF Cell
  <2>2. QED
    BY <2>1
<1>2. head \in [ID : RegByte, FUN : RegByte, Length : Word, Payload : Seq(RegByte)]
  BY NoMessageIn
<1>3. resets \in 0..MaxResets
  BY RegisterAssumption
<1>4. CardOK
  <2>1. /\ status = "UNINIT" /\ out = <<>> /\ CheckSum = 0 /\ msgCheckSum = 0
        /\ obeyed = FALSE
    OBVIOUS
  <2> HIDE DEF RegistersInit
  <2>2. /\ out \in Seq(RegByte) /\ status \in ParserStatus /\ status = "UNINIT"
        /\ CheckSum \in Word /\ msgCheckSum \in Word /\ obeyed \in BOOLEAN
    <3>1. 0 \in Word
      BY Words
    <3>2. CheckSum \in Word /\ msgCheckSum \in Word
      BY <2>1, <3>1, Zenon
    <3>3. out \in Seq(RegByte) /\ obeyed \in BOOLEAN
      <4>1. <<>> \in Seq(RegByte)
        OBVIOUS
      <4>2. QED
        BY <2>1, <4>1, Zenon
    <3>4. status \in ParserStatus
      BY <2>1 DEF ParserStatus
    <3>5. QED
      BY <2>1, <3>2, <3>3, <3>4
  <2>3. QED
    BY <1>1, <1>2, <2>2 DEF CardOK
<1>5. StationOK
  BY DEF StationOK
<1>6. QED
  BY <1>3, <1>4, <1>5 DEF RegInv

LEMMA RegInvNext == RegInv /\ [RegistersNext]_regVars => RegInv'
<1> SUFFICES ASSUME RegInv, [RegistersNext]_regVars PROVE RegInv'
  OBVIOUS
<1> USE DEF RegInv
<1>1. ASSUME NEW r \in Requests, write_one_register(r) PROVE RegInv'
  <2>1. r \in Request
    BY RegisterAssumption
  <2>2. r.fun \in RegByte /\ CardID \in RegByte
    <3>1. r.fun \in {0, 1}
      BY <2>1 DEF Request
    <3>2. QED
      BY <3>1, RegWidths, RegisterAssumption
  <2>3. /\ SendMessage(CardID, r.fun, Packed(r)) \in Seq(RegByte)
        /\ Len(SendMessage(CardID, r.fun, Packed(r))) > 0
    <3>1. Packed(r) \in Seq(RegByte)
      BY <2>1, PackedIn
    <3> DEFINE k == Packed(r)
               f == SendMessage(CardID, r.fun, k)
    <3> HIDE DEF k
    <3>2. f \in Seq(RegByte) /\ Len(f) = Len(k) + 8
      BY <2>2, <3>1, SendMessageIn DEF k
    <3>3. Len(k) \in Nat
      BY <3>1 DEF k
    <3> HIDE DEF f
    <3>4. f \in Seq(RegByte) /\ Len(f) > 0
      BY <3>2, <3>3
    <3>5. QED
      BY <3>4 DEF f, k
  <2>4. tx' \in Seq(RegByte) /\ tx' # <<>>
    BY <1>1, <2>3 DEF write_one_register
  <2>5. StationOK'
    BY <1>1, <2>1, <2>4 DEF write_one_register, StationOK
  <2>6. CardOK'
    BY <1>1 DEF write_one_register, CardOK, parserVars
  <2>7. QED
    BY <1>1, <2>5, <2>6 DEF write_one_register, CardOK
<1>2. ASSUME spi_send PROVE RegInv'
  <2>1. Head(tx) \in RegByte /\ Tail(tx) \in Seq(RegByte) /\ data \in Request
    BY <1>2 DEF spi_send, StationOK
  <2>2. CardOK'
    BY <1>2, <2>1, ParseByteOK DEF spi_send
  <2>3. StationOK'
    BY <1>2, <2>1 DEF spi_send, StationOK
  <2>4. QED
    BY <1>2, <2>2, <2>3 DEF spi_send, faultVars
<1>3. ASSUME Pause PROVE RegInv'
  BY <1>3 DEF Pause, CardOK, StationOK, cardVars, parserVars, faultVars
<1>4. ASSUME spi_receive PROVE RegInv'
  <2>1. CardOK'
    BY <1>4, ParseByteOK, RegisterAssumption DEF spi_receive
  <2>2. p' \in Seq(RegByte)
    <3>1. (IF out = <<>> THEN Idle ELSE Head(out)) \in RegByte
      BY RegisterAssumption DEF CardOK
    <3>2. QED
      BY <1>4, <3>1 DEF spi_receive, StationOK
  <2>3. StationOK'
    BY <1>4, <2>2 DEF spi_receive, StationOK
  <2>4. QED
    BY <1>4, <2>1, <2>3 DEF spi_receive, faultVars
<1>5. ASSUME CardReset PROVE RegInv'
  <2>1. MemMAP' \in [Registers -> Cell]
    <3>1. 0 \in RegByte
      BY Words
    <3>2. <<0, 0, 0, 0>> \in Cell
      BY <3>1 DEF Cell
    <3>3. QED
      BY <1>5, <3>2 DEF CardReset
  <2>2. CardOK'
    BY <1>5, <2>1, NoMessageIn, Words DEF CardReset, CardOK, ParserStatus
  <2>3. StationOK'
    BY <1>5 DEF CardReset, StationOK, stationVars
  <2>4. resets' \in 0..MaxResets /\ shaken' \in BOOLEAN
    BY <1>5, RegisterAssumption DEF CardReset
  <2>5. QED
    BY <2>2, <2>3, <2>4
<1>6. ASSUME UNCHANGED regVars PROVE RegInv'
  BY <1>6 DEF CardOK, StationOK, regVars, stationVars, cardVars, parserVars, faultVars
<1>7. QED
  BY <1>1, <1>2, <1>3, <1>4, <1>5, <1>6 DEF RegistersNext, Transfer

LEMMA RegInvHolds == RegistersSpec => []RegInv
  BY RegInvInit, RegInvNext, PTL DEF RegistersSpec

LEMMA RegInvGives == RegInv => RegistersTypeOK
  BY DEF RegInv, CardOK, StationOK, RegistersTypeOK

(* The registers, the parser and the frames of the link have their types:   *)
(* sums and lengths stay within two bytes, registers within their cells.    *)
THEOREM RegistersTypeCorrect == RegistersSpec => []RegistersTypeOK
  BY RegInvGives, RegInvHolds, PTL
-----------------------------------------------------------------------------
(* The frame of a request, and the frame that answers it.                   *)
CountedIn(id, fun, payload) == <<id, fun>> \o LowFirst(Len(payload)) \o payload

LEMMA FrameIs ==
  ASSUME NEW id \in RegByte, NEW fun \in RegByte, NEW s \in Seq(RegByte), Len(s) < RegWidth
  PROVE  LET m == Len(s)
             c == CountedIn(id, fun, s)
             f == SendMessage(id, fun, s)
         IN /\ m \in Nat
            /\ c \in Seq(RegByte) /\ Len(c) = m + 4
            /\ c[1] = id /\ c[2] = fun /\ c[3] = m /\ c[4] = 0
            /\ \A k \in 1..m : c[4 + k] = s[k]
            /\ f \in Seq(RegByte) /\ Len(f) = m + 8
            /\ f[1] = SYNC1 /\ f[2] = SYNC2
            /\ \A k \in 1..(m + 4) : f[2 + k] = c[k]
            /\ f[m + 7] = LowFirst(summation(c))[1] /\ f[m + 8] = LowFirst(summation(c))[2]
<1> DEFINE m == Len(s)
           l == LowFirst(m)
           i == <<id, fun>>
           c == CountedIn(id, fun, s)
           h == LowFirst(summation(c))
           y == <<SYNC1, SYNC2>>
           f == SendMessage(id, fun, s)
<1>1. m \in Nat /\ m \in RegByte /\ m \in Word
  <2>1. m \in Nat /\ m < RegWidth
    OBVIOUS
  <2> HIDE DEF m
  <2>2. m \in RegByte
    BY <2>1, RegWidths DEF RegByte
  <2>3. QED
    BY <2>1, <2>2, Words
<1>2. l \in Seq(RegByte) /\ Len(l) = 2 /\ l[1] = m /\ l[2] = 0
  BY <1>1, LowFirstIs
<1>3. i \in Seq(RegByte) /\ Len(i) = 2 /\ i[1] = id /\ i[2] = fun
  OBVIOUS
<1>4. y \in Seq(RegByte) /\ Len(y) = 2 /\ y[1] = SYNC1 /\ y[2] = SYNC2
  BY RegisterAssumption
<1>5. c = i \o l \o s
  BY DEF CountedIn
<1>6. f = y \o c \o h
  BY DEF SendMessage, CountedIn
<1> HIDE DEF l, i, y, h, f, c
<1>7. /\ c \in Seq(RegByte) /\ Len(c) = Len(i) + Len(l) + Len(s)
      /\ \A k \in 1..Len(i) : c[k] = i[k]
      /\ \A k \in 1..Len(l) : c[Len(i) + k] = l[k]
      /\ \A k \in 1..Len(s) : c[Len(i) + Len(l) + k] = s[k]
  <2>1. /\ i \o l \o s \in Seq(RegByte) /\ Len(i \o l \o s) = Len(i) + Len(l) + Len(s)
        /\ \A k \in 1..Len(i) : (i \o l \o s)[k] = i[k]
        /\ \A k \in 1..Len(l) : (i \o l \o s)[Len(i) + k] = l[k]
        /\ \A k \in 1..Len(s) : (i \o l \o s)[Len(i) + Len(l) + k] = s[k]
    BY <1>2, <1>3, JoinedThreeRegs
  <2>2. QED
    BY <1>5, <2>1, Zenon
<1> HIDE DEF m
<1>8. /\ Len(c) = m + 4 /\ c[1] = id /\ c[2] = fun /\ c[3] = m /\ c[4] = 0
      /\ \A k \in 1..m : c[4 + k] = s[k]
  <2>1. /\ Len(c) = 2 + 2 + m
        /\ \A k \in 1..2 : c[k] = i[k]
        /\ \A k \in 1..2 : c[2 + k] = l[k]
        /\ \A k \in 1..m : c[2 + 2 + k] = s[k]
    BY <1>2, <1>3, <1>7 DEF m
  <2>2. 1 \in 1..2 /\ 2 \in 1..2
    OBVIOUS
  <2>3. c[1] = id /\ c[2] = fun /\ c[3] = m /\ c[4] = 0
    BY <1>2, <1>3, <2>1, <2>2
  <2>4. \A k \in 1..m : c[4 + k] = s[k]
    BY <1>1, <2>1
  <2>5. QED
    BY <1>1, <2>1, <2>3, <2>4
<1>9. h \in Seq(RegByte) /\ Len(h) = 2
  BY <1>7, SumOfIs, LowFirstIs DEF h
<1>10. /\ f \in Seq(RegByte) /\ Len(f) = Len(y) + Len(c) + Len(h)
       /\ \A k \in 1..Len(y) : f[k] = y[k]
       /\ \A k \in 1..Len(c) : f[Len(y) + k] = c[k]
       /\ \A k \in 1..Len(h) : f[Len(y) + Len(c) + k] = h[k]
  <2>1. /\ y \o c \o h \in Seq(RegByte) /\ Len(y \o c \o h) = Len(y) + Len(c) + Len(h)
        /\ \A k \in 1..Len(y) : (y \o c \o h)[k] = y[k]
        /\ \A k \in 1..Len(c) : (y \o c \o h)[Len(y) + k] = c[k]
        /\ \A k \in 1..Len(h) : (y \o c \o h)[Len(y) + Len(c) + k] = h[k]
    BY <1>4, <1>7, <1>9, JoinedThreeRegs
  <2>2. QED
    BY <1>6, <2>1, Zenon
<1>11. /\ Len(f) = m + 8 /\ f[1] = SYNC1 /\ f[2] = SYNC2
       /\ \A k \in 1..(m + 4) : f[2 + k] = c[k]
       /\ f[m + 7] = h[1] /\ f[m + 8] = h[2]
  <2>1. /\ Len(f) = 2 + (m + 4) + 2
        /\ \A k \in 1..2 : f[k] = y[k]
        /\ \A k \in 1..(m + 4) : f[2 + k] = c[k]
        /\ \A k \in 1..2 : f[2 + (m + 4) + k] = h[k]
    BY <1>4, <1>8, <1>9, <1>10
  <2>2. 1 \in 1..2 /\ 2 \in 1..2
    OBVIOUS
  <2>3. 2 + (m + 4) + 1 = m + 7 /\ 2 + (m + 4) + 2 = m + 8
    BY <1>1
  <2>4. f[m + 7] = h[1] /\ f[m + 8] = h[2]
    BY <2>1, <2>2, <2>3
  <2>5. f[1] = SYNC1 /\ f[2] = SYNC2
    BY <1>4, <2>1, <2>2
  <2>6. QED
    BY <2>1, <2>3, <2>4, <2>5
<1>12. QED
  BY <1>1, <1>7, <1>8, <1>10, <1>11 DEF m, c, f, h

LEMMA PackedIs ==
  ASSUME NEW r \in Request
  PROVE  /\ Packed(r) \in Seq(RegByte) /\ Len(Packed(r)) = 3 + Size(r.type)
         /\ Size(r.type) \in {1, 2, 4} /\ Len(Packed(r)) \in 4..7 /\ Len(Packed(r)) < RegWidth
         /\ Packed(r)[1] = r.type /\ FromLow(Packed(r)[2], Packed(r)[3]) = r.reg
         /\ \A j \in 1..Size(r.type) : Packed(r)[3 + j] = r.value[j]
<1> DEFINE n == Size(r.type)
           v == SubSeq(r.value, 1, n)
           l == LowFirst(r.reg)
           i == <<r.type>>
<1>1. r.type \in 1..7 /\ r.reg \in Registers /\ r.value \in Cell
  BY DEF Request
<1>2. n \in {1, 2, 4}
  BY <1>1, SizeIs
<1>3. Packed(r) \in Seq(RegByte) /\ Len(Packed(r)) = 3 + n
  BY PackedIn
<1>4. r.value \in Seq(RegByte) /\ Len(r.value) = 4
  <2> DEFINE w == r.value
  <2>1. w \in [1..4 -> RegByte]
    BY <1>1 DEF Cell
  <2> HIDE DEF w
  <2>2. ASSUME NEW k \in Nat, NEW u \in [1..k -> RegByte]
        PROVE  u \in Seq(RegByte) /\ Len(u) = k
    OBVIOUS
  <2>3. w \in Seq(RegByte) /\ Len(w) = 4
    BY <2>1, <2>2
  <2>4. QED
    BY <2>3 DEF w
<1>5. v \in Seq(RegByte) /\ Len(v) = n /\ \A j \in 1..n : v[j] = r.value[j]
  BY <1>2, <1>4
<1>6. r.reg \in Word
  BY <1>1, RegisterAssumption DEF Word
<1>7. l \in Seq(RegByte) /\ Len(l) = 2 /\ FromLow(l[1], l[2]) = r.reg
  BY <1>6, LowFirstIs
<1>8. i \in Seq(RegByte) /\ Len(i) = 1 /\ i[1] = r.type
  BY <1>1, RegWidths
<1>9. Packed(r) = i \o l \o v
  BY DEF Packed
<1> DEFINE q == Packed(r)
<1> HIDE DEF v, l, i, q, n
<1>10. /\ \A k \in 1..Len(i) : q[k] = i[k]
       /\ \A k \in 1..Len(l) : q[Len(i) + k] = l[k]
       /\ \A k \in 1..Len(v) : q[Len(i) + Len(l) + k] = v[k]
  <2>1. /\ \A k \in 1..Len(i) : (i \o l \o v)[k] = i[k]
        /\ \A k \in 1..Len(l) : (i \o l \o v)[Len(i) + k] = l[k]
        /\ \A k \in 1..Len(v) : (i \o l \o v)[Len(i) + Len(l) + k] = v[k]
    BY <1>5, <1>7, <1>8, JoinedThreeRegs
  <2>2. QED
    BY <1>9, <2>1, Zenon DEF q
<1>11. 1 \in 1..1 /\ 1 \in 1..2 /\ 2 \in 1..2
  OBVIOUS
<1>12. q[1] = r.type
  BY <1>8, <1>10, <1>11
<1>13. q[2] = l[1] /\ q[3] = l[2]
  BY <1>7, <1>8, <1>10, <1>11
<1>14. \A j \in 1..n : q[3 + j] = r.value[j]
  BY <1>2, <1>5, <1>7, <1>8, <1>10
<1>15. Len(q) \in 4..7 /\ Len(q) < RegWidth
  BY <1>2, <1>3, RegWidths DEF q
<1>16. QED
  BY <1>2, <1>3, <1>7, <1>12, <1>13, <1>14, <1>15 DEF q, n
-----------------------------------------------------------------------------
RequestFrame(r) == SendMessage(CardID, r.fun, Packed(r))
CountedOf(r)    == CountedIn(CardID, r.fun, Packed(r))
Packs(r)        == Len(Packed(r))

ReplyOf(r, cells) ==
  [k \in 1..Packs(r) |->
     IF k \in 4..(3 + Size(r.type)) THEN cells[r.reg][k - 3] ELSE Packed(r)[k]]

AnswerOf(r, cells) == SendMessage(CardID, 0, ReplyOf(r, cells))

LEMMA ReplyIs ==
  ASSUME NEW r \in Request, NEW cells \in [Registers -> Cell]
  PROVE  /\ ReplyOf(r, cells) \in Seq(RegByte) /\ Len(ReplyOf(r, cells)) = Packs(r)
         /\ \A j \in 1..Size(r.type) : ReplyOf(r, cells)[3 + j] = cells[r.reg][j]
<1> DEFINE m == Packs(r)
           n == Size(r.type)
           cell == cells[r.reg]
           q == Packed(r)
           a == ReplyOf(r, cells)
<1>1. /\ q \in Seq(RegByte) /\ Len(q) = m /\ m = 3 + n /\ n \in {1, 2, 4}
  BY PackedIs DEF Packs
<1>2. cell \in [1..4 -> RegByte]
  BY DEF Request, Cell
<1>3. a = [k \in 1..m |-> IF k \in 4..(3 + n) THEN cell[k - 3] ELSE q[k]]
  BY DEF ReplyOf
<1> HIDE DEF m, n, cell, q, a
<1>4. ASSUME NEW k \in 1..m
      PROVE  (IF k \in 4..(3 + n) THEN cell[k - 3] ELSE q[k]) \in RegByte
  <2>1. k \in 4..(3 + n) => k - 3 \in 1..4
    BY <1>1
  <2>2. q[k] \in RegByte
    BY <1>1
  <2>3. QED
    BY <1>2, <2>1, <2>2
<1>5. m \in Nat /\ a \in [1..m -> RegByte]
  BY <1>1, <1>3, <1>4
<1>6. a \in Seq(RegByte) /\ Len(a) = m
  BY <1>5
<1>7. ASSUME NEW j \in 1..n PROVE a[3 + j] = cell[j]
  <2>1. 3 + j \in 1..m /\ 3 + j \in 4..(3 + n) /\ (3 + j) - 3 = j
    BY <1>1
  <2>2. QED
    BY <1>3, <2>1
<1>8. QED
  BY <1>6, <1>7 DEF a, m, n, cell

(* A request is one record: the card stores its value or fills it in.       *)
LEMMA ParsedRequest ==
  ASSUME CardOK, NEW r \in Request, NEW queued, ParseMsg(queued),
         head.ID = CardID, head.FUN = r.fun, head.Payload = Packed(r)
  PROVE  /\ MemMAP' = IF r.fun = 1
                      THEN [MemMAP EXCEPT ![r.reg] = Overwrite(@, r)] ELSE MemMAP
         /\ out' = IF r.fun = 0 THEN queued \o AnswerOf(r, MemMAP) ELSE queued
<1> DEFINE q == Packed(r)
           m == Packs(r)
           n == Size(r.type)
           R == Records(r.fun, q)
           M == Most(q)
           first == [at |-> 1, msg |-> q, mem |-> MemMAP]
           once  == Record(r.fun, first)
<1>1. /\ q \in Seq(RegByte) /\ Len(q) = m /\ m = 3 + n /\ n \in {1, 2, 4}
      /\ q[1] = r.type /\ FromLow(q[2], q[3]) = r.reg
      /\ \A j \in 1..n : q[3 + j] = r.value[j]
  BY PackedIs DEF Packs
<1>2. MemMAP \in [Registers -> Cell] /\ r.reg \in Registers
  BY DEF CardOK, Request
<1>3. /\ M \in Nat /\ R[0] = first
      /\ \A k \in 1..M : R[k] = Further(r.fun)[R[k - 1]]
      /\ \A k \in 0..M : R[k] \in Progress
  <2>1. LoopState(Len(q)) \subseteq Progress
    BY DEF LoopState, Progress
  <2>2. /\ M \in Nat /\ R[0] = first
        /\ \A k \in 1..M : R[k] = Further(r.fun)[R[k - 1]]
        /\ \A k \in 0..M : R[k] \in LoopState(Len(q))
    BY <1>1, <1>2, RecordsIs, Zenon
  <2>3. QED
    BY <2>1, <2>2, Zenon
<1>4. M \in {1, 2}
  BY <1>1 DEF Most
<1> HIDE DEF R, M
<1>5. first.at = 1 /\ first.msg = q /\ first.mem = MemMAP
  OBVIOUS
<1> HIDE DEF first, q
<1>6. RegAt(first.msg, first.at) = r.reg /\ Size(first.msg[first.at]) = n
  BY <1>1, <1>5 DEF RegAt
<1>7. Known(first)
  <2>1. 1 <= m /\ 1 + 2 + n <= m
    BY <1>1
  <2>2. QED
    BY <1>1, <1>2, <1>5, <1>6, <2>1 DEF Known
<1>8. /\ once.at = m + 1
      /\ once.msg = (IF r.fun = 0 THEN Filled(first, n) ELSE q)
      /\ once.mem = (IF r.fun = 1 THEN Stored(first, n) ELSE MemMAP)
  BY <1>1, <1>5, <1>6 DEF Record
<1>9. Filled(first, n) = ReplyOf(r, MemMAP)
  <2>1. DOMAIN q = 1..m
    BY <1>1
  <2>2. Filled(first, n) =
          [k \in 1..m |-> IF k \in (1 + 3)..(1 + 2 + n) THEN MemMAP[r.reg][k - 1 - 2] ELSE q[k]]
    BY <1>5, <1>6, <2>1 DEF Filled
  <2>3. /\ 1 + 3 = 4 /\ 1 + 2 + n = 3 + n
        /\ \A k \in 1..m : k - 1 - 2 = k - 3
    BY <1>1
  <2>4. ReplyOf(r, MemMAP) =
          [k \in 1..m |-> IF k \in 4..(3 + n) THEN MemMAP[r.reg][k - 3] ELSE q[k]]
    BY DEF ReplyOf, q
  <2>5. QED
    BY <2>2, <2>3, <2>4
<1>10. Stored(first, n) = [MemMAP EXCEPT ![r.reg] = Overwrite(@, r)]
  <2> DEFINE c == [k \in 1..4 |-> IF k <= n THEN q[1 + 2 + k] ELSE MemMAP[r.reg][k]]
             d == [k \in 1..4 |-> IF k <= n THEN r.value[k] ELSE MemMAP[r.reg][k]]
  <2>1. ASSUME NEW k \in 1..4, k <= n PROVE q[1 + 2 + k] = r.value[k]
    <3>1. k \in 1..n /\ 1 + 2 + k = 3 + k
      BY <1>1, <2>1
    <3>2. QED
      BY <1>1, <3>1
  <2>2. c = d
    BY <2>1
  <2>3. Stored(first, n) = [MemMAP EXCEPT ![r.reg] = c]
    BY <1>2, <1>5, <1>6 DEF Stored
  <2>4. Overwrite(MemMAP[r.reg], r) = d
    BY DEF Overwrite
  <2> HIDE DEF c, d
  <2>5. [MemMAP EXCEPT ![r.reg] = Overwrite(@, r)] = [MemMAP EXCEPT ![r.reg] = d]
    BY <1>2, <2>4
  <2>6. QED
    BY <2>2, <2>3, <2>5
<1> HIDE DEF once
<1>11. R[M] = once
  <2>1. R[1] = once
    <3>1. 1 \in 1..M /\ 1 - 1 = 0 /\ 0 \in 0..M
      BY <1>4
    <3>2. QED
      BY <1>3, <1>7, <3>1 DEF Further, once
  <2>2. CASE M = 1
    BY <2>1, <2>2
  <2>3. CASE M = 2
    <3>1. 2 \in 1..M /\ 2 - 1 = 1
      BY <2>3
    <3>2. R[2] = Further(r.fun)[once]
      BY <1>3, <2>1, <3>1
    <3>3. Len(once.msg) = m
      <4>1. Len(ReplyOf(r, MemMAP)) = m
        BY <1>2, ReplyIs
      <4>2. QED
        BY <1>1, <1>8, <1>9, <4>1
    <3>4. ~Known(once)
      <4>1. ~(m + 1 <= m)
        BY <1>1
      <4>2. QED
        BY <1>8, <3>3, <4>1 DEF Known
    <3>5. once \in Progress
      BY <1>3, <1>4, <2>1
    <3>6. QED
      BY <2>3, <3>2, <3>4, <3>5 DEF Further
  <2>4. QED
    BY <1>4, <2>2, <2>3
<1>12. ~(once.at <= Len(head.Payload))
  <2>1. ~(m + 1 <= m)
    BY <1>1
  <2>2. QED
    BY <1>1, <1>8, <2>1 DEF q
<1>13. /\ MemMAP' = once.mem
       /\ out' = IF r.fun = 0 THEN queued \o SendMessage(CardID, 0, once.msg) ELSE queued
  <2>1. Records(head.FUN, head.Payload)[Most(head.Payload)] = once
    BY <1>11 DEF R, M, q
  <2>2. QED
    BY <1>12, <2>1 DEF ParseMsg
<1>14. QED
  BY <1>8, <1>9, <1>10, <1>13 DEF AnswerOf
-----------------------------------------------------------------------------
(* The card after the first n bytes of the frame of r: st is its status, cs *)
(* its sum, ms the sum it was sent and hd the head it has filled.           *)
TakenSoFar(r, n, st, cs, ms, hd) ==
  /\ n = 0 => st = "UNINIT"
  /\ n = 1 => st = "GOT_SYNC1"
  /\ n = 2 => st = "GOT_SYNC2"
  /\ n = 3 => st = "GOT_ID"
  /\ n = 4 => st = "GOT_FUN"
  /\ n = 5 => st = "GOT_LEN1"
  /\ n \in 6..(Packs(r) + 5) => st = "GOT_LEN2"
  /\ n = Packs(r) + 6 => st = "GOT_PAYLOAD"
  /\ n = Packs(r) + 7 => st = "GOT_CHKSUM1" /\ ms = LowFirst(summation(CountedOf(r)))[1]
  /\ n \in 2..(Packs(r) + 6) => cs = SumOf(CountedOf(r))[n - 2]
  /\ n = Packs(r) + 7 => cs = summation(CountedOf(r))
  /\ n >= 3 => hd.ID = CardID
  /\ n >= 4 => hd.FUN = r.fun
  /\ n >= 5 => hd.Length = Packs(r)
  /\ n \in 2..6 => hd.Payload = <<>>
  /\ n \in 6..(Packs(r) + 6) =>
       Len(hd.Payload) = n - 6 /\ \A k \in 1..(n - 6) : hd.Payload[k] = Packed(r)[k]
  /\ n = Packs(r) + 7 => hd.Payload = Packed(r)

Taken(r, n) == TakenSoFar(r, n, status, CheckSum, msgCheckSum, head)

LEMMA RequestFrameIs ==
  ASSUME NEW r \in Request
  PROVE  LET m == Packs(r)  c == CountedOf(r)  f == RequestFrame(r) IN
         /\ m \in 4..7 /\ Packed(r) \in Seq(RegByte) /\ Len(Packed(r)) = m
         /\ c \in Seq(RegByte) /\ Len(c) = m + 4
         /\ c[1] = CardID /\ c[2] = r.fun /\ c[3] = m /\ c[4] = 0
         /\ \A k \in 1..m : c[4 + k] = Packed(r)[k]
         /\ f \in Seq(RegByte) /\ Len(f) = m + 8
         /\ f[1] = SYNC1 /\ f[2] = SYNC2
         /\ \A k \in 1..(m + 4) : f[2 + k] = c[k]
         /\ f[m + 7] = LowFirst(summation(c))[1] /\ f[m + 8] = LowFirst(summation(c))[2]
<1>1. CardID \in RegByte /\ r.fun \in RegByte
  <2>1. r.fun \in {0, 1}
    BY DEF Request
  <2>2. QED
    BY <2>1, RegWidths, RegisterAssumption
<1>2. Packed(r) \in Seq(RegByte) /\ Len(Packed(r)) < RegWidth /\ Len(Packed(r)) \in 4..7
  BY PackedIs
<1> DEFINE s == Packed(r)
           fun == r.fun
<1> HIDE DEF s, fun
<1>3. /\ CardID \in RegByte /\ fun \in RegByte
      /\ s \in Seq(RegByte) /\ Len(s) < RegWidth /\ Len(s) \in 4..7
  BY <1>1, <1>2 DEF s, fun
<1>4. LET m == Len(s)
          c == CountedIn(CardID, fun, s)
          f == SendMessage(CardID, fun, s)
      IN /\ m \in Nat
         /\ c \in Seq(RegByte) /\ Len(c) = m + 4
         /\ c[1] = CardID /\ c[2] = fun /\ c[3] = m /\ c[4] = 0
         /\ \A k \in 1..m : c[4 + k] = s[k]
         /\ f \in Seq(RegByte) /\ Len(f) = m + 8
         /\ f[1] = SYNC1 /\ f[2] = SYNC2
         /\ \A k \in 1..(m + 4) : f[2 + k] = c[k]
         /\ f[m + 7] = LowFirst(summation(c))[1] /\ f[m + 8] = LowFirst(summation(c))[2]
  BY <1>3, FrameIs, Zenon
<1>5. QED
  BY <1>3, <1>4 DEF Packs, CountedOf, RequestFrame, s, fun

(* One byte more of the frame.                                              *)
LEMMA ReadOneMore ==
  ASSUME CardOK, NEW r \in Request, NEW n \in 0..(Packs(r) + 6), Taken(r, n), out = <<>>,
         ParseByte(RequestFrame(r)[n + 1])
  PROVE  /\ TakenSoFar(r, n + 1, status', CheckSum', msgCheckSum', head')
         /\ out' = <<>> /\ UNCHANGED <<MemMAP, obeyed>>
<1> DEFINE m == Packs(r)
           c == CountedOf(r)
           b == RequestFrame(r)[n + 1]
           S == SumOf(c)
           q == Packed(r)
           low == LowFirst(summation(c))[1]
<1>1. /\ m \in 4..7 /\ q \in Seq(RegByte) /\ Len(q) = m
      /\ c \in Seq(RegByte) /\ Len(c) = m + 4
      /\ c[1] = CardID /\ c[2] = r.fun /\ c[3] = m /\ c[4] = 0
      /\ \A k \in 1..m : c[4 + k] = q[k]
      /\ n = 0 => b = SYNC1
      /\ n = 1 => b = SYNC2
      /\ n \in 2..(m + 5) => b = c[n - 1]
      /\ n = m + 6 => b = low
  <2>1. /\ m \in 4..7 /\ q \in Seq(RegByte) /\ Len(q) = m
        /\ c \in Seq(RegByte) /\ Len(c) = m + 4
        /\ c[1] = CardID /\ c[2] = r.fun /\ c[3] = m /\ c[4] = 0
        /\ \A k \in 1..m : c[4 + k] = q[k]
        /\ RequestFrame(r)[1] = SYNC1 /\ RequestFrame(r)[2] = SYNC2
        /\ \A k \in 1..(m + 4) : RequestFrame(r)[2 + k] = c[k]
        /\ RequestFrame(r)[m + 7] = low
    BY RequestFrameIs
  <2> HIDE DEF m, c, q, low
  <2>2. ASSUME n \in 2..(m + 5) PROVE b = c[n - 1]
    <3>1. n - 1 \in 1..(m + 4) /\ 2 + (n - 1) = n + 1
      BY <2>1, <2>2
    <3>2. QED
      BY <2>1, <3>1
  <2>3. (n = 0 => n + 1 = 1) /\ (n = 1 => n + 1 = 2) /\ (n = m + 6 => n + 1 = m + 7)
    BY <2>1
  <2>4. QED
    BY <2>1, <2>2, <2>3
<1>2. S[0] = 0 /\ \A k \in 1..(m + 4) : S[k] = Add16(S[k - 1], c[k])
  BY <1>1, SumOfIs
<1>3. summation(c) = S[m + 4]
  BY <1>1 DEF summation
<1>4. n \in 0..(m + 6)
  OBVIOUS
<1>5. TakenSoFar(r, n, status, CheckSum, msgCheckSum, head)
  BY DEF Taken
<1> DEFINE Old == TakenSoFar(r, n, status, CheckSum, msgCheckSum, head)
           queued == IF out = <<>> THEN <<>> ELSE Tail(out)
           Head4  == [ID : RegByte, FUN : RegByte, Length : Word, Payload : Seq(RegByte)]
<1>6. queued = <<>>
  OBVIOUS
<1>7. \/ (Sync(b) \/ Header(b)) /\ NoParse(queued) /\ UNCHANGED msgCheckSum
      \/ Sum(b, queued) /\ UNCHANGED <<CheckSum, head>>
  BY DEF ParseByte
<1>8. head \in Head4
  BY DEF CardOK
<1>9. summation(c) = S[m + 4]
  BY <1>1 DEF summation
<1> HIDE DEF m, c, b, S, q, low, queued
<1>10. /\ n = 0 => status = "UNINIT"
       /\ n = 1 => status = "GOT_SYNC1"
       /\ n = 2 => status = "GOT_SYNC2"
       /\ n = 3 => status = "GOT_ID"
       /\ n = 4 => status = "GOT_FUN"
       /\ n = 5 => status = "GOT_LEN1"
       /\ n \in 6..(m + 5) => status = "GOT_LEN2"
       /\ n = m + 6 => status = "GOT_PAYLOAD"
       /\ n \in 2..(m + 6) => CheckSum = S[n - 2]
       /\ n >= 3 => head.ID = CardID
       /\ n >= 4 => head.FUN = r.fun
       /\ n >= 5 => head.Length = m
       /\ n \in 2..6 => head.Payload = <<>>
       /\ n \in 6..(m + 6) =>
            Len(head.Payload) = n - 6 /\ \A k \in 1..(n - 6) : head.Payload[k] = q[k]
  BY <1>5 DEF TakenSoFar, m, c, S, q
<1> DEFINE New == TakenSoFar(r, n + 1, status', CheckSum', msgCheckSum', head')
<1>11. SUFFICES New /\ NoParse(queued)
  BY <1>6 DEF NoParse
<1>12. CASE n = 0
  <2>1. status = "UNINIT" /\ b = SYNC1
    BY <1>1, <1>10, <1>12
  <2>2. Sync(b) /\ NoParse(queued) /\ status' = "GOT_SYNC1"
    BY <1>7, <2>1 DEF Sync, Header, Sum, To
  <2>3. n + 1 = 1 /\ m + 5 > 1
    BY <1>1, <1>12
  <2>4. New
    BY <1>1, <2>2, <2>3 DEF TakenSoFar, m
  <2>5. QED
    BY <2>2, <2>4
<1>13. CASE n = 1
  <2>1. status = "GOT_SYNC1" /\ b = SYNC2
    BY <1>1, <1>10, <1>13
  <2>2. /\ NoParse(queued) /\ status' = "GOT_SYNC2" /\ CheckSum' = S[0] /\ head'.Payload = <<>>
    BY <1>2, <1>7, <2>1 DEF Sync, Header, Sum, To, NoMessage
  <2>3. n + 1 = 2 /\ 2 - 2 = 0
    BY <1>13
  <2>4. New
    BY <1>1, <2>2, <2>3 DEF TakenSoFar, m, c, S
  <2>5. QED
    BY <2>2, <2>4
<1>14. CASE n \in 2..(m + 5)
  <2>1. b = c[n - 1] /\ n - 1 \in 1..(m + 4) /\ (n - 1) - 1 = n - 2 /\ (n + 1) - 2 = n - 1
    BY <1>1, <1>14
  <2>2. CheckSum = S[n - 2]
    BY <1>1, <1>10, <1>14
  <2>3. Add16(CheckSum, b) = S[n - 1]
    BY <1>2, <2>1, <2>2
  <2>4. status \in {"GOT_SYNC2", "GOT_ID", "GOT_FUN", "GOT_LEN1", "GOT_LEN2"}
    BY <1>1, <1>10, <1>14
  <2>5. Header(b) /\ NoParse(queued)
    BY <1>7, <2>4 DEF Sync, Sum
  <2>6. CheckSum' = S[(n + 1) - 2]
    BY <2>1, <2>3, <2>5 DEF Header, Summing
  <2>7. CASE n = 2
    <3>1. status' = "GOT_ID" /\ head' = [head EXCEPT !.ID = b] /\ b = CardID
      BY <1>1, <1>10, <2>1, <2>5, <2>7 DEF Header, To
    <3>2. head'.ID = CardID /\ head'.Payload = <<>>
      BY <1>8, <1>10, <2>7, <3>1
    <3>3. New
      BY <1>1, <2>6, <2>7, <3>1, <3>2 DEF TakenSoFar, m, c, S
    <3>4. QED
      BY <2>5, <3>3
  <2>8. CASE n = 3
    <3>1. status' = "GOT_FUN" /\ head' = [head EXCEPT !.FUN = b] /\ b = r.fun
      BY <1>1, <1>10, <2>1, <2>5, <2>8 DEF Header, To
    <3>2. head'.ID = CardID /\ head'.FUN = r.fun /\ head'.Payload = <<>>
      BY <1>8, <1>10, <2>8, <3>1
    <3>3. New
      BY <1>1, <2>6, <2>8, <3>1, <3>2 DEF TakenSoFar, m, c, S
    <3>4. QED
      BY <2>5, <3>3
  <2>9. CASE n = 4
    <3>1. status' = "GOT_LEN1" /\ head' = [head EXCEPT !.Length = b] /\ b = m
      BY <1>1, <1>10, <2>1, <2>5, <2>9 DEF Header, To
    <3>2. /\ head'.ID = CardID /\ head'.FUN = r.fun /\ head'.Length = m
          /\ head'.Payload = <<>>
      BY <1>8, <1>10, <2>9, <3>1
    <3>3. New
      BY <1>1, <2>6, <2>9, <3>1, <3>2 DEF TakenSoFar, m, c, S
    <3>4. QED
      BY <2>5, <3>3
  <2>10. CASE n = 5
    <3>1. /\ head' = [head EXCEPT !.Length = FromLow(@, b)] /\ b = 0
          /\ status' = IF head'.Length = 0 THEN "GOT_PAYLOAD" ELSE "GOT_LEN2"
      BY <1>1, <1>10, <2>1, <2>5, <2>10 DEF Header, To
    <3>2. FromLow(m, 0) = m
      BY <1>1, RegWidths DEF FromLow
    <3>3. /\ head'.ID = CardID /\ head'.FUN = r.fun /\ head'.Length = m
          /\ head'.Payload = <<>>
      BY <1>8, <1>10, <2>10, <3>1, <3>2
    <3>4. status' = "GOT_LEN2"
      BY <1>1, <3>1, <3>3
    <3>5. Len(head'.Payload) = 0
      BY <3>3
    <3>6. New
      BY <1>1, <2>6, <2>10, <3>3, <3>4, <3>5 DEF TakenSoFar, m, c, S
    <3>7. QED
      BY <2>5, <3>6
  <2>11. CASE n \in 6..(m + 5)
    <3> DEFINE t == head.Payload
    <3>1. /\ status = "GOT_LEN2" /\ head.ID = CardID /\ head.FUN = r.fun /\ head.Length = m
          /\ t \in Seq(RegByte) /\ Len(t) = n - 6 /\ \A k \in 1..(n - 6) : t[k] = q[k]
      BY <1>1, <1>8, <1>10, <2>11
    <3>2. /\ head' = [head EXCEPT !.Payload = Append(t, b)]
          /\ status' = IF Len(head'.Payload) = head.Length THEN "GOT_PAYLOAD" ELSE "GOT_LEN2"
      BY <2>5, <3>1 DEF Header, To
    <3>3. /\ head'.ID = CardID /\ head'.FUN = r.fun /\ head'.Length = m
          /\ head'.Payload = Append(t, b)
      BY <1>8, <3>1, <3>2
    <3>4. b = q[n - 5]
      <4>1. n - 5 \in 1..m /\ 4 + (n - 5) = n - 1
        BY <1>1, <2>11
      <4>2. QED
        BY <1>1, <2>1, <4>1
    <3> HIDE DEF t
    <3>5. Len(Append(t, b)) = n - 5 /\ \A k \in 1..(n - 5) : Append(t, b)[k] = q[k]
      <4>1. /\ Len(Append(t, b)) = Len(t) + 1 /\ Append(t, b)[Len(t) + 1] = b
            /\ \A k \in 1..Len(t) : Append(t, b)[k] = t[k]
        BY <3>1
      <4>2. Len(t) + 1 = n - 5
        BY <1>4, <3>1
      <4>3. ASSUME NEW k \in 1..(n - 5) PROVE Append(t, b)[k] = q[k]
        <5>1. k = n - 5 \/ k \in 1..(n - 6)
          BY <1>4
        <5>2. QED
          BY <3>1, <3>4, <4>1, <4>2, <5>1
      <4>4. QED
        BY <4>1, <4>2, <4>3
    <3>6. status' = IF n - 5 = m THEN "GOT_PAYLOAD" ELSE "GOT_LEN2"
      BY <3>1, <3>2, <3>3, <3>5
    <3>7. (n + 1) - 6 = n - 5
      BY <1>4
    <3>8. Len(head'.Payload) = (n + 1) - 6
          /\ \A k \in 1..((n + 1) - 6) : head'.Payload[k] = Packed(r)[k]
      BY <3>3, <3>5, <3>7 DEF q
    <3>9. /\ n + 1 \in 7..(m + 6) /\ n + 1 # m + 7
          /\ (n + 1 = m + 6 => n - 5 = m) /\ (n + 1 \in 6..(m + 5) => n - 5 # m)
      BY <1>1, <2>11
    <3> DEFINE k == n + 1
    <3>10. /\ k >= 7 /\ k # Packs(r) + 7 /\ k \notin {0, 1, 2, 3, 4, 5} /\ k \notin 2..6
           /\ k = Packs(r) + 6 => status' = "GOT_PAYLOAD"
           /\ k \in 6..(Packs(r) + 5) => status' = "GOT_LEN2"
      BY <3>6, <3>9 DEF m
    <3>11. /\ CheckSum' = SumOf(CountedOf(r))[k - 2]
           /\ head'.ID = CardID /\ head'.FUN = r.fun /\ head'.Length = Packs(r)
           /\ Len(head'.Payload) = k - 6
           /\ \A j \in 1..(k - 6) : head'.Payload[j] = Packed(r)[j]
      BY <2>6, <3>3, <3>8 DEF m, c, S
    <3> HIDE DEF k
    <3>12. TakenSoFar(r, k, status', CheckSum', msgCheckSum', head')
      BY <3>10, <3>11 DEF TakenSoFar
    <3>13. QED
      BY <2>5, <3>12 DEF k
  <2>12. QED
    BY <1>1, <1>14, <2>7, <2>8, <2>9, <2>10, <2>11
<1>15. CASE n = m + 6
  <2>1. status = "GOT_PAYLOAD" /\ b = low /\ CheckSum = S[m + 4]
    <3>1. n - 2 = m + 4 /\ n \in 2..(m + 6)
      BY <1>1, <1>15
    <3>2. QED
      BY <1>1, <1>10, <1>15, <3>1
  <2>2. /\ status' = "GOT_CHKSUM1" /\ msgCheckSum' = low /\ NoParse(queued)
        /\ CheckSum' = summation(c) /\ head' = head
    BY <1>3, <1>7, <2>1 DEF Sync, Header, Sum, To
  <2>3. /\ head.ID = CardID /\ head.FUN = r.fun /\ head.Length = m
        /\ Len(head.Payload) = m /\ \A k \in 1..m : head.Payload[k] = q[k]
    BY <1>1, <1>10, <1>15
  <2>4. head.Payload = q
    <3> DEFINE t == head.Payload
    <3>1. t \in Seq(RegByte) /\ Len(t) = m /\ \A k \in 1..m : t[k] = q[k]
      BY <1>8, <2>3
    <3> HIDE DEF t
    <3>2. t = q
      BY <1>1, <3>1
    <3>3. QED
      BY <3>2 DEF t
  <2>5. /\ n + 1 = m + 7 /\ n + 1 > 6 /\ n + 1 \notin 6..(m + 6) /\ n + 1 \notin 2..(m + 6)
        /\ n + 1 # m + 6 /\ n + 1 \notin 6..(m + 5) /\ n + 1 \notin 2..6
        /\ n + 1 \notin {0, 1, 2, 3, 4, 5}
    BY <1>1, <1>15
  <2> DEFINE k == n + 1
  <2>6. /\ k = Packs(r) + 7 /\ k > 6 /\ k \notin 6..(Packs(r) + 6) /\ k \notin 2..(Packs(r) + 6)
        /\ k # Packs(r) + 6 /\ k \notin 6..(Packs(r) + 5) /\ k \notin 2..6
        /\ k \notin {0, 1, 2, 3, 4, 5}
    BY <2>5 DEF m
  <2>7. /\ status' = "GOT_CHKSUM1" /\ msgCheckSum' = LowFirst(summation(CountedOf(r)))[1]
        /\ CheckSum' = summation(CountedOf(r)) /\ head'.ID = CardID /\ head'.FUN = r.fun
        /\ head'.Length = Packs(r) /\ head'.Payload = Packed(r)
    BY <2>2, <2>3, <2>4 DEF m, c, q, low
  <2> HIDE DEF k
  <2>8. TakenSoFar(r, k, status', CheckSum', msgCheckSum', head')
    BY <2>6, <2>7 DEF TakenSoFar
  <2>9. QED
    BY <2>2, <2>8 DEF k
<1>16. QED
  BY <1>1, <1>4, <1>12, <1>13, <1>14, <1>15

(* The last byte of the frame.                                              *)
LEMMA ReadLastByte ==
  ASSUME CardOK, NEW r \in Request, Taken(r, Packs(r) + 7), out = <<>>,
         ParseByte(RequestFrame(r)[Packs(r) + 8])
  PROVE  /\ status' = "UNINIT" /\ obeyed' = TRUE
         /\ MemMAP' = IF r.fun = 1
                      THEN [MemMAP EXCEPT ![r.reg] = Overwrite(@, r)] ELSE MemMAP
         /\ out' = IF r.fun = 0 THEN AnswerOf(r, MemMAP) ELSE <<>>
<1> DEFINE m == Packs(r)
           c == CountedOf(r)
           b == RequestFrame(r)[m + 8]
           h == LowFirst(summation(c))
           queued == IF out = <<>> THEN <<>> ELSE Tail(out)
<1>1. m \in 4..7 /\ c \in Seq(RegByte) /\ b = h[2]
  BY RequestFrameIs
<1>2. FromLow(h[1], h[2]) = summation(c)
  BY <1>1, SumOfIs, LowFirstIs
<1>3. /\ status = "GOT_CHKSUM1" /\ msgCheckSum = h[1] /\ CheckSum = summation(c)
      /\ head.ID = CardID /\ head.FUN = r.fun /\ head.Payload = Packed(r)
  <2>1. m + 7 >= 4
    BY <1>1
  <2>2. QED
    BY <1>1, <2>1 DEF Taken, TakenSoFar
<1>4. queued = <<>>
  OBVIOUS
<1>5. \/ (Sync(b) \/ Header(b)) /\ NoParse(queued) /\ UNCHANGED msgCheckSum
      \/ Sum(b, queued) /\ UNCHANGED <<CheckSum, head>>
  BY DEF ParseByte
<1> HIDE DEF m, c, b, h, queued
<1>6. /\ To("UNINIT") /\ msgCheckSum' = FromLow(msgCheckSum, b)
      /\ IF msgCheckSum' = CheckSum
         THEN ParseMsg(queued) /\ obeyed' = TRUE ELSE NoParse(queued)
  BY <1>3, <1>5 DEF Sync, Header, Sum
<1>7. ParseMsg(queued) /\ obeyed' = TRUE
  BY <1>1, <1>2, <1>3, <1>6
<1>8. /\ MemMAP' = IF r.fun = 1
                   THEN [MemMAP EXCEPT ![r.reg] = Overwrite(@, r)] ELSE MemMAP
      /\ out' = IF r.fun = 0 THEN queued \o AnswerOf(r, MemMAP) ELSE queued
  BY <1>3, <1>7, ParsedRequest
<1>9. <<>> \o AnswerOf(r, MemMAP) = AnswerOf(r, MemMAP)
  <2>1. AnswerOf(r, MemMAP) \in Seq(RegByte)
    <3>1. ReplyOf(r, MemMAP) \in Seq(RegByte)
      BY ReplyIs DEF CardOK
    <3>2. QED
      BY <3>1, SendMessageIn, Words, RegisterAssumption DEF AnswerOf
  <2> DEFINE a == AnswerOf(r, MemMAP)
  <2> HIDE DEF a
  <2>2. \A t \in Seq(RegByte) : <<>> \o t = t
    OBVIOUS
  <2>3. QED
    BY <2>1, <2>2
<1>10. QED
  BY <1>4, <1>6, <1>7, <1>8, <1>9 DEF To
-----------------------------------------------------------------------------
(* The link since it was last at rest.  What was sent of the frame is what  *)
(* the card has taken, and what is read of the answer what it has sent.     *)
Undisturbed ==
  /\ station = "idle" =>
       /\ status = "UNINIT" /\ out = <<>>
       /\ data.fun = 0 => ValueRead = SubSeq(MemMAP[data.reg], 1, Size(data.type))
  /\ station = "sending" =>
       /\ out = <<>> /\ ~obeyed /\ p = <<>> /\ Len(tx) <= Packs(data) + 8
       /\ \A k \in 1..Len(tx) : tx[k] = RequestFrame(data)[Packs(data) + 8 - Len(tx) + k]
       /\ Taken(data, Packs(data) + 8 - Len(tx))
  /\ station = "paused" =>
       /\ status = "UNINIT" /\ obeyed /\ p = <<>>
       /\ out = IF data.fun = 0 THEN AnswerOf(data, MemMAP) ELSE <<>>
  /\ station = "reading" =>
       /\ data.fun = 0 /\ status = "UNINIT" /\ obeyed
       /\ Len(out) > 0 /\ Len(p) + Len(out) = Packs(data) + 8
       /\ \A k \in 1..Len(p) : p[k] = AnswerOf(data, MemMAP)[k]
       /\ \A k \in 1..Len(out) : out[k] = AnswerOf(data, MemMAP)[Len(p) + k]

LinkInv == ~shaken => Undisturbed

Obeying(r, cells) ==
  IF r.fun = 1 THEN [cells EXCEPT ![r.reg] = Overwrite(@, r)] ELSE cells

LEMMA AnswerIs ==
  ASSUME NEW r \in Request, NEW cells \in [Registers -> Cell]
  PROVE  /\ AnswerOf(r, cells) \in Seq(RegByte) /\ Len(AnswerOf(r, cells)) = Packs(r) + 8
         /\ \A j \in 1..Size(r.type) : AnswerOf(r, cells)[9 + j] = cells[r.reg][j]
<1> DEFINE s == ReplyOf(r, cells)
           m == Packs(r)
           c == CountedIn(CardID, 0, s)
           a == AnswerOf(r, cells)
           n == Size(r.type)
<1>1. s \in Seq(RegByte) /\ Len(s) = m /\ \A j \in 1..n : s[3 + j] = cells[r.reg][j]
  BY ReplyIs
<1>2. m = 3 + n /\ n \in {1, 2, 4} /\ m < RegWidth
  BY PackedIs DEF Packs
<1>3. CardID \in RegByte /\ 0 \in RegByte
  BY Words, RegisterAssumption
<1> HIDE DEF s, m, n, a
<1>4. a = SendMessage(CardID, 0, s)
  BY DEF a, s, AnswerOf
<1>5. /\ Len(s) \in Nat
      /\ \A k \in 1..Len(s) : c[4 + k] = s[k]
      /\ a \in Seq(RegByte) /\ Len(a) = Len(s) + 8
      /\ \A k \in 1..(Len(s) + 4) : a[2 + k] = c[k]
  <2>1. Len(s) < RegWidth
    BY <1>1, <1>2
  <2>2. LET M == Len(s)
            C == CountedIn(CardID, 0, s)
            f == SendMessage(CardID, 0, s)
        IN /\ M \in Nat
           /\ C \in Seq(RegByte) /\ Len(C) = M + 4
           /\ C[1] = CardID /\ C[2] = 0 /\ C[3] = M /\ C[4] = 0
           /\ \A k \in 1..M : C[4 + k] = s[k]
           /\ f \in Seq(RegByte) /\ Len(f) = M + 8
           /\ f[1] = SYNC1 /\ f[2] = SYNC2
           /\ \A k \in 1..(M + 4) : f[2 + k] = C[k]
           /\ f[M + 7] = LowFirst(summation(C))[1] /\ f[M + 8] = LowFirst(summation(C))[2]
    BY <1>1, <1>3, <2>1, FrameIs, Zenon
  <2>3. QED
    BY <1>4, <2>2
<1> HIDE DEF c
<1>6. ASSUME NEW j \in 1..n PROVE a[9 + j] = cells[r.reg][j]
  <2>1. /\ 3 + j \in 1..m /\ 4 + (3 + j) \in 1..(m + 4) /\ 2 + (4 + (3 + j)) = 9 + j
    BY <1>2
  <2>2. c[4 + (3 + j)] = s[3 + j] /\ a[2 + (4 + (3 + j))] = c[4 + (3 + j)]
    BY <1>1, <1>5, <2>1
  <2>3. QED
    BY <1>1, <2>1, <2>2
<1>7. QED
  BY <1>1, <1>5, <1>6 DEF a, m, n

LEMMA LinkInit == RegistersInit => LinkInv
  BY DEF RegistersInit, LinkInv, Undisturbed, Nothing

(* A request begins with the link at rest.                                  *)
LEMMA LinkCalls ==
  ASSUME RegInv, LinkInv, NEW r \in Requests, write_one_register(r)
  PROVE  LinkInv'
<1> DEFINE m == Packs(r)
           f == RequestFrame(r)
<1>1. SUFFICES ASSUME ~shaken' PROVE Undisturbed'
  BY DEF LinkInv
<1>2. r \in Request
  BY RegisterAssumption
<1>3. m \in 4..7 /\ f \in Seq(RegByte) /\ Len(f) = m + 8
  BY <1>2, RequestFrameIs
<1>4. status = "UNINIT" /\ out = <<>>
  BY <1>1 DEF LinkInv, Undisturbed, write_one_register
<1>5. /\ station' = "sending" /\ data' = r /\ tx' = f /\ p' = <<>> /\ obeyed' = FALSE
      /\ status' = "UNINIT" /\ out' = <<>>
  BY <1>4 DEF write_one_register, parserVars, RequestFrame
<1> HIDE DEF m, f
<1>6. Len(f) <= m + 8 /\ m + 8 - Len(f) = 0
  BY <1>3
<1>7. \A k \in 1..Len(f) : f[k] = f[(m + 8 - Len(f)) + k]
  BY <1>3, <1>6
<1>8. TakenSoFar(r, 0, status', CheckSum', msgCheckSum', head')
  <2>1. /\ 0 \notin 6..(Packs(r) + 5) /\ 0 # Packs(r) + 6 /\ 0 # Packs(r) + 7
        /\ 0 \notin 2..(Packs(r) + 6) /\ 0 \notin 2..6 /\ 0 \notin 6..(Packs(r) + 6)
        /\ ~(0 >= 3) /\ ~(0 >= 4) /\ ~(0 >= 5)
    BY <1>3 DEF m
  <2>2. QED
    BY <1>5, <2>1 DEF TakenSoFar
<1>9. QED
  BY <1>5, <1>6, <1>7, <1>8 DEF Undisturbed, Taken, m, f

LEMMA LinkSends ==
  ASSUME RegInv, LinkInv, spi_send
  PROVE  /\ LinkInv'
         /\ ~shaken => /\ Len(tx) > 1 => UNCHANGED <<MemMAP, obeyed>>
                       /\ Len(tx) = 1 => /\ MemMAP' = Obeying(data, MemMAP)
                            /\ obeyed' = TRUE /\ obeyed = FALSE
<1>1. SUFFICES ASSUME ~shaken
               PROVE  /\ Undisturbed'
                      /\ Len(tx) > 1 => UNCHANGED <<MemMAP, obeyed>>
                      /\ Len(tx) = 1 => /\ MemMAP' = Obeying(data, MemMAP)
                            /\ obeyed' = TRUE /\ obeyed = FALSE
  BY DEF LinkInv, spi_send, faultVars
<1>2. PICK r \in Request : r = data
  BY DEF spi_send, RegInv, StationOK
<1> DEFINE m == Packs(r)
           f == RequestFrame(r)
           n == m + 8 - Len(tx)
<1>3. m \in 4..7 /\ f \in Seq(RegByte) /\ Len(f) = m + 8
  BY RequestFrameIs
<1>4. CardOK /\ tx \in Seq(RegByte) /\ tx # <<>>
  BY DEF spi_send, RegInv, StationOK
<1>5. /\ out = <<>> /\ obeyed = FALSE /\ p = <<>> /\ Len(tx) <= m + 8
      /\ \A k \in 1..Len(tx) : tx[k] = f[n + k]
      /\ Taken(r, n)
  <2>1. obeyed \in BOOLEAN
    BY <1>4 DEF CardOK
  <2>2. Undisturbed
    BY <1>1 DEF LinkInv
  <2>3. station = "sending"
    BY DEF spi_send
  <2>4. ~obeyed
    BY <2>2, <2>3 DEF Undisturbed
  <2>5. obeyed = FALSE
    BY <2>1, <2>4
  <2>6. QED
    BY <1>2, <2>2, <2>3, <2>5 DEF Undisturbed
<1>6. /\ ParseByte(Head(tx)) /\ tx' = Tail(tx)
      /\ station' = IF tx' = <<>> THEN "paused" ELSE "sending"
      /\ data' = r /\ p' = <<>>
  BY <1>2, <1>5 DEF spi_send
<1> HIDE DEF m, f
<1>7. Len(tx) \in 1..(m + 8) /\ n \in 0..(m + 7)
  <2>1. Len(tx) \in Nat /\ Len(tx) # 0
    BY <1>4
  <2> DEFINE l == Len(tx)
  <2> HIDE DEF l
  <2>2. l \in 1..(m + 8) /\ m + 8 - l \in 0..(m + 7)
    BY <1>3, <1>5, <2>1 DEF l
  <2>3. QED
    BY <2>2 DEF l
<1>8. Head(tx) = f[n + 1]
  <2>1. Head(tx) = tx[1] /\ 1 \in 1..Len(tx)
    BY <1>4, <1>7
  <2>2. QED
    BY <1>5, <2>1
<1>9. Tail(tx) \in Seq(RegByte) /\ Len(Tail(tx)) = Len(tx) - 1
      /\ \A k \in 1..(Len(tx) - 1) : Tail(tx)[k] = tx[k + 1]
  BY <1>4
<1>10. CASE Len(tx) = 1
  <2>1. n = m + 7 /\ n + 1 = m + 8
    BY <1>3, <1>10
  <2>2. /\ status' = "UNINIT" /\ obeyed' = TRUE
        /\ MemMAP' = IF r.fun = 1
                     THEN [MemMAP EXCEPT ![r.reg] = Overwrite(@, r)] ELSE MemMAP
        /\ out' = IF r.fun = 0 THEN AnswerOf(r, MemMAP) ELSE <<>>
    BY <1>4, <1>5, <1>6, <1>8, <2>1, ReadLastByte DEF m, f
  <2>3. station' = "paused"
    BY <1>6, <1>9, <1>10
  <2>4. out' = IF r.fun = 0 THEN AnswerOf(r, MemMAP') ELSE <<>>
    BY <2>2
  <2>5. Undisturbed'
    BY <1>6, <2>2, <2>3, <2>4 DEF Undisturbed
  <2>6. QED
    BY <1>2, <1>5, <1>10, <2>2, <2>5 DEF Obeying
<1>11. CASE Len(tx) # 1
  <2>1. n \in 0..(m + 6) /\ Len(tx) - 1 \in 1..(m + 7) /\ (m + 8) - (Len(tx) - 1) = n + 1
    <3> DEFINE l == Len(tx)
    <3>1. l \in 1..(m + 8) /\ l # 1
      BY <1>7, <1>11
    <3> HIDE DEF l
    <3>2. m + 8 - l \in 0..(m + 6) /\ l - 1 \in 1..(m + 7) /\ (m + 8) - (l - 1) = (m + 8 - l) + 1
      BY <1>3, <3>1
    <3>3. QED
      BY <3>2 DEF l
  <2> DEFINE k == n
  <2>2. k \in 0..(Packs(r) + 6) /\ Taken(r, k) /\ ParseByte(RequestFrame(r)[k + 1])
    BY <1>5, <1>6, <1>8, <2>1 DEF m, f
  <2> HIDE DEF k
  <2>3. /\ TakenSoFar(r, k + 1, status', CheckSum', msgCheckSum', head')
        /\ out' = <<>> /\ UNCHANGED <<MemMAP, obeyed>>
    BY <1>4, <1>5, <2>2, ReadOneMore
  <2>4. station' = "sending" /\ Len(tx') = Len(tx) - 1
    <3>1. Len(tx') = Len(tx) - 1
      BY <1>6, <1>9
    <3>2. Len(tx') # 0
      BY <2>1, <3>1
    <3>3. tx' # <<>>
      BY <3>2
    <3>4. QED
      BY <1>6, <3>1, <3>3
  <2>5. Packs(r) + 8 - Len(tx') = k + 1
    <3> DEFINE l == Len(tx) - 1
    <3>1. (m + 8) - l = k + 1 /\ l \in Nat /\ m \in Nat /\ k \in Nat
      BY <1>3, <2>1 DEF k
    <3>2. Len(tx') = l
      BY <2>4
    <3> HIDE DEF l
    <3>3. Packs(r) + 8 - l = k + 1
      BY <3>1 DEF m
    <3>4. QED
      BY <3>2, <3>3, Zenon
  <2>6. \A i \in 1..Len(tx') : tx'[i] = RequestFrame(r)[(k + 1) + i]
    <3> SUFFICES ASSUME NEW i \in 1..Len(tx') PROVE tx'[i] = RequestFrame(r)[(k + 1) + i]
      OBVIOUS
    <3>1. i \in 1..(Len(tx) - 1) /\ i + 1 \in 1..Len(tx)
      BY <1>7, <2>4
    <3>2. tx'[i] = tx[i + 1] /\ tx[i + 1] = f[k + (i + 1)]
      BY <1>5, <1>6, <1>9, <3>1 DEF k
    <3>3. k + (i + 1) = (k + 1) + i
      BY <2>2, <1>3 DEF m
    <3>4. QED
      BY <3>2, <3>3 DEF f
  <2>7. Len(tx') <= Packs(r) + 8
    BY <1>3, <2>1, <2>4 DEF m
  <2>8. Undisturbed'
    BY <1>5, <1>6, <2>3, <2>4, <2>5, <2>6, <2>7 DEF Undisturbed, Taken
  <2>9. QED
    BY <1>11, <2>3, <2>8
<1>12. QED
  BY <1>10, <1>11

LEMMA LinkReads ==
  ASSUME RegInv, LinkInv, spi_receive
  PROVE  LinkInv' /\ (~shaken => UNCHANGED <<MemMAP, obeyed>> /\ obeyed = TRUE)
<1>1. SUFFICES ASSUME ~shaken
               PROVE  Undisturbed' /\ UNCHANGED <<MemMAP, obeyed>> /\ obeyed = TRUE
  BY DEF LinkInv, spi_receive, faultVars
<1>2. PICK r \in Request : r = data
  BY DEF spi_receive, RegInv, StationOK
<1> DEFINE m == Packs(r)
           a == AnswerOf(r, MemMAP)
           n == Size(r.type)
<1>3. /\ MemMAP \in [Registers -> Cell] /\ out \in Seq(RegByte) /\ p \in Seq(RegByte)
      /\ obeyed \in BOOLEAN
  BY DEF RegInv, CardOK, StationOK
<1>4. /\ a \in Seq(RegByte) /\ Len(a) = m + 8
      /\ \A j \in 1..n : a[9 + j] = MemMAP[r.reg][j]
  BY <1>3, AnswerIs
<1>5. m = 3 + n /\ n \in {1, 2, 4}
  BY PackedIs DEF Packs
<1>6. /\ r.fun = 0 /\ status = "UNINIT" /\ obeyed
      /\ Len(out) > 0 /\ Len(p) + Len(out) = m + 8
      /\ \A k \in 1..Len(p) : p[k] = a[k]
      /\ \A k \in 1..Len(out) : out[k] = a[Len(p) + k]
  BY <1>1, <1>2 DEF LinkInv, Undisturbed, spi_receive
<1> HIDE DEF m, a, n
<1> DEFINE queued == IF out = <<>> THEN <<>> ELSE Tail(out)
<1>7. out # <<>> /\ Head(out) = a[Len(p) + 1] /\ queued = Tail(out)
  <2>1. out # <<>> /\ 1 \in 1..Len(out) /\ Head(out) = out[1]
    BY <1>3, <1>6
  <2>2. QED
    BY <1>6, <2>1
<1>8. /\ ParseByte(Dummy) /\ p' = Append(p, Head(out)) /\ data' = r
      /\ station' = IF Len(p') = m + 8 THEN "idle" ELSE "reading"
  BY <1>2, <1>7 DEF spi_receive, m, Packs
<1>9. status' = "UNINIT" /\ out' = Tail(out) /\ UNCHANGED <<MemMAP, obeyed>>
  <2>1. \/ (Sync(Dummy) \/ Header(Dummy)) /\ NoParse(queued) /\ UNCHANGED msgCheckSum
        \/ Sum(Dummy, queued) /\ UNCHANGED <<CheckSum, head>>
    BY <1>8 DEF ParseByte
  <2>2. Dummy # SYNC1
    BY RegisterAssumption
  <2> HIDE DEF queued
  <2>3. status' = "UNINIT" /\ NoParse(queued)
    BY <1>6, <2>1, <2>2 DEF Sync, Header, Sum, To
  <2>4. QED
    BY <1>7, <2>3 DEF NoParse
<1> HIDE DEF queued
<1>10. /\ Len(p') = Len(p) + 1 /\ p' \in Seq(RegByte)
       /\ \A k \in 1..(Len(p) + 1) : p'[k] = a[k]
  <2>1. Head(out) \in RegByte
    BY <1>3, <1>7
  <2>2. /\ Len(p') = Len(p) + 1 /\ p' \in Seq(RegByte) /\ p'[Len(p) + 1] = Head(out)
        /\ \A k \in 1..Len(p) : p'[k] = p[k]
    BY <1>3, <1>8, <2>1
  <2>3. ASSUME NEW k \in 1..(Len(p) + 1) PROVE p'[k] = a[k]
    <3>1. k = Len(p) + 1 \/ k \in 1..Len(p)
      BY <1>3
    <3>2. QED
      BY <1>6, <1>7, <2>2, <3>1
  <2>4. QED
    BY <2>2, <2>3
<1>11. /\ Len(Tail(out)) = Len(out) - 1
       /\ \A k \in 1..(Len(out) - 1) : Tail(out)[k] = out[k + 1]
  BY <1>3, <1>7
<1>12. /\ Len(p) \in Nat /\ Len(out) \in Nat /\ Len(out) > 0 /\ Len(p) + Len(out) = m + 8
       /\ m \in Nat
  BY <1>3, <1>5, <1>6
<1>13. CASE Len(p') = m + 8
  <2>1. Len(out) = 1
    <3>1. Len(p) + 1 = m + 8 /\ m + 8 \in Nat
      BY <1>10, <1>12, <1>13
    <3>2. \A j, k, l \in Nat : j + 1 = l /\ j + k = l => k = 1
      OBVIOUS
    <3>3. QED
      BY <1>12, <3>1, <3>2
  <2>2. out' = <<>>
    <3>1. Len(Tail(out)) = 0 /\ Tail(out) \in Seq(RegByte)
      BY <1>3, <1>7, <1>11, <2>1
    <3>2. Tail(out) = <<>>
      BY <3>1, EmptySeq
    <3>3. QED
      BY <1>9, <3>2
  <2>3. SubSeq(p', 10, 9 + n) = SubSeq(MemMAP[r.reg], 1, n)
    <3> DEFINE w == p'
               cell == MemMAP[r.reg]
    <3>1. w \in Seq(RegByte) /\ Len(w) = m + 8 /\ \A k \in 1..(m + 8) : w[k] = a[k]
      BY <1>10, <1>13
    <3>2. cell \in Seq(RegByte) /\ Len(cell) = 4
      <4>1. cell \in [1..4 -> RegByte]
        BY <1>3 DEF Request, Cell
      <4> HIDE DEF cell
      <4>2. ASSUME NEW k \in Nat, NEW u \in [1..k -> RegByte]
            PROVE  u \in Seq(RegByte) /\ Len(u) = k
        OBVIOUS
      <4>3. QED
        BY <4>1, <4>2
    <3>3. \A j \in 1..n : a[9 + j] = cell[j]
      BY <1>4
    <3> HIDE DEF w, cell
    <3>4. \A j \in 1..n : w[9 + j] = cell[j]
      <4> SUFFICES ASSUME NEW j \in 1..n PROVE w[9 + j] = cell[j]
        OBVIOUS
      <4>1. 9 + j \in 1..(m + 8)
        BY <1>5
      <4>2. QED
        BY <3>1, <3>3, <4>1
    <3>5. /\ SubSeq(w, 10, 9 + n) = [j \in 1..n |-> w[9 + j]]
          /\ SubSeq(cell, 1, n) = [j \in 1..n |-> cell[j]]
      <4>1. SubSeq(w, 10, 9 + n) = [j \in 1..((9 + n) + 1 - 10) |-> w[10 + j - 1]]
        BY <1>5, <3>1
      <4>2. (9 + n) + 1 - 10 = n /\ \A j \in 1..n : 10 + j - 1 = 9 + j
        BY <1>5
      <4>3. SubSeq(cell, 1, n) = [j \in 1..n |-> cell[j]]
        BY <1>5, <3>2
      <4>4. QED
        BY <4>1, <4>2, <4>3
    <3>6. SubSeq(w, 10, 9 + n) = SubSeq(cell, 1, n)
      BY <3>4, <3>5
    <3>7. QED
      BY <3>6 DEF w, cell
  <2>4. station' = "idle"
    BY <1>8, <1>13
  <2>5. Undisturbed'
    BY <1>8, <1>9, <2>2, <2>3, <2>4 DEF Undisturbed, ValueRead, n
  <2>6. QED
    BY <1>3, <1>6, <1>9, <2>5
<1>14. CASE Len(p') # m + 8
  <2>1. Len(out) > 1
    BY <1>10, <1>12, <1>14
  <2>2. station' = "reading"
    BY <1>8, <1>14
  <2>3. Len(out') > 0 /\ Len(p') + Len(out') = m + 8
    <3>1. Len(out') = Len(out) - 1 /\ Len(p') = Len(p) + 1
      BY <1>9, <1>10, <1>11
    <3>2. \A j, k, l \in Nat : k > 1 /\ j + k = l => k - 1 > 0 /\ (j + 1) + (k - 1) = l
      OBVIOUS
    <3>3. m + 8 \in Nat
      BY <1>12
    <3>4. Len(out) - 1 > 0 /\ (Len(p) + 1) + (Len(out) - 1) = m + 8
      BY <1>12, <2>1, <3>2, <3>3
    <3>5. QED
      BY <3>1, <3>4
  <2>4. \A k \in 1..Len(p') : p'[k] = a[k]
    BY <1>10
  <2>5. \A k \in 1..Len(out') : out'[k] = a[Len(p') + k]
    <3> SUFFICES ASSUME NEW k \in 1..Len(out') PROVE out'[k] = a[Len(p') + k]
      OBVIOUS
    <3>1. k \in 1..(Len(out) - 1) /\ k + 1 \in 1..Len(out) /\ Len(p) + (k + 1) = Len(p') + k
      BY <1>9, <1>10, <1>11, <1>12
    <3>2. out'[k] = out[k + 1] /\ out[k + 1] = a[Len(p) + (k + 1)]
      BY <1>6, <1>9, <1>11, <3>1
    <3>3. QED
      BY <3>1, <3>2
  <2>6. Undisturbed'
    BY <1>6, <1>8, <1>9, <2>2, <2>3, <2>4, <2>5 DEF Undisturbed, m, a
  <2>7. QED
    BY <1>3, <1>6, <1>9, <2>6
<1>15. QED
  BY <1>13, <1>14

LEMMA LinkPauses == ASSUME RegInv, LinkInv, Pause PROVE LinkInv'
<1>1. SUFFICES ASSUME ~shaken PROVE Undisturbed'
  BY DEF LinkInv, Pause, faultVars
<1>2. PICK r \in Request : r = data
  BY DEF Pause, RegInv, StationOK
<1> DEFINE a == AnswerOf(r, MemMAP)
           m == Packs(r)
<1>3. /\ status = "UNINIT" /\ obeyed /\ p = <<>>
      /\ out = IF r.fun = 0 THEN a ELSE <<>>
      /\ station' = IF r.fun = 0 THEN "reading" ELSE "idle"
      /\ UNCHANGED <<data, p, status, out, obeyed, MemMAP>>
  BY <1>1, <1>2 DEF LinkInv, Undisturbed, Pause, cardVars, parserVars
<1>4. a \in Seq(RegByte) /\ Len(a) = m + 8 /\ m \in 4..7
  <2>1. MemMAP \in [Registers -> Cell]
    BY DEF RegInv, CardOK
  <2>2. QED
    BY <2>1, AnswerIs, RequestFrameIs
<1> HIDE DEF a, m
<1>5. CASE r.fun = 0
  <2>1. /\ out' = a /\ p' = <<>> /\ Len(a) > 0 /\ Len(<<>>) + Len(a) = m + 8
        /\ \A k \in 1..Len(a) : a[k] = a[Len(<<>>) + k]
    BY <1>3, <1>4, <1>5
  <2>2. \A k \in 1..Len(<<>>) : <<>>[k] = a[k]
    OBVIOUS
  <2>3. QED
    BY <1>2, <1>3, <1>5, <2>1, <2>2 DEF Undisturbed, a, m
<1>6. CASE r.fun # 0
  BY <1>2, <1>3, <1>6 DEF Undisturbed
<1>7. QED
  BY <1>5, <1>6

LEMMA LinkNext == RegInv /\ LinkInv /\ [RegistersNext]_regVars => LinkInv'
<1> SUFFICES ASSUME RegInv, LinkInv, [RegistersNext]_regVars PROVE LinkInv'
  OBVIOUS
<1>1. ASSUME CardReset PROVE LinkInv'
  BY <1>1 DEF CardReset, LinkInv
<1>2. ASSUME UNCHANGED regVars PROVE LinkInv'
  BY <1>2 DEF LinkInv, Undisturbed, Taken, ValueRead, regVars, stationVars, cardVars,
     parserVars, faultVars
<1>3. QED
  BY <1>1, <1>2, LinkCalls, LinkSends, LinkPauses, LinkReads DEF RegistersNext, Transfer

LEMMA LinkGives == LinkInv => ReadReturnsRegister
  BY DEF LinkInv, Undisturbed, ReadReturnsRegister

LEMMA LinkHolds == RegistersSpec => [](RegInv /\ LinkInv)
  BY RegInvInit, RegInvNext, LinkInit, LinkNext, PTL DEF RegistersSpec

(* A read that ends while the link was at rest when it began copies what    *)
(* the register holds, whatever bytes the request and the register hold.    *)
THEOREM ReadsCorrect == RegistersSpec => []ReadReturnsRegister
  BY LinkGives, LinkHolds, PTL
-----------------------------------------------------------------------------
(* The link is a register file.  The last byte of a frame performs what the *)
(* request asks; the others change nothing unless the link was disturbed.   *)
Owed == IF station = "idle" \/ obeyed THEN Nothing ELSE data

LEMMA NothingAsked == Nothing \notin Request
  BY DEF Nothing, Request

LEMMA ParseObeys == ASSUME NEW b, ParseByte(b) PROVE obeyed' \in {obeyed, TRUE}
  BY DEF ParseByte, Sync, Header, Sum, NoParse

LEMMA FileCalls ==
  ASSUME NEW r \in Requests, write_one_register(r) PROVE File!Ask
<1>1. r \in Request
  BY RegisterAssumption
<1>2. /\ station = "idle" /\ station' = "sending" /\ data' = r /\ obeyed' = FALSE
      /\ MemMAP' = MemMAP /\ shaken' \in {shaken, FALSE}
  BY DEF write_one_register
<1>3. Owed = Nothing /\ Owed' = r
  BY <1>2 DEF Owed
<1>4. QED
  BY <1>1, <1>2, <1>3 DEF File!Ask, Owed

LEMMA FileMisread ==
  ASSUME RegInv, RegInv', NEW b \in RegByte, ParseByte(b), UNCHANGED <<data, shaken>>, shaken,
         station # "idle"
  PROVE  File!Misread
<1>1. MemMAP' \in [Registers -> Cell] /\ obeyed \in BOOLEAN
  BY DEF RegInv, CardOK
<1>2. \A r \in Registers : MemMAP'[r] \in Cell
  BY <1>1
<1>3. Owed' \in {Owed, Nothing}
  <2>1. obeyed' \in {obeyed, TRUE}
    BY ParseObeys
  <2>2. CASE obeyed
    <3>1. obeyed' /\ Owed = Nothing
      BY <1>1, <2>1, <2>2 DEF Owed
    <3>2. Owed' = Nothing
      BY <3>1 DEF Owed
    <3>3. QED
      BY <3>1, <3>2
  <2>3. CASE ~obeyed
    <3>1. Owed = data
      BY <2>3 DEF Owed
    <3>2. Owed' = Nothing \/ Owed' = data
      BY DEF Owed
    <3>3. QED
      BY <3>1, <3>2
  <2>4. QED
    BY <2>2, <2>3
<1>4. QED
  BY <1>2, <1>3 DEF File!Misread, Owed

LEMMA FileSends ==
  ASSUME RegInv, LinkInv, RegInv', spi_send PROVE [File!FileNext]_(File!fileVars)
<1>1. /\ station = "sending" /\ ParseByte(Head(tx)) /\ UNCHANGED <<data, shaken>>
      /\ station' \in {"paused", "sending"}
  BY DEF spi_send, faultVars
<1>2. Head(tx) \in RegByte /\ tx \in Seq(RegByte) /\ tx # <<>> /\ data \in Request
  BY <1>1 DEF RegInv, StationOK
<1>3. CASE shaken
  BY <1>1, <1>2, <1>3, FileMisread DEF File!FileNext
<1>4. CASE ~shaken /\ Len(tx) > 1
  <2>1. UNCHANGED <<MemMAP, obeyed>>
    BY <1>4, LinkSends
  <2>2. Owed' = Owed
    BY <1>1, <2>1 DEF Owed
  <2>3. QED
    BY <1>1, <2>1, <2>2 DEF File!fileVars, Owed
<1>5. CASE ~shaken /\ Len(tx) = 1
  <2>1. MemMAP' = Obeying(data, MemMAP) /\ obeyed' = TRUE /\ obeyed = FALSE
    BY <1>5, LinkSends
  <2>2. Owed = data /\ Owed' = Nothing /\ Owed # Nothing
    BY <1>1, <1>2, <2>1, NothingAsked DEF Owed
  <2>3. File!Perform
    BY <1>1, <2>1, <2>2 DEF File!Perform, Owed, Obeying
  <2>4. QED
    BY <2>3 DEF File!FileNext
<1>6. Len(tx) = 1 \/ Len(tx) > 1
  <2>1. Len(tx) \in Nat /\ Len(tx) # 0
    BY <1>2, EmptySeq
  <2>2. \A k \in Nat : k # 0 => k = 1 \/ k > 1
    OBVIOUS
  <2>3. QED
    BY <2>1, <2>2
<1>7. QED
  BY <1>3, <1>4, <1>5, <1>6

LEMMA FileReads ==
  ASSUME RegInv, LinkInv, RegInv', spi_receive PROVE [File!FileNext]_(File!fileVars)
<1>1. station = "reading" /\ ParseByte(Dummy) /\ UNCHANGED <<data, shaken>>
  BY DEF spi_receive, faultVars
<1>2. CASE shaken
  <2>1. Dummy \in RegByte
    BY RegisterAssumption
  <2>2. File!Misread
    BY <1>1, <1>2, <2>1, FileMisread
  <2>3. QED
    BY <2>2 DEF File!FileNext
<1>3. CASE ~shaken
  <2>1. UNCHANGED <<MemMAP, obeyed>> /\ obeyed = TRUE
    BY <1>3, LinkReads
  <2>2. Owed' = Owed
    BY <2>1 DEF Owed
  <2>3. QED
    BY <1>1, <2>1, <2>2 DEF File!fileVars, Owed
<1>4. QED
  BY <1>2, <1>3

LEMMA FilePauses ==
  ASSUME RegInv, LinkInv, Pause PROVE [File!FileNext]_(File!fileVars)
<1>1. /\ station = "paused" /\ UNCHANGED <<data, MemMAP, obeyed, shaken>>
      /\ station' \in {"reading", "idle"}
  BY DEF Pause, faultVars, cardVars
<1>2. ~shaken => obeyed
  BY <1>1 DEF LinkInv, Undisturbed
<1>3. data \in Request /\ Nothing \notin Request
  BY <1>1, NothingAsked DEF RegInv, StationOK
<1>4. CASE Owed' = Owed
  BY <1>1, <1>4 DEF File!fileVars, Owed
<1>5. CASE Owed' # Owed
  <2>1. shaken /\ Owed # Nothing /\ Owed' = Nothing
    BY <1>1, <1>2, <1>3, <1>5 DEF Owed
  <2>2. File!Lose
    BY <1>1, <2>1 DEF File!Lose, Owed
  <2>3. QED
    BY <2>2 DEF File!FileNext
<1>6. QED
  BY <1>4, <1>5

LEMMA FileStep ==
  RegInv /\ LinkInv /\ RegInv' /\ [RegistersNext]_regVars => [File!FileNext]_(File!fileVars)
<1> SUFFICES ASSUME RegInv, LinkInv, RegInv', [RegistersNext]_regVars
             PROVE  [File!FileNext]_(File!fileVars)
  OBVIOUS
<1>1. ASSUME NEW r \in Requests, write_one_register(r) PROVE File!FileNext
  BY <1>1, FileCalls DEF File!FileNext
<1>2. ASSUME CardReset PROVE File!FileNext
  <2>1. /\ MemMAP' = [r \in Registers |-> <<0, 0, 0, 0>>] /\ shaken' = TRUE
        /\ UNCHANGED <<station, data, obeyed>>
    BY <1>2 DEF CardReset, stationVars
  <2>2. Owed' = Owed
    BY <2>1 DEF Owed
  <2>3. File!Clear
    BY <2>1, <2>2 DEF File!Clear, File!Cleared, Owed
  <2>4. QED
    BY <2>3 DEF File!FileNext
<1>3. ASSUME UNCHANGED regVars PROVE UNCHANGED File!fileVars
  BY <1>3 DEF regVars, stationVars, cardVars, faultVars, File!fileVars
<1>4. QED
  BY <1>1, <1>2, <1>3, FileSends, FileReads, FilePauses DEF RegistersNext, Transfer

LEMMA FileStart == RegistersInit => File!FileInit
  BY DEF RegistersInit, File!FileInit, File!Cleared

(* The link implements the register file: each request is performed once    *)
(* and completely, nothing but a request or a restart changes a register,   *)
(* and only a restart of the card loses a request.                          *)
THEOREM LinkIsRegisterFile == RegistersSpec => FileSpec
  BY FileStart, RegInvInit, RegInvNext, LinkInit, LinkNext, FileStep, PTL
  DEF RegistersSpec, FileSpec, File!FileSpec
-----------------------------------------------------------------------------
(* The protocols side by side.                                              *)
LEMMA PartsInit == Init => FramesInit /\ SenderInit /\ RegistersInit
  BY DEF Init

LEMMA PartsStep ==
  [Next]_vars =>
    [FramesNext]_frameVars /\ [SenderNext]_sendVars /\ [RegistersNext]_regVars
<1> SUFFICES ASSUME [Next]_vars
             PROVE  [FramesNext]_frameVars /\ [SenderNext]_sendVars /\ [RegistersNext]_regVars
  OBVIOUS
<1>1. CASE Parsing
  BY <1>1 DEF Parsing
<1>2. CASE Sending
  BY <1>2 DEF Sending
<1>3. CASE Storing
  BY <1>3 DEF Storing
<1>4. CASE UNCHANGED vars
  BY <1>4 DEF vars
<1>5. QED
  BY <1>1, <1>2, <1>3, <1>4 DEF Next

(* What the three protocols (Tcp_Client and its copies, cParser, cSender)   *)
(* promise holds of the specification that the run checks.                  *)
THEOREM SerialCorrect ==
  Spec => /\ [](/\ FramesTypeOK /\ HandedAsReceived /\ HandedOnce
               /\ WireReads /\ RegistersTypeOK /\ ReadReturnsRegister)
          /\ FileSpec
<1>1. HandInv => FramesTypeOK /\ HandedAsReceived /\ HandedOnce
  BY DEF HandInv, FramesInv
<1>2. RegInv /\ LinkInv => RegistersTypeOK /\ ReadReturnsRegister
  BY RegInvGives, LinkGives
<1>3. QED
  BY <1>1, <1>2, FileStart, PartsInit, PartsStep, HandInit, HandNext, WireInit, WireNext, WireGives,
     RegInvInit, RegInvNext, LinkInit, LinkNext, FileStep, PTL DEF Spec, FileSpec, File!FileSpec
=============================================================================
