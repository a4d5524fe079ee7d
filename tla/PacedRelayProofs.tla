-------------------------- MODULE PacedRelayProofs --------------------------
(***************************************************************************)
(* Proofs about MessageRelay under paced load: while the next stimulus     *)
(* waits for the program to come to rest, one message at a time is on its  *)
(* way and the unlocked mailboxes behave as a channel.                     *)
(***************************************************************************)
EXTENDS MessageRelayProofs

(* Which payload belongs to which identifier: of a frame of the AQC         *)
(* program, where data is the newest measurement, ...                       *)
FramePair(id, m) ==
  \/ id = "primaryAQC_Data2Server" /\ m = Data(data)
  \/ id = "AQC_KeepAliveID"

(* ... of a frame of the central server, and of what the AQC program is     *)
(* told.                                                                    *)
ReplyPair(id, m) == id = "primaryResponseFromServer" /\ m.kind = "response"

NoticePair(id, m) ==
  \/ ReplyPair(id, m)
  \/ id = "RPI_CentServer_Cnn_Aware2AQC_MsgType" /\ m.kind = "aware"
  \/ id = "rpi_ModemError" /\ m.kind = "error"

(* The client's thread has nothing to do.                                   *)
Served(c) == clientPc[c] = "loop" /\ txPending[c] = 0
AllServed == Served(AQC) /\ Served(CentServer)

(* The phases of the program.  A check of the connections that has told the *)
(* AQC client goes on to the server's client beside it.                     *)
AtRest == mainPc \in {"loop", "Check_cent"} /\ mainQ = <<>> /\ AllServed

FrameParsed ==
  /\ clientPc[AQC] = "parsed" /\ txPending[AQC] = 0 /\ Served(CentServer)
  /\ mainPc = "loop" /\ mainQ = <<>> /\ ~pool
  /\ FramePair(boxId[AQC], clientMsg[AQC])

ReplyParsed ==
  /\ clientPc[CentServer] = "parsed" /\ txPending[CentServer] = 0 /\ Served(AQC)
  /\ mainPc = "loop" /\ mainQ = <<>> /\ ~pool
  /\ ReplyPair(boxId[CentServer], clientMsg[CentServer])

SlotPosted ==
  /\ AllServed /\ mainPc = "loop" /\ ~pool
  /\ \/ /\ mainQ = <<"AQC2CtrlDataSlot">>
        /\ FramePair(boxId[AQC], boxMsg[AQC])
     \/ /\ mainQ = <<"CentServer2CtrlDataSlot">>
        /\ ReplyPair(boxId[CentServer], boxMsg[CentServer])
     \/ mainQ = <<"ErrorCurlexecSlot">>

InSlot ==
  /\ AllServed /\ mainQ = <<>> /\ ~pool
  /\ \/ mainPc = "AQC2Ctrl_msg" /\ FramePair(mainId, boxMsg[AQC])
     \/ /\ mainPc = "AQC2Ctrl_data" /\ mainId = "primaryAQC_Data2Server"
        /\ mainMsg = Data(data)
     \/ mainPc = "AQC2Ctrl_keepalive" /\ mainId = "AQC_KeepAliveID"
     \/ mainPc = "AQC2Ctrl_id" /\ FramePair(mainId, boxMsg[CentServer])
     \/ mainPc = "Cent2Ctrl_msg" /\ ReplyPair(mainId, boxMsg[CentServer])
     \/ mainPc = "Cent2Ctrl_toAqc" /\ ReplyPair(mainId, mainMsg)
     \/ mainPc = "Cent2Ctrl_id" /\ ReplyPair(mainId, boxMsg[AQC])
     \/ mainPc = "Error_id" /\ boxMsg[AQC].kind = "error"
     \/ /\ mainPc = "Check_aware"
        /\ boxId[AQC] = "RPI_CentServer_Cnn_Aware2AQC_MsgType"

AqcTold ==
  /\ mainPc \in {"loop", "Check_cent"} /\ mainQ = <<>> /\ Served(CentServer)
  /\ \/ clientPc[AQC] = "loop" /\ txPending[AQC] = 1
     \/ /\ clientPc[AQC] = "sending" /\ txPending[AQC] = 0
        /\ clientId[AQC] = boxId[AQC]
  /\ NoticePair(boxId[AQC], boxMsg[AQC])

ServerTold ==
  /\ clientPc[CentServer] = "loop" /\ txPending[CentServer] = 1
  /\ Served(AQC) /\ mainPc = "loop" /\ mainQ = <<>> /\ ~pool
  /\ boxMsg[CentServer] = Data(data)

OneAtATime ==
  \/ AtRest \/ FrameParsed \/ ReplyParsed \/ SlotPosted \/ InSlot
  \/ AqcTold \/ ServerTold

PInv == TypeOK /\ OneAtATime /\ PairsMatch
-----------------------------------------------------------------------------
(* The pair of fields and the kinds of payload the steps below tell apart.  *)
LEMMA PayloadKinds ==
  /\ ModemErrorBody.kind = "error"
  /\ \A b \in BOOLEAN : AwareBody(b).kind = "aware"
  /\ \A n \in Nat : Response(n).kind = "response"
BY DEF ModemErrorBody, AwareBody, Response

LEMMA OneSlot ==
  \A x : /\ <<x>> # <<>> /\ Head(<<x>>) = x /\ Tail(<<x>>) = <<>>
         /\ Append(<<>>, x) = <<x>>
OBVIOUS

LEMMA InitPaced == Init => PInv
<1> SUFFICES ASSUME Init PROVE PInv
  OBVIOUS
<1>1. AtRest
  BY Constants DEF Init, AtRest, AllServed, Served
<1>2. PairsMatch
  BY DEF Init, PairsMatch
<1>3. QED
  BY <1>1, <1>2, InitTypeOK DEF PInv, OneAtATime

(* The main thread starts the one slot that waits.                          *)
LEMMA PacedMainStart ==
  ASSUME TypeOK, OneAtATime, MainStart PROVE OneAtATime'
<1> USE DEF boxes, clients, main, sent, check, wire
<1>1. SlotPosted
  BY DEF OneAtATime, AtRest, FrameParsed, ReplyParsed, InSlot, AqcTold,
         ServerTold, MainStart, AQC2Ctrl_ReadId, CentServer2Ctrl_ReadId,
         ErrorCurlexec_WriteMsg, Take
<1>2. InSlot'
  <2>1. CASE AQC2Ctrl_ReadId
    BY <1>1, <2>1, OneSlot
       DEF SlotPosted, InSlot, AllServed, Served, AQC2Ctrl_ReadId, Take, FramePair
  <2>2. CASE CentServer2Ctrl_ReadId
    BY <1>1, <2>2, OneSlot
       DEF SlotPosted, InSlot, AllServed, Served, CentServer2Ctrl_ReadId, Take,
           ReplyPair
  <2>3. CASE ErrorCurlexec_WriteMsg
    <3>1. boxMsg'[AQC].kind = "error"
      BY <2>3, Constants, PayloadKinds DEF ErrorCurlexec_WriteMsg, TypeOK
    <3>2. QED
      BY <1>1, <2>3, <3>1, OneSlot
         DEF SlotPosted, InSlot, AllServed, Served, ErrorCurlexec_WriteMsg, Take
  <2>4. QED
    BY <2>1, <2>2, <2>3 DEF MainStart
<1>3. QED
  BY <1>2 DEF OneAtATime

(* Within a slot nothing else moves.                                        *)
LEMMA PacedSlot ==
  ASSUME TypeOK, OneAtATime,
         \/ AQC2Ctrl_ReadMsg \/ AQC2Ctrl_WriteMsg \/ AQC2Ctrl_KeepAlive
         \/ AQC2Ctrl_WriteId \/ CentServer2Ctrl_ReadMsg
         \/ CentServer2Ctrl_WriteMsg \/ CentServer2Ctrl_WriteId
         \/ ErrorCurlexec_WriteId \/ ConnectionsCheck_Aware
  PROVE  OneAtATime'
<1> USE DEF boxes, clients, main, sent, check, wire
<1>t. /\ boxId \in [Client -> MsgId] /\ boxMsg \in [Client -> Body]
      /\ txPending \in [Client -> Nat] /\ aware \in BOOLEAN
  BY DEF TypeOK
<1>1. InSlot
  BY DEF OneAtATime, AtRest, FrameParsed, ReplyParsed, SlotPosted, AqcTold,
         ServerTold, AQC2Ctrl_ReadMsg, AQC2Ctrl_WriteMsg, AQC2Ctrl_KeepAlive,
         AQC2Ctrl_WriteId, CentServer2Ctrl_ReadMsg, CentServer2Ctrl_WriteMsg,
         CentServer2Ctrl_WriteId, ErrorCurlexec_WriteId, ConnectionsCheck_Aware
<1>2. CASE AQC2Ctrl_ReadMsg
  <2>1. InSlot'
    BY <1>1, <1>2 DEF InSlot, AllServed, Served, AQC2Ctrl_ReadMsg, FramePair
  <2>2. QED
    BY <2>1 DEF OneAtATime
<1>3. CASE AQC2Ctrl_WriteMsg
  <2>1. boxMsg'[CentServer] = Data(data)
    BY <1>1, <1>3, <1>t, Constants DEF InSlot, AQC2Ctrl_WriteMsg
  <2>2. InSlot'
    BY <1>1, <1>3, <2>1 DEF InSlot, AllServed, Served, AQC2Ctrl_WriteMsg, FramePair
  <2>3. QED
    BY <2>2 DEF OneAtATime
<1>4. CASE AQC2Ctrl_KeepAlive
  <2>1. InSlot'
    BY <1>1, <1>4 DEF InSlot, AllServed, Served, AQC2Ctrl_KeepAlive, FramePair
  <2>2. QED
    BY <2>1 DEF OneAtATime
<1>5. CASE AQC2Ctrl_WriteId
  <2>1. CASE mainId = "primaryAQC_Data2Server"
    <3>1. /\ boxMsg[CentServer] = Data(data)
          /\ txPending'[CentServer] = 1 /\ txPending'[AQC] = 0
      BY <1>1, <1>5, <1>t, <2>1, Constants
         DEF InSlot, AllServed, Served, AQC2Ctrl_WriteId, Emit, FramePair
    <3>2. ServerTold'
      BY <1>1, <1>5, <3>1
         DEF InSlot, ServerTold, AllServed, Served, AQC2Ctrl_WriteId
    <3>3. QED
      BY <3>2 DEF OneAtATime
  <2>2. CASE mainId # "primaryAQC_Data2Server"
    <3>1. AtRest'
      BY <1>1, <1>5, <2>2 DEF InSlot, AtRest, AllServed, Served, AQC2Ctrl_WriteId
    <3>2. QED
      BY <3>1 DEF OneAtATime
  <2>3. QED
    BY <2>1, <2>2
<1>6. CASE CentServer2Ctrl_ReadMsg
  <2>1. InSlot'
    BY <1>1, <1>6 DEF InSlot, AllServed, Served, CentServer2Ctrl_ReadMsg, ReplyPair
  <2>2. QED
    BY <2>1 DEF OneAtATime
<1>7. CASE CentServer2Ctrl_WriteMsg
  <2>1. boxMsg'[AQC] = mainMsg
    BY <1>7, <1>t, Constants DEF CentServer2Ctrl_WriteMsg
  <2>2. InSlot'
    BY <1>1, <1>7, <2>1
       DEF InSlot, AllServed, Served, CentServer2Ctrl_WriteMsg, ReplyPair
  <2>3. QED
    BY <2>2 DEF OneAtATime
<1>8. ASSUME mainPc' \in {"loop", "Check_cent"}, Emit(AQC),
             NoticePair(boxId'[AQC], boxMsg'[AQC]),
             UNCHANGED <<clientPc, mainQ>>
      PROVE  OneAtATime'
  <2>1. txPending'[AQC] = 1 /\ txPending'[CentServer] = 0
    BY <1>1, <1>8, <1>t, Constants DEF InSlot, AllServed, Served, Emit
  <2>2. AqcTold'
    BY <1>1, <1>8, <2>1
       DEF InSlot, AqcTold, AllServed, Served, NoticePair, ReplyPair
  <2>3. QED
    BY <2>2 DEF OneAtATime
<1>9. CASE CentServer2Ctrl_WriteId
  <2>1. NoticePair(boxId'[AQC], boxMsg'[AQC])
    BY <1>1, <1>9, <1>t, Constants
       DEF InSlot, CentServer2Ctrl_WriteId, NoticePair, ReplyPair
  <2>2. QED
    BY <1>8, <1>9, <2>1 DEF CentServer2Ctrl_WriteId
<1>10. CASE ErrorCurlexec_WriteId
  <2>1. NoticePair(boxId'[AQC], boxMsg'[AQC])
    BY <1>1, <1>10, <1>t, Constants DEF InSlot, ErrorCurlexec_WriteId, NoticePair
  <2>2. QED
    BY <1>8, <1>10, <2>1 DEF ErrorCurlexec_WriteId
<1>11. CASE ConnectionsCheck_Aware
  <2>1. NoticePair(boxId'[AQC], boxMsg'[AQC])
    BY <1>1, <1>11, <1>t, Constants, PayloadKinds
       DEF InSlot, ConnectionsCheck_Aware, NoticePair
  <2>2. QED
    BY <1>8, <1>11, <2>1 DEF ConnectionsCheck_Aware
<1>12. QED
  BY <1>2, <1>3, <1>4, <1>5, <1>6, <1>7, <1>9, <1>10, <1>11

(* The second half of a check, and the job it leaves to the pool, go on     *)
(* beside an AQC client that is being told; a renewed server's client has   *)
(* nothing waiting that could be lost.                                      *)
LEMMA PacedBeside ==
  ASSUME TypeOK, OneAtATime,
         ConnectionsCheck_CentUp \/ ConnectionsCheck_CentDown \/ PoolThread
  PROVE  OneAtATime'
<1> USE DEF boxes, clients, main, sent, check, wire
<1>t. /\ boxId \in [Client -> MsgId] /\ boxMsg \in [Client -> Body]
      /\ txPending \in [Client -> Nat] /\ pool \in BOOLEAN
  BY DEF TypeOK
<1>1. AtRest \/ AqcTold
  BY DEF OneAtATime, FrameParsed, ReplyParsed, SlotPosted, InSlot, ServerTold,
         ConnectionsCheck_CentUp, ConnectionsCheck_CentDown, PoolThread,
         CheckCentServer_Reached, CheckCentServer_Redirected
<1>2. /\ boxId'[AQC] = boxId[AQC] /\ boxMsg'[AQC] = boxMsg[AQC]
      /\ txPending'[AQC] = txPending[AQC]
      /\ txPending'[CentServer] \in {txPending[CentServer], 0}
      /\ UNCHANGED <<clientPc, clientId, mainQ>> /\ mainPc' \in {mainPc, "loop"}
  BY <1>t, Constants
     DEF ConnectionsCheck_CentUp, ConnectionsCheck_CentDown, PoolThread,
         CheckCentServer_Reached, CheckCentServer_Redirected, Renew
<1>3. CASE AtRest
  <2>1. AtRest'
    BY <1>2, <1>3 DEF AtRest, AllServed, Served
  <2>2. QED
    BY <2>1 DEF OneAtATime
<1>4. CASE AqcTold
  <2>1. AqcTold'
    BY <1>2, <1>4 DEF AqcTold, Served, NoticePair, ReplyPair
  <2>2. QED
    BY <2>1 DEF OneAtATime
<1>5. QED
  BY <1>1, <1>3, <1>4

LEMMA PacedClients ==
  ASSUME TypeOK, OneAtATime, AqcThread \/ CentThread PROVE OneAtATime'
<1> USE DEF boxes, clients, main, sent, check, wire
<1>t. /\ boxId \in [Client -> MsgId] /\ boxMsg \in [Client -> Body]
      /\ clientPc \in [Client -> {"loop", "parsed", "sending"}]
      /\ clientId \in [Client -> MsgId] /\ clientMsg \in [Client -> Body]
      /\ txPending \in [Client -> Nat]
  BY DEF TypeOK
<1>1. CASE PublishFrame(AQC)
  <2>1. FrameParsed
    BY <1>1, Constants
       DEF OneAtATime, AtRest, ReplyParsed, SlotPosted, InSlot, AqcTold,
           ServerTold, AllServed, Served, PublishFrame
  <2>2. /\ mainQ' = <<"AQC2CtrlDataSlot">> /\ boxMsg'[AQC] = clientMsg[AQC]
        /\ clientPc'[AQC] = "loop" /\ clientPc'[CentServer] = clientPc[CentServer]
    BY <1>1, <1>t, <2>1, Constants, OneSlot DEF PublishFrame, FrameParsed, Slot
  <2>3. SlotPosted'
    BY <1>1, <2>1, <2>2
       DEF PublishFrame, FrameParsed, SlotPosted, AllServed, Served, FramePair
  <2>4. QED
    BY <2>3 DEF OneAtATime
<1>2. CASE PublishFrame(CentServer)
  <2>1. ReplyParsed
    BY <1>2, Constants
       DEF OneAtATime, AtRest, FrameParsed, SlotPosted, InSlot, AqcTold,
           ServerTold, AllServed, Served, PublishFrame
  <2>2. /\ mainQ' = <<"CentServer2CtrlDataSlot">>
        /\ boxMsg'[CentServer] = clientMsg[CentServer]
        /\ clientPc'[CentServer] = "loop" /\ clientPc'[AQC] = clientPc[AQC]
    BY <1>2, <1>t, <2>1, Constants, OneSlot DEF PublishFrame, ReplyParsed, Slot
  <2>3. SlotPosted'
    BY <1>2, <2>1, <2>2
       DEF PublishFrame, ReplyParsed, SlotPosted, AllServed, Served, ReplyPair
  <2>4. QED
    BY <2>3 DEF OneAtATime
<1>3. CASE rxClientDataSlot
  <2>1. AqcTold /\ clientPc[AQC] = "loop" /\ txPending[AQC] = 1
    BY <1>3
       DEF OneAtATime, AtRest, FrameParsed, ReplyParsed, SlotPosted, InSlot,
           AqcTold, ServerTold, AllServed, Served, rxClientDataSlot
  <2>2. /\ txPending'[AQC] = 0 /\ txPending'[CentServer] = txPending[CentServer]
        /\ clientPc'[AQC] = "sending" /\ clientPc'[CentServer] = clientPc[CentServer]
        /\ clientId'[AQC] = boxId[AQC]
    BY <1>3, <1>t, <2>1, Constants DEF rxClientDataSlot
  <2>3. AqcTold'
    BY <1>3, <2>1, <2>2
       DEF AqcTold, Served, NoticePair, ReplyPair, rxClientDataSlot
  <2>4. QED
    BY <2>3 DEF OneAtATime
<1>4. CASE transMsgLAN
  <2>1. AqcTold /\ clientPc[AQC] = "sending"
    BY <1>4
       DEF OneAtATime, AtRest, FrameParsed, ReplyParsed, SlotPosted, InSlot,
           AqcTold, ServerTold, AllServed, Served, transMsgLAN
  <2>2. clientPc'[AQC] = "loop" /\ clientPc'[CentServer] = clientPc[CentServer]
    BY <1>4, <1>t, Constants DEF transMsgLAN
  <2>3. AtRest'
    BY <1>4, <2>1, <2>2 DEF AqcTold, AtRest, AllServed, Served, transMsgLAN
  <2>4. QED
    BY <2>3 DEF OneAtATime
<1>5. CASE rxClientDataOptSlot
  <2>1. ServerTold
    BY <1>5
       DEF OneAtATime, AtRest, FrameParsed, ReplyParsed, SlotPosted, InSlot,
           AqcTold, ServerTold, AllServed, Served, rxClientDataOptSlot
  <2>2. txPending'[CentServer] = 0 /\ txPending'[AQC] = txPending[AQC]
    BY <1>5, <1>t, <2>1, Constants DEF rxClientDataOptSlot, ServerTold
  <2>3. AtRest'
    BY <1>5, <2>1, <2>2
       DEF ServerTold, AtRest, AllServed, Served, rxClientDataOptSlot
  <2>4. QED
    BY <2>3 DEF OneAtATime
<1>6. QED
  BY <1>1, <1>2, <1>3, <1>4, <1>5 DEF AqcThread, CentThread

(* A stimulus finds the program at rest, with both links up.                *)
LEMMA PacedStimulus ==
  ASSUME Paced, TypeOK, OneAtATime,
         \/ ParseData \/ ParseKeepAlive \/ ParseResponse \/ ModemError
         \/ TimerConnectionsCheck
  PROVE  OneAtATime'
<1> USE DEF boxes, clients, main, sent, check, wire
<1>t. /\ boxId \in [Client -> MsgId] /\ clientMsg \in [Client -> Body]
      /\ clientPc \in [Client -> {"loop", "parsed", "sending"}]
      /\ data \in Nat /\ responses \in Nat
  BY DEF TypeOK
<1>1. Idle /\ Up(AQC) /\ Up(CentServer)
  BY Constants
     DEF ParseData, ParseKeepAlive, ParseResponse, ParseFrame, ModemError,
         TimerConnectionsCheck, ConnectionsCheck_AqcUp, ConnectionsCheck_AqcDown,
         MayCome
<1>2. mainPc = "loop" /\ mainQ = <<>> /\ ~pool /\ AllServed
  BY <1>1, Constants DEF Idle, AllServed, Served
<1>3. CASE ParseData \/ ParseKeepAlive
  <2>1. /\ clientPc'[AQC] = "parsed" /\ clientPc'[CentServer] = "loop"
        /\ FramePair(boxId[AQC], clientMsg[AQC])'
    BY <1>2, <1>3, <1>t, Constants
       DEF ParseData, ParseKeepAlive, ParseFrame, AllServed, Served, FramePair
  <2>2. FrameParsed'
    BY <1>2, <1>3, <2>1
       DEF ParseData, ParseKeepAlive, ParseFrame, FrameParsed, AllServed, Served
  <2>3. QED
    BY <2>2 DEF OneAtATime
<1>4. CASE ParseResponse
  <2>1. /\ clientPc'[CentServer] = "parsed" /\ clientPc'[AQC] = "loop"
        /\ boxId'[CentServer] = "primaryResponseFromServer"
        /\ clientMsg'[CentServer] = Response(responses + 1)
    BY <1>2, <1>4, <1>t, Constants
       DEF ParseResponse, ParseFrame, AllServed, Served
  <2>2. ReplyParsed'
    BY <1>2, <1>4, <1>t, <2>1, PayloadKinds
       DEF ParseResponse, ParseFrame, ReplyParsed, AllServed, Served, ReplyPair
  <2>3. QED
    BY <2>2 DEF OneAtATime
<1>5. CASE ModemError
  <2>1. SlotPosted'
    BY <1>2, <1>5, OneSlot DEF ModemError, SlotPosted, AllServed, Served
  <2>2. QED
    BY <2>1 DEF OneAtATime
<1>6. CASE ConnectionsCheck_AqcUp
  <2>1. boxId'[AQC] = "RPI_CentServer_Cnn_Aware2AQC_MsgType"
    BY <1>6, <1>t, Constants DEF ConnectionsCheck_AqcUp
  <2>2. InSlot'
    BY <1>2, <1>6, <2>1 DEF ConnectionsCheck_AqcUp, InSlot, AllServed, Served
  <2>3. QED
    BY <2>2 DEF OneAtATime
<1>7. CASE ConnectionsCheck_AqcDown
  BY <1>1, <1>7 DEF ConnectionsCheck_AqcDown
<1>8. QED
  BY <1>3, <1>4, <1>5, <1>6, <1>7 DEF TimerConnectionsCheck

(* The sockets take no part in the phases.                                  *)
LEMMA PacedStill ==
  ASSUME OneAtATime,
         \/ UNCHANGED vars
         \/ \E c \in Client : Disconnect(c) \/ connect2Server(c)
  PROVE  OneAtATime'
<1>1. UNCHANGED <<boxId, boxMsg, clientPc, clientId, clientMsg, txPending,
                  mainQ, mainPc, mainId, mainMsg, pool, data>>
  BY DEF vars, boxes, clients, main, sent, check, wire, Disconnect, connect2Server
<1>2. QED
  BY <1>1
     DEF OneAtATime, AtRest, FrameParsed, ReplyParsed, SlotPosted, InSlot,
         AqcTold, ServerTold, AllServed, Served, FramePair, ReplyPair, NoticePair

LEMMA PacedStep ==
  ASSUME Paced, TypeOK, OneAtATime, [Next]_vars PROVE OneAtATime'
BY PacedMainStart, PacedSlot, PacedBeside, PacedClients, PacedStimulus, PacedStill
   DEF Next, MainStep, Environment

(* Only transMsgLAN hands the AQC program anything.                         *)
LEMMA PairsStep ==
  ASSUME TypeOK, OneAtATime, PairsMatch, [Next]_vars PROVE PairsMatch'
<1> USE DEF boxes, clients, main, sent, check, wire
<1>1. CASE transMsgLAN
  <2>1. AqcTold /\ clientPc[AQC] = "sending"
    BY <1>1
       DEF OneAtATime, AtRest, FrameParsed, ReplyParsed, SlotPosted, InSlot,
           AqcTold, ServerTold, AllServed, Served, transMsgLAN
  <2>2. NoticePair(clientId[AQC], boxMsg[AQC])
    BY <2>1 DEF AqcTold
  <2>3. QED
    BY <1>1, <2>2 DEF transMsgLAN, PairsMatch, NoticePair, ReplyPair
<1>2. CASE UNCHANGED aqcGot
  BY <1>2 DEF PairsMatch
<1>3. ~transMsgLAN => UNCHANGED aqcGot
  BY DEF vars, Next, AqcThread, CentThread, PoolThread, MainStart, MainStep,
         TimerConnectionsCheck, Environment, PublishFrame, rxClientDataSlot,
         rxClientDataOptSlot, CheckCentServer_Reached, CheckCentServer_Redirected,
         AQC2Ctrl_ReadId, CentServer2Ctrl_ReadId, ErrorCurlexec_WriteMsg,
         ConnectionsCheck_AqcUp, ConnectionsCheck_AqcDown, AQC2Ctrl_ReadMsg,
         AQC2Ctrl_WriteMsg, AQC2Ctrl_KeepAlive, AQC2Ctrl_WriteId,
         CentServer2Ctrl_ReadMsg, CentServer2Ctrl_WriteMsg, CentServer2Ctrl_WriteId,
         ErrorCurlexec_WriteId, ConnectionsCheck_Aware, ConnectionsCheck_CentUp,
         ConnectionsCheck_CentDown, connect2Server, ParseData, ParseKeepAlive,
         ParseResponse, ParseFrame, ModemError, Disconnect
<1>4. QED
  BY <1>1, <1>2, <1>3

(* When the stimuli come one at a time, whatever the links do, the AQC      *)
(* program never receives a payload under another message's identifier.     *)
THEOREM PacedPairsMatch ==
  ASSUME Paced PROVE Spec => []PairsMatch
<1>1. PInv /\ [Next]_vars => PInv'
  BY TypeOKStep, PacedStep, PairsStep DEF PInv
<1>2. PInv => PairsMatch
  BY DEF PInv
<1>3. QED
  BY <1>1, <1>2, InitPaced, PTL DEF Spec
-----------------------------------------------------------------------------
(* A measurement is on its way, wherever it is.                             *)
Carried ==
  \/ clientPc[AQC] = "parsed" /\ boxId[AQC] = "primaryAQC_Data2Server"
  \/ mainQ = <<"AQC2CtrlDataSlot">> /\ boxId[AQC] = "primaryAQC_Data2Server"
  \/ /\ mainPc \in {"AQC2Ctrl_msg", "AQC2Ctrl_data", "AQC2Ctrl_id"}
     /\ mainId = "primaryAQC_Data2Server"
  \/ txPending[CentServer] = 1

(* Links that are not lost are closed at no time, and the server's is up    *)
(* whenever a measurement is on its way there.                              *)
LinksHold ==
  /\ conn[AQC] # "closed" /\ conn[CentServer] # "closed"
  /\ Carried => Up(CentServer)

(* The server has been sent every measurement but the one on its way.       *)
AllButOne ==
  /\ Len(serverLog) = IF Carried THEN data - 1 ELSE data
  /\ \A i \in DOMAIN serverLog : serverLog[i].n = i

FifoInv == LinksHold /\ AllButOne

LEMMA InitFifo == Init => FifoInv
BY Constants DEF Init, FifoInv, LinksHold, AllButOne, Carried

(* A step that neither takes a measurement in nor hands one on.             *)
LEMMA FifoQuiet ==
  ASSUME FifoInv, UNCHANGED <<serverLog, data>>, Carried' <=> Carried,
         conn'[AQC] # "closed", conn'[CentServer] # "closed",
         Carried => conn'[CentServer] = conn[CentServer]
  PROVE  FifoInv'
BY DEF FifoInv, LinksHold, AllButOne, Up

(* The slots of the main thread pass the measurement along.                 *)
LEMMA FifoSlots ==
  ASSUME TypeOK, OneAtATime, FifoInv,
         \/ MainStart
         \/ AQC2Ctrl_ReadMsg \/ AQC2Ctrl_WriteMsg \/ AQC2Ctrl_KeepAlive
         \/ AQC2Ctrl_WriteId \/ CentServer2Ctrl_ReadMsg
         \/ CentServer2Ctrl_WriteMsg \/ CentServer2Ctrl_WriteId
         \/ ErrorCurlexec_WriteId \/ ConnectionsCheck_Aware
  PROVE  FifoInv' /\ UNCHANGED <<serverLog, data>>
<1> USE DEF boxes, clients, main, sent, check, wire
<1>t. txPending \in [Client -> Nat] /\ boxId \in [Client -> MsgId]
  BY DEF TypeOK
<1>1. UNCHANGED <<conn, clientPc, serverLog, data>>
  BY DEF MainStart, AQC2Ctrl_ReadId, CentServer2Ctrl_ReadId,
         ErrorCurlexec_WriteMsg, AQC2Ctrl_ReadMsg, AQC2Ctrl_WriteMsg,
         AQC2Ctrl_KeepAlive, AQC2Ctrl_WriteId, CentServer2Ctrl_ReadMsg,
         CentServer2Ctrl_WriteMsg, CentServer2Ctrl_WriteId,
         ErrorCurlexec_WriteId, ConnectionsCheck_Aware
<1>2. Carried' <=> Carried
  <2>1. CASE MainStart
    <3>1. SlotPosted
      BY <2>1
         DEF OneAtATime, AtRest, FrameParsed, ReplyParsed, InSlot, AqcTold,
             ServerTold, MainStart, AQC2Ctrl_ReadId, CentServer2Ctrl_ReadId,
             ErrorCurlexec_WriteMsg, Take
    <3>2. CASE AQC2Ctrl_ReadId
      BY <3>1, <3>2, OneSlot
         DEF SlotPosted, AllServed, Served, AQC2Ctrl_ReadId, Take, Carried
    <3>3. CASE CentServer2Ctrl_ReadId
      BY <3>1, <3>3, OneSlot
         DEF SlotPosted, AllServed, Served, CentServer2Ctrl_ReadId, Take, Carried
    <3>4. CASE ErrorCurlexec_WriteMsg
      BY <3>1, <3>4, OneSlot
         DEF SlotPosted, AllServed, Served, ErrorCurlexec_WriteMsg, Take, Carried
    <3>5. QED
      BY <2>1, <3>2, <3>3, <3>4 DEF MainStart
  <2>2. CASE ~MainStart
    <3>1. InSlot
      BY <2>2
         DEF OneAtATime, AtRest, FrameParsed, ReplyParsed, SlotPosted, AqcTold,
             ServerTold, AQC2Ctrl_ReadMsg, AQC2Ctrl_WriteMsg, AQC2Ctrl_KeepAlive,
             AQC2Ctrl_WriteId, CentServer2Ctrl_ReadMsg, CentServer2Ctrl_WriteMsg,
             CentServer2Ctrl_WriteId, ErrorCurlexec_WriteId, ConnectionsCheck_Aware
    <3>2. CASE AQC2Ctrl_ReadMsg \/ AQC2Ctrl_WriteMsg \/ AQC2Ctrl_KeepAlive
      BY <3>1, <3>2
         DEF InSlot, AllServed, Served, Carried, AQC2Ctrl_ReadMsg,
             AQC2Ctrl_WriteMsg, AQC2Ctrl_KeepAlive
    <3>3. CASE AQC2Ctrl_WriteId
      BY <1>t, <3>1, <3>3, Constants, OneSlot
         DEF InSlot, AllServed, Served, Carried, AQC2Ctrl_WriteId, Emit
    <3>4. CASE \/ CentServer2Ctrl_ReadMsg \/ CentServer2Ctrl_WriteMsg
               \/ CentServer2Ctrl_WriteId \/ ErrorCurlexec_WriteId
               \/ ConnectionsCheck_Aware
      BY <1>t, <3>1, <3>4, Constants, OneSlot
         DEF InSlot, AllServed, Served, Carried, CentServer2Ctrl_ReadMsg,
             CentServer2Ctrl_WriteMsg, CentServer2Ctrl_WriteId,
             ErrorCurlexec_WriteId, ConnectionsCheck_Aware, Emit
    <3>5. QED
      BY <2>2, <3>2, <3>3, <3>4
  <2>3. QED
    BY <2>1, <2>2
<1>3. QED
  BY <1>1, <1>2, FifoQuiet DEF FifoInv, LinksHold

(* Beside the check and the pool no measurement is on its way.              *)
LEMMA FifoBeside ==
  ASSUME TypeOK, OneAtATime, FifoInv,
         ConnectionsCheck_CentUp \/ ConnectionsCheck_CentDown \/ PoolThread
  PROVE  FifoInv' /\ UNCHANGED <<serverLog, data>>
<1> USE DEF boxes, clients, main, sent, check, wire
<1>t. /\ txPending \in [Client -> Nat]
      /\ conn \in [Client -> {"connecting", "connected", "closed"}]
  BY DEF TypeOK
<1>1. AtRest \/ AqcTold
  BY DEF OneAtATime, FrameParsed, ReplyParsed, SlotPosted, InSlot, ServerTold,
         ConnectionsCheck_CentUp, ConnectionsCheck_CentDown, PoolThread,
         CheckCentServer_Reached, CheckCentServer_Redirected
<1>2. /\ UNCHANGED <<clientPc, mainQ, serverLog, data>>
      /\ mainPc' \in {mainPc, "loop"}
      /\ txPending'[CentServer] \in {txPending[CentServer], 0}
      /\ conn'[AQC] = conn[AQC] /\ conn'[CentServer] \in {conn[CentServer], "connecting"}
  BY <1>t, Constants
     DEF ConnectionsCheck_CentUp, ConnectionsCheck_CentDown, PoolThread,
         CheckCentServer_Reached, CheckCentServer_Redirected, Renew
<1>3. ~Carried /\ ~Carried'
  <2>1. /\ mainPc \in {"loop", "Check_cent"} /\ mainQ = <<>>
        /\ clientPc[AQC] # "parsed" /\ txPending[CentServer] = 0
    BY <1>1 DEF AtRest, AqcTold, AllServed, Served
  <2>2. /\ mainPc' \in {"loop", "Check_cent"} /\ mainQ' = <<>>
        /\ clientPc'[AQC] # "parsed" /\ txPending'[CentServer] = 0
    BY <1>2, <2>1
  <2>3. QED
    BY <2>1, <2>2, OneSlot DEF Carried
<1>4. QED
  BY <1>2, <1>3, FifoQuiet DEF FifoInv, LinksHold

(* A publication hands the measurement to the main thread.                  *)
LEMMA FifoPublish ==
  ASSUME TypeOK, OneAtATime, FifoInv,
         (\E c \in Client : PublishFrame(c)) \/ rxClientDataSlot \/ transMsgLAN
  PROVE  FifoInv' /\ UNCHANGED <<serverLog, data>>
<1> USE DEF boxes, clients, main, sent, check, wire
<1>t. /\ clientPc \in [Client -> {"loop", "parsed", "sending"}]
      /\ txPending \in [Client -> Nat]
  BY DEF TypeOK
<1>1. UNCHANGED <<conn, serverLog, data>>
  BY DEF PublishFrame, rxClientDataSlot, transMsgLAN
<1>2. Carried' <=> Carried
  <2>1. CASE PublishFrame(AQC)
    <3>1. FrameParsed
      BY <2>1, Constants
         DEF OneAtATime, AtRest, ReplyParsed, SlotPosted, InSlot, AqcTold,
             ServerTold, AllServed, Served, PublishFrame
    <3>2. mainQ' = <<"AQC2CtrlDataSlot">> /\ clientPc'[AQC] = "loop"
      BY <1>t, <2>1, <3>1, Constants, OneSlot DEF PublishFrame, FrameParsed, Slot
    <3>3. QED
      BY <2>1, <3>1, <3>2 DEF PublishFrame, FrameParsed, Served, Carried
  <2>2. CASE PublishFrame(CentServer)
    <3>1. ReplyParsed
      BY <2>2, Constants
         DEF OneAtATime, AtRest, FrameParsed, SlotPosted, InSlot, AqcTold,
             ServerTold, AllServed, Served, PublishFrame
    <3>2. mainQ' = <<"CentServer2CtrlDataSlot">> /\ clientPc'[AQC] = clientPc[AQC]
      BY <1>t, <2>2, <3>1, Constants, OneSlot DEF PublishFrame, ReplyParsed, Slot
    <3>3. QED
      BY <2>2, <3>1, <3>2, OneSlot DEF PublishFrame, ReplyParsed, Served, Carried
  <2>3. CASE rxClientDataSlot \/ transMsgLAN
    BY <1>t, <2>3, Constants DEF rxClientDataSlot, transMsgLAN, Carried
  <2>4. QED
    BY <2>1, <2>2, <2>3, Constants
<1>3. QED
  BY <1>1, <1>2, FifoQuiet DEF FifoInv, LinksHold

(* The one step that hands a measurement on, and the one that takes it in.  *)
LEMMA FifoDeliver ==
  ASSUME TypeOK, OneAtATime, FifoInv, rxClientDataOptSlot
  PROVE  /\ FifoInv'
         /\ serverLog' = Append(serverLog, Data(data)) /\ Len(serverLog) = data - 1
         /\ data' = data
<1> USE DEF boxes, clients, main, sent, check, wire
<1>t. /\ txPending \in [Client -> Nat] /\ serverLog \in Seq(Body) /\ data \in Nat
      /\ Data(data) \in Body /\ Data(data).n = data
  BY Bodies, Kinds DEF TypeOK
<1>1. ServerTold
  BY DEF OneAtATime, AtRest, FrameParsed, ReplyParsed, SlotPosted, InSlot,
         AqcTold, ServerTold, AllServed, Served, rxClientDataOptSlot
<1>2. Carried /\ Up(CentServer) /\ Len(serverLog) = data - 1
  BY <1>1 DEF ServerTold, Carried, FifoInv, LinksHold, AllButOne
<1>3. /\ serverLog' = Append(serverLog, Data(data)) /\ txPending'[CentServer] = 0
      /\ UNCHANGED <<conn, data, clientPc, boxId, mainQ, mainPc, mainId>>
  BY <1>1, <1>2, <1>t, Constants DEF rxClientDataOptSlot, ServerTold
<1>4. ~Carried'
  BY <1>1, <1>3 DEF ServerTold, Served, Carried
<1>5. AllButOne'
  BY <1>t, <1>2, <1>3, <1>4 DEF AllButOne, FifoInv
<1>6. LinksHold'
  BY <1>3, <1>4 DEF LinksHold, FifoInv
<1>7. QED
  BY <1>2, <1>3, <1>5, <1>6 DEF FifoInv

LEMMA FifoStimulus ==
  ASSUME Paced, TypeOK, OneAtATime, FifoInv,
         \/ ParseData \/ ParseKeepAlive \/ ParseResponse \/ ModemError
         \/ TimerConnectionsCheck
  PROVE  FifoInv' /\ serverLog' = serverLog /\ data' \in {data, data + 1}
<1> USE DEF boxes, clients, main, sent, check, wire
<1>t. /\ boxId \in [Client -> MsgId] /\ data \in Nat
      /\ clientPc \in [Client -> {"loop", "parsed", "sending"}]
  BY DEF TypeOK
<1>1. Idle /\ Up(AQC) /\ Up(CentServer)
  BY Constants
     DEF ParseData, ParseKeepAlive, ParseResponse, ParseFrame, ModemError,
         TimerConnectionsCheck, ConnectionsCheck_AqcUp, ConnectionsCheck_AqcDown,
         MayCome
<1>2. mainPc = "loop" /\ mainQ = <<>> /\ ~pool /\ AllServed
  BY <1>1, Constants DEF Idle, AllServed, Served
<1>3. ~Carried
  BY <1>2 DEF AllServed, Served, Carried
<1>4. UNCHANGED <<serverLog, conn>>
  BY <1>1 DEF ParseData, ParseKeepAlive, ParseResponse, ParseFrame, ModemError,
         TimerConnectionsCheck, ConnectionsCheck_AqcUp, ConnectionsCheck_AqcDown
<1>5. CASE ParseData
  <2>1. data' = data + 1 /\ Carried'
    BY <1>5, <1>t, Constants DEF ParseData, ParseFrame, Carried
  <2>2. QED
    BY <1>1, <1>3, <1>4, <1>t, <2>1 DEF FifoInv, LinksHold, AllButOne, Up
<1>6. CASE ParseKeepAlive
  <2>1. data' = data /\ ~Carried'
    BY <1>2, <1>6, <1>t, Constants
       DEF ParseKeepAlive, ParseFrame, AllServed, Served, Carried
  <2>2. QED
    BY <1>3, <1>4, <2>1, FifoQuiet DEF FifoInv, LinksHold
<1>7. CASE ParseResponse
  <2>1. data' = data /\ ~Carried'
    BY <1>2, <1>7, <1>t, Constants
       DEF ParseResponse, ParseFrame, AllServed, Served, Carried
  <2>2. QED
    BY <1>3, <1>4, <2>1, FifoQuiet DEF FifoInv, LinksHold
<1>8. CASE ModemError
  <2>1. data' = data /\ ~Carried'
    BY <1>2, <1>8, OneSlot DEF ModemError, AllServed, Served, Carried
  <2>2. QED
    BY <1>3, <1>4, <2>1, FifoQuiet DEF FifoInv, LinksHold
<1>9. CASE TimerConnectionsCheck
  <2>1. data' = data /\ ~Carried'
    BY <1>1, <1>2, <1>9
       DEF TimerConnectionsCheck, ConnectionsCheck_AqcUp, ConnectionsCheck_AqcDown,
           AllServed, Served, Carried
  <2>2. QED
    BY <1>3, <1>4, <2>1, FifoQuiet DEF FifoInv, LinksHold
<1>10. QED
  BY <1>5, <1>6, <1>7, <1>8, <1>9

LEMMA FifoStill ==
  ASSUME ~LinkFailures, TypeOK, FifoInv,
         \/ UNCHANGED vars
         \/ \E c \in Client : Disconnect(c) \/ connect2Server(c)
  PROVE  FifoInv' /\ UNCHANGED <<serverLog, data>>
<1>1. UNCHANGED <<boxId, clientPc, txPending, mainQ, mainPc, mainId, serverLog, data>>
  BY DEF vars, boxes, clients, main, sent, check, wire, Disconnect, connect2Server
<1>2. Carried' <=> Carried
  BY <1>1 DEF Carried
<1>3. \A c \in Client : \/ conn'[c] = conn[c]
                        \/ conn[c] = "connecting" /\ conn'[c] = "connected"
  <2>t. conn \in [Client -> {"connecting", "connected", "closed"}]
    BY DEF TypeOK
  <2>1. CASE UNCHANGED vars
    BY <2>1 DEF vars
  <2>2. ASSUME NEW d \in Client, Disconnect(d) \/ connect2Server(d)
        PROVE  conn[d] = "connecting" /\ conn' = [conn EXCEPT ![d] = "connected"]
    BY <2>2 DEF Disconnect, connect2Server
  <2>3. QED
    BY <2>t, <2>1, <2>2
<1>4. QED
  BY <1>1, <1>2, <1>3, FifoQuiet, Constants DEF FifoInv, LinksHold, Up

LEMMA FifoStep ==
  ASSUME Paced, ~LinkFailures, TypeOK, OneAtATime, FifoInv, [Next]_vars
  PROVE  /\ FifoInv'
         /\ \/ UNCHANGED <<serverLog, data>>
            \/ data' = data + 1 /\ serverLog' = serverLog
            \/ /\ serverLog' = Append(serverLog, Data(data))
               /\ Len(serverLog) = data - 1 /\ data' = data
BY FifoSlots, FifoBeside, FifoPublish, FifoDeliver, FifoStimulus, FifoStill, Constants
   DEF Next, MainStep, AqcThread, CentThread, Environment

(* The sequences the refinement reads off the relay.                        *)
Numbers(k)  == [i \in 1..k |-> i]
Carry(log)  == [i \in DOMAIN log |-> log[i].n]

LEMMA NumbersGrow ==
  ASSUME NEW k \in Nat PROVE Numbers(k + 1) = Append(Numbers(k), Len(Numbers(k)) + 1)
<1>1. Numbers(k) \in Seq(Nat) /\ Len(Numbers(k)) = k
  BY DEF Numbers
<1>2. DOMAIN Append(Numbers(k), k + 1) = 1..(k + 1)
  BY <1>1
<1>3. \A i \in 1..(k + 1) : Append(Numbers(k), k + 1)[i] = i
  <2> SUFFICES ASSUME NEW i \in 1..(k + 1)
               PROVE  Append(Numbers(k), k + 1)[i] = i
    OBVIOUS
  <2>1. CASE i \in 1..k
    BY <1>1, <2>1 DEF Numbers
  <2>2. CASE i = k + 1
    <3>1. Append(Numbers(k), k + 1)[Len(Numbers(k)) + 1] = k + 1
      BY <1>1
    <3>2. QED
      BY <1>1, <2>2, <3>1
  <2>3. i \in 1..k \/ i = k + 1
    OBVIOUS
  <2>4. QED
    BY <2>1, <2>2, <2>3
<1>4. QED
  BY <1>1, <1>2, <1>3 DEF Numbers

LEMMA CarryGrow ==
  ASSUME NEW log \in Seq(Body), NEW m \in Body
  PROVE  Carry(Append(log, m)) = Append(Carry(log), m.n)
<1>1. /\ Carry(log) \in Seq(Nat) /\ Len(Carry(log)) = Len(log)
      /\ \A i \in 1..Len(log) : Carry(log)[i] = log[i].n
  BY Ages DEF Carry
<1>2. /\ DOMAIN Append(log, m) = 1..(Len(log) + 1)
      /\ DOMAIN Append(Carry(log), m.n) = 1..(Len(log) + 1)
  BY <1>1
<1>3. \A i \in 1..(Len(log) + 1) : Append(log, m)[i].n = Append(Carry(log), m.n)[i]
  <2> SUFFICES ASSUME NEW i \in 1..(Len(log) + 1)
               PROVE  Append(log, m)[i].n = Append(Carry(log), m.n)[i]
    OBVIOUS
  <2>1. CASE i \in 1..Len(log)
    BY <1>1, <2>1
  <2>2. CASE i = Len(log) + 1
    <3>1. /\ Append(log, m)[Len(log) + 1] = m
          /\ Append(Carry(log), m.n)[Len(Carry(log)) + 1] = m.n
      BY <1>1
    <3>2. QED
      BY <1>1, <2>2, <3>1
  <2>3. i \in 1..Len(log) \/ i = Len(log) + 1
    OBVIOUS
  <2>4. QED
    BY <2>1, <2>2, <2>3
<1>4. QED
  BY <1>1, <1>2, <1>3 DEF Carry

LEMMA FifoSimulates ==
  ASSUME TypeOK,
         \/ UNCHANGED <<serverLog, data>>
         \/ data' = data + 1 /\ serverLog' = serverLog
         \/ /\ serverLog' = Append(serverLog, Data(data))
            /\ Len(serverLog) = data - 1 /\ data' = data
  PROVE  [Fifo!Next]_(Fifo!vars)
<1>t. serverLog \in Seq(Body) /\ data \in Nat /\ Data(data) \in Body
      /\ Data(data).n = data
  BY Bodies, Kinds DEF TypeOK
<1>1. CASE UNCHANGED <<serverLog, data>>
  BY <1>1 DEF Fifo!vars
<1>2. CASE data' = data + 1 /\ serverLog' = serverLog
  <2>1. Numbers(data') = Append(Numbers(data), Len(Numbers(data)) + 1)
    BY <1>t, <1>2, NumbersGrow
  <2>2. Fifo!Accept
    BY <1>2, <2>1 DEF Fifo!Accept, Numbers
  <2>3. QED
    BY <2>2 DEF Fifo!Next
<1>3. CASE /\ serverLog' = Append(serverLog, Data(data))
           /\ Len(serverLog) = data - 1 /\ data' = data
  <2>1. Carry(serverLog') = Append(Carry(serverLog), data)
    BY <1>t, <1>3, CarryGrow
  <2>2. Len(Carry(serverLog)) = data - 1 /\ Len(Numbers(data)) = data
    BY <1>t, <1>3 DEF Carry, Numbers
  <2>3. Numbers(data)[Len(Carry(serverLog)) + 1] = data
    BY <1>t, <1>3, <2>2 DEF Numbers
  <2>4. Fifo!Deliver
    BY <1>t, <1>3, <2>1, <2>2, <2>3 DEF Fifo!Deliver, Carry, Numbers
  <2>5. QED
    BY <2>4 DEF Fifo!Next
<1>4. QED
  BY <1>1, <1>2, <1>3

(* When the stimuli come one at a time and no link is lost, the unlocked    *)
(* mailboxes and the three threads are a first-in first-out channel: every  *)
(* measurement is passed on at most once, in order, and unchanged (the      *)
(* safety part of ImplementsFifo; that it is passed on at last is checked). *)
THEOREM PacedRelayIsFifo ==
  ASSUME Paced, ~LinkFailures PROVE Spec => Fifo!Safety
<1> DEFINE FInv == TypeOK /\ OneAtATime /\ FifoInv
<1>1. Init => FInv /\ Fifo!Init
  <2> SUFFICES ASSUME Init PROVE FInv /\ Fifo!Init
    OBVIOUS
  <2>1. FInv
    BY InitPaced, InitFifo DEF PInv
  <2>2. Fifo!Init
    BY DEF Init, Fifo!Init
  <2>3. QED
    BY <2>1, <2>2
<1>2. FInv /\ [Next]_vars => FInv' /\ [Fifo!Next]_(Fifo!vars)
  BY TypeOKStep, PacedStep, FifoStep, FifoSimulates
<1> HIDE DEF FInv
<1>3. QED
  BY <1>1, <1>2, PTL DEF Spec, Fifo!Safety
=============================================================================
