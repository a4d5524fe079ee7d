------------------------- MODULE MessageRelayProofs -------------------------
(***************************************************************************)
(* Proofs about MessageRelay, for every value of its constants.            *)
(***************************************************************************)
EXTENDS MessageRelay, FiniteSetTheorems, TLAPS

(* m is no older a measurement than l; anything else has no age.            *)
NotOlder(m, l) == IsData(m) /\ IsData(l) => l.n <= m.n

(* The payloads on their way: both mailboxes, the running slot's copy and   *)
(* the frame that the AQC client is about to publish.                       *)
InTransit == {boxMsg[AQC], boxMsg[CentServer], mainMsg, clientMsg[AQC]}

(* A measurement in transit or delivered is one the AQC program has sent,   *)
(* the one being published is the newest, and the server's client publishes *)
(* none.                                                                    *)
Numbered ==
  /\ \A m \in InTransit : IsData(m) => m.n <= data
  /\ \A i \in DOMAIN serverLog : IsData(serverLog[i]) => serverLog[i].n <= data
  /\ IsData(clientMsg[AQC]) => clientMsg[AQC].n = data
  /\ ~IsData(clientMsg[CentServer])

(* What waits in the server's mailbox is no newer than what may still be    *)
(* written there ...                                                        *)
CentBehind ==
  /\ NotOlder(mainMsg, boxMsg[CentServer])
  /\ NotOlder(boxMsg[AQC], boxMsg[CentServer])

(* ... and what AQC2CtrlDataSlot is about to write there is no newer than   *)
(* what its next run may read.                                              *)
MainBehind == mainPc = "AQC2Ctrl_data" => NotOlder(boxMsg[AQC], mainMsg)

(* What was sent is no newer than what is in transit.                       *)
LogBehind ==
  \A i \in DOMAIN serverLog : \A m \in InTransit : NotOlder(m, serverLog[i])

OrderInv == Numbered /\ CentBehind /\ MainBehind /\ LogBehind /\ InOrder

IInv == TypeOK /\ OrderInv
-----------------------------------------------------------------------------
(* What the constant definitions contain, so that the steps below need not  *)
(* expand them.                                                             *)
LEMMA Constants ==
  /\ AQC \in Client /\ CentServer \in Client /\ AQC # CentServer
  /\ \A c \in Client : c = AQC \/ c = CentServer
  /\ Garbage \subseteq MsgId
  /\ {"primaryAQC_Data2Server", "AQC_KeepAliveID", "primaryResponseFromServer",
      "RPI_CentServer_Cnn_Aware2AQC_MsgType", "rpi_ModemError", "other"}
       \subseteq MsgId
  /\ \A c \in Client : Slot(c) \in MainSlot
BY RelayAssumption DEF Client, AQC, CentServer, MsgId, Slot, MainSlot

LEMMA Bodies ==
  /\ Empty \in Body /\ KeepAliveBody \in Body /\ ModemErrorBody \in Body
  /\ \A n \in Nat : Data(n) \in Body /\ Response(n) \in Body
  /\ \A b \in BOOLEAN : AwareBody(b) \in Body
BY DEF Body, Empty, KeepAliveBody, ModemErrorBody, Data, Response, AwareBody

LEMMA InitTypeOK == Init => TypeOK
<1> SUFFICES ASSUME Init PROVE TypeOK
  OBVIOUS
<1> USE Constants, Bodies DEF Init
<1>1. boxId \in [Client -> MsgId] /\ boxMsg \in [Client -> Body]
  OBVIOUS
<1>2. clientId \in [Client -> MsgId] /\ clientMsg \in [Client -> Body]
  OBVIOUS
<1>3. /\ conn \in [Client -> {"connecting", "connected", "closed"}]
      /\ clientPc \in [Client -> {"loop", "parsed", "sending"}]
      /\ txPending \in [Client -> Nat]
  OBVIOUS
<1>4. mainPc \in MainPc /\ mainId \in MsgId /\ mainMsg \in Body
  BY DEF MainPc
<1>5. mainQ \in Seq(MainSlot) /\ serverLog \in Seq(Body)
  OBVIOUS
<1>6. aqcGot \in [id : MsgId, msg : Body]
  OBVIOUS
<1>7. QED
  BY <1>1, <1>2, <1>3, <1>4, <1>5, <1>6 DEF TypeOK

(* The steps that start a slot of the main thread keep the types.           *)
LEMMA TypeOKMainStart == TypeOK /\ MainStart => TypeOK'
<1> SUFFICES ASSUME TypeOK, MainStart PROVE TypeOK'
  OBVIOUS
<1> USE Constants, Bodies
    DEF TypeOK, MainPc, boxes, clients, main, sent, check, wire, Take
<1>1. CASE AQC2Ctrl_ReadId
  BY <1>1 DEF AQC2Ctrl_ReadId
<1>2. CASE CentServer2Ctrl_ReadId
  BY <1>2 DEF CentServer2Ctrl_ReadId
<1>3. CASE ErrorCurlexec_WriteMsg
  BY <1>3 DEF ErrorCurlexec_WriteMsg
<1>4. QED
  BY <1>1, <1>2, <1>3 DEF MainStart

LEMMA TypeOKMainStep == TypeOK /\ MainStep => TypeOK'
<1> SUFFICES ASSUME TypeOK, MainStep PROVE TypeOK'
  OBVIOUS
<1> USE Constants, Bodies
    DEF TypeOK, MainPc, boxes, clients, main, sent, check, wire, Emit, Renew
<1>1. CASE AQC2Ctrl_ReadMsg
  BY <1>1 DEF AQC2Ctrl_ReadMsg
<1>2. CASE AQC2Ctrl_WriteMsg
  BY <1>2 DEF AQC2Ctrl_WriteMsg
<1>3. CASE AQC2Ctrl_KeepAlive
  BY <1>3 DEF AQC2Ctrl_KeepAlive
<1>4. CASE AQC2Ctrl_WriteId
  <2>1. CASE mainId = "primaryAQC_Data2Server"
    BY <1>4, <2>1 DEF AQC2Ctrl_WriteId
  <2>2. CASE mainId # "primaryAQC_Data2Server"
    BY <1>4, <2>2 DEF AQC2Ctrl_WriteId
  <2>3. QED
    BY <2>1, <2>2
<1>5. CASE CentServer2Ctrl_ReadMsg
  BY <1>5 DEF CentServer2Ctrl_ReadMsg
<1>6. CASE CentServer2Ctrl_WriteMsg
  BY <1>6 DEF CentServer2Ctrl_WriteMsg
<1>7. CASE CentServer2Ctrl_WriteId
  BY <1>7 DEF CentServer2Ctrl_WriteId
<1>8. CASE ErrorCurlexec_WriteId
  BY <1>8 DEF ErrorCurlexec_WriteId
<1>9. CASE ConnectionsCheck_Aware
  BY <1>9 DEF ConnectionsCheck_Aware
<1>10. CASE ConnectionsCheck_CentUp
  BY <1>10 DEF ConnectionsCheck_CentUp
<1>11. CASE ConnectionsCheck_CentDown
  BY <1>11 DEF ConnectionsCheck_CentDown
<1>12. QED
  BY <1>1, <1>2, <1>3, <1>4, <1>5, <1>6, <1>7, <1>8, <1>9, <1>10, <1>11
     DEF MainStep

(* The 4 s timer and the job it leaves to the pool.                         *)
LEMMA TypeOKCheck ==
  TypeOK /\ (TimerConnectionsCheck \/ PoolThread) => TypeOK'
<1> SUFFICES ASSUME TypeOK, TimerConnectionsCheck \/ PoolThread PROVE TypeOK'
  OBVIOUS
<1> USE Constants, Bodies
    DEF TypeOK, MainPc, boxes, clients, main, sent, check, wire, Renew
<1>1. CASE ConnectionsCheck_AqcUp
  BY <1>1 DEF ConnectionsCheck_AqcUp
<1>2. CASE ConnectionsCheck_AqcDown
  <2>1. alarmed' \in BOOLEAN
    BY <1>2, Zenon DEF ConnectionsCheck_AqcDown, Up
  <2>2. /\ boxId' \in [Client -> MsgId] /\ boxMsg' \in [Client -> Body]
        /\ conn' \in [Client -> {"connecting", "connected", "closed"}]
        /\ txPending' \in [Client -> Nat]
    BY <1>2 DEF ConnectionsCheck_AqcDown
  <2>3. QED
    BY <1>2, <2>1, <2>2 DEF ConnectionsCheck_AqcDown
<1>3. CASE CheckCentServer_Reached
  BY <1>3 DEF CheckCentServer_Reached
<1>4. CASE CheckCentServer_Redirected
  <2>1. /\ boxId' \in [Client -> MsgId] /\ boxMsg' \in [Client -> Body]
        /\ conn' \in [Client -> {"connecting", "connected", "closed"}]
        /\ txPending' \in [Client -> Nat]
    BY <1>4 DEF CheckCentServer_Redirected
  <2>2. pool' \in BOOLEAN /\ aware' \in BOOLEAN /\ alarmed' \in BOOLEAN
    BY <1>4 DEF CheckCentServer_Redirected
  <2>3. QED
    BY <1>4, <2>1, <2>2 DEF CheckCentServer_Redirected
<1>5. QED
  BY <1>1, <1>2, <1>3, <1>4 DEF TimerConnectionsCheck, PoolThread

LEMMA TypeOKClients == TypeOK /\ (AqcThread \/ CentThread) => TypeOK'
<1> SUFFICES ASSUME TypeOK, AqcThread \/ CentThread PROVE TypeOK'
  OBVIOUS
<1> USE Constants, Bodies
    DEF TypeOK, MainPc, boxes, clients, main, sent, check, wire
<1>1. ASSUME NEW c \in Client, PublishFrame(c) PROVE TypeOK'
  BY <1>1 DEF PublishFrame
<1>2. CASE rxClientDataSlot
  BY <1>2 DEF rxClientDataSlot
<1>3. CASE transMsgLAN
  BY <1>3 DEF transMsgLAN
<1>4. CASE rxClientDataOptSlot
  BY <1>4 DEF rxClientDataOptSlot
<1>5. QED
  BY <1>1, <1>2, <1>3, <1>4 DEF AqcThread, CentThread

LEMMA TypeOKEnvironment ==
  TypeOK /\ (Environment \/ \E c \in Client : connect2Server(c)) => TypeOK'
<1> SUFFICES ASSUME TypeOK,
                    Environment \/ \E c \in Client : connect2Server(c)
             PROVE  TypeOK'
  OBVIOUS
<1> USE Constants, Bodies
    DEF TypeOK, MainPc, boxes, clients, main, sent, check, wire, ParseFrame
<1>1. CASE ParseData
  BY <1>1 DEF ParseData
<1>2. CASE ParseKeepAlive
  BY <1>2 DEF ParseKeepAlive
<1>3. CASE ParseResponse
  BY <1>3 DEF ParseResponse
<1>4. CASE ModemError
  BY <1>4 DEF ModemError, MainSlot
<1>5. ASSUME NEW c \in Client, Disconnect(c) PROVE TypeOK'
  BY <1>5 DEF Disconnect
<1>6. ASSUME NEW c \in Client, connect2Server(c) PROVE TypeOK'
  BY <1>6 DEF connect2Server
<1>7. QED
  BY <1>1, <1>2, <1>3, <1>4, <1>5, <1>6 DEF Environment

LEMMA TypeOKStep == TypeOK /\ [Next]_vars => TypeOK'
<1>1. TypeOK /\ UNCHANGED vars => TypeOK'
  BY DEF TypeOK, vars, boxes, clients, main, sent, check, wire
<1>2. QED
  BY <1>1, TypeOKMainStart, TypeOKMainStep, TypeOKCheck, TypeOKClients,
     TypeOKEnvironment DEF Next

(* The mailboxes, queues and copies always hold values of their types.      *)
THEOREM TypeCorrect == Spec => []TypeOK
BY InitTypeOK, TypeOKStep, PTL DEF Spec
-----------------------------------------------------------------------------
LEMMA Kinds ==
  /\ ~IsData(Empty) /\ ~IsData(KeepAliveBody) /\ ~IsData(ModemErrorBody)
  /\ \A n \in Nat : ~IsData(Response(n)) /\ IsData(Data(n)) /\ Data(n).n = n
  /\ \A b \in BOOLEAN : ~IsData(AwareBody(b))
BY DEF IsData, Empty, KeepAliveBody, ModemErrorBody, Response, Data, AwareBody

LEMMA Ages == \A m \in Body : m.n \in Nat
BY DEF Body

LEMMA InitOrder == Init => OrderInv
<1> SUFFICES ASSUME Init PROVE OrderInv
  OBVIOUS
<1>1. \A c \in Client : ~IsData(boxMsg[c]) /\ ~IsData(clientMsg[c])
  BY Kinds DEF Init
<1>2. ~IsData(mainMsg) /\ serverLog = <<>> /\ mainPc # "AQC2Ctrl_data"
  BY Kinds DEF Init
<1>3. QED
  BY <1>1, <1>2, Constants
     DEF OrderInv, Numbered, CentBehind, MainBehind, LogBehind, InOrder,
         InTransit, NotOlder

(* Most steps touch no payload at all.                                      *)
LEMMA OrderQuiet ==
  ASSUME OrderInv, UNCHANGED <<boxMsg, mainMsg, clientMsg, data, serverLog>>,
         mainPc' = "AQC2Ctrl_data" => mainPc = "AQC2Ctrl_data"
  PROVE  OrderInv'
BY DEF OrderInv, Numbered, CentBehind, MainBehind, LogBehind, InOrder,
       InTransit, NotOlder, IsData

(* A mailbox may lose its measurement to a payload of another kind.         *)
LEMMA OrderOverwrite ==
  ASSUME TypeOK, OrderInv, NEW c \in Client, NEW m \in Body, ~IsData(m),
         boxMsg' = [boxMsg EXCEPT ![c] = m],
         UNCHANGED <<mainMsg, clientMsg, data, serverLog>>,
         mainPc' = "AQC2Ctrl_data" => mainPc = "AQC2Ctrl_data"
  PROVE  OrderInv'
<1>1. \A d \in Client :
        \/ boxMsg'[d] = boxMsg[d]
        \/ ~IsData(boxMsg'[d])
  BY DEF TypeOK
<1>2. QED
  BY <1>1, Constants
     DEF OrderInv, Numbered, CentBehind, MainBehind, LogBehind, InOrder,
         InTransit, NotOlder, IsData

LEMMA OrderMainStart == TypeOK /\ OrderInv /\ MainStart => OrderInv'
<1> SUFFICES ASSUME TypeOK, OrderInv, MainStart PROVE OrderInv'
  OBVIOUS
<1> USE DEF boxes, clients, main, sent, check, wire, Take
<1>1. CASE AQC2Ctrl_ReadId
  BY <1>1, OrderQuiet DEF AQC2Ctrl_ReadId
<1>2. CASE CentServer2Ctrl_ReadId
  BY <1>2, OrderQuiet DEF CentServer2Ctrl_ReadId
<1>3. CASE ErrorCurlexec_WriteMsg
  <2>1. boxMsg' = [boxMsg EXCEPT ![AQC] = ModemErrorBody]
    BY <1>3 DEF ErrorCurlexec_WriteMsg
  <2>2. /\ UNCHANGED <<mainMsg, clientMsg, data, serverLog>>
        /\ mainPc' # "AQC2Ctrl_data"
    BY <1>3 DEF ErrorCurlexec_WriteMsg
  <2>3. QED
    BY <2>1, <2>2, Constants, Bodies, Kinds, OrderOverwrite
<1>4. QED
  BY <1>1, <1>2, <1>3 DEF MainStart

(* The two relays of the main thread: what they read, keep and write.       *)
LEMMA OrderRelay ==
  TypeOK /\ OrderInv /\ (AQC2Ctrl_ReadMsg \/ AQC2Ctrl_WriteMsg
                         \/ CentServer2Ctrl_ReadMsg \/ CentServer2Ctrl_WriteMsg)
    => OrderInv'
<1> SUFFICES ASSUME TypeOK, OrderInv,
                    \/ AQC2Ctrl_ReadMsg \/ AQC2Ctrl_WriteMsg
                    \/ CentServer2Ctrl_ReadMsg \/ CentServer2Ctrl_WriteMsg
             PROVE  OrderInv'
  OBVIOUS
<1> USE DEF boxes, clients, main, sent, check, wire
<1>t. /\ boxMsg[AQC] \in Body /\ boxMsg[CentServer] \in Body /\ mainMsg \in Body
      /\ clientMsg[AQC] \in Body /\ data \in Nat /\ serverLog \in Seq(Body)
  BY Constants DEF TypeOK
<1>1. ASSUME NEW c \in Client, mainMsg' = boxMsg[c],
             UNCHANGED <<boxMsg, clientMsg, data, serverLog>>,
             c = CentServer => mainPc' # "AQC2Ctrl_data"
      PROVE  OrderInv'
  BY <1>1, <1>t, Ages, Constants
     DEF OrderInv, Numbered, CentBehind, MainBehind, LogBehind, InOrder,
         InTransit, NotOlder, IsData
<1>2. CASE AQC2Ctrl_ReadMsg
  <2>1. CASE mainId = "primaryAQC_Data2Server"
    BY <1>1, <1>2, <2>1, Constants DEF AQC2Ctrl_ReadMsg
  <2>2. CASE mainId # "primaryAQC_Data2Server"
    BY <1>2, <2>2, OrderQuiet DEF AQC2Ctrl_ReadMsg
  <2>3. QED
    BY <2>1, <2>2
<1>3. CASE CentServer2Ctrl_ReadMsg
  BY <1>1, <1>3, Constants DEF CentServer2Ctrl_ReadMsg
<1>4. ASSUME NEW c \in Client, boxMsg' = [boxMsg EXCEPT ![c] = mainMsg],
             mainMsg' = Empty, UNCHANGED <<clientMsg, data, serverLog>>,
             c = CentServer => mainPc = "AQC2Ctrl_data",
             mainPc' # "AQC2Ctrl_data"
      PROVE  OrderInv'
  <2>1. ~IsData(mainMsg') /\ boxMsg'[c] = mainMsg
        /\ \A d \in Client \ {c} : boxMsg'[d] = boxMsg[d]
    BY <1>4, Kinds DEF TypeOK
  <2>2. CASE c = AQC
    BY <1>4, <1>t, <2>1, <2>2, Ages, Constants
       DEF OrderInv, Numbered, CentBehind, MainBehind, LogBehind, InOrder,
           InTransit, NotOlder, IsData
  <2>3. CASE c = CentServer
    BY <1>4, <1>t, <2>1, <2>3, Ages, Constants
       DEF OrderInv, Numbered, CentBehind, MainBehind, LogBehind, InOrder,
           InTransit, NotOlder, IsData
  <2>4. QED
    BY <2>2, <2>3, Constants
<1>5. CASE AQC2Ctrl_WriteMsg
  BY <1>4, <1>5, Constants DEF AQC2Ctrl_WriteMsg
<1>6. CASE CentServer2Ctrl_WriteMsg
  BY <1>4, <1>6, Constants DEF CentServer2Ctrl_WriteMsg
<1>7. QED
  BY <1>2, <1>3, <1>5, <1>6

LEMMA OrderMainStep == TypeOK /\ OrderInv /\ MainStep => OrderInv'
<1> SUFFICES ASSUME TypeOK, OrderInv, MainStep PROVE OrderInv'
  OBVIOUS
<1> USE DEF boxes, clients, main, sent, check, wire
<1>1. CASE AQC2Ctrl_KeepAlive
  <2>1. /\ boxMsg' = [boxMsg EXCEPT ![CentServer] = Empty]
        /\ UNCHANGED <<mainMsg, clientMsg, data, serverLog>>
        /\ mainPc' # "AQC2Ctrl_data"
    BY <1>1 DEF AQC2Ctrl_KeepAlive
  <2>2. QED
    BY <2>1, Constants, Bodies, Kinds, OrderOverwrite
<1>2. CASE AQC2Ctrl_WriteId
  BY <1>2, OrderQuiet DEF AQC2Ctrl_WriteId
<1>3. CASE CentServer2Ctrl_WriteId
  BY <1>3, OrderQuiet DEF CentServer2Ctrl_WriteId
<1>4. CASE ErrorCurlexec_WriteId
  BY <1>4, OrderQuiet DEF ErrorCurlexec_WriteId
<1>5. CASE ConnectionsCheck_Aware
  <2>1. /\ boxMsg' = [boxMsg EXCEPT ![AQC] = AwareBody(aware)]
        /\ UNCHANGED <<mainMsg, clientMsg, data, serverLog>>
        /\ mainPc' # "AQC2Ctrl_data" /\ aware \in BOOLEAN
    BY <1>5 DEF ConnectionsCheck_Aware, TypeOK
  <2>2. QED
    BY <2>1, Constants, Bodies, Kinds, OrderOverwrite
<1>6. CASE ConnectionsCheck_CentUp
  BY <1>6, OrderQuiet DEF ConnectionsCheck_CentUp
<1>7. CASE ConnectionsCheck_CentDown
  <2>1. /\ boxMsg' = [boxMsg EXCEPT ![CentServer] = Empty]
        /\ UNCHANGED <<mainMsg, clientMsg, data, serverLog>>
        /\ mainPc' # "AQC2Ctrl_data"
    BY <1>7 DEF ConnectionsCheck_CentDown, Renew
  <2>2. QED
    BY <2>1, Constants, Bodies, Kinds, OrderOverwrite
<1>8. QED
  BY <1>1, <1>2, <1>3, <1>4, <1>5, <1>6, <1>7, OrderRelay DEF MainStep

LEMMA OrderCheck ==
  TypeOK /\ OrderInv /\ (TimerConnectionsCheck \/ PoolThread) => OrderInv'
<1> SUFFICES ASSUME TypeOK, OrderInv, TimerConnectionsCheck \/ PoolThread
             PROVE  OrderInv'
  OBVIOUS
<1> USE DEF boxes, clients, main, sent, check, wire
<1>1. CASE ConnectionsCheck_AqcUp
  BY <1>1, OrderQuiet DEF ConnectionsCheck_AqcUp
<1>2. CASE CheckCentServer_Reached
  BY <1>2, OrderQuiet DEF CheckCentServer_Reached
<1>3. CASE ConnectionsCheck_AqcDown
  <2>1. /\ boxMsg' = [boxMsg EXCEPT ![AQC] = Empty]
        /\ UNCHANGED <<mainMsg, clientMsg, data, serverLog>>
        /\ mainPc' # "AQC2Ctrl_data"
    BY <1>3 DEF ConnectionsCheck_AqcDown, Renew
  <2>2. QED
    BY <2>1, Constants, Bodies, Kinds, OrderOverwrite
<1>4. CASE CheckCentServer_Redirected
  <2>1. /\ boxMsg' = [boxMsg EXCEPT ![CentServer] = Empty]
        /\ UNCHANGED <<mainMsg, clientMsg, data, serverLog, mainPc>>
    BY <1>4 DEF CheckCentServer_Redirected, Renew
  <2>2. QED
    BY <2>1, Constants, Bodies, Kinds, OrderOverwrite
<1>5. QED
  BY <1>1, <1>2, <1>3, <1>4 DEF TimerConnectionsCheck, PoolThread

LEMMA OrderClients ==
  TypeOK /\ OrderInv /\ (AqcThread \/ CentThread) => OrderInv'
<1> SUFFICES ASSUME TypeOK, OrderInv, AqcThread \/ CentThread PROVE OrderInv'
  OBVIOUS
<1> USE DEF boxes, clients, main, sent, check, wire
<1>t. /\ boxMsg[AQC] \in Body /\ boxMsg[CentServer] \in Body /\ mainMsg \in Body
      /\ clientMsg[AQC] \in Body /\ data \in Nat /\ serverLog \in Seq(Body)
  BY Constants DEF TypeOK
<1>1. CASE PublishFrame(AQC)
  <2>1. /\ boxMsg'[AQC] = clientMsg[AQC] /\ boxMsg'[CentServer] = boxMsg[CentServer]
        /\ ~IsData(clientMsg'[AQC]) /\ clientMsg'[CentServer] = clientMsg[CentServer]
        /\ UNCHANGED <<mainMsg, mainPc, data, serverLog>>
    BY <1>1, Constants, Kinds DEF PublishFrame, TypeOK
  <2>2. QED
    BY <1>t, <2>1, Ages, Constants
       DEF OrderInv, Numbered, CentBehind, MainBehind, LogBehind, InOrder,
           InTransit, NotOlder, IsData
<1>2. CASE PublishFrame(CentServer)
  <2>1. /\ boxMsg'[AQC] = boxMsg[AQC] /\ boxMsg'[CentServer] = clientMsg[CentServer]
        /\ ~IsData(clientMsg'[CentServer]) /\ clientMsg'[AQC] = clientMsg[AQC]
        /\ UNCHANGED <<mainMsg, mainPc, data, serverLog>>
    BY <1>2, Constants, Kinds DEF PublishFrame, TypeOK
  <2>2. QED
    BY <1>t, <2>1, Ages, Constants
       DEF OrderInv, Numbered, CentBehind, MainBehind, LogBehind, InOrder,
           InTransit, NotOlder, IsData
<1>3. CASE rxClientDataSlot
  BY <1>3, OrderQuiet DEF rxClientDataSlot
<1>4. CASE transMsgLAN
  BY <1>4, OrderQuiet DEF transMsgLAN
<1>5. CASE rxClientDataOptSlot
  <2>1. CASE Up(CentServer)
    <3>1. /\ serverLog' = Append(serverLog, boxMsg[CentServer])
          /\ UNCHANGED <<boxMsg, mainMsg, mainPc, clientMsg, data>>
      BY <1>5, <2>1 DEF rxClientDataOptSlot
    <3>2. \A i \in DOMAIN serverLog' :
            \/ i \in DOMAIN serverLog /\ serverLog'[i] = serverLog[i]
            \/ i = Len(serverLog) + 1 /\ serverLog'[i] = boxMsg[CentServer]
      BY <1>t, <3>1
    <3>3. \A i \in DOMAIN serverLog : i \in Nat /\ i <= Len(serverLog)
      BY <1>t
    <3>4. InOrder'
      BY <1>t, <3>2, <3>3 DEF OrderInv, LogBehind, InOrder, InTransit, NotOlder
    <3>5. LogBehind'
      BY <1>t, <3>1, <3>2, Ages
         DEF OrderInv, Numbered, CentBehind, LogBehind, InTransit, NotOlder, IsData
    <3>6. (Numbered /\ CentBehind /\ MainBehind)'
      BY <3>1, <3>2
         DEF OrderInv, Numbered, CentBehind, MainBehind, InTransit, NotOlder, IsData
    <3>7. QED
      BY <3>4, <3>5, <3>6 DEF OrderInv
  <2>2. CASE ~Up(CentServer)
    BY <1>5, <2>2, OrderQuiet DEF rxClientDataOptSlot
  <2>3. QED
    BY <2>1, <2>2
<1>6. QED
  BY <1>1, <1>2, <1>3, <1>4, <1>5 DEF AqcThread, CentThread

LEMMA OrderEnvironment ==
  TypeOK /\ OrderInv /\ (Environment \/ \E c \in Client : connect2Server(c))
    => OrderInv'
<1> SUFFICES ASSUME TypeOK, OrderInv,
                    Environment \/ \E c \in Client : connect2Server(c)
             PROVE  OrderInv'
  OBVIOUS
<1> USE DEF boxes, clients, main, sent, check, wire
<1>t. /\ boxMsg[AQC] \in Body /\ boxMsg[CentServer] \in Body /\ mainMsg \in Body
      /\ data \in Nat /\ responses \in Nat /\ serverLog \in Seq(Body)
  BY Constants DEF TypeOK
<1>1. CASE ParseData
  <2>1. /\ clientMsg'[AQC] = Data(data + 1) /\ clientMsg'[CentServer] = clientMsg[CentServer]
        /\ data' = data + 1
        /\ UNCHANGED <<boxMsg, mainMsg, mainPc, serverLog>>
    BY <1>1, Constants DEF ParseData, ParseFrame, TypeOK
  <2>2. IsData(clientMsg'[AQC]) /\ clientMsg'[AQC].n = data + 1
    BY <1>t, <2>1, Kinds
  <2>3. \A i \in DOMAIN serverLog : serverLog[i] \in Body
    BY <1>t
  <2>4. QED
    BY <1>t, <2>1, <2>2, <2>3, Ages
       DEF OrderInv, Numbered, CentBehind, MainBehind, LogBehind, InOrder,
           InTransit, NotOlder, IsData
<1>2. ASSUME NEW c \in Client, NEW m \in Body, ~IsData(m),
             clientMsg' = [clientMsg EXCEPT ![c] = m],
             UNCHANGED <<boxMsg, mainMsg, mainPc, data, serverLog>>
      PROVE  OrderInv'
  <2>1. \A d \in Client : clientMsg'[d] = clientMsg[d] \/ ~IsData(clientMsg'[d])
    BY <1>2 DEF TypeOK
  <2>2. QED
    BY <1>2, <2>1, Constants
       DEF OrderInv, Numbered, CentBehind, MainBehind, LogBehind, InOrder,
           InTransit, NotOlder, IsData
<1>3. CASE ParseKeepAlive
  BY <1>2, <1>3, Constants, Bodies, Kinds DEF ParseKeepAlive, ParseFrame
<1>4. CASE ParseResponse
  <2>1. /\ clientMsg' = [clientMsg EXCEPT ![CentServer] = Response(responses + 1)]
        /\ UNCHANGED <<boxMsg, mainMsg, mainPc, data, serverLog>>
    BY <1>4 DEF ParseResponse, ParseFrame
  <2>2. Response(responses + 1) \in Body /\ ~IsData(Response(responses + 1))
    BY <1>t, Bodies, Kinds
  <2>3. QED
    BY <1>2, <2>1, <2>2, Constants
<1>5. CASE ModemError
  BY <1>5, OrderQuiet DEF ModemError
<1>6. ASSUME NEW c \in Client, Disconnect(c) \/ connect2Server(c)
      PROVE  OrderInv'
  BY <1>6, OrderQuiet DEF Disconnect, connect2Server
<1>7. QED
  BY <1>1, <1>3, <1>4, <1>5, <1>6 DEF Environment

LEMMA OrderStep == IInv /\ [Next]_vars => OrderInv'
<1>1. OrderInv /\ UNCHANGED vars => OrderInv'
  BY OrderQuiet DEF vars, boxes, clients, main, sent, check, wire
<1>2. QED
  BY <1>1, OrderMainStart, OrderMainStep, OrderCheck, OrderClients,
     OrderEnvironment DEF IInv, Next

(* No interleaving of the threads lets an older measurement overtake a      *)
(* newer one on its way to the central server.                              *)
THEOREM MeasurementsInOrder == Spec => []InOrder
<1>1. Init => IInv
  BY InitTypeOK, InitOrder DEF IInv
<1>2. IInv /\ [Next]_vars => IInv'
  BY TypeOKStep, OrderStep DEF IInv
<1>3. IInv => InOrder
  BY DEF IInv, OrderInv
<1>4. QED
  BY <1>1, <1>2, <1>3, PTL DEF Spec
-----------------------------------------------------------------------------
(* How often x occurs in a sequence.                                        *)
Places(s, x) == {i \in 1..Len(s) : s[i] = x}
Count(s, x)  == Cardinality(Places(s, x))

LEMMA PlacesFinite ==
  ASSUME NEW S, NEW s \in Seq(S), NEW x
  PROVE  IsFiniteSet(Places(s, x)) /\ Count(s, x) \in Nat
<1>1. IsFiniteSet(1..Len(s))
  BY FS_Interval
<1>2. Places(s, x) \in SUBSET (1..Len(s))
  BY DEF Places
<1>3. QED
  BY <1>1, <1>2, FS_Subset, FS_CardinalityType DEF Count

LEMMA CountEmpty == ASSUME NEW x PROVE Count(<<>>, x) = 0
<1>1. Places(<<>>, x) = {}
  BY DEF Places
<1>2. QED
  BY <1>1, FS_EmptySet DEF Count

LEMMA CountAppend ==
  ASSUME NEW S, NEW s \in Seq(S), NEW e \in S, NEW x
  PROVE  Count(Append(s, e), x) = IF e = x THEN Count(s, x) + 1 ELSE Count(s, x)
<1>1. IsFiniteSet(Places(s, x))
  BY PlacesFinite
<1>2. Len(s) + 1 \notin Places(s, x)
  BY DEF Places
<1>3. CASE e = x
  <2>1. Places(Append(s, e), x) = Places(s, x) \cup {Len(s) + 1}
    BY <1>3 DEF Places
  <2>2. QED
    BY <1>1, <1>2, <1>3, <2>1, FS_AddElement DEF Count
<1>4. CASE e # x
  <2>1. Places(Append(s, e), x) = Places(s, x)
    BY <1>4 DEF Places
  <2>2. QED
    BY <1>4, <2>1 DEF Count
<1>5. QED
  BY <1>3, <1>4

(* The places behind the head are those of the tail, each moved up by one.  *)
LEMMA CountTail ==
  ASSUME NEW S, NEW s \in Seq(S), s # <<>>, NEW x
  PROVE  Count(s, x) = IF Head(s) = x THEN Count(Tail(s), x) + 1
                                      ELSE Count(Tail(s), x)
<1> DEFINE P == Places(Tail(s), x)
           Q == Places(s, x) \ {1}
           up == [i \in P |-> i + 1]
<1>1. Tail(s) \in Seq(S) /\ Len(Tail(s)) = Len(s) - 1 /\ Len(s) \in Nat \ {0}
  OBVIOUS
<1>2. \A i \in 1..Len(Tail(s)) : Tail(s)[i] = s[i + 1]
  OBVIOUS
<1>3. P \subseteq Int /\ Q \subseteq Int
  BY DEF Places
<1>4. \A i \in P : i + 1 \in Q
  BY <1>1, <1>2 DEF Places
<1>5. \A j \in Q : j - 1 \in P /\ j = (j - 1) + 1
  <2> SUFFICES ASSUME NEW j \in Q PROVE j - 1 \in P /\ j = (j - 1) + 1
    OBVIOUS
  <2>1. j \in 2..Len(s) /\ s[j] = x
    BY <1>1 DEF Places
  <2>2. j - 1 \in 1..Len(Tail(s)) /\ (j - 1) + 1 = j
    BY <1>1, <2>1
  <2>3. QED
    BY <1>2, <2>1, <2>2 DEF Places
<1>6. up \in Bijection(P, Q)
  <2>1. up \in [P -> Q]
    BY <1>4
  <2>2. \A a, b \in P : up[a] = up[b] => a = b
    BY <1>3
  <2>3. \A j \in Q : \E i \in P : up[i] = j
    BY <1>5
  <2>4. QED
    BY <2>1, <2>2, <2>3 DEF Bijection, Injection, Surjection, IsInjective
<1>7. IsFiniteSet(P) /\ Cardinality(P) \in Nat
  BY <1>1, PlacesFinite DEF Count
<1>8. IsFiniteSet(Q) /\ Cardinality(Q) = Cardinality(P)
  <2>1. ExistsBijection(P, Q)
    BY <1>6 DEF ExistsBijection
  <2>2. QED
    BY <1>7, <2>1, FS_Bijection
<1>9. CASE Head(s) = x
  <2>1. Places(s, x) = Q \cup {1} /\ 1 \notin Q
    BY <1>1, <1>9 DEF Places
  <2>2. Cardinality(Q \cup {1}) = Cardinality(Q) + 1
    BY <1>8, <2>1, FS_AddElement
  <2>3. QED
    BY <1>8, <1>9, <2>1, <2>2 DEF Count
<1>10. CASE Head(s) # x
  <2>1. Places(s, x) = Q
    BY <1>1, <1>10 DEF Places
  <2>2. QED
    BY <1>8, <1>10, <2>1 DEF Count
<1>11. QED
  BY <1>9, <1>10
-----------------------------------------------------------------------------
(* Where a frame of the AQC program may be that will still become a message *)
(* for the server: being published, posted to the main thread, or in the    *)
(* slot that relays it.                                                     *)
Publishing == IF clientPc[AQC] = "parsed" THEN 1 ELSE 0
Posted     == Count(mainQ, "AQC2CtrlDataSlot")
Relaying   == IF mainPc \in {"AQC2Ctrl_msg", "AQC2Ctrl_data",
                             "AQC2Ctrl_keepalive", "AQC2Ctrl_id"} THEN 1 ELSE 0
Forwarded  == Len(serverLog) + txPending[CentServer]

(* Every message the server is sent, or will be, has a frame of its own.    *)
FrameEach == Forwarded + Relaying + Posted + Publishing <= frames

LoadOK == /\ Publishing \in {0, 1} /\ Relaying \in {0, 1}
          /\ Posted \in Nat /\ Forwarded \in Nat /\ frames \in Nat

LEMMA LoadTypes == TypeOK => LoadOK
<1> SUFFICES ASSUME TypeOK PROVE LoadOK
  OBVIOUS
<1>1. Posted \in Nat
  BY PlacesFinite DEF TypeOK, Posted
<1>2. Forwarded \in Nat
  BY Constants DEF TypeOK, Forwarded
<1>3. QED
  BY <1>1, <1>2 DEF LoadOK, Publishing, Relaying, TypeOK

LEMMA LoadTypesNext == TypeOK' => LoadOK'
BY LoadTypes, PTL

(* A step that leaves every place of a frame as full or emptier.            *)
LEMMA LoadQuiet ==
  ASSUME TypeOK, TypeOK', FrameEach, frames <= frames',
         Forwarded' <= Forwarded, Relaying' <= Relaying, Posted' <= Posted,
         Publishing' <= Publishing
  PROVE  FrameEach'
BY LoadTypes, LoadTypesNext DEF LoadOK, FrameEach

LEMMA LoadMainStart == TypeOK /\ TypeOK' /\ FrameEach /\ MainStart => FrameEach'
<1> SUFFICES ASSUME TypeOK, TypeOK', FrameEach, MainStart PROVE FrameEach'
  OBVIOUS
<1> USE DEF boxes, clients, main, sent, check, wire, Take
<1>t. /\ mainQ # <<>> /\ mainQ \in Seq(MainSlot) /\ mainQ' = Tail(mainQ)
      /\ UNCHANGED <<serverLog, txPending, clientPc, frames>>
      /\ Relaying = 0
  BY DEF MainStart, AQC2Ctrl_ReadId, CentServer2Ctrl_ReadId,
         ErrorCurlexec_WriteMsg, Relaying, TypeOK
<1>c. Posted = IF Head(mainQ) = "AQC2CtrlDataSlot" THEN Posted' + 1 ELSE Posted'
  BY <1>t, CountTail DEF Posted
<1>u. Forwarded' = Forwarded /\ Publishing' = Publishing /\ Posted' \in Nat
  BY <1>t, PlacesFinite DEF Forwarded, Publishing, Posted, TypeOK
<1>1. CASE AQC2Ctrl_ReadId
  <2>1. Relaying' = 1 /\ Head(mainQ) = "AQC2CtrlDataSlot"
    BY <1>1 DEF AQC2Ctrl_ReadId, Relaying
  <2>2. QED
    BY <1>t, <1>c, <1>u, <2>1, LoadTypes DEF LoadOK, FrameEach
<1>2. CASE CentServer2Ctrl_ReadId \/ ErrorCurlexec_WriteMsg
  <2>1. Relaying' = 0 /\ Head(mainQ) # "AQC2CtrlDataSlot"
    BY <1>2 DEF CentServer2Ctrl_ReadId, ErrorCurlexec_WriteMsg, Relaying
  <2>2. QED
    BY <1>t, <1>c, <1>u, <2>1, LoadTypes DEF LoadOK, FrameEach
<1>3. QED
  BY <1>1, <1>2 DEF MainStart

LEMMA LoadMainStep == TypeOK /\ TypeOK' /\ FrameEach /\ MainStep => FrameEach'
<1> SUFFICES ASSUME TypeOK, TypeOK', FrameEach, MainStep PROVE FrameEach'
  OBVIOUS
<1> USE DEF boxes, clients, main, sent, check, wire
<1>t. txPending \in [Client -> Nat] /\ frames \in Nat /\ Len(serverLog) \in Nat
  BY DEF TypeOK
<1>u. UNCHANGED <<serverLog, clientPc, mainQ, frames>>
  BY DEF MainStep, AQC2Ctrl_ReadMsg, AQC2Ctrl_WriteMsg, AQC2Ctrl_KeepAlive,
         AQC2Ctrl_WriteId, CentServer2Ctrl_ReadMsg, CentServer2Ctrl_WriteMsg,
         CentServer2Ctrl_WriteId, ErrorCurlexec_WriteId, ConnectionsCheck_Aware,
         ConnectionsCheck_CentUp, ConnectionsCheck_CentDown
<1>v. Publishing' = Publishing /\ Posted' = Posted
  BY <1>u DEF Publishing, Posted
<1>1. CASE AQC2Ctrl_WriteId
  <2>1. Relaying = 1 /\ Relaying' = 0
    BY <1>1 DEF AQC2Ctrl_WriteId, Relaying
  <2>2. Forwarded' \in {Forwarded, Forwarded + 1}
    BY <1>1, <1>t, <1>u, Constants DEF AQC2Ctrl_WriteId, Emit, Forwarded
  <2>3. QED
    BY <1>u, <1>v, <2>1, <2>2, LoadTypes DEF LoadOK, FrameEach
<1>2. CASE AQC2Ctrl_ReadMsg \/ AQC2Ctrl_WriteMsg \/ AQC2Ctrl_KeepAlive
  <2>1. Relaying = 1 /\ Forwarded' = Forwarded
    BY <1>2 DEF AQC2Ctrl_ReadMsg, AQC2Ctrl_WriteMsg, AQC2Ctrl_KeepAlive,
                Relaying, Forwarded
  <2>2. Relaying' <= Relaying
    BY <2>1 DEF Relaying
  <2>3. QED
    BY <1>t, <1>u, <1>v, <2>1, <2>2, LoadTypes, LoadQuiet DEF LoadOK
<1>3. CASE \/ CentServer2Ctrl_ReadMsg \/ CentServer2Ctrl_WriteMsg
           \/ CentServer2Ctrl_WriteId \/ ErrorCurlexec_WriteId
           \/ ConnectionsCheck_Aware \/ ConnectionsCheck_CentUp
           \/ ConnectionsCheck_CentDown
  <2>1. Relaying' = 0
    BY <1>3 DEF CentServer2Ctrl_ReadMsg, CentServer2Ctrl_WriteMsg,
         CentServer2Ctrl_WriteId, ErrorCurlexec_WriteId, ConnectionsCheck_Aware,
         ConnectionsCheck_CentUp, ConnectionsCheck_CentDown, Relaying
  <2>2. txPending'[CentServer] \in {txPending[CentServer], 0}
    BY <1>3, <1>t, Constants
       DEF CentServer2Ctrl_ReadMsg, CentServer2Ctrl_WriteMsg,
         CentServer2Ctrl_WriteId, ErrorCurlexec_WriteId, ConnectionsCheck_Aware,
         ConnectionsCheck_CentUp, ConnectionsCheck_CentDown, Emit, Renew
  <2>3. Forwarded' <= Forwarded
    BY <1>t, <1>u, <2>2, Constants DEF Forwarded
  <2>4. QED
    BY <1>t, <1>u, <1>v, <2>1, <2>3, LoadTypes, LoadQuiet DEF LoadOK
<1>4. QED
  BY <1>1, <1>2, <1>3 DEF MainStep

(* The 4 s timer, the pool, the sockets and the modem: what is lost with a  *)
(* renewed client was one message less to come.                             *)
LEMMA LoadCheck ==
  /\ TypeOK /\ TypeOK' /\ FrameEach
  /\ \/ TimerConnectionsCheck \/ PoolThread
     \/ \E c \in Client : Disconnect(c) \/ connect2Server(c)
  => FrameEach'
<1> SUFFICES ASSUME TypeOK, TypeOK', FrameEach,
                    \/ TimerConnectionsCheck \/ PoolThread
                    \/ \E c \in Client : Disconnect(c) \/ connect2Server(c)
             PROVE  FrameEach'
  OBVIOUS
<1> USE DEF boxes, clients, main, sent, check, wire
<1>t. txPending \in [Client -> Nat] /\ frames \in Nat /\ Len(serverLog) \in Nat
  BY DEF TypeOK
<1>1. /\ UNCHANGED <<serverLog, clientPc, mainQ, frames>>
      /\ txPending'[CentServer] \in {txPending[CentServer], 0}
  BY <1>t, Constants
     DEF TimerConnectionsCheck, ConnectionsCheck_AqcUp, ConnectionsCheck_AqcDown,
         PoolThread, CheckCentServer_Reached, CheckCentServer_Redirected,
         Disconnect, connect2Server, Renew
<1>2. Relaying' <= Relaying
  <2>1. mainPc' = mainPc \/ mainPc' \in {"Check_aware", "Check_cent"}
    BY DEF TimerConnectionsCheck, ConnectionsCheck_AqcUp, ConnectionsCheck_AqcDown,
           PoolThread, CheckCentServer_Reached, CheckCentServer_Redirected,
           Disconnect, connect2Server
  <2>2. QED
    BY <2>1 DEF Relaying
<1>3. Forwarded' <= Forwarded
  BY <1>t, <1>1, Constants DEF Forwarded
<1>4. Publishing' = Publishing /\ Posted' = Posted
  BY <1>1 DEF Publishing, Posted
<1>5. QED
  BY <1>t, <1>1, <1>2, <1>3, <1>4, LoadTypes, LoadQuiet DEF LoadOK

LEMMA LoadClients ==
  TypeOK /\ TypeOK' /\ FrameEach /\ (AqcThread \/ CentThread) => FrameEach'
<1> SUFFICES ASSUME TypeOK, TypeOK', FrameEach, AqcThread \/ CentThread
             PROVE  FrameEach'
  OBVIOUS
<1> USE DEF boxes, clients, main, sent, check, wire
<1>t. /\ txPending \in [Client -> Nat] /\ clientPc \in [Client -> {"loop", "parsed", "sending"}]
      /\ frames \in Nat /\ serverLog \in Seq(Body) /\ mainQ \in Seq(MainSlot)
      /\ boxMsg[CentServer] \in Body
  BY Constants DEF TypeOK
<1>1. ASSUME NEW c \in Client, PublishFrame(c) PROVE FrameEach'
  <2>1. /\ mainQ' = Append(mainQ, Slot(c)) /\ Slot(c) \in MainSlot
        /\ UNCHANGED <<serverLog, txPending, mainPc, frames>>
    BY <1>1, Constants DEF PublishFrame
  <2>2. Posted' = IF Slot(c) = "AQC2CtrlDataSlot" THEN Posted + 1 ELSE Posted
    BY <1>t, <2>1, CountAppend DEF Posted
  <2>3. Forwarded' = Forwarded /\ Relaying' = Relaying
    BY <2>1 DEF Forwarded, Relaying
  <2>4. CASE c = AQC
    <3>1. Publishing = 1 /\ Publishing' = 0 /\ Posted' = Posted + 1
      BY <1>1, <1>t, <2>2, <2>4 DEF PublishFrame, Publishing, Slot
    <3>2. QED
      BY <2>1, <2>3, <3>1, LoadTypes DEF LoadOK, FrameEach
  <2>5. CASE c = CentServer
    <3>1. Publishing' = Publishing /\ Posted' = Posted
      BY <1>1, <1>t, <2>2, <2>5, Constants DEF PublishFrame, Publishing, Slot
    <3>2. QED
      BY <2>1, <2>3, <3>1, LoadTypes DEF LoadOK, FrameEach
  <2>6. QED
    BY <2>4, <2>5, Constants
<1>2. CASE rxClientDataSlot \/ transMsgLAN
  <2>1. /\ UNCHANGED <<serverLog, mainPc, mainQ, frames>>
        /\ txPending'[CentServer] = txPending[CentServer]
        /\ clientPc'[AQC] # "parsed"
    BY <1>2, <1>t, Constants DEF rxClientDataSlot, transMsgLAN
  <2>2. Publishing' <= Publishing
    BY <2>1 DEF Publishing
  <2>3. Forwarded' = Forwarded /\ Relaying' = Relaying /\ Posted' = Posted
    BY <2>1 DEF Forwarded, Relaying, Posted
  <2>4. QED
    BY <1>t, <2>1, <2>2, <2>3, LoadTypes, LoadQuiet DEF LoadOK
<1>3. CASE rxClientDataOptSlot
  <2>1. /\ UNCHANGED <<mainPc, mainQ, clientPc, frames>>
        /\ txPending'[CentServer] = txPending[CentServer] - 1
        /\ Len(serverLog') \in {Len(serverLog), Len(serverLog) + 1}
    BY <1>3, <1>t, Constants DEF rxClientDataOptSlot
  <2>2. Forwarded' <= Forwarded
    BY <1>t, <2>1, Constants DEF Forwarded
  <2>3. Publishing' = Publishing /\ Relaying' = Relaying /\ Posted' = Posted
    BY <2>1 DEF Publishing, Relaying, Posted
  <2>4. QED
    BY <1>t, <2>1, <2>2, <2>3, LoadTypes, LoadQuiet DEF LoadOK
<1>4. QED
  BY <1>1, <1>2, <1>3, Constants DEF AqcThread, CentThread

LEMMA LoadStimuli ==
  /\ TypeOK /\ TypeOK' /\ FrameEach
  /\ ParseData \/ ParseKeepAlive \/ ParseResponse \/ ModemError
  => FrameEach'
<1> SUFFICES ASSUME TypeOK, TypeOK', FrameEach,
                    ParseData \/ ParseKeepAlive \/ ParseResponse \/ ModemError
             PROVE  FrameEach'
  OBVIOUS
<1> USE DEF boxes, clients, main, sent, check, wire
<1>t. /\ clientPc \in [Client -> {"loop", "parsed", "sending"}]
      /\ frames \in Nat /\ mainQ \in Seq(MainSlot)
  BY DEF TypeOK
<1>1. /\ UNCHANGED <<serverLog, txPending, mainPc>>
      /\ Forwarded' = Forwarded /\ Relaying' = Relaying
  BY DEF ParseData, ParseKeepAlive, ParseResponse, ParseFrame, ModemError,
         Forwarded, Relaying
<1>2. CASE ParseData \/ ParseKeepAlive
  <2>1. frames' = frames + 1 /\ Publishing = 0 /\ Publishing' = 1 /\ Posted' = Posted
    BY <1>2, <1>t, Constants
       DEF ParseData, ParseKeepAlive, ParseFrame, Publishing, Posted
  <2>2. QED
    BY <1>1, <2>1, LoadTypes DEF LoadOK, FrameEach
<1>3. CASE ParseResponse
  <2>1. frames' = frames /\ Publishing' = Publishing /\ Posted' = Posted
    BY <1>3, <1>t, Constants DEF ParseResponse, ParseFrame, Publishing, Posted
  <2>2. QED
    BY <1>1, <2>1, LoadTypes DEF LoadOK, FrameEach
<1>4. CASE ModemError
  <2>1. mainQ' = Append(mainQ, "ErrorCurlexecSlot")
        /\ UNCHANGED <<clientPc, frames>>
    BY <1>4 DEF ModemError
  <2>2. Posted' = Posted
    BY <1>t, <2>1, CountAppend DEF Posted, MainSlot
  <2>3. QED
    BY <1>1, <2>1, <2>2, LoadTypes DEF LoadOK, FrameEach, Publishing
<1>5. QED
  BY <1>2, <1>3, <1>4

LEMMA LoadStep == TypeOK /\ TypeOK' /\ FrameEach /\ [Next]_vars => FrameEach'
<1>1. FrameEach /\ UNCHANGED vars => FrameEach'
  BY DEF FrameEach, Forwarded, Relaying, Posted, Publishing,
         vars, boxes, clients, main, sent, check, wire
<1>2. QED
  BY <1>1, LoadMainStart, LoadMainStep, LoadCheck, LoadClients, LoadStimuli
     DEF Next, Environment

(* The threads, exchanging mailbox contents as they may, never make the     *)
(* relay send the server more than the AQC program has handed it.           *)
THEOREM RelayBounded == Spec => []NoAmplification
<1>1. Init => TypeOK /\ FrameEach
  <2> SUFFICES ASSUME Init PROVE FrameEach
    BY InitTypeOK
  <2>1. /\ Forwarded = 0 /\ Relaying = 0 /\ Publishing = 0 /\ frames = 0
    BY Constants DEF Init, Forwarded, Relaying, Publishing
  <2>2. Posted = 0
    BY CountEmpty DEF Init, Posted
  <2>3. QED
    BY <2>1, <2>2 DEF FrameEach
<1>2. TypeOK /\ FrameEach /\ [Next]_vars => (TypeOK /\ FrameEach)'
  BY TypeOKStep, LoadStep
<1>3. TypeOK /\ FrameEach => NoAmplification
  <2> SUFFICES ASSUME TypeOK, FrameEach PROVE NoAmplification
    OBVIOUS
  <2>1. /\ Publishing \in {0, 1} /\ Relaying \in {0, 1}
        /\ Posted \in Nat /\ Forwarded \in Nat /\ frames \in Nat
    BY LoadTypes DEF LoadOK
  <2>2. Forwarded <= frames
    BY <2>1 DEF FrameEach
  <2>3. QED
    BY <2>2 DEF NoAmplification, Forwarded
<1>4. QED
  BY <1>1, <1>2, <1>3, PTL DEF Spec
=============================================================================
