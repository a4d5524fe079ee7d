---------------------------- MODULE MessageRelay ----------------------------
(***************************************************************************)
(* The message path between the AQC program of a station and the central   *)
(* server (Tcp_Client, TC_CentServer and the slots of Controller).         *)
(*                                                                         *)
(* Each TCP client object lives in a thread of its own and owns ONE        *)
(* mailbox, the public fields txClient_ID and txClientMsg, used in BOTH    *)
(* directions: the client's thread stores there a frame it has parsed, and *)
(* the controller's (main) thread stores there a message the client is to  *)
(* send.  Only parameterless signals cross the threads (queued             *)
(* connections), and the receiving slot reads the mailbox when it runs.    *)
(* No lock protects the mailbox, so each access to a field is a step here. *)
(***************************************************************************)
EXTENDS Integers, Sequences

CONSTANTS
  MaxFrames,     \* frames the AQC program sends, bounds the model
  MaxResponses,  \* responses the central server sends, bounds the model
  MaxErrors,     \* modem errors the SMS thread reports, bounds the model
  MaxRedirects,  \* pings of the server the modem answers, bounds the model
  MaxQueue,      \* events waiting in one event queue, bounds the model
  Garbage,       \* what a txClient_ID that was never assigned may hold
  LinkFailures,  \* whether an established connection may be lost
  Paced          \* whether stimuli come one at a time, over links that are up

AQC        == "AQC_Client_Obj"
CentServer == "CentServer_Client_Obj"
Client     == {AQC, CentServer}

(* The message types the slots tell apart; "other" is any further u_int8_t. *)
MsgId == {"primaryAQC_Data2Server", "AQC_KeepAliveID",
          "primaryResponseFromServer", "RPI_CentServer_Cnn_Aware2AQC_MsgType",
          "rpi_ModemError", "other"}

ASSUME RelayAssumption ==
  /\ MaxFrames \in Nat /\ MaxResponses \in Nat
  /\ MaxErrors \in Nat /\ MaxRedirects \in Nat /\ MaxQueue \in Nat
  /\ Garbage \subseteq MsgId /\ Garbage # {}
  /\ LinkFailures \in BOOLEAN /\ Paced \in BOOLEAN

(* A payload: what it is and, of several of a kind, which one.              *)
Body == [kind : {"empty", "data", "keepalive", "response", "aware", "error"},
         n : Nat]

Empty          == [kind |-> "empty",     n |-> 0]
Data(n)        == [kind |-> "data",      n |-> n]
KeepAliveBody  == [kind |-> "keepalive", n |-> 0]
Response(n)    == [kind |-> "response",  n |-> n]
AwareBody(b)   == [kind |-> "aware",     n |-> IF b THEN 1 ELSE 0]
ModemErrorBody == [kind |-> "error",     n |-> 1]

VARIABLES
  boxId,      \* txClient_ID of each client object
  boxMsg,     \* txClientMsg of each client object
  conn,       \* the state of each client's socket
  clientPc,   \* where each client's thread is
  clientId,   \* the Msg_ID argument of a transMsgLAN that is under way
  clientMsg,  \* the payload of a frame whose Parse_Byte is under way
  txPending,  \* data signals posted to a client's thread, not yet delivered
  mainQ,      \* slots of the controller waiting in the main event queue
  mainPc,     \* where the main thread is
  mainId,     \* rxCtrlID_* of the slot that is running
  mainMsg,    \* rxCtrlMsg* of the slot that is running
  aware,      \* RPI_CentServer_Cnn_Aware2AQC
  pool,       \* a CheckCentServerSlot waits in the thread pool
  alarmed,    \* AQC_TCP_Cnn_Error was sent since the AQC link was last seen up
  frames,     \* frames the AQC program has sent
  data,       \* those of them that carry measurements
  responses,  \* responses the central server has sent
  errors,     \* modem errors the SMS thread has reported
  redirects,  \* pings of the server the modem has answered
  serverLog,  \* payloads rxClientDataOptSlot has sent to the central server
  aqcGot      \* the last message the AQC program has received

boxes   == <<boxId, boxMsg>>
clients == <<clientPc, clientId, clientMsg>>
main    == <<mainPc, mainId, mainMsg>>
sent    == <<frames, data, responses, errors, redirects>>
check   == <<aware, pool, alarmed>>
wire    == <<serverLog, aqcGot>>
vars    == <<boxes, conn, clients, txPending, mainQ, main, check, sent, wire>>

MainPc == {"loop", "AQC2Ctrl_msg", "AQC2Ctrl_data", "AQC2Ctrl_keepalive",
           "AQC2Ctrl_id", "Cent2Ctrl_msg", "Cent2Ctrl_toAqc", "Cent2Ctrl_id",
           "Error_id", "Check_aware", "Check_cent"}

MainSlot == {"AQC2CtrlDataSlot", "CentServer2CtrlDataSlot", "ErrorCurlexecSlot"}

Slot(c) == IF c = AQC THEN "AQC2CtrlDataSlot" ELSE "CentServer2CtrlDataSlot"

TypeOK ==
  /\ boxId \in [Client -> MsgId] /\ boxMsg \in [Client -> Body]
  /\ conn \in [Client -> {"connecting", "connected", "closed"}]
  /\ clientPc \in [Client -> {"loop", "parsed", "sending"}]
  /\ clientId \in [Client -> MsgId] /\ clientMsg \in [Client -> Body]
  /\ txPending \in [Client -> Nat]
  /\ mainQ \in Seq(MainSlot)
  /\ mainPc \in MainPc /\ mainId \in MsgId /\ mainMsg \in Body
  /\ aware \in BOOLEAN /\ pool \in BOOLEAN /\ alarmed \in BOOLEAN
  /\ frames \in Nat /\ data \in Nat /\ responses \in Nat
  /\ errors \in Nat /\ redirects \in Nat
  /\ serverLog \in Seq(Body)
  /\ aqcGot \in [id : MsgId, msg : Body]

Init ==
  /\ boxId \in [Client -> Garbage]             \* txClient_ID is not initialised
  /\ boxMsg = [c \in Client |-> Empty]
  /\ conn = [c \in Client |-> "connecting"]
  /\ clientPc = [c \in Client |-> "loop"]
  /\ clientId = [c \in Client |-> "other"]
  /\ clientMsg = [c \in Client |-> Empty]
  /\ txPending = [c \in Client |-> 0]
  /\ mainQ = <<>>
  /\ mainPc = "loop" /\ mainId = "other" /\ mainMsg = Empty
  /\ aware = FALSE /\ pool = FALSE /\ alarmed = FALSE
  /\ frames = 0 /\ data = 0 /\ responses = 0
  /\ errors = 0 /\ redirects = 0
  /\ serverLog = <<>>
  /\ aqcGot = [id |-> "other", msg |-> Empty]

Up(c) == conn[c] = "connected"

(* No slot runs and no event waits.                                         *)
Idle == /\ mainPc = "loop" /\ mainQ = <<>> /\ ~pool
        /\ \A c \in Client : clientPc[c] = "loop" /\ txPending[c] = 0

(* A stimulus may come at any time, or only while the program is at rest.   *)
MayCome == Paced => Idle /\ \A c \in Client : Up(c)
-----------------------------------------------------------------------------
(* The sockets.  connect2Server is the first thing a client's thread does;  *)
(* it connects once, and a socket that fails or closes later stays closed.  *)

connect2Server(c) ==
  /\ conn[c] = "connecting"
  /\ \/ conn' = [conn EXCEPT ![c] = "connected"]
     \/ LinkFailures /\ conn' = [conn EXCEPT ![c] = "closed"]
  /\ UNCHANGED <<boxes, clients, txPending, mainQ, main, check, sent, wire>>

Disconnect(c) ==
  /\ LinkFailures /\ Up(c)
  /\ conn' = [conn EXCEPT ![c] = "closed"]
  /\ UNCHANGED <<boxes, clients, txPending, mainQ, main, check, sent, wire>>
-----------------------------------------------------------------------------
(* The client threads.                                                      *)

(* Parse_Byte has accepted a frame and assigns txClient_ID; PublishFrame    *)
(* assigns txClientMsg and emits txClientDataSignal.                        *)
ParseFrame(c, id, body) ==
  /\ MayCome
  /\ Up(c) /\ clientPc[c] = "loop" /\ Len(mainQ) < MaxQueue
  /\ boxId' = [boxId EXCEPT ![c] = id]
  /\ clientMsg' = [clientMsg EXCEPT ![c] = body]
  /\ clientPc' = [clientPc EXCEPT ![c] = "parsed"]
  /\ UNCHANGED <<boxMsg, conn, clientId, txPending, mainQ, main, check, wire>>

ParseData ==
  /\ frames < MaxFrames
  /\ ParseFrame(AQC, "primaryAQC_Data2Server", Data(data + 1))
  /\ frames' = frames + 1 /\ data' = data + 1
  /\ UNCHANGED <<responses, errors, redirects>>

ParseKeepAlive ==
  /\ frames < MaxFrames
  /\ ParseFrame(AQC, "AQC_KeepAliveID", KeepAliveBody)
  /\ frames' = frames + 1
  /\ UNCHANGED <<data, responses, errors, redirects>>

(* TC_CentServer labels every frame of the server as a response.            *)
ParseResponse ==
  /\ responses < MaxResponses
  /\ ParseFrame(CentServer, "primaryResponseFromServer", Response(responses + 1))
  /\ responses' = responses + 1
  /\ UNCHANGED <<frames, data, errors, redirects>>

(* Mutant: the parser does not return to UINIT and hands the frame out anew. *)
PublishFrame_Again(c) ==
  /\ clientPc[c] = "parsed"
  /\ boxMsg' = [boxMsg EXCEPT ![c] = clientMsg[c]]
  /\ mainQ' = Append(mainQ, Slot(c))
  /\ UNCHANGED <<boxId, conn, clients, txPending, main, check, sent, wire>>

PublishFrame(c) ==
  /\ clientPc[c] = "parsed"
  /\ boxMsg' = [boxMsg EXCEPT ![c] = clientMsg[c]]
  /\ mainQ' = Append(mainQ, Slot(c))
  /\ clientMsg' = [clientMsg EXCEPT ![c] = Empty]
  /\ clientPc' = [clientPc EXCEPT ![c] = "loop"]
  /\ UNCHANGED <<boxId, conn, clientId, txPending, main, check, sent, wire>>

(* rxClientDataSlot reads the mailbox field by field for transMsgLAN.  An   *)
(* event posted while connect2Server blocks the thread waits for its end.   *)
rxClientDataSlot ==
  /\ conn[AQC] # "connecting" /\ clientPc[AQC] = "loop" /\ txPending[AQC] > 0
  /\ txPending' = [txPending EXCEPT ![AQC] = @ - 1]
  /\ clientId' = [clientId EXCEPT ![AQC] = boxId[AQC]]
  /\ clientPc' = [clientPc EXCEPT ![AQC] = "sending"]
  /\ UNCHANGED <<boxes, conn, clientMsg, mainQ, main, check, sent, wire>>

(* A message for a socket that is not connected is dropped.                 *)
transMsgLAN ==
  /\ clientPc[AQC] = "sending"
  /\ aqcGot' = IF Up(AQC) THEN [id |-> clientId[AQC], msg |-> boxMsg[AQC]]
                          ELSE aqcGot
  /\ clientId' = [clientId EXCEPT ![AQC] = "other"]
  /\ clientPc' = [clientPc EXCEPT ![AQC] = "loop"]
  /\ UNCHANGED <<boxes, conn, clientMsg, txPending, mainQ, main, check, sent,
                 serverLog>>

(* Mutant: a slot that sends without having been signalled.                 *)
rxClientDataOptSlot_Unasked ==
  /\ conn[CentServer] # "connecting" /\ clientPc[CentServer] = "loop"
  /\ txPending' = [txPending EXCEPT ![CentServer] = @ - 1]
  /\ serverLog' = IF Up(CentServer) THEN Append(serverLog, boxMsg[CentServer])
                                    ELSE serverLog
  /\ UNCHANGED <<boxes, conn, clients, mainQ, main, check, sent, aqcGot>>

(* Mutant: an output buffer that is not cleared repeats what was sent.      *)
rxClientDataOptSlot_Uncleared ==
  /\ conn[CentServer] # "connecting" /\ clientPc[CentServer] = "loop"
  /\ txPending[CentServer] > 0
  /\ txPending' = [txPending EXCEPT ![CentServer] = @ - 1]
  /\ serverLog' = Append(serverLog, boxMsg[CentServer]) \o serverLog
  /\ UNCHANGED <<boxes, conn, clients, mainQ, main, check, sent, aqcGot>>

(* rxClientDataOptSlot forwards txClientMsg as it stands (transMsgOpt).     *)
rxClientDataOptSlot ==
  /\ conn[CentServer] # "connecting" /\ clientPc[CentServer] = "loop"
  /\ txPending[CentServer] > 0
  /\ txPending' = [txPending EXCEPT ![CentServer] = @ - 1]
  /\ serverLog' = IF Up(CentServer) THEN Append(serverLog, boxMsg[CentServer])
                                    ELSE serverLog
  /\ UNCHANGED <<boxes, conn, clients, mainQ, main, check, sent, aqcGot>>
-----------------------------------------------------------------------------
(* The main thread: the slots of Controller, one at a time.  mainId and     *)
(* mainMsg return to their first value with the slot that assigned them: no *)
(* later slot reads the members they stand for before assigning them.       *)

Take(slot, pc) ==
  /\ mainPc = "loop" /\ mainQ # <<>> /\ Head(mainQ) = slot
  /\ mainQ' = Tail(mainQ)
  /\ mainPc' = pc

(* emit Ctrl2..._DataSignal(): one more event for the client's thread.      *)
Emit(c) == txPending' = [txPending EXCEPT ![c] = @ + 1]

AQC2Ctrl_ReadId ==
  /\ Take("AQC2CtrlDataSlot", "AQC2Ctrl_msg")
  /\ mainId' = boxId[AQC]
  /\ UNCHANGED <<boxes, conn, clients, txPending, mainMsg, check, sent, wire>>

AQC2Ctrl_ReadMsg ==
  /\ mainPc = "AQC2Ctrl_msg"
  /\ \/ /\ mainId = "primaryAQC_Data2Server"
        /\ mainMsg' = boxMsg[AQC]
        /\ mainPc' = "AQC2Ctrl_data" /\ UNCHANGED mainId
     \/ /\ mainId = "AQC_KeepAliveID"
        /\ mainPc' = "AQC2Ctrl_keepalive" /\ UNCHANGED <<mainId, mainMsg>>
     \/ /\ mainId \notin {"primaryAQC_Data2Server", "AQC_KeepAliveID"}
        /\ mainPc' = "loop" /\ mainId' = "other" /\ UNCHANGED mainMsg
  /\ UNCHANGED <<boxes, conn, clients, txPending, mainQ, check, sent, wire>>

AQC2Ctrl_WriteMsg ==
  /\ mainPc = "AQC2Ctrl_data"
  /\ boxMsg' = [boxMsg EXCEPT ![CentServer] = mainMsg]
  /\ mainPc' = "AQC2Ctrl_id" /\ mainMsg' = Empty
  /\ UNCHANGED <<boxId, conn, clients, txPending, mainQ, mainId, check, sent, wire>>

(* AQC_ServerConnectionStatusInCtrl is never assigned: it is empty.         *)
AQC2Ctrl_KeepAlive ==
  /\ mainPc = "AQC2Ctrl_keepalive"
  /\ boxMsg' = [boxMsg EXCEPT ![CentServer] = Empty]
  /\ mainPc' = "AQC2Ctrl_id"
  /\ UNCHANGED <<boxId, conn, clients, txPending, mainQ, mainId, mainMsg, check,
                 sent, wire>>

(* Mutant: the break of the first case is missing, keep-alives are signalled. *)
AQC2Ctrl_WriteId_Always ==
  /\ mainPc = "AQC2Ctrl_id"
  /\ boxId' = [boxId EXCEPT ![CentServer] = mainId]
  /\ Emit(CentServer)
  /\ mainPc' = "loop" /\ mainId' = "other"
  /\ UNCHANGED <<boxMsg, conn, clients, mainQ, mainMsg, check, sent, wire>>

(* Only measurements are signalled; a keep-alive just fills the mailbox.    *)
AQC2Ctrl_WriteId ==
  /\ mainPc = "AQC2Ctrl_id"
  /\ boxId' = [boxId EXCEPT ![CentServer] = mainId]
  /\ IF mainId = "primaryAQC_Data2Server" THEN Emit(CentServer)
                                          ELSE UNCHANGED txPending
  /\ mainPc' = "loop" /\ mainId' = "other"
  /\ UNCHANGED <<boxMsg, conn, clients, mainQ, mainMsg, check, sent, wire>>

CentServer2Ctrl_ReadId ==
  /\ Take("CentServer2CtrlDataSlot", "Cent2Ctrl_msg")
  /\ mainId' = boxId[CentServer]
  /\ UNCHANGED <<boxes, conn, clients, txPending, mainMsg, check, sent, wire>>

CentServer2Ctrl_ReadMsg ==
  /\ mainPc = "Cent2Ctrl_msg"
  /\ mainMsg' = boxMsg[CentServer]
  /\ mainPc' = "Cent2Ctrl_toAqc"
  /\ UNCHANGED <<boxes, conn, clients, txPending, mainQ, mainId, check, sent, wire>>

CentServer2Ctrl_WriteMsg ==
  /\ mainPc = "Cent2Ctrl_toAqc"
  /\ boxMsg' = [boxMsg EXCEPT ![AQC] = mainMsg]
  /\ mainPc' = "Cent2Ctrl_id" /\ mainMsg' = Empty
  /\ UNCHANGED <<boxId, conn, clients, txPending, mainQ, mainId, check, sent, wire>>

(* Mutant: the identifier of the response is not passed on.                 *)
CentServer2Ctrl_WriteId_NoId ==
  /\ mainPc = "Cent2Ctrl_id"
  /\ Emit(AQC)
  /\ mainPc' = "loop" /\ mainId' = "other"
  /\ UNCHANGED <<boxes, conn, clients, mainQ, mainMsg, check, sent, wire>>

(* Mutant: the response is stored, and not signalled.                       *)
CentServer2Ctrl_WriteId_Silent ==
  /\ mainPc = "Cent2Ctrl_id"
  /\ boxId' = [boxId EXCEPT ![AQC] = mainId]
  /\ mainPc' = "loop" /\ mainId' = "other"
  /\ UNCHANGED <<boxMsg, conn, clients, txPending, mainQ, mainMsg, check, sent, wire>>

CentServer2Ctrl_WriteId ==
  /\ mainPc = "Cent2Ctrl_id"
  /\ boxId' = [boxId EXCEPT ![AQC] = mainId]
  /\ Emit(AQC)
  /\ mainPc' = "loop" /\ mainId' = "other"
  /\ UNCHANGED <<boxMsg, conn, clients, mainQ, mainMsg, check, sent, wire>>

(* SmsController found no modem and emitted ErrorCurlexecSignal.            *)
ModemError ==
  /\ MayCome
  /\ errors < MaxErrors /\ Len(mainQ) < MaxQueue
  /\ mainQ' = Append(mainQ, "ErrorCurlexecSlot")
  /\ errors' = errors + 1
  /\ UNCHANGED <<boxes, conn, clients, txPending, main, check, frames, data,
                 responses, redirects, wire>>

ErrorCurlexec_WriteMsg ==
  /\ Take("ErrorCurlexecSlot", "Error_id")
  /\ boxMsg' = [boxMsg EXCEPT ![AQC] = ModemErrorBody]
  /\ UNCHANGED <<boxId, conn, clients, txPending, mainId, mainMsg, check, sent, wire>>

ErrorCurlexec_WriteId ==
  /\ mainPc = "Error_id"
  /\ boxId' = [boxId EXCEPT ![AQC] = "rpi_ModemError"]
  /\ Emit(AQC)
  /\ mainPc' = "loop"
  /\ UNCHANGED <<boxMsg, conn, clients, mainQ, mainId, mainMsg, check, sent, wire>>
-----------------------------------------------------------------------------
(* timerConnectionsCheckSlot, the part that touches the two mailboxes, and  *)
(* the job it gives to the thread pool.                                     *)

(* finishObject and init...Conn: a new client object, in a new thread, with *)
(* an empty mailbox and no event waiting.  The 100 ms between the two let   *)
(* the old thread finish the slot it is running, hence the guard.           *)
Renew(c) ==
  /\ clientPc[c] = "loop"
  /\ \E id \in Garbage : boxId' = [boxId EXCEPT ![c] = id]
  /\ boxMsg' = [boxMsg EXCEPT ![c] = Empty]
  /\ conn' = [conn EXCEPT ![c] = "connecting"]
  /\ txPending' = [txPending EXCEPT ![c] = 0]

ConnectionsCheck_AqcUp ==
  /\ MayCome
  /\ mainPc = "loop" /\ Up(AQC) /\ txPending[AQC] < MaxQueue
  /\ boxId' = [boxId EXCEPT ![AQC] = "RPI_CentServer_Cnn_Aware2AQC_MsgType"]
  /\ alarmed' = FALSE
  /\ mainPc' = "Check_aware"
  /\ UNCHANGED <<boxMsg, conn, clients, txPending, mainQ, mainId, mainMsg, aware,
                 pool, sent, wire>>

ConnectionsCheck_Aware ==
  /\ mainPc = "Check_aware"
  /\ boxMsg' = [boxMsg EXCEPT ![AQC] = AwareBody(aware)]
  /\ Emit(AQC)
  /\ mainPc' = "Check_cent"
  /\ UNCHANGED <<boxId, conn, clients, mainQ, mainId, mainMsg, check, sent, wire>>

(* Mutant: the alarm is commented out like the insertAlarm above it.        *)
ConnectionsCheck_AqcDown_Silent ==
  /\ MayCome
  /\ mainPc = "loop" /\ ~Up(AQC)
  /\ Renew(AQC)
  /\ mainPc' = "Check_cent"
  /\ UNCHANGED <<clients, mainQ, mainId, mainMsg, check, sent, wire>>

(* The alarm goes out from the main thread, past the mailbox, and is lost   *)
(* when the server's socket is not connected.                               *)
ConnectionsCheck_AqcDown ==
  /\ MayCome
  /\ mainPc = "loop" /\ ~Up(AQC)
  /\ alarmed' = (alarmed \/ Up(CentServer))
  /\ Renew(AQC)
  /\ mainPc' = "Check_cent"
  /\ UNCHANGED <<clients, mainQ, mainId, mainMsg, aware, pool, sent, wire>>

(* Mutant: the flag is set where the client is made and not by the check.   *)
ConnectionsCheck_CentUp_Unset ==
  /\ mainPc = "Check_cent" /\ Up(CentServer)
  /\ pool' \in {pool, TRUE}
  /\ mainPc' = "loop"
  /\ UNCHANGED <<boxes, conn, clients, txPending, mainQ, mainId, mainMsg, aware,
                 alarmed, sent, wire>>

(* Every fifth of these starts a CheckCentServerSlot; which, is abstracted. *)
ConnectionsCheck_CentUp ==
  /\ mainPc = "Check_cent" /\ Up(CentServer)
  /\ aware' = TRUE
  /\ pool' \in {pool, TRUE}
  /\ mainPc' = "loop"
  /\ UNCHANGED <<boxes, conn, clients, txPending, mainQ, mainId, mainMsg, alarmed,
                 sent, wire>>

ConnectionsCheck_CentDown ==
  /\ mainPc = "Check_cent" /\ ~Up(CentServer)
  /\ Renew(CentServer)
  /\ aware' = FALSE
  /\ mainPc' = "loop"
  /\ UNCHANGED <<clients, mainQ, mainId, mainMsg, pool, alarmed, sent, wire>>

(* The server answers the ping: the job sets nothing modelled here.         *)
CheckCentServer_Reached ==
  /\ pool /\ pool' = FALSE
  /\ UNCHANGED <<boxes, conn, clients, txPending, mainQ, main, aware, alarmed,
                 sent, wire>>

(* The modem's page answers instead: the pool's thread renews the client.   *)
CheckCentServer_Redirected ==
  /\ redirects < MaxRedirects
  /\ pool /\ pool' = FALSE
  /\ Renew(CentServer)
  /\ aware' = FALSE
  /\ redirects' = redirects + 1
  /\ UNCHANGED <<clients, mainQ, main, alarmed, frames, data, responses, errors,
                 wire>>
-----------------------------------------------------------------------------
AqcThread  == PublishFrame(AQC) \/ rxClientDataSlot \/ transMsgLAN
CentThread == PublishFrame(CentServer) \/ rxClientDataOptSlot
PoolThread == CheckCentServer_Reached \/ CheckCentServer_Redirected

(* The main event loop: it starts a slot that was posted to it,             *)
MainStart == AQC2Ctrl_ReadId \/ CentServer2Ctrl_ReadId \/ ErrorCurlexec_WriteMsg

(* or the slot of the 4 s timer,                                            *)
TimerConnectionsCheck == ConnectionsCheck_AqcUp \/ ConnectionsCheck_AqcDown

(* and runs the one it has started to its end.                              *)
MainStep ==
  \/ AQC2Ctrl_ReadMsg \/ AQC2Ctrl_WriteMsg \/ AQC2Ctrl_KeepAlive
  \/ AQC2Ctrl_WriteId
  \/ CentServer2Ctrl_ReadMsg \/ CentServer2Ctrl_WriteMsg
  \/ CentServer2Ctrl_WriteId
  \/ ErrorCurlexec_WriteId
  \/ ConnectionsCheck_Aware \/ ConnectionsCheck_CentUp
  \/ ConnectionsCheck_CentDown

Environment ==
  \/ ParseData \/ ParseKeepAlive \/ ParseResponse \/ ModemError
  \/ \E c \in Client : Disconnect(c)

Next ==
  \/ AqcThread \/ CentThread \/ PoolThread
  \/ MainStart \/ TimerConnectionsCheck \/ MainStep
  \/ \E c \in Client : connect2Server(c)
  \/ Environment

(* Every thread keeps running: a slot that has started ends, a posted event *)
(* is served and the timer fires, although the main loop is now and then    *)
(* busy with another of its slots when their turn comes (hence SF for what  *)
(* may start only between slots).  The AQC program, the server, the modem   *)
(* and the network owe nothing, except that a connection attempt ends.      *)
Fairness ==
  /\ WF_vars(AqcThread) /\ WF_vars(CentThread) /\ WF_vars(PoolThread)
  /\ WF_vars(MainStep) /\ SF_vars(MainStart) /\ SF_vars(TimerConnectionsCheck)
  /\ \A c \in Client : WF_vars(connect2Server(c))

Spec == Init /\ [][Next]_vars /\ Fairness
-----------------------------------------------------------------------------
IsData(m) == m.kind = "data"

(* Measurements reach the central server in the order in which the AQC      *)
(* program sent them: the unlocked mailboxes may lose or repeat one, and    *)
(* even hand back a response, but never let an older one overtake a newer.  *)
InOrder ==
  \A i, j \in DOMAIN serverLog :
    i < j /\ IsData(serverLog[i]) /\ IsData(serverLog[j])
      => serverLog[i].n <= serverLog[j].n

(* The server is sent, and is about to be sent, no more messages than the   *)
(* AQC program has sent frames: no exchange of mailbox contents between the *)
(* threads makes the relay feed itself.                                     *)
NoAmplification == Len(serverLog) + txPending[CentServer] <= frames

(* Once both links stay up, whatever was interleaved before, the last thing *)
(* the AQC program hears is, for good, that the server is connected.        *)
AwareConverges ==
  <>[](\A c \in Client : Up(c))
    => <>[](aqcGot = [id  |-> "RPI_CentServer_Cnn_Aware2AQC_MsgType",
                      msg |-> AwareBody(TRUE)])

(* An AQC link that never comes up again is reported to a server that can   *)
(* be reached.                                                              *)
LossReported ==
  <>[](~Up(AQC) /\ Up(CentServer)) => <>[]alarmed

(* Under paced load the AQC program never receives a payload under another  *)
(* message's identifier.                                                    *)
PairsMatch ==
  \/ aqcGot = [id |-> "other", msg |-> Empty]
  \/ aqcGot.id = "primaryResponseFromServer" /\ aqcGot.msg.kind = "response"
  \/ aqcGot.id = "RPI_CentServer_Cnn_Aware2AQC_MsgType" /\ aqcGot.msg.kind = "aware"
  \/ aqcGot.id = "rpi_ModemError" /\ aqcGot.msg.kind = "error"

(* Under paced load every response the server's client has parsed gets to   *)
(* the AQC program.                                                         *)
ReplyDelivered ==
  \A k \in 1..MaxResponses :
    clientMsg[CentServer] = Response(k) ~> aqcGot.msg = Response(k)

(* Under paced load the two mailboxes and the three threads are together a  *)
(* first-in first-out channel that loses nothing.                           *)
Fifo == INSTANCE FifoRelay WITH
          in  <- [i \in 1..data |-> i],
          out <- [i \in DOMAIN serverLog |-> serverLog[i].n]

ImplementsFifo == Fifo!Spec
=============================================================================
