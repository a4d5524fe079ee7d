----------------------------- MODULE KeepAlive -----------------------------
(***************************************************************************)
(* How the controller notices that the AQC program or its watchdog program *)
(* has gone silent: WdgAqc2CtrlDataSlot and AQC2CtrlDataSlot restart a     *)
(* counter, timerTCP_KeepAliveCheckSlot advances it and raises an alarm.   *)
(*                                                                         *)
(* The slots run in the main thread and learn what arrived from the        *)
(* client's txClient_ID, which the client's thread assigned when it parsed *)
(* the frame and which may have been assigned anew before the slot runs,   *)
(* by a later frame or by timerConnectionsCheckSlot.                       *)
(***************************************************************************)
EXTENDS Integers

CONSTANTS
  Peer,        \* the programs that are supervised
  CntMod,      \* the counters are u_int8_t: 256, less for TLC
  MaxPending   \* frames whose slot has not run yet, bounds the model

AQC    == "AQC_Client"
WdgAqc == "WdgAqc_Client"

(* A counter raises its alarm when it reaches this value.                   *)
Limit == 4

ASSUME KeepAliveAssumption ==
  /\ Peer \subseteq {AQC, WdgAqc}
  /\ CntMod \in Nat /\ CntMod > Limit
  /\ MaxPending \in Nat

(* What the slots tell apart in txClient_ID: a keep-alive (AQC_KeepAliveID  *)
(* from the one, WdgAqc_KeepAliveID from the other), the watchdog's memory  *)
(* status, and any further u_int8_t.                                        *)
MsgId(p) == IF p = AQC THEN {"KeepAliveID", "other"}
                       ELSE {"KeepAliveID", "MemoryStatus_WDG", "other"}

VARIABLES
  boxId,        \* txClient_ID of each peer's client
  pending,      \* data signals of each client that wait in the main loop
  cnt,          \* AQC_Client_KeepAliveCnt and WdgAqc_Client_KeepAliveCnt
  rcv,          \* AQC_KeepAlive_Rcv and WdgAqc_KeepAlive_Rcv
  overLoad,     \* AQC_MemoryOverLoad
  centUp,       \* whether the central server is connected
  (* History; ticks of the 30 s timer are not counted for ever:             *)
  quiet,        \* ticks since a slot last restarted the counter, to Limit
  still,        \* ticks since a slot last ran for the peer, to CntMod
  heard,        \* a keep-alive was parsed since the counter was last assigned
  synced        \* the counter was ever assigned

history == <<quiet, still, heard, synced>>
vars    == <<boxId, pending, cnt, rcv, overLoad, centUp, history>>

Age   == 0..Limit
Still == 0..CntMod

Boxes == {b \in [Peer -> UNION {MsgId(p) : p \in Peer}] :
            \A p \in Peer : b[p] \in MsgId(p)}

TypeOK ==
  /\ boxId \in Boxes
  /\ pending \in [Peer -> 0..MaxPending]
  /\ cnt \in [Peer -> 0..CntMod-1]
  /\ rcv \in [Peer -> BOOLEAN] /\ overLoad \in BOOLEAN /\ centUp \in BOOLEAN
  /\ quiet \in [Peer -> Age] /\ still \in [Peer -> Still]
  /\ heard \in [Peer -> BOOLEAN] /\ synced \in [Peer -> BOOLEAN]

(* The constructor assigns neither txClient_ID nor the counters.            *)
Init ==
  /\ boxId \in Boxes
  /\ pending = [p \in Peer |-> 0]
  /\ cnt \in [Peer -> 0..CntMod-1]
  /\ rcv = [p \in Peer |-> FALSE] /\ overLoad = FALSE /\ centUp = FALSE
  /\ quiet = [p \in Peer |-> Limit]
  /\ still = [p \in Peer |-> CntMod]
  /\ heard = [p \in Peer |-> FALSE]
  /\ synced = [p \in Peer |-> FALSE]
-----------------------------------------------------------------------------
(* The client's thread: Parse_Byte accepts a frame.                         *)
Parse_Byte(p, id) ==
  /\ pending[p] < MaxPending
  /\ boxId' = [boxId EXCEPT ![p] = id]
  /\ pending' = [pending EXCEPT ![p] = @ + 1]
  /\ heard' = [heard EXCEPT ![p] = @ \/ id = "KeepAliveID"]
  /\ UNCHANGED <<cnt, rcv, overLoad, centUp, quiet, still, synced>>

(* The link check of timerConnectionsCheckSlot: it leaves a message for a   *)
(* connected AQC program, and renews the client of a lost one.              *)
ConnectionsCheck_AqcUp ==
  /\ boxId' = [p \in Peer |-> IF p = AQC THEN "other" ELSE boxId[p]]
  /\ UNCHANGED <<pending, cnt, rcv, overLoad, centUp, history>>

(* initWdgAqcConn, and initAqcLanConn: a new client, whose txClient_ID the  *)
(* constructor does not assign.                                             *)
initConn(p) == \E id \in MsgId(p) : boxId' = [boxId EXCEPT ![p] = id]

ConnectionsCheck_Down(p) ==
  /\ initConn(p)
  /\ UNCHANGED <<pending, cnt, rcv, overLoad, centUp, history>>

(* What both slots do with the identifier they find.                        *)
Served(p) ==
  /\ pending[p] > 0
  /\ pending' = [pending EXCEPT ![p] = @ - 1]
  /\ rcv' = [rcv EXCEPT ![p] = TRUE]
  /\ still' = [still EXCEPT ![p] = 0]
  /\ IF boxId[p] = "KeepAliveID"
     THEN /\ cnt' = [cnt EXCEPT ![p] = 0]
          /\ quiet' = [quiet EXCEPT ![p] = 0]
          /\ heard' = [heard EXCEPT ![p] = FALSE]
          /\ synced' = [synced EXCEPT ![p] = TRUE]
     ELSE UNCHANGED <<cnt, quiet, heard, synced>>
  /\ UNCHANGED <<boxId, centUp>>

AQC2CtrlDataSlot ==
  /\ AQC \in Peer /\ Served(AQC)
  /\ overLoad' = FALSE

WdgAqc2CtrlDataSlot ==
  /\ WdgAqc \in Peer /\ Served(WdgAqc)
  /\ overLoad' = (overLoad \/ boxId[WdgAqc] = "MemoryStatus_WDG")

(* Mutant: a counter that does not wrap around.                             *)
Inc_Wider(n) == n + 1

(* A u_int8_t wraps around.                                                 *)
Inc(n) == IF n = CntMod - 1 THEN 0 ELSE n + 1

Older(age, most) == [p \in Peer |-> IF age[p] = most THEN most ELSE age[p] + 1]

(* Mutants: the limit is reached one tick early; an alarm needs a message   *)
(* since the one before.                                                    *)
Due_Early == {p \in Peer : Inc(cnt[p]) = Limit - 1}
Due_Once  == {p \in Peer : Inc(cnt[p]) = Limit /\ rcv[p]}

(* The peers whose counter this tick brings to the limit.                   *)
Due == {p \in Peer : Inc(cnt[p]) = Limit}

(* Mutant: the alarm leaves KeepAlive_Rcv alone.                            *)
timerTCP_KeepAliveCheckSlot_Shown ==
  /\ cnt' = [p \in Peer |-> IF p \in Due THEN 0 ELSE Inc(cnt[p])]
  /\ quiet' = Older(quiet, Limit) /\ still' = Older(still, CntMod)
  /\ heard' = [p \in Peer |-> heard[p] /\ p \notin Due]
  /\ synced' = [p \in Peer |-> synced[p] \/ p \in Due]
  /\ UNCHANGED <<boxId, pending, rcv, overLoad, centUp>>

(* The alarm is written to the server's socket, or lost if that is closed,  *)
(* which Reported below tells apart.                                        *)
timerTCP_KeepAliveCheckSlot ==
  /\ cnt' = [p \in Peer |-> IF p \in Due THEN 0 ELSE Inc(cnt[p])]
  /\ rcv' = [p \in Peer |-> rcv[p] /\ p \notin Due]
  /\ quiet' = Older(quiet, Limit) /\ still' = Older(still, CntMod)
  /\ heard' = [p \in Peer |-> heard[p] /\ p \notin Due]
  /\ synced' = [p \in Peer |-> synced[p] \/ p \in Due]
  /\ UNCHANGED <<boxId, pending, overLoad, centUp>>

CentServerLink ==
  /\ centUp' = ~centUp
  /\ UNCHANGED <<boxId, pending, cnt, rcv, overLoad, history>>

Next ==
  \/ \E p \in Peer : \E id \in MsgId(p) : Parse_Byte(p, id)
  \/ ConnectionsCheck_AqcUp
  \/ \E p \in Peer : ConnectionsCheck_Down(p)
  \/ AQC2CtrlDataSlot
  \/ WdgAqc2CtrlDataSlot
  \/ timerTCP_KeepAliveCheckSlot
  \/ CentServerLink

(* The 30 s timer keeps firing; nobody owes a message.                      *)
Spec == Init /\ [][Next]_vars /\ WF_vars(timerTCP_KeepAliveCheckSlot)
-----------------------------------------------------------------------------
(* A tick raises the alarm of a peer.                                       *)
Raised(p) == synced[p] /\ timerTCP_KeepAliveCheckSlot /\ p \in Due

(* An alarm means four ticks without a keep-alive having been taken note    *)
(* of, once the counter was assigned: an earlier alarm, a lost one, or      *)
(* other messages in between do not bring it forward.                       *)
AlarmMeansSilence == [][\A p \in Peer : Raised(p) => quiet'[p] = Limit]_vars

(* A peer that has sent nothing at all is shown as not received, although   *)
(* any message but only the alarm of a counter that other messages do not   *)
(* restart changes what is shown: after four ticks once the counter was     *)
(* assigned, and from whatever it held at the start once it has wrapped     *)
(* around, which takes as many ticks as it has values.                      *)
Patience(p) == IF synced[p] THEN Limit ELSE CntMod

SilenceIsShown == \A p \in Peer : still[p] >= Patience(p) => ~rcv[p]

(* A tick writes the alarm of a peer to the server's socket.                *)
Reported(p) == timerTCP_KeepAliveCheckSlot /\ p \in Due /\ centUp

(* A peer that sends no keep-alive any more is reported to a server that    *)
(* stays connected, again and again, whatever the counter held at start.    *)
SilenceIsReported ==
  \A p \in Peer : <>[](quiet[p] = Limit /\ centUp) => []<><<Reported(p)>>_vars

(* The alarm stands for a keep-alive that was not received: while the       *)
(* counter ran up none was parsed, unless its slot has yet to run.          *)
AlarmMeansNotReceived ==
  [][\A p \in Peer : Raised(p) /\ pending[p] = 0 => ~heard[p]]_vars
=============================================================================
