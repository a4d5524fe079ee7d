-------------------------- MODULE KeepAliveProofs --------------------------
(***************************************************************************)
(* Proofs about KeepAlive: for both programs, any width of the counters    *)
(* and any backlog of frames.                                              *)
(***************************************************************************)
EXTENDS KeepAlive, TLAPS

(* Once assigned, a counter stays below the limit and counts no more ticks  *)
(* than the keep-alives have been missing.                                  *)
Counted(p) == synced[p] => cnt[p] < Limit /\ cnt[p] <= quiet[p]

(* The ticks that bring a counter from c to the limit.                      *)
Left(c) == IF c < Limit THEN Limit - c ELSE Limit + CntMod - c

(* While a silent peer is shown as received, its alarm comes in time.       *)
InTime(p) == rcv[p] => still[p] + Left(cnt[p]) <= Patience(p)

IInv == TypeOK /\ \A p \in Peer : Counted(p) /\ InTime(p)
-----------------------------------------------------------------------------
LEMMA InitIInv == Init => IInv
<1> SUFFICES ASSUME Init PROVE IInv
  OBVIOUS
<1>1. pending \in [Peer -> 0..MaxPending]
  BY KeepAliveAssumption DEF Init
<1>2. quiet \in [Peer -> Age] /\ still \in [Peer -> Still]
  BY KeepAliveAssumption DEF Init, Age, Still, Limit
<1>3. /\ rcv \in [Peer -> BOOLEAN] /\ heard \in [Peer -> BOOLEAN]
      /\ synced \in [Peer -> BOOLEAN] /\ overLoad \in BOOLEAN
      /\ centUp \in BOOLEAN
  BY DEF Init
<1>4. \A p \in Peer : ~synced[p] /\ ~rcv[p]
  BY DEF Init
<1>5. QED
  BY <1>1, <1>2, <1>3, <1>4 DEF Init, IInv, TypeOK, Counted, InTime

LEMMA TypeOKParse ==
  ASSUME TypeOK, NEW p \in Peer, NEW id \in MsgId(p), Parse_Byte(p, id)
  PROVE  TypeOK'
<1>1. boxId' \in Boxes
  BY DEF TypeOK, Parse_Byte, Boxes
<1>2. pending' \in [Peer -> 0..MaxPending]
  BY KeepAliveAssumption DEF TypeOK, Parse_Byte
<1>3. heard' \in [Peer -> BOOLEAN]
  BY DEF TypeOK, Parse_Byte
<1>4. QED
  BY <1>1, <1>2, <1>3 DEF TypeOK, Parse_Byte

LEMMA TypeOKServed ==
  ASSUME TypeOK, NEW p \in Peer, Served(p), overLoad' \in BOOLEAN
  PROVE  TypeOK'
<1>1. pending' \in [Peer -> 0..MaxPending]
  BY KeepAliveAssumption DEF TypeOK, Served
<1>2. rcv' \in [Peer -> BOOLEAN] /\ still' \in [Peer -> Still]
  BY KeepAliveAssumption DEF TypeOK, Served, Still, Limit
<1>3. /\ cnt' \in [Peer -> 0..CntMod-1] /\ quiet' \in [Peer -> Age]
      /\ heard' \in [Peer -> BOOLEAN] /\ synced' \in [Peer -> BOOLEAN]
  <2>1. 0 \in 0..CntMod-1 /\ 0 \in Age
    BY KeepAliveAssumption DEF Age, Limit
  <2>2. CASE boxId[p] = "KeepAliveID"
    BY <2>1, <2>2 DEF TypeOK, Served
  <2>3. CASE boxId[p] # "KeepAliveID"
    BY <2>3 DEF TypeOK, Served
  <2>4. QED
    BY <2>2, <2>3
<1>4. QED
  BY <1>1, <1>2, <1>3 DEF TypeOK, Served

LEMMA OlderType ==
  ASSUME NEW most \in Nat
  PROVE  \A age \in [Peer -> 0..most] : Older(age, most) \in [Peer -> 0..most]
BY DEF Older

LEMMA IncType == \A n \in 0..CntMod-1 : Inc(n) \in 0..CntMod-1
BY KeepAliveAssumption DEF Inc

LEMMA TypeOKTick == TypeOK /\ timerTCP_KeepAliveCheckSlot => TypeOK'
<1> SUFFICES ASSUME TypeOK, timerTCP_KeepAliveCheckSlot PROVE TypeOK'
  OBVIOUS
<1>1. cnt' \in [Peer -> 0..CntMod-1]
  BY IncType, KeepAliveAssumption DEF TypeOK, timerTCP_KeepAliveCheckSlot
<1>2. /\ rcv' \in [Peer -> BOOLEAN] /\ heard' \in [Peer -> BOOLEAN]
      /\ synced' \in [Peer -> BOOLEAN]
  BY DEF TypeOK, timerTCP_KeepAliveCheckSlot
<1>3. quiet' \in [Peer -> Age] /\ still' \in [Peer -> Still]
  <2>1. Limit \in Nat /\ CntMod \in Nat
    BY KeepAliveAssumption DEF Limit
  <2>2. QED
    BY <2>1, OlderType DEF TypeOK, timerTCP_KeepAliveCheckSlot, Age, Still
<1>4. QED
  BY <1>1, <1>2, <1>3 DEF TypeOK, timerTCP_KeepAliveCheckSlot

LEMMA TypeOKStep == TypeOK /\ [Next]_vars => TypeOK'
<1> SUFFICES ASSUME TypeOK, [Next]_vars PROVE TypeOK'
  OBVIOUS
<1>1. ASSUME NEW p \in Peer, NEW id \in MsgId(p), Parse_Byte(p, id)
      PROVE  TypeOK'
  BY <1>1, TypeOKParse
<1>2. CASE ConnectionsCheck_AqcUp
  BY <1>2 DEF TypeOK, Boxes, MsgId, ConnectionsCheck_AqcUp, history
<1>3. ASSUME NEW p \in Peer, ConnectionsCheck_Down(p) PROVE TypeOK'
  BY <1>3 DEF TypeOK, Boxes, ConnectionsCheck_Down, initConn, history
<1>4. CASE AQC2CtrlDataSlot
  BY <1>4, TypeOKServed DEF AQC2CtrlDataSlot
<1>5. CASE WdgAqc2CtrlDataSlot
  <2>1. overLoad' \in BOOLEAN
    BY <1>5 DEF WdgAqc2CtrlDataSlot, TypeOK
  <2>2. QED
    BY <1>5, <2>1, TypeOKServed DEF WdgAqc2CtrlDataSlot
<1>6. CASE timerTCP_KeepAliveCheckSlot
  BY <1>6, TypeOKTick
<1>7. CASE CentServerLink
  BY <1>7 DEF TypeOK, CentServerLink, history
<1>8. CASE UNCHANGED vars
  BY <1>8 DEF TypeOK, vars, history
<1>9. QED
  BY <1>1, <1>2, <1>3, <1>4, <1>5, <1>6, <1>7, <1>8 DEF Next

(* The mailboxes, counters and flags always hold values of their types: in  *)
(* particular no counter leaves the range of its width.                     *)
THEOREM TypeCorrect == Spec => []TypeOK
<1>1. Init => TypeOK
  BY InitIInv DEF IInv
<1>2. QED
  BY <1>1, TypeOKStep, PTL DEF Spec
-----------------------------------------------------------------------------
(* A slot restarts the counter, or leaves it and shows the peer received.   *)
LEMMA CountedServed ==
  ASSUME IInv, NEW p \in Peer, Served(p), NEW q \in Peer
  PROVE  (Counted(q) /\ InTime(q))'
<1>t. /\ cnt[q] \in 0..CntMod-1 /\ quiet[q] \in Age /\ still[q] \in Still
      /\ synced[q] \in BOOLEAN /\ rcv[q] \in BOOLEAN
  BY DEF IInv, TypeOK
<1>1. CASE q # p
  <2>1. UNCHANGED <<cnt[q], quiet[q], still[q], synced[q], rcv[q]>>
    BY <1>1 DEF Served, IInv, TypeOK
  <2>2. QED
    BY <2>1 DEF IInv, Counted, InTime, Patience
<1>2. CASE q = p /\ boxId[p] = "KeepAliveID"
  <2>1. cnt'[q] = 0 /\ quiet'[q] = 0 /\ still'[q] = 0 /\ synced'[q]
    BY <1>2 DEF Served, IInv, TypeOK
  <2>2. QED
    BY <2>1 DEF Counted, InTime, Patience, Left, Limit
<1>3. CASE q = p /\ boxId[p] # "KeepAliveID"
  <2>1. UNCHANGED <<cnt[q], quiet[q], synced[q]>> /\ still'[q] = 0
    BY <1>3 DEF Served, IInv, TypeOK
  <2>2. Left(cnt[q]) <= Patience(q)
    BY <1>t, KeepAliveAssumption DEF IInv, Counted, Left, Patience, Limit
  <2>3. Counted(q)'
    <3>1. Counted(q)
      BY DEF IInv
    <3>2. synced'[q] = synced[q] /\ cnt'[q] = cnt[q] /\ quiet'[q] = quiet[q]
      BY <2>1
    <3>3. QED
      BY <1>t, <3>1, <3>2 DEF Counted, Limit, Age
  <2>4. InTime(q)'
    BY <1>t, <2>1, <2>2, KeepAliveAssumption DEF InTime, Left, Patience, Limit
  <2>5. QED
    BY <2>3, <2>4
<1>4. QED
  BY <1>1, <1>2, <1>3

LEMMA CountedTick ==
  ASSUME IInv, timerTCP_KeepAliveCheckSlot, NEW q \in Peer
  PROVE  (Counted(q) /\ InTime(q))'
<1>t. /\ cnt[q] \in 0..CntMod-1 /\ quiet[q] \in Age /\ still[q] \in Still
      /\ synced[q] \in BOOLEAN /\ rcv[q] \in BOOLEAN
      /\ CntMod \in Nat /\ CntMod > 4
  BY KeepAliveAssumption DEF IInv, TypeOK, Limit
<1>q. /\ quiet'[q] = IF quiet[q] = Limit THEN Limit ELSE quiet[q] + 1
      /\ still'[q] = IF still[q] = CntMod THEN CntMod ELSE still[q] + 1
  BY DEF timerTCP_KeepAliveCheckSlot, Older
<1>1. CASE q \in Due
  <2>1. cnt'[q] = 0 /\ ~rcv'[q]
    BY <1>1 DEF timerTCP_KeepAliveCheckSlot
  <2>2. QED
    BY <1>t, <1>q, <2>1 DEF Counted, InTime, Limit, Age
<1>2. CASE q \notin Due
  <2>1. /\ Inc(cnt[q]) # Limit /\ cnt'[q] = Inc(cnt[q])
        /\ synced'[q] = synced[q] /\ rcv'[q] = rcv[q]
    BY <1>2, <1>t DEF timerTCP_KeepAliveCheckSlot, Due
  <2>2. Left(Inc(cnt[q])) = Left(cnt[q]) - 1
    BY <1>t, <2>1 DEF Left, Inc, Limit
  <2>3. Counted(q)'
    <3>1. synced[q] => cnt[q] < Limit /\ cnt[q] <= quiet[q]
      BY DEF IInv, Counted
    <3>2. synced[q] => Inc(cnt[q]) < Limit /\ Inc(cnt[q]) <= quiet'[q]
      BY <1>t, <1>q, <2>1, <3>1 DEF Inc, Limit, Age
    <3>3. synced'[q] => cnt'[q] < Limit /\ cnt'[q] <= quiet'[q]
      BY <2>1, <3>2
    <3>4. QED
      BY <3>3 DEF Counted
  <2>4. InTime(q)'
    <3>1. rcv[q] => still[q] + Left(cnt[q]) <= Patience(q)
      BY DEF IInv, InTime
    <3>2. Left(cnt[q]) \in Int /\ Patience(q) \in Int /\ Patience(q)' = Patience(q)
      BY <1>t, <2>1 DEF Left, Patience, Limit
    <3>3. still'[q] <= still[q] + 1 /\ still[q] \in Int /\ still'[q] \in Int
      BY <1>t, <1>q DEF Still
    <3>4. Left(cnt[q])' = Left(cnt[q]) - 1
      BY <2>1, <2>2
    <3>5. rcv[q] => still'[q] + (Left(cnt[q]) - 1) <= Patience(q)
      BY <3>1, <3>2, <3>3
    <3>6. QED
      BY <2>1, <3>2, <3>4, <3>5 DEF InTime
  <2>5. QED
    BY <2>3, <2>4
<1>3. QED
  BY <1>1, <1>2

LEMMA IInvStep == IInv /\ [Next]_vars => IInv'
<1> SUFFICES ASSUME IInv, [Next]_vars PROVE IInv'
  OBVIOUS
<1>1. TypeOK'
  BY TypeOKStep DEF IInv
<1>2. ASSUME NEW q \in Peer PROVE (Counted(q) /\ InTime(q))'
  <2>1. CASE AQC2CtrlDataSlot \/ WdgAqc2CtrlDataSlot
    BY <2>1, CountedServed DEF AQC2CtrlDataSlot, WdgAqc2CtrlDataSlot
  <2>2. CASE timerTCP_KeepAliveCheckSlot
    BY <2>2, CountedTick
  <2>3. CASE UNCHANGED <<cnt, rcv, quiet, still, synced>>
    BY <2>3 DEF IInv, Counted, InTime, Patience
  <2>4. QED
    BY <2>1, <2>2, <2>3
       DEF Next, Parse_Byte, ConnectionsCheck_AqcUp, ConnectionsCheck_Down, initConn,
           CentServerLink, vars, history
<1>3. QED
  BY <1>1, <1>2 DEF IInv

(* A silent peer is shown as not received: after four ticks once its        *)
(* counter was assigned, and from whatever an unassigned counter held       *)
(* (controller.cpp:529) after as many ticks as the counter has values.      *)
THEOREM SilenceIsAlwaysShown == Spec => []SilenceIsShown
<1>1. IInv => SilenceIsShown
  <2> SUFFICES ASSUME IInv, NEW p \in Peer, still[p] >= Patience(p), rcv[p]
               PROVE  FALSE
    BY DEF SilenceIsShown
  <2>1. still[p] + Left(cnt[p]) <= Patience(p)
    BY DEF IInv, InTime
  <2>2. cnt[p] \in 0..CntMod-1 /\ still[p] \in Still
    BY DEF IInv, TypeOK
  <2>3. Left(cnt[p]) > 0 /\ Left(cnt[p]) \in Int /\ Patience(p) \in Int
    BY <2>2, KeepAliveAssumption DEF Left, Patience, Limit
  <2>4. QED
    BY <2>1, <2>2, <2>3, KeepAliveAssumption DEF Still
<1>2. QED
  BY <1>1, InitIInv, IInvStep, PTL DEF Spec

(* No alarm of an assigned counter is raised in less than four ticks after  *)
(* a keep-alive was taken note of.                                          *)
THEOREM NoEarlyAlarm == Spec => AlarmMeansSilence
<1>1. IInv => \A p \in Peer : Raised(p) => quiet'[p] = Limit
  <2> SUFFICES ASSUME IInv, NEW p \in Peer, Raised(p) PROVE quiet'[p] = Limit
    OBVIOUS
  <2>1. /\ cnt[p] \in 0..CntMod-1 /\ quiet[p] \in Age
        /\ cnt[p] < Limit /\ cnt[p] <= quiet[p]
    BY DEF IInv, TypeOK, Counted, Raised
  <2>2. Inc(cnt[p]) = Limit
    BY DEF Raised, Due
  <2>3. quiet[p] = Limit \/ quiet[p] + 1 = Limit
    BY <2>1, <2>2, KeepAliveAssumption DEF Inc, Limit, Age
  <2>4. quiet'[p] = IF quiet[p] = Limit THEN Limit ELSE quiet[p] + 1
    BY DEF Raised, timerTCP_KeepAliveCheckSlot, Older
  <2>5. QED
    BY <2>3, <2>4
<1>2. QED
  BY <1>1, InitIInv, IInvStep, PTL DEF Spec, AlarmMeansSilence
=============================================================================
