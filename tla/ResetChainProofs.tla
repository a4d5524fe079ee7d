-------------------------- MODULE ResetChainProofs --------------------------
(***************************************************************************)
(* Proofs about ResetChain: for any number of relays, messages, failing    *)
(* requests and waiting signals, and any size of the modem's pages.        *)
(***************************************************************************)
EXTENDS ResetChain, TLAPS

(* Messages are told apart by their number, and none has yet to arrive.     *)
Numbered ==
  /\ \A m, k \in inbox : m.n = k.n => m = k
  /\ \A m, k \in page : m.n = k.n => m = k
  /\ \A m \in inbox \cup page : m.n <= arrived

(* What an accepted message names has been requested.                       *)
Asked == /\ \A m \in inbox \cup page : Accepted(m) => m.text.bits \subseteq requested
         /\ bits \subseteq requested

(* The mask under way and the digits still to be looked for are together    *)
(* those of the message the loop is at.                                     *)
Composing ==
  smsPc = "masks" =>
    \E m \in page : /\ At(m) /\ Accepted(m) /\ m.unread
                    /\ bits \cup digits = m.text.bits

(* Between two compositions bitRelaysCtrl is that of the last command.      *)
Settled == smsPc # "masks" /\ last # {} => bits \in last

(* An unread message was launched no more often than requests have failed,  *)
(* but for the one that is about to be marked or was just left unread.      *)
Counted ==
  /\ \A n \in 1..MaxSms : n > arrived => launches[n] = 0
  /\ \A m \in inbox : m.unread =>
       \/ launches[m.n] <= failures
       \/ smsPc = "setRead" /\ \E k \in page : At(k) /\ k.n = m.n
  /\ \A m \in page : m.unread =>
       \/ launches[m.n] <= failures
       \/ smsPc \in {"setRead", "next"} /\ At(m)

IInv ==
  /\ TypeOK /\ Numbered /\ Asked /\ Composing /\ Settled /\ Counted
  /\ OnlyRequested /\ LatestWins /\ RelaunchNeedsFailure
-----------------------------------------------------------------------------
LEMMA SmsType ==
  ASSUME NEW m \in Sms
  PROVE  /\ m.n \in 1..MaxSms /\ m.n \in Nat /\ m.unread \in BOOLEAN
         /\ m.text \in Text /\ m.text.bits \subseteq Relay
BY ResetAssumption DEF Sms, Texts

(* The loop is at one message only.                                         *)
LEMMA AtIsUnique ==
  ASSUME TypeOK, Numbered, NEW m \in page, NEW k \in page, At(m), At(k)
  PROVE  m = k
<1>1. m.n <= k.n /\ k.n <= m.n
  BY DEF At
<1>2. m.n \in Nat /\ k.n \in Nat
  BY SmsType DEF TypeOK
<1>3. QED
  BY <1>1, <1>2 DEF Numbered

LEMMA InitIInv == Init => IInv
<1> SUFFICES ASSUME Init PROVE IInv
  OBVIOUS
<1>1. TypeOK
  <2>1. MaxSms \in Nat /\ MaxFailures \in Nat /\ MaxPending \in Nat
    BY ResetAssumption
  <2>2. spiBits \subseteq Relay
    BY ResetAssumption DEF Init
  <2>3. launches \in [1..MaxSms -> Nat]
    BY DEF Init
  <2>4. 0 \in 0..MaxSms /\ 0 \in 0..MaxPending /\ 0 \in 0..MaxFailures
    BY <2>1
  <2>5. QED
    BY <2>2, <2>3, <2>4 DEF Init, TypeOK
<1>2. Numbered /\ Asked /\ Composing /\ Settled
  BY DEF Init, Numbered, Asked, Composing, Settled
<1>3. Counted /\ RelaunchNeedsFailure
  BY DEF Init, Counted, RelaunchNeedsFailure
<1>4. OnlyRequested /\ LatestWins
  BY DEF Init, OnlyRequested, LatestWins
<1>5. QED
  BY <1>1, <1>2, <1>3, <1>4 DEF IInv
-----------------------------------------------------------------------------
LEMMA TypeOKStep == ASSUME TypeOK, Next PROVE TypeOK'
<1> MaxSms \in Nat /\ MaxFailures \in Nat /\ MaxPending \in Nat
  BY ResetAssumption
<1> USE DEF smsVars, spiVars, history, Answered, Failed, DeleteMsg, SendSms
<1>1. ASSUME NEW t \in Text, Arrive(t) PROVE TypeOK'
  <2>1. [n |-> arrived + 1, text |-> t, unread |-> TRUE] \in Sms
    BY <1>1 DEF TypeOK, Arrive, Sms
  <2>2. t.bits \subseteq Relay
    BY ResetAssumption DEF Texts
  <2>3. inbox' \subseteq Sms
    BY <1>1, <2>1 DEF TypeOK, Arrive
  <2>4. arrived' \in 0..MaxSms
    BY <1>1 DEF TypeOK, Arrive
  <2>5. requested' \subseteq Relay
    BY <1>1, <2>2 DEF TypeOK, Arrive
  <2>6. QED
    BY <1>1, <2>3, <2>4, <2>5 DEF TypeOK, Arrive
<1>2. CASE check_Unread_SMS
  BY <1>2 DEF TypeOK, check_Unread_SMS
<1>3. CASE ReadAllSMS_List
  <2>1. Page \subseteq Sms
    BY DEF TypeOK, Page
  <2>2. QED
    BY <1>3, <2>1 DEF TypeOK, ReadAllSMS_List, Leave
<1>4. CASE ReadAllSMS_Refuse
  BY <1>4 DEF TypeOK, ReadAllSMS_Refuse, Leave
<1>5. CASE ReadAllSMS_Skip
  BY <1>5 DEF TypeOK, ReadAllSMS_Skip
<1>6. CASE ReadAllSMS_Reset
  <2>1. PICK m \in page : digits' = m.text.bits
    BY <1>6 DEF ReadAllSMS_Reset
  <2>2. digits' \subseteq Relay
    BY <2>1, SmsType DEF TypeOK
  <2>3. QED
    BY <1>6, <2>2 DEF TypeOK, ReadAllSMS_Reset
<1>7. CASE ReadAllSMS_Mask
  BY <1>7 DEF TypeOK, ReadAllSMS_Mask
<1>8. CASE ReadAllSMS_Emit
  <2>1. PICK m \in page : /\ launches' = [launches EXCEPT ![m.n] = @ + 1]
                          /\ last' = {m.text.bits}
    BY <1>8 DEF ReadAllSMS_Emit
  <2>2. launches' \in [1..MaxSms -> Nat]
    BY <2>1, SmsType DEF TypeOK
  <2>3. last' \subseteq SUBSET Relay
    BY <2>1, SmsType DEF TypeOK
  <2>4. mainQ' \in Nat /\ smsPc' = "setRead"
    BY <1>8 DEF TypeOK, ReadAllSMS_Emit
  <2>5. QED
    BY <1>8, <2>2, <2>3, <2>4 DEF TypeOK, ReadAllSMS_Emit
<1>9. CASE SetReadMsgRcv
  <2>1. inbox' \subseteq Sms
    <3>1. CASE UNCHANGED inbox
      BY <3>1 DEF TypeOK
    <3>2. ASSUME NEW m \in page,
                 inbox' = {[k EXCEPT !.unread = @ /\ k.n # m.n] : k \in inbox}
          PROVE  inbox' \subseteq Sms
      <4>1. ASSUME NEW k \in inbox
            PROVE  [k EXCEPT !.unread = @ /\ k.n # m.n] \in Sms
        BY DEF TypeOK, Sms
      <4>2. QED
        BY <3>2, <4>1
    <3>3. QED
      BY <1>9, <3>1, <3>2 DEF SetReadMsgRcv
  <2>2. QED
    BY <1>9, <2>1 DEF TypeOK, SetReadMsgRcv
<1>10. CASE ReadAllSMS_Next
  <2>1. inbox' \subseteq Sms
    BY <1>10 DEF TypeOK, ReadAllSMS_Next
  <2>2. page' \subseteq Sms /\ i' \in Nat /\ smsPc' \in {"loop", "message"}
    BY <1>10 DEF TypeOK, ReadAllSMS_Next, Advance, Leave
  <2>3. failures' \in 0..MaxFailures
    BY <1>10 DEF TypeOK, ReadAllSMS_Next
  <2>4. QED
    BY <1>10, <2>1, <2>2, <2>3 DEF TypeOK, ReadAllSMS_Next
<1>11. CASE Ctrl2SMS_DataSlot
  BY <1>11 DEF TypeOK, Ctrl2SMS_DataSlot
<1>12. CASE SmsCmdResetRelays_Slot
  BY <1>12 DEF TypeOK, SmsCmdResetRelays_Slot
<1>13. CASE timerConnectionsCheckSlot
  BY <1>13 DEF TypeOK, timerConnectionsCheckSlot
<1>14. CASE rxSPI_DataSlot
  BY <1>14 DEF TypeOK, rxSPI_DataSlot
<1>15. CASE rxSPI_DataSlot_Clear
  BY <1>15 DEF TypeOK, rxSPI_DataSlot_Clear
<1>16. QED
  BY <1>1, <1>2, <1>3, <1>4, <1>5, <1>6, <1>7, <1>8, <1>9, <1>10, <1>11, <1>12,
     <1>13, <1>14, <1>15 DEF Next, SmsThread, ReadAllSMS, SpiThread
-----------------------------------------------------------------------------
(* Marking a message leaves the number and the text of every one alone.     *)
LEMMA Marking ==
  ASSUME TypeOK, NEW m \in page, NEW k \in inbox',
         inbox' = {[j EXCEPT !.unread = @ /\ j.n # m.n] : j \in inbox}
  PROVE  \E j \in inbox : /\ k.n = j.n /\ k.text = j.text
                          /\ k = [j EXCEPT !.unread = @ /\ j.n # m.n]
                          /\ k.unread => j.unread /\ j.n # m.n
<1>1. PICK j \in inbox : k = [j EXCEPT !.unread = @ /\ j.n # m.n]
  OBVIOUS
<1>2. j \in Sms
  BY DEF TypeOK
<1>3. k.n = j.n /\ k.text = j.text /\ k.unread = (j.unread /\ j.n # m.n)
  BY <1>1, <1>2 DEF Sms
<1>4. QED
  BY <1>1, <1>3

LEMMA NumberedStep == ASSUME TypeOK, Numbered, Next PROVE Numbered'
<1> USE DEF smsVars, spiVars, history, DeleteMsg, SendSms
<1>1. ASSUME NEW t \in Text, Arrive(t) PROVE Numbered'
  <2>1. \A m \in inbox \cup page : m.n \in Nat /\ m.n <= arrived
    BY SmsType DEF TypeOK, Numbered
  <2>2. arrived \in Nat
    BY ResetAssumption DEF TypeOK
  <2>3. DEFINE new == [n |-> arrived + 1, text |-> t, unread |-> TRUE]
  <2>4. new.n = arrived + 1 /\ \A m \in inbox \cup page : m.n # new.n
    BY <2>1, <2>2
  <2>5. inbox' = inbox \cup {new} /\ page' = page /\ arrived' = arrived + 1
    BY <1>1 DEF Arrive
  <2> HIDE DEF new
  <2>6. \A m \in inbox' \cup page' : m.n <= arrived'
    BY <2>1, <2>2, <2>4, <2>5
  <2>7. \A m, k \in inbox' : m.n = k.n => m = k
    BY <2>4, <2>5 DEF Numbered
  <2>8. QED
    BY <2>5, <2>6, <2>7 DEF Numbered
<1>2. CASE ReadAllSMS_List
  <2>1. Page \subseteq inbox
    BY DEF Page
  <2>2. inbox' = inbox /\ arrived' = arrived
    BY <1>2 DEF ReadAllSMS_List
  <2>3. page' = Page \/ page' = {}
    BY <1>2 DEF ReadAllSMS_List, Leave
  <2>4. QED
    BY <2>1, <2>2, <2>3 DEF Numbered
<1>3. CASE SetReadMsgRcv
  <2>1. page' = page /\ arrived' = arrived
    BY <1>3 DEF SetReadMsgRcv
  <2>2. ASSUME NEW m \in page,
               inbox' = {[j EXCEPT !.unread = @ /\ j.n # m.n] : j \in inbox}
        PROVE  Numbered'
    <3>1. ASSUME NEW k \in inbox' PROVE k.n <= arrived'
      <4>1. PICK j \in inbox : k.n = j.n
        BY <2>2, Marking
      <4>2. QED
        BY <2>1, <4>1 DEF Numbered
    <3>2. \A k, l \in inbox' : k.n = l.n => k = l
      <4> SUFFICES ASSUME NEW k \in inbox', NEW l \in inbox', k.n = l.n
                   PROVE  k = l
        OBVIOUS
      <4>1. PICK j \in inbox : k.n = j.n /\ k = [j EXCEPT !.unread = @ /\ j.n # m.n]
        BY <2>2, Marking
      <4>2. PICK h \in inbox : l.n = h.n /\ l = [h EXCEPT !.unread = @ /\ h.n # m.n]
        BY <2>2, Marking
      <4>3. j = h
        BY <4>1, <4>2 DEF Numbered
      <4>4. QED
        BY <4>1, <4>2, <4>3
    <3>3. QED
      BY <2>1, <3>1, <3>2 DEF Numbered
  <2>3. CASE UNCHANGED inbox
    BY <2>1, <2>3 DEF Numbered
  <2>4. QED
    BY <1>3, <2>2, <2>3 DEF SetReadMsgRcv
<1>4. CASE ReadAllSMS_Next
  <2>1. inbox' \subseteq inbox /\ arrived' = arrived
    BY <1>4 DEF ReadAllSMS_Next
  <2>2. PICK m \in page : Advance(m)
    BY <1>4 DEF ReadAllSMS_Next
  <2>3. page' \subseteq page
    BY <2>2 DEF Advance, Leave
  <2>4. QED
    BY <2>1, <2>3 DEF Numbered
<1>5. CASE ReadAllSMS_Refuse
  BY <1>5 DEF Numbered, ReadAllSMS_Refuse, Leave
<1>6. CASE check_Unread_SMS
  BY <1>6 DEF Numbered, check_Unread_SMS
<1>7. CASE ReadAllSMS_Skip
  BY <1>7 DEF Numbered, ReadAllSMS_Skip
<1>8. CASE ReadAllSMS_Reset
  BY <1>8 DEF Numbered, ReadAllSMS_Reset
<1>9. CASE ReadAllSMS_Mask
  BY <1>9 DEF Numbered, ReadAllSMS_Mask
<1>10. CASE ReadAllSMS_Emit
  BY <1>10 DEF Numbered, ReadAllSMS_Emit
<1>11. CASE Ctrl2SMS_DataSlot
  BY <1>11 DEF Numbered, Ctrl2SMS_DataSlot
<1>12. CASE SmsCmdResetRelays_Slot
  BY <1>12 DEF Numbered, SmsCmdResetRelays_Slot
<1>13. CASE timerConnectionsCheckSlot
  BY <1>13 DEF Numbered, timerConnectionsCheckSlot
<1>14. CASE SpiThread
  BY <1>14 DEF Numbered, SpiThread, rxSPI_DataSlot, rxSPI_DataSlot_Clear
<1>15. QED
  BY <1>1, <1>2, <1>3, <1>4, <1>5, <1>6, <1>7, <1>8, <1>9, <1>10, <1>11, <1>12,
     <1>13, <1>14 DEF Next, SmsThread, ReadAllSMS
-----------------------------------------------------------------------------
(* What the loop may change while it stays at the same messages.            *)
LEMMA AtStays == ASSUME page' = page PROVE \A m \in page : At(m)' = At(m)
BY DEF At

LEMMA AskedStep == ASSUME TypeOK, Asked, Composing, Next PROVE Asked'
<1> USE DEF smsVars, spiVars, history, DeleteMsg, SendSms
<1>1. ASSUME NEW t \in Text, Arrive(t) PROVE Asked'
  <2>1. DEFINE new == [n |-> arrived + 1, text |-> t, unread |-> TRUE]
  <2>2. Accepted(new) => new.text.bits \subseteq requested'
    BY <1>1 DEF Arrive, Accepted
  <2>3. requested \subseteq requested'
    BY <1>1 DEF Arrive
  <2>4. inbox' = inbox \cup {new} /\ page' = page /\ bits' = bits
    BY <1>1 DEF Arrive
  <2> HIDE DEF new
  <2>5. QED
    BY <2>2, <2>3, <2>4 DEF Asked
<1>2. CASE ReadAllSMS_List
  BY <1>2 DEF Asked, ReadAllSMS_List, Leave, Page
<1>3. CASE SetReadMsgRcv
  <2>1. page' = page /\ requested' = requested /\ bits' = bits
    BY <1>3 DEF SetReadMsgRcv
  <2>2. ASSUME NEW m \in page,
               inbox' = {[j EXCEPT !.unread = @ /\ j.n # m.n] : j \in inbox}
        PROVE  \A k \in inbox' : Accepted(k) => k.text.bits \subseteq requested'
    <3> SUFFICES ASSUME NEW k \in inbox', Accepted(k)
                 PROVE  k.text.bits \subseteq requested'
      OBVIOUS
    <3>1. PICK j \in inbox : k.text = j.text
      BY <2>2, Marking
    <3>2. QED
      BY <2>1, <3>1 DEF Asked, Accepted
  <2>3. QED
    BY <1>3, <2>1, <2>2 DEF Asked, SetReadMsgRcv
<1>4. CASE ReadAllSMS_Next
  <2>1. page' \subseteq page
    BY <1>4 DEF ReadAllSMS_Next, Advance, Leave
  <2>2. inbox' \subseteq inbox /\ requested' = requested /\ bits' = bits
    BY <1>4 DEF ReadAllSMS_Next
  <2>3. QED
    BY <2>1, <2>2 DEF Asked
<1>5. CASE ReadAllSMS_Mask
  <2>1. PICK d \in digits : bits' = bits \cup {d}
    BY <1>5 DEF ReadAllSMS_Mask
  <2>2. PICK m \in page : Accepted(m) /\ bits \cup digits = m.text.bits
    BY <1>5 DEF Composing, ReadAllSMS_Mask
  <2>3. m.text.bits \subseteq requested
    BY <2>2 DEF Asked
  <2>4. QED
    BY <1>5, <2>1, <2>2, <2>3 DEF Asked, ReadAllSMS_Mask
<1>6. CASE ReadAllSMS_Refuse
  BY <1>6 DEF Asked, ReadAllSMS_Refuse, Leave
<1>7. CASE check_Unread_SMS
  BY <1>7 DEF Asked, check_Unread_SMS
<1>8. CASE ReadAllSMS_Skip
  BY <1>8 DEF Asked, ReadAllSMS_Skip
<1>9. CASE ReadAllSMS_Reset
  BY <1>9 DEF Asked, ReadAllSMS_Reset
<1>10. CASE ReadAllSMS_Emit
  BY <1>10 DEF Asked, ReadAllSMS_Emit
<1>11. CASE Ctrl2SMS_DataSlot
  BY <1>11 DEF Asked, Ctrl2SMS_DataSlot
<1>12. CASE SmsCmdResetRelays_Slot
  BY <1>12 DEF Asked, SmsCmdResetRelays_Slot
<1>13. CASE timerConnectionsCheckSlot
  BY <1>13 DEF Asked, timerConnectionsCheckSlot
<1>14. CASE SpiThread
  BY <1>14 DEF Asked, SpiThread, rxSPI_DataSlot, rxSPI_DataSlot_Clear
<1>15. QED
  BY <1>1, <1>2, <1>3, <1>4, <1>5, <1>6, <1>7, <1>8, <1>9, <1>10, <1>11, <1>12,
     <1>13, <1>14 DEF Next, SmsThread, ReadAllSMS

LEMMA ComposingStep == ASSUME TypeOK, Composing, Next PROVE Composing'
<1> USE DEF smsVars, spiVars, history, DeleteMsg, SendSms
<1>1. CASE ReadAllSMS_Reset
  <2>1. PICK m \in page : At(m) /\ Accepted(m) /\ m.unread /\ digits' = m.text.bits
    BY <1>1 DEF ReadAllSMS_Reset
  <2>2. bits' = {} /\ page' = page
    BY <1>1 DEF ReadAllSMS_Reset
  <2>3. QED
    BY <2>1, <2>2, AtStays DEF Composing
<1>2. CASE ReadAllSMS_Mask
  <2>1. PICK m \in page : /\ At(m) /\ Accepted(m) /\ m.unread
                          /\ bits \cup digits = m.text.bits
    BY <1>2 DEF Composing, ReadAllSMS_Mask
  <2>2. bits' \cup digits' = bits \cup digits
    BY <1>2 DEF ReadAllSMS_Mask
  <2>3. page' = page
    BY <1>2 DEF ReadAllSMS_Mask
  <2>4. QED
    BY <2>1, <2>2, <2>3, AtStays DEF Composing
<1>3. CASE smsPc' # "masks"
  BY <1>3 DEF Composing
<1>4. CASE UNCHANGED <<page, bits, digits, smsPc>>
  <2>1. SUFFICES ASSUME smsPc = "masks"
                 PROVE  \E m \in page' : /\ At(m)' /\ Accepted(m) /\ m.unread
                                         /\ (bits \cup digits)' = m.text.bits
    BY <1>4 DEF Composing
  <2>2. PICK m \in page : /\ At(m) /\ Accepted(m) /\ m.unread
                          /\ bits \cup digits = m.text.bits
    BY <2>1 DEF Composing
  <2>3. QED
    BY <1>4, <2>2, AtStays
<1>5. \/ smsPc' # "masks" \/ UNCHANGED <<page, bits, digits, smsPc>>
      \/ ReadAllSMS_Reset \/ ReadAllSMS_Mask
  <2>1. ASSUME NEW t \in Text, Arrive(t)
        PROVE  UNCHANGED <<page, bits, digits, smsPc>>
    BY <2>1 DEF Arrive
  <2>2. ASSUME SmsCmdResetRelays_Slot \/ timerConnectionsCheckSlot \/ SpiThread
               \/ Ctrl2SMS_DataSlot
        PROVE  UNCHANGED <<page, bits, digits, smsPc>>
    BY <2>2 DEF SmsCmdResetRelays_Slot, timerConnectionsCheckSlot, SpiThread,
       rxSPI_DataSlot, rxSPI_DataSlot_Clear, Ctrl2SMS_DataSlot
  <2>3. ASSUME check_Unread_SMS \/ ReadAllSMS_List \/ ReadAllSMS_Refuse
               \/ ReadAllSMS_Skip \/ ReadAllSMS_Emit \/ SetReadMsgRcv
               \/ ReadAllSMS_Next
        PROVE  smsPc' # "masks"
    BY <2>3 DEF check_Unread_SMS, ReadAllSMS_List, ReadAllSMS_Refuse,
       ReadAllSMS_Skip, ReadAllSMS_Emit, SetReadMsgRcv, ReadAllSMS_Next,
       Advance, Leave
  <2>4. QED
    BY <2>1, <2>2, <2>3 DEF Next, SmsThread, ReadAllSMS
<1>6. QED
  BY <1>1, <1>2, <1>3, <1>4, <1>5

LEMMA BitsStep ==
  ASSUME TypeOK, Numbered, Asked, Composing, Settled, OnlyRequested, LatestWins, Next
  PROVE  Settled' /\ OnlyRequested' /\ LatestWins'
<1> USE DEF smsVars, spiVars, history, DeleteMsg, SendSms
<1>1. CASE ReadAllSMS_Emit
  <2>1. PICK m \in page : At(m) /\ last' = {m.text.bits}
    BY <1>1 DEF ReadAllSMS_Emit
  <2>2. PICK k \in page : At(k) /\ bits \cup digits = k.text.bits
    BY <1>1 DEF Composing, ReadAllSMS_Emit
  <2>3. m = k
    BY <2>1, <2>2, AtIsUnique
  <2>4. bits' \in last'
    BY <1>1, <2>1, <2>2, <2>3 DEF ReadAllSMS_Emit
  <2>5. mainQ' # 0
    BY <1>1 DEF TypeOK, ReadAllSMS_Emit
  <2>6. UNCHANGED <<handed, spiBits, requested>>
    BY <1>1 DEF ReadAllSMS_Emit
  <2>7. QED
    BY <2>4, <2>5, <2>6 DEF Settled, OnlyRequested, LatestWins
<1>2. CASE SmsCmdResetRelays_Slot
  BY <1>2 DEF Asked, Settled, OnlyRequested, LatestWins, SmsCmdResetRelays_Slot
<1>3. CASE smsPc' = "masks" /\ UNCHANGED <<handed, spiBits, requested>>
  BY <1>3 DEF Settled, OnlyRequested, LatestWins
<1>4. CASE /\ UNCHANGED <<bits, last, spiBits, mainQ>>
           /\ smsPc # "masks" \/ UNCHANGED smsPc
           /\ requested \subseteq requested'
           /\ handed = "never" => handed' = "never"
  BY <1>4 DEF Settled, OnlyRequested, LatestWins
<1>5. ASSUME NEW t \in Text, Arrive(t)
      PROVE  /\ UNCHANGED <<bits, last, spiBits, mainQ, smsPc, handed>>
             /\ requested \subseteq requested'
  BY <1>5 DEF Arrive
<1>6. ASSUME timerConnectionsCheckSlot \/ SpiThread \/ Ctrl2SMS_DataSlot
      PROVE  /\ UNCHANGED <<bits, last, spiBits, mainQ, smsPc, requested>>
             /\ handed = "never" => handed' = "never"
  BY <1>6 DEF timerConnectionsCheckSlot, SpiThread,
     rxSPI_DataSlot, rxSPI_DataSlot_Clear, Ctrl2SMS_DataSlot
<1>7. ASSUME check_Unread_SMS \/ ReadAllSMS_List \/ ReadAllSMS_Refuse
             \/ ReadAllSMS_Skip \/ SetReadMsgRcv \/ ReadAllSMS_Next
      PROVE  /\ UNCHANGED <<bits, last, spiBits, mainQ, requested, handed>>
             /\ smsPc # "masks"
  BY <1>7 DEF check_Unread_SMS, ReadAllSMS_List, ReadAllSMS_Refuse,
     ReadAllSMS_Skip, SetReadMsgRcv, ReadAllSMS_Next
<1>8. ASSUME ReadAllSMS_Reset \/ ReadAllSMS_Mask
      PROVE  smsPc' = "masks" /\ UNCHANGED <<handed, spiBits, requested>>
  BY <1>8 DEF ReadAllSMS_Reset, ReadAllSMS_Mask
<1>9. CASE \E t \in Text : Arrive(t)
  BY <1>4, <1>5, <1>9
<1>10. CASE timerConnectionsCheckSlot \/ SpiThread \/ Ctrl2SMS_DataSlot
  BY <1>4, <1>6, <1>10
<1>11. CASE \/ check_Unread_SMS \/ ReadAllSMS_List \/ ReadAllSMS_Refuse
            \/ ReadAllSMS_Skip \/ SetReadMsgRcv \/ ReadAllSMS_Next
  BY <1>4, <1>7, <1>11
<1>12. CASE ReadAllSMS_Reset \/ ReadAllSMS_Mask
  BY <1>3, <1>8, <1>12
<1>13. QED
  BY <1>1, <1>2, <1>9, <1>10, <1>11, <1>12 DEF Next, SmsThread, ReadAllSMS

LEMMA CountedStep ==
  ASSUME TypeOK, Numbered, Composing, Counted, RelaunchNeedsFailure, TypeOK', Next
  PROVE  Counted' /\ RelaunchNeedsFailure'
<1> USE DEF smsVars, spiVars, history, DeleteMsg, SendSms
<1>1. /\ failures \in Nat /\ failures' \in Nat /\ failures <= failures'
      /\ arrived \in Nat
  <2>1. failures \in Nat /\ failures' \in Nat /\ arrived \in Nat
    BY ResetAssumption DEF TypeOK
  <2>2. failures' = failures \/ failures' = failures + 1
    BY DEF Next, SmsThread, ReadAllSMS, SpiThread, Arrive, check_Unread_SMS,
       ReadAllSMS_List, ReadAllSMS_Refuse, ReadAllSMS_Skip, ReadAllSMS_Reset,
       ReadAllSMS_Mask, ReadAllSMS_Emit, SetReadMsgRcv, ReadAllSMS_Next,
       Ctrl2SMS_DataSlot, SmsCmdResetRelays_Slot, timerConnectionsCheckSlot,
       rxSPI_DataSlot, rxSPI_DataSlot_Clear, Answered, Failed
  <2>3. QED
    BY <2>1, <2>2
<1>2. /\ \A n \in 1..MaxSms : n \in Nat /\ launches[n] \in Nat
      /\ \A m \in inbox \cup page : m.n \in 1..MaxSms
  BY SmsType, ResetAssumption DEF TypeOK
<1>3. CASE UNCHANGED <<inbox, arrived, page, smsPc, launches>>
  <2>1. \A n \in 1..MaxSms : launches[n] <= 1 + failures => launches[n] <= 1 + failures'
    BY <1>1, <1>2
  <2>2. \A n \in 1..MaxSms : launches[n] <= failures => launches[n] <= failures'
    BY <1>1, <1>2
  <2>3. QED
    BY <1>2, <1>3, <2>1, <2>2, AtStays DEF Counted, RelaunchNeedsFailure
<1>4. ASSUME NEW t \in Text, Arrive(t)
      PROVE  Counted' /\ RelaunchNeedsFailure'
  <2>1. DEFINE new == [n |-> arrived + 1, text |-> t, unread |-> TRUE]
  <2>2. /\ inbox' = inbox \cup {new} /\ arrived' = arrived + 1
        /\ UNCHANGED <<page, smsPc, launches, failures>>
    BY <1>4 DEF Arrive
  <2>3. new.n \in 1..MaxSms /\ new.n > arrived
    BY <1>1, <1>4, ResetAssumption DEF Arrive
  <2> HIDE DEF new
  <2>4. launches[new.n] = 0
    BY <2>3 DEF Counted
  <2>5. \A n \in 1..MaxSms : n > arrived' => launches'[n] = 0
    BY <1>1, <1>2, <2>2 DEF Counted
  <2>6. \A m \in inbox' : m.unread =>
          \/ launches'[m.n] <= failures'
          \/ smsPc' = "setRead" /\ \E k \in page' : At(k)' /\ k.n = m.n
    BY <1>1, <2>2, <2>4, AtStays DEF Counted
  <2>7. \A m \in page' : m.unread =>
          \/ launches'[m.n] <= failures'
          \/ smsPc' \in {"setRead", "next"} /\ At(m)'
    BY <2>2, AtStays DEF Counted
  <2>8. RelaunchNeedsFailure'
    BY <2>2 DEF RelaunchNeedsFailure
  <2>9. QED
    BY <2>5, <2>6, <2>7, <2>8 DEF Counted
<1>5. CASE /\ UNCHANGED <<inbox, arrived, launches>>
           /\ smsPc \notin {"setRead", "next"} /\ page' \subseteq inbox \cup page
  <2>1. \A m \in inbox \cup page : m.unread => launches[m.n] <= failures'
    BY <1>1, <1>2, <1>5 DEF Counted
  <2>2. \A n \in 1..MaxSms : launches[n] <= 1 + failures'
    BY <1>1, <1>2 DEF RelaunchNeedsFailure
  <2>3. QED
    BY <1>5, <2>1, <2>2 DEF Counted, RelaunchNeedsFailure
<1>6. CASE ReadAllSMS_Emit
  <2>1. PICK m \in page : At(m) /\ launches' = [launches EXCEPT ![m.n] = @ + 1]
    BY <1>6 DEF ReadAllSMS_Emit
  <2>2. UNCHANGED <<inbox, arrived, page, failures>>
    BY <1>6 DEF ReadAllSMS_Emit
  <2>3. smsPc = "masks" /\ smsPc' = "setRead"
    BY <1>6 DEF ReadAllSMS_Emit
  <2>4. m.unread
    <3>1. PICK k \in page : At(k) /\ k.unread
      BY <2>3 DEF Composing
    <3>2. QED
      BY <2>1, <3>1, AtIsUnique
  <2>5. launches[m.n] <= failures
    BY <2>3, <2>4 DEF Counted
  <2>6. \A n \in 1..MaxSms : launches'[n] = IF n = m.n THEN launches[n] + 1
                                                       ELSE launches[n]
    BY <2>1 DEF TypeOK
  <2>7. \A n \in 1..MaxSms : n > arrived' => launches'[n] = 0
    BY <1>1, <1>2, <2>2, <2>6 DEF Counted, Numbered
  <2>8. \A k \in inbox' : k.unread =>
          \/ launches'[k.n] <= failures'
          \/ smsPc' = "setRead" /\ \E j \in page' : At(j)' /\ j.n = k.n
    BY <1>2, <2>1, <2>2, <2>3, <2>6, AtStays DEF Counted
  <2>9. \A k \in page' : k.unread =>
          \/ launches'[k.n] <= failures'
          \/ smsPc' \in {"setRead", "next"} /\ At(k)'
    BY <1>2, <2>1, <2>2, <2>3, <2>6, AtStays DEF Counted, Numbered
  <2>10. RelaunchNeedsFailure'
    BY <1>1, <1>2, <2>2, <2>5, <2>6 DEF RelaunchNeedsFailure
  <2>11. QED
    BY <2>7, <2>8, <2>9, <2>10 DEF Counted
<1>7. CASE SetReadMsgRcv
  <2>1. /\ UNCHANGED <<arrived, page, launches>>
        /\ smsPc = "setRead" /\ smsPc' = "next"
    BY <1>7 DEF SetReadMsgRcv
  <2>2. \A n \in 1..MaxSms : launches[n] <= 1 + failures'
    BY <1>1, <1>2 DEF RelaunchNeedsFailure
  <2>3. \A m \in page' : m.unread =>
          \/ launches'[m.n] <= failures'
          \/ smsPc' \in {"setRead", "next"} /\ At(m)'
    BY <1>1, <1>2, <2>1, AtStays DEF Counted
  <2>4. ASSUME NEW k \in inbox', k.unread PROVE launches[k.n] <= failures'
    <3>1. CASE UNCHANGED inbox /\ failures' = failures + 1
      BY <1>1, <1>2, <2>4, <3>1 DEF RelaunchNeedsFailure
    <3>2. ASSUME NEW m \in page, At(m),
                 inbox' = {[j EXCEPT !.unread = @ /\ j.n # m.n] : j \in inbox}
          PROVE  launches[k.n] <= failures'
      <4>1. PICK j \in inbox : k.n = j.n /\ j.unread /\ j.n # m.n
        BY <2>4, <3>2, Marking
      <4>2. ~ \E h \in page : At(h) /\ h.n = j.n
        BY <3>2, <4>1, AtIsUnique
      <4>3. launches[j.n] <= failures
        BY <4>1, <4>2 DEF Counted
      <4>4. QED
        BY <1>1, <1>2, <4>1, <4>3
    <3>3. QED
      BY <1>7, <3>1, <3>2 DEF SetReadMsgRcv, Failed
  <2>5. QED
    BY <2>1, <2>2, <2>3, <2>4 DEF Counted, RelaunchNeedsFailure
<1>8. CASE ReadAllSMS_Next
  <2>1. PICK m \in page : At(m) /\ Advance(m)
    BY <1>8 DEF ReadAllSMS_Next
  <2>2. page' = page \ {m}
    BY <2>1 DEF Advance, Leave
  <2>3. /\ UNCHANGED <<arrived, launches>> /\ inbox' \subseteq inbox
        /\ smsPc = "next"
    BY <1>8 DEF ReadAllSMS_Next
  <2>4. \A k \in inbox' : k.unread => launches[k.n] <= failures'
    BY <1>1, <1>2, <2>3 DEF Counted
  <2>5. \A k \in page' : k.unread => launches[k.n] <= failures'
    BY <1>1, <1>2, <2>1, <2>2, AtIsUnique DEF Counted
  <2>6. \A n \in 1..MaxSms : launches[n] <= 1 + failures'
    BY <1>1, <1>2 DEF RelaunchNeedsFailure
  <2>7. QED
    BY <2>3, <2>4, <2>5, <2>6 DEF Counted, RelaunchNeedsFailure
<1>9. ASSUME \/ check_Unread_SMS \/ ReadAllSMS_List \/ ReadAllSMS_Refuse
             \/ ReadAllSMS_Skip \/ ReadAllSMS_Reset
      PROVE  /\ UNCHANGED <<inbox, arrived, launches>>
             /\ smsPc \notin {"setRead", "next"} /\ page' \subseteq inbox \cup page
  BY <1>9 DEF check_Unread_SMS, ReadAllSMS_List, ReadAllSMS_Refuse,
     ReadAllSMS_Skip, ReadAllSMS_Reset, Leave, Page
<1>10. ASSUME \/ ReadAllSMS_Mask \/ Ctrl2SMS_DataSlot \/ SmsCmdResetRelays_Slot
              \/ timerConnectionsCheckSlot \/ SpiThread
       PROVE  UNCHANGED <<inbox, arrived, page, smsPc, launches>>
  BY <1>10 DEF ReadAllSMS_Mask, Ctrl2SMS_DataSlot, SmsCmdResetRelays_Slot,
     timerConnectionsCheckSlot, SpiThread, rxSPI_DataSlot, rxSPI_DataSlot_Clear
<1>11. CASE \/ check_Unread_SMS \/ ReadAllSMS_List \/ ReadAllSMS_Refuse
            \/ ReadAllSMS_Skip \/ ReadAllSMS_Reset
  BY <1>5, <1>9, <1>11
<1>12. CASE \/ ReadAllSMS_Mask \/ Ctrl2SMS_DataSlot \/ SmsCmdResetRelays_Slot
            \/ timerConnectionsCheckSlot \/ SpiThread
  BY <1>3, <1>10, <1>12
<1>13. QED
  BY <1>4, <1>6, <1>7, <1>8, <1>11, <1>12 DEF Next, SmsThread, ReadAllSMS
-----------------------------------------------------------------------------
LEMMA Stutter == ASSUME IInv, UNCHANGED vars PROVE IInv'
<1> USE DEF vars, smsVars, spiVars, history
<1>1. TypeOK' /\ Numbered' /\ Asked'
  BY DEF IInv, TypeOK, Numbered, Asked
<1>2. Composing' /\ Settled'
  BY AtStays DEF IInv, Composing, Settled
<1>3. Counted'
  BY AtStays DEF IInv, Counted
<1>4. OnlyRequested' /\ LatestWins' /\ RelaunchNeedsFailure'
  BY DEF IInv, OnlyRequested, LatestWins, RelaunchNeedsFailure
<1>5. QED
  BY <1>1, <1>2, <1>3, <1>4 DEF IInv

LEMMA IInvStep == IInv /\ [Next]_vars => IInv'
<1> SUFFICES ASSUME IInv, [Next]_vars PROVE IInv'
  OBVIOUS
<1>1. CASE Next
  <2> USE <1>1
  <2>1. TypeOK'
    BY TypeOKStep DEF IInv
  <2>2. Numbered' /\ Asked' /\ Composing'
    BY NumberedStep, AskedStep, ComposingStep DEF IInv
  <2>3. Settled' /\ OnlyRequested' /\ LatestWins'
    BY BitsStep DEF IInv
  <2>4. Counted' /\ RelaunchNeedsFailure'
    BY <2>1, CountedStep DEF IInv
  <2>5. QED
    BY <2>1, <2>2, <2>3, <2>4 DEF IInv
<1>2. CASE UNCHANGED vars
  BY <1>2, Stutter
<1>3. QED
  BY <1>1, <1>2

LEMMA Inductive == Spec => []IInv
BY InitIInv, IInvStep, PTL DEF Spec

(* Every variable of the SMS, main and SPI threads keeps its type.          *)
THEOREM TypeCorrect == Spec => []TypeOK
<1>1. IInv => TypeOK
  BY DEF IInv
<1>2. QED
  BY <1>1, Inductive, PTL

(* Once a command was handed on, bitRelaysReset selects only relays that an *)
(* accepted message named, although both bit fields are written and read by *)
(* different threads without a lock.                                        *)
THEOREM OnlyRequestedRelays == Spec => []OnlyRequested
<1>1. IInv => OnlyRequested
  BY DEF IInv
<1>2. QED
  BY <1>1, Inductive, PTL

(* With nothing under way, bitRelaysReset holds the last command launched,  *)
(* whole, even if it was copied half-composed for the command before.       *)
THEOREM LastCommandKept == Spec => []LatestWins
<1>1. IInv => LatestWins
  BY DEF IInv
<1>2. QED
  BY <1>1, Inductive, PTL

(* A message is launched at most once more than modem requests have failed, *)
(* whatever the order in which pages are listed, marked and deleted.        *)
THEOREM NoRelaunchWithoutFailure == Spec => []RelaunchNeedsFailure
<1>1. IInv => RelaunchNeedsFailure
  BY DEF IInv
<1>2. QED
  BY <1>1, Inductive, PTL
=============================================================================
