----------------------------- MODULE ResetChain -----------------------------
(***************************************************************************)
(* How a text message comes to switch the relays of a station: the SMS     *)
(* thread (SmsController) finds it in the modem's inbox, the main thread   *)
(* (Controller) hands the command on, the SPI thread (SPI_Cnn) pulses the  *)
(* relays.  The command is passed in the public fields bitRelaysCtrl and   *)
(* bitRelaysReset; the signals between the threads carry nothing.          *)
(*                                                                         *)
(* This is the program with SPI_Raspberri defined (CommonDefines.h);       *)
(* without it rxSPI_DataSlot is empty.                                     *)
(***************************************************************************)
EXTENDS Integers, FiniteSets

CONSTANTS
  Relay,        \* the numbers of the relays, 1..5
  Text,         \* the texts that may arrive
  PageSize,     \* messages ReadAllSMS asks the modem for, 20
  Keep,         \* messages of a page it never deletes, 10
  Garbage,      \* what bitRelaysReset may hold before it is assigned
  MaxSms,       \* messages that arrive, bounds the model
  MaxFailures,  \* modem requests that fail, bounds the model
  MaxPending    \* signals waiting for the SPI thread, bounds the model

(* What matters of a text: whether number and password are accepted, whether *)
(* it says "reset", and which relay digits it contains.                     *)
Texts == [auth : BOOLEAN, reset : BOOLEAN, bits : SUBSET Relay]

ASSUME ResetAssumption ==
  /\ Relay \subseteq Nat /\ IsFiniteSet(Relay)
  /\ Text \subseteq Texts /\ Garbage \subseteq SUBSET Relay /\ Garbage # {}
  /\ PageSize \in Nat /\ Keep \in Nat
  /\ MaxSms \in Nat /\ MaxFailures \in Nat /\ MaxPending \in Nat

Sms     == [n : 1..MaxSms, text : Text, unread : BOOLEAN]

(* The sender's number and the password are right, and it says "reset".     *)
Accepted(m) == m.text.auth /\ m.text.reset

VARIABLES
  inbox,      \* the messages the modem holds, numbered as they arrived
  arrived,    \* how many have arrived
  smsPc,      \* where the SMS thread is
  page,       \* DomNodeList from n on: the messages as the modem listed them
  i,          \* the loop variable of ReadAllSMS
  bits,       \* bitRelaysCtrl
  digits,     \* the relays the mask loop has yet to look for
  mainQ,      \* cmdResetRelays_Signals waiting in the main loop
  smsQ,       \* Ctrl2SMS_DataSignals waiting in the SMS thread's loop
  spiBits,    \* bitRelaysReset
  spiQ,       \* Ctrl2SPI_DataSignals waiting in the SPI thread's loop
  relays,     \* the relays that are being pulsed
  pulsing,    \* whether rxSPI_DataSlot is asleep between its two writes
  (* History:                                                               *)
  failures,   \* modem requests that have failed
  launches,   \* how often each message was signalled as a command
  last,       \* the bits of the command signalled last, in a set; {} before
  requested,  \* the relays that accepted commands have named
  handed      \* whether a command was handed on since the last pulse began

smsVars == <<smsPc, page, i, bits, digits>>
spiVars == <<spiBits, relays, pulsing>>
history == <<failures, launches, last, requested, handed>>
vars    == <<inbox, arrived, smsVars, mainQ, smsQ, spiVars, spiQ, history>>

TypeOK ==
  /\ inbox \subseteq Sms /\ arrived \in 0..MaxSms
  /\ smsPc \in {"loop", "list", "message", "masks", "setRead", "next"}
  /\ page \subseteq Sms /\ i \in Nat
  /\ bits \subseteq Relay /\ digits \subseteq Relay
  /\ mainQ \in Nat /\ smsQ \in Nat
  /\ spiBits \subseteq Relay /\ spiQ \in 0..MaxPending
  /\ relays \subseteq Relay /\ pulsing \in BOOLEAN
  /\ failures \in 0..MaxFailures
  /\ launches \in [1..MaxSms -> Nat]
  /\ last \subseteq SUBSET Relay
  /\ requested \subseteq Relay
  /\ handed \in {"never", "fresh", "used"}

Init ==
  /\ inbox = {} /\ arrived = 0
  /\ smsPc = "loop" /\ page = {} /\ i = 0
  /\ bits = {} /\ digits = {}
  /\ mainQ = 0 /\ smsQ = 0 /\ spiQ = 0
  /\ spiBits \in Garbage /\ relays = {} /\ pulsing = FALSE
  /\ failures = 0 /\ launches = [n \in 1..MaxSms |-> 0]
  /\ last = {} /\ requested = {} /\ handed = "never"
-----------------------------------------------------------------------------
(* The modem.                                                               *)

Arrive(t) ==
  /\ arrived < MaxSms
  /\ arrived' = arrived + 1
  /\ inbox' = inbox \cup {[n |-> arrived + 1, text |-> t, unread |-> TRUE]}
  /\ requested' = requested \cup (IF t.auth /\ t.reset THEN t.bits ELSE {})
  /\ UNCHANGED <<smsVars, mainQ, smsQ, spiVars, spiQ, failures, launches, last,
                 handed>>

(* A request may fail, or the one for its token before it, which exeCurlCmd  *)
(* reports and its callers ignore.                                          *)
Answered == UNCHANGED failures
Failed   == failures < MaxFailures /\ failures' = failures + 1
-----------------------------------------------------------------------------
(* The SMS thread.  ReadAllSMS of the outbox is left out: it launches       *)
(* nothing and leaves the inbox alone.                                      *)

Unread == \E m \in inbox : m.unread

(* timerSMS_CheckSlot, check_Unread_SMS: an answer that is not "0", hence a *)
(* failed request too, leads to ReadAllSMS.                                 *)
check_Unread_SMS ==
  /\ smsPc = "loop"
  /\ \/ Unread /\ Answered
     \/ Failed
  /\ smsPc' = "list"
  /\ UNCHANGED <<inbox, arrived, page, i, bits, digits, mainQ, smsQ, spiVars,
                 spiQ, launches, last, requested, handed>>

(* The pages of the modem begin with its newest message.                    *)
Page == {m \in inbox : Cardinality({k \in inbox : k.n > m.n}) < PageSize}

(* The message of the page that the loop is at.                             *)
At(m) == m \in page /\ \A k \in page : k.n <= m.n

Leave == smsPc' = "loop" /\ page' = {} /\ i' = 0

(* ReadAllSMS lists the first page; a failed request lists nothing.         *)
ReadAllSMS_List ==
  /\ smsPc = "list"
  /\ \/ /\ Answered /\ Page # {}
        /\ page' = Page
        /\ smsPc' = "message" /\ UNCHANGED i
     \/ Answered /\ Page = {} /\ Leave
     \/ Failed /\ Leave
  /\ UNCHANGED <<inbox, arrived, bits, digits, mainQ, smsQ, spiVars, spiQ,
                 launches, last, requested, handed>>

(* The first message with a wrong number or password ends the loop.         *)
ReadAllSMS_Refuse ==
  /\ smsPc = "message"
  /\ \E m \in page : At(m) /\ ~m.text.auth
  /\ Leave
  /\ UNCHANGED <<inbox, arrived, bits, digits, mainQ, smsQ, spiVars, spiQ, history>>

ReadAllSMS_Skip ==
  /\ smsPc = "message"
  /\ \E m \in page : At(m) /\ m.text.auth /\ ~(m.text.reset /\ m.unread)
  /\ smsPc' = "next"
  /\ UNCHANGED <<inbox, arrived, page, i, bits, digits, mainQ, smsQ, spiVars,
                 spiQ, history>>

(* Mutants: number and password are not looked at; the bits of the command  *)
(* before are not cleared.                                                  *)
ReadAllSMS_Reset_Anyone ==
  /\ smsPc = "message"
  /\ \E m \in page : At(m) /\ m.text.reset /\ m.unread /\ digits' = m.text.bits
  /\ bits' = {}
  /\ smsPc' = "masks"
  /\ UNCHANGED <<inbox, arrived, page, i, mainQ, smsQ, spiVars, spiQ, history>>

ReadAllSMS_Reset_Added ==
  /\ smsPc = "message"
  /\ \E m \in page : At(m) /\ Accepted(m) /\ m.unread /\ digits' = m.text.bits
  /\ smsPc' = "masks"
  /\ UNCHANGED <<inbox, arrived, page, i, bits, mainQ, smsQ, spiVars, spiQ, history>>

ReadAllSMS_Reset ==
  /\ smsPc = "message"
  /\ \E m \in page : At(m) /\ Accepted(m) /\ m.unread /\ digits' = m.text.bits
  /\ bits' = {}
  /\ smsPc' = "masks"
  /\ UNCHANGED <<inbox, arrived, page, i, mainQ, smsQ, spiVars, spiQ, history>>

(* setMask, for one digit after the other.                                  *)
ReadAllSMS_Mask ==
  /\ smsPc = "masks" /\ digits # {}
  /\ \E d \in digits :
       /\ \A e \in digits : d <= e
       /\ bits' = bits \cup {d} /\ digits' = digits \ {d}
  /\ UNCHANGED <<inbox, arrived, smsPc, page, i, mainQ, smsQ, spiVars, spiQ,
                 history>>

ReadAllSMS_Emit ==
  /\ smsPc = "masks" /\ digits = {}
  /\ mainQ' = mainQ + 1
  /\ \E m \in page :
       /\ At(m)
       /\ launches' = [launches EXCEPT ![m.n] = @ + 1]
       /\ last' = {m.text.bits}
  /\ smsPc' = "setRead"
  /\ UNCHANGED <<inbox, arrived, page, i, bits, digits, smsQ, spiVars, spiQ,
                 failures, requested, handed>>

(* Mutant: the message is not marked as read.                               *)
SetReadMsgRcv_Unmarked ==
  /\ smsPc = "setRead" /\ smsPc' = "next"
  /\ UNCHANGED <<inbox, arrived, page, i, bits, digits, mainQ, smsQ, spiVars, spiQ,
                 history>>

SetReadMsgRcv ==
  /\ smsPc = "setRead"
  /\ \/ /\ Answered
        /\ \E m \in page :
             At(m) /\ inbox' = {[k EXCEPT !.unread = @ /\ k.n # m.n] : k \in inbox}
     \/ Failed /\ UNCHANGED inbox
  /\ smsPc' = "next"
  /\ UNCHANGED <<arrived, page, i, bits, digits, mainQ, smsQ, spiVars, spiQ,
                 launches, last, requested, handed>>

(* On to the next message of the page, if there is one.                     *)
Advance(m) ==
  IF page = {m} THEN Leave
                ELSE page' = page \ {m} /\ i' = i + 1 /\ smsPc' = "message"

(* Mutant: no message of a page is old enough to be deleted.                *)
ReadAllSMS_Next_KeepAll ==
  /\ smsPc = "next"
  /\ \E m \in page : At(m) /\ Advance(m)
  /\ UNCHANGED <<inbox, arrived, bits, digits, mainQ, smsQ, spiVars, spiQ, history>>

DeleteMsg(m) ==
  \/ Answered /\ inbox' = {k \in inbox : k.n # m.n}
  \/ Failed /\ UNCHANGED inbox

(* An old message is deleted; on to the next one.                           *)
ReadAllSMS_Next ==
  /\ smsPc = "next"
  /\ \E m \in page :
       /\ At(m) /\ Advance(m)
       /\ \/ i >= Keep /\ DeleteMsg(m)
          \/ i < Keep /\ UNCHANGED <<inbox, failures>>
  /\ UNCHANGED <<arrived, bits, digits, mainQ, smsQ, spiVars, spiQ, launches,
                 last, requested, handed>>

(* Mutant: the slot runs although no signal is waiting.                     *)
Ctrl2SMS_DataSlot_Unasked ==
  /\ smsPc = "loop" /\ smsQ' = smsQ - 1
  /\ UNCHANGED <<inbox, arrived, smsVars, mainQ, spiVars, spiQ, history>>

SendSms == Answered \/ Failed

(* The success text is sent.                                                *)
Ctrl2SMS_DataSlot ==
  /\ smsPc = "loop" /\ smsQ > 0
  /\ smsQ' = smsQ - 1
  /\ SendSms
  /\ UNCHANGED <<inbox, arrived, smsVars, mainQ, spiVars, spiQ, launches, last,
                 requested, handed>>
-----------------------------------------------------------------------------
(* The main thread.                                                         *)

(* Mutant: the bits are not handed on.                                      *)
SmsCmdResetRelays_Slot_Unset ==
  /\ mainQ > 0 /\ spiQ < MaxPending
  /\ mainQ' = mainQ - 1
  /\ spiQ' = spiQ + 1 /\ smsQ' = smsQ + 1
  /\ handed' = "fresh"
  /\ UNCHANGED <<inbox, arrived, smsVars, spiVars, failures, launches, last, requested>>

SmsCmdResetRelays_Slot ==
  /\ mainQ > 0 /\ spiQ < MaxPending
  /\ mainQ' = mainQ - 1
  /\ spiBits' = bits
  /\ spiQ' = spiQ + 1 /\ smsQ' = smsQ + 1
  /\ handed' = "fresh"
  /\ UNCHANGED <<inbox, arrived, smsVars, relays, pulsing, failures, launches, last,
                 requested>>

(* The last lines of timerConnectionsCheckSlot signal the SPI thread too.   *)
timerConnectionsCheckSlot ==
  /\ spiQ < MaxPending
  /\ spiQ' = spiQ + 1
  /\ UNCHANGED <<inbox, arrived, smsVars, mainQ, smsQ, spiVars, history>>
-----------------------------------------------------------------------------
(* The SPI thread: rxSPI_DataSlot writes the bits, sleeps, and writes 0.    *)

rxSPI_DataSlot ==
  /\ ~pulsing /\ spiQ > 0
  /\ spiQ' = spiQ - 1
  /\ relays' = spiBits /\ pulsing' = TRUE
  /\ handed' = IF handed = "fresh" THEN "used" ELSE handed
  /\ UNCHANGED <<inbox, arrived, smsVars, mainQ, smsQ, spiBits, failures, launches,
                 last, requested>>

rxSPI_DataSlot_Clear ==
  /\ pulsing
  /\ relays' = {} /\ pulsing' = FALSE
  /\ UNCHANGED <<inbox, arrived, smsVars, mainQ, smsQ, spiBits, spiQ, history>>
-----------------------------------------------------------------------------
ReadAllSMS ==
  \/ ReadAllSMS_List \/ ReadAllSMS_Refuse \/ ReadAllSMS_Skip \/ ReadAllSMS_Reset
  \/ ReadAllSMS_Mask \/ ReadAllSMS_Emit \/ SetReadMsgRcv \/ ReadAllSMS_Next

(* The slots that InitSMS_Cnn connects.                                     *)
SmsThread == check_Unread_SMS \/ ReadAllSMS \/ Ctrl2SMS_DataSlot

SpiThread == rxSPI_DataSlot \/ rxSPI_DataSlot_Clear

Next ==
  \/ \E t \in Text : Arrive(t)
  \/ SmsThread
  \/ SmsCmdResetRelays_Slot \/ timerConnectionsCheckSlot
  \/ SpiThread

(* A slot that has started ends.  The loops serve timers and signals in     *)
(* turn, so what competes for a loop, or for room in the bounded queue, is  *)
(* not put off for ever.                                                    *)
Fairness ==
  /\ WF_vars(ReadAllSMS) /\ WF_vars(SpiThread)
  /\ SF_vars(check_Unread_SMS) /\ SF_vars(Ctrl2SMS_DataSlot)
  /\ SF_vars(SmsCmdResetRelays_Slot) /\ SF_vars(timerConnectionsCheckSlot)

Spec == Init /\ [][Next]_vars /\ Fairness
-----------------------------------------------------------------------------
(* Once a command was handed to the SPI thread, no relay is selected that   *)
(* an accepted message has not named, even when the main thread reads the   *)
(* bits while the SMS thread is composing those of the next message.        *)
OnlyRequested == handed # "never" => spiBits \subseteq requested

(* When no command is being composed or waits to be handed on, the SPI      *)
(* thread has exactly the relays the last launched message names.           *)
LatestWins ==
  smsPc # "masks" /\ mainQ = 0 /\ last # {} => spiBits \in last

(* A message is launched again only after the modem failed to mark it.      *)
RelaunchNeedsFailure == \A n \in 1..MaxSms : launches[n] <= 1 + failures

Waits(n) == \E m \in inbox : m.n = n /\ m.unread /\ Accepted(m)

Blocked(n) == \E m \in inbox : m.n > n /\ ~m.text.auth

(* A command is launched unless a message that is not accepted came after   *)
(* it, however many others did and whatever requests failed.                *)
Obeyed == \A n \in 1..MaxSms : Waits(n) ~> (launches[n] > 0 \/ Blocked(n))

(* The relays of the last command are pulsed (with every further check).    *)
LastReachesRelays ==
  \A b \in {t.bits : t \in Text} : <>[](last = {b}) => []<>(pulsing /\ relays = b)

(* The relays are pulsed only when a message has just asked for it.         *)
LaunchedBySms == [][rxSPI_DataSlot /\ spiBits # {} => handed = "fresh"]_vars
=============================================================================
