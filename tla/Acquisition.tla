---------------------------- MODULE Acquisition ----------------------------
(***************************************************************************)
(* Acquisition from the cards.  The thread that parses the messages of a   *)
(* client hands commands to Thread_Spi under spi_mutex; that thread        *)
(* introduces the cards, collects what they recorded, or starts and stops  *)
(* a producer that watches the lines of the cards and a consumer that      *)
(* reads the card whose line went up.  A transfer is one step here         *)
(* (SpiBus).  The program never starts Thread_Spi.                         *)
(***************************************************************************)
EXTENDS Integers, SequencesExt

CONSTANTS
  Cards,       \* the number of cards, 8 in the code
  Watched,     \* how many of them the producer watches, 3
  Changing,    \* bounds which cards come and go, and are configured
  MaxRises     \* bounds how often lines go up

ASSUME AcquisitionAssumption ==
  Cards \in Nat /\ Watched \in 1..Cards /\ Changing \subseteq 0..(Cards - 1) /\ MaxRises \in Nat

VARIABLES
  told,        \* what the parsing thread was last told: start or stop
  State_Config,        \* the command
  spi, idx,    \* where Thread_Spi is, and the card of its loop
  Exist, Activated_with_channel,       \* of each card
  queue_offLine_Slv,   \* cards asked for what they recorded, not ready yet
  Handle_Online_State,
  producer, watch, cnt,        \* the producer, its card, and the count of each
  consumer, slv_in_queue,      \* the consumer, and its card
  queue_slv_Intr,      \* cards whose line went up
  line, rises, \* the lines of the cards
  missed       \* whether a stop found the consumer about to wait

cardVars0 == <<Exist, Activated_with_channel>>
prodVars  == <<producer, watch, cnt>>
consVars  == <<consumer, slv_in_queue>>
lineVars  == <<line, rises>>
spiThread == <<State_Config, spi, idx, queue_offLine_Slv, Handle_Online_State, missed>>
acqVars   == <<told, cardVars0, prodVars, consVars, lineVars, spiThread, queue_slv_Intr>>

Slv == 0..(Cards - 1)

AcqInit ==
  /\ told = 3 /\ State_Config = 0 /\ spi = "unlocked" /\ idx = 0
  /\ Exist = [i \in Slv |-> TRUE] /\ Activated_with_channel = [i \in Slv |-> TRUE]
  /\ queue_offLine_Slv = <<>> /\ Handle_Online_State = FALSE
  /\ producer = "none" /\ watch = 0 /\ cnt = [i \in Slv |-> 0]
  /\ consumer = "none" /\ slv_in_queue = 0 /\ queue_slv_Intr = <<>>
  /\ line = [i \in Slv |-> FALSE] /\ rises = 0 /\ missed = FALSE
-----------------------------------------------------------------------------
(* The parsing thread waits for spi_mutex, which is free until Thread_Spi   *)
(* is woken and has it again.  A client starts and stops in turn.  The      *)
(* signal of a command is lost on a thread that does not wait yet, and a    *)
(* command on one that has not taken the command before.  A shutdown of the *)
(* machine (Lan_Conn.cpp:85) is not followed.                               *)
Parse_Message(c) ==
  /\ spi \in {"unlocked", "waiting", "woken"} /\ State_Config' = c
  /\ c \in {2, 3} => c # told
  /\ told' = IF c \in {2, 3} THEN c ELSE told
  /\ spi' = IF spi = "waiting" THEN "woken" ELSE spi
  /\ UNCHANGED <<idx, cardVars0, prodVars, consVars, lineVars, queue_offLine_Slv,
                 Handle_Online_State, missed, queue_slv_Intr>>

(* Without the mutex.                                                       *)
set_Config(i) ==
  /\ \E on \in BOOLEAN :
       Activated_with_channel' = [Activated_with_channel EXCEPT ![i] = on]
  /\ UNCHANGED <<told, Exist, prodVars, consVars, lineVars, spiThread, queue_slv_Intr>>

Lan == (\E c \in 0..3 : Parse_Message(c)) \/ \E i \in Changing : set_Config(i)
-----------------------------------------------------------------------------
(* Thread_Spi.                                                              *)
Wait ==
  /\ spi = "unlocked" /\ spi' = "waiting"
  /\ UNCHANGED <<idx, State_Config, queue_offLine_Slv, Handle_Online_State, missed>>
  /\ UNCHANGED <<cardVars0, line, prodVars, consVars, queue_slv_Intr>>

(* The stop writes Handle_Online_State without the lock of the queue.       *)
Wake ==
  /\ spi = "woken" /\ idx' = 0
  /\ spi' = <<"introduce", "ask", "askOnline", "signal">>[State_Config + 1]
  /\ Handle_Online_State' = (Handle_Online_State /\ State_Config # 3)
  /\ UNCHANGED <<State_Config, queue_offLine_Slv, missed>>
  /\ UNCHANGED <<cardVars0, line, prodVars, consVars, queue_slv_Intr>>

(* Whether the line of a card is up.                                        *)
bcm2835_gpio_lev(i) == line[i]

(* A loop over the cards that goes on to next after the last.               *)
Loop(at, next) ==
  /\ spi = at
  /\ IF idx < Cards - 1 THEN idx' = idx + 1 /\ spi' = at ELSE idx' = 0 /\ spi' = next
  /\ UNCHANGED <<State_Config, prodVars, consVars, queue_slv_Intr, missed>>

Recording(i) == Exist[i] /\ Activated_with_channel[i]

get_Introduce_Slaves_final ==
  /\ Loop("introduce", "unlocked")
  /\ \E answers \in IF idx \in Changing THEN BOOLEAN ELSE {TRUE} : Exist' = [Exist EXCEPT ![idx] = answers]
  /\ UNCHANGED <<Activated_with_channel, line, queue_offLine_Slv, Handle_Online_State>>

AskRecorded ==
  /\ Loop("ask", "await")
  /\ queue_offLine_Slv' = IF Recording(idx) THEN Append(queue_offLine_Slv, idx)
                          ELSE queue_offLine_Slv
  /\ UNCHANGED <<cardVars0, line, Handle_Online_State>>

AwaitRecorded ==
  /\ spi = "await"
  /\ \/ /\ queue_offLine_Slv = <<>> /\ spi' = "collect" /\ UNCHANGED queue_offLine_Slv
     \/ /\ queue_offLine_Slv # <<>> /\ bcm2835_gpio_lev(Head(queue_offLine_Slv))
        /\ queue_offLine_Slv' = Tail(queue_offLine_Slv) /\ UNCHANGED spi
  /\ UNCHANGED <<idx, State_Config, Handle_Online_State, missed>>
  /\ UNCHANGED <<cardVars0, line, prodVars, consVars, queue_slv_Intr>>

CollectRecorded ==
  /\ Loop("collect", "unlocked")
  /\ line' = [line EXCEPT ![idx] = @ /\ ~Recording(idx)]
  /\ UNCHANGED <<cardVars0, queue_offLine_Slv, Handle_Online_State>>

get_rawData_Multi == AskRecorded \/ AwaitRecorded \/ CollectRecorded

AskOnline ==
  /\ Loop("askOnline", "create")
  /\ Handle_Online_State' = (Handle_Online_State \/ idx = Cards - 1)
  /\ UNCHANGED <<cardVars0, line, queue_offLine_Slv>>

(* A second pair of threads is not followed: its start overwrites the names *)
(* by which the stop would join the first.                                  *)
Create ==
  /\ \/ /\ spi = "create" /\ producer = "none" /\ producer' = "test" /\ spi' = "create2"
        /\ watch' = 0 /\ UNCHANGED <<cnt, consVars>>
     \/ /\ spi = "create2" /\ consumer = "none" /\ consumer' = "test" /\ spi' = "unlocked"
        /\ UNCHANGED <<prodVars, slv_in_queue>>
     \/ /\ spi = "create" /\ producer # "none" /\ spi' = "notFollowed"
        /\ UNCHANGED <<prodVars, consVars>>
  /\ UNCHANGED <<idx, State_Config, queue_offLine_Slv, Handle_Online_State, missed>>
  /\ UNCHANGED <<cardVars0, line, queue_slv_Intr>>

Woken == IF consumer = "waiting" THEN "woken" ELSE consumer

(* Mutant: the stop joins without a signal.                                 *)
StopSignal_None ==
  /\ spi = "signal" /\ spi' = "joinP" /\ missed' = (consumer = "lock" /\ queue_slv_Intr = <<>>)
  /\ UNCHANGED <<idx, State_Config, queue_offLine_Slv, Handle_Online_State>>
  /\ UNCHANGED <<cardVars0, line, prodVars, consVars, queue_slv_Intr>>

StopSignal ==
  /\ spi = "signal" /\ spi' = "joinP" /\ consumer' = Woken
  /\ missed' = (consumer = "lock" /\ queue_slv_Intr = <<>>)
  /\ UNCHANGED <<idx, State_Config, queue_offLine_Slv, Handle_Online_State>>
  /\ UNCHANGED <<cardVars0, line, prodVars, slv_in_queue, queue_slv_Intr>>

(* Joining threads that were never started, or are joined, is not followed. *)
Join ==
  /\ \/ /\ spi = "joinP" /\ producer = "gone" /\ producer' = "none" /\ spi' = "joinC"
        /\ UNCHANGED <<watch, cnt, consVars>>
     \/ /\ spi = "joinC" /\ consumer = "gone" /\ consumer' = "none" /\ spi' = "unlocked"
        /\ UNCHANGED <<prodVars, slv_in_queue>>
     \/ /\ spi = "joinP" /\ producer = "none" /\ spi' = "notFollowed"
        /\ UNCHANGED <<prodVars, consVars>>
  /\ missed' = (missed /\ spi' = "joinC")
  /\ UNCHANGED <<idx, State_Config, queue_offLine_Slv, Handle_Online_State>>
  /\ UNCHANGED <<cardVars0, line, queue_slv_Intr>>

Thread_Spi ==
  /\ \/ Wait \/ Wake \/ get_Introduce_Slaves_final \/ get_rawData_Multi
     \/ AskOnline \/ Create \/ StopSignal \/ Join
  /\ UNCHANGED <<told, rises>>
-----------------------------------------------------------------------------
(* The producer: a line found up three times in a row is queued, once.      *)
ProducerTest ==
  /\ producer = "test" /\ producer' = IF Handle_Online_State THEN "watch" ELSE "gone"
  /\ watch' = 0 /\ UNCHANGED <<cnt, consumer, queue_slv_Intr>>

NextLine ==
  IF watch < Watched - 1 THEN watch' = watch + 1 /\ producer' = "watch"
  ELSE producer' = "test" /\ UNCHANGED watch

(* The count goes on; above three it does not matter how far.               *)
interrupt_slave_func ==
  /\ producer = "watch"
  /\ cnt' = [cnt EXCEPT ![watch] = IF ~bcm2835_gpio_lev(watch) THEN 0
                                       ELSE IF @ < 4 THEN @ + 1 ELSE 4]
  /\ IF cnt'[watch] = 3 THEN producer' = "push" /\ UNCHANGED watch ELSE NextLine
  /\ UNCHANGED <<consumer, queue_slv_Intr>>

Push_Interrupt ==
  /\ producer = "push" /\ queue_slv_Intr' = Append(queue_slv_Intr, watch)
  /\ consumer' = Woken /\ NextLine /\ UNCHANGED cnt

Thread_Prepare ==
  /\ ProducerTest \/ interrupt_slave_func \/ Push_Interrupt
  /\ UNCHANGED <<told, cardVars0, slv_in_queue, lineVars, spiThread>>
-----------------------------------------------------------------------------
(* The consumer.  It takes the lock, looks, and waits in one step: the wait *)
(* releases the lock.                                                       *)
ConsumerTest ==
  /\ consumer = "test" /\ consumer' = IF Handle_Online_State THEN "lock" ELSE "gone"
  /\ UNCHANGED <<slv_in_queue, queue_slv_Intr, line>>

(* Mutant: the queue is looked at before the lock is taken.                 *)
WaitForLine_Unlocked ==
  /\ \/ consumer = "lock" /\ queue_slv_Intr = <<>> /\ consumer' = "unlocked"
     \/ consumer = "unlocked" /\ consumer' = "waiting"
  /\ UNCHANGED <<slv_in_queue, queue_slv_Intr, line>>

WaitForLine ==
  /\ consumer = "lock" /\ queue_slv_Intr = <<>> /\ consumer' = "waiting"
  /\ UNCHANGED <<slv_in_queue, queue_slv_Intr, line>>

(* It is not looked at again after the wait: the signal of the stop finds   *)
(* the front of an empty queue, which may be any card.                      *)
Take ==
  /\ consumer = "woken" \/ (consumer = "lock" /\ queue_slv_Intr # <<>>)
  /\ consumer' = "read"
  /\ IF queue_slv_Intr = <<>> THEN slv_in_queue' \in Slv ELSE slv_in_queue' = Head(queue_slv_Intr)
  /\ queue_slv_Intr' = IF Handle_Online_State /\ queue_slv_Intr # <<>>
                       THEN Tail(queue_slv_Intr) ELSE queue_slv_Intr
  /\ UNCHANGED line

(* The transfer lowers the line of the card, and the data go to the client. *)
ReadOnline ==
  /\ consumer = "read" /\ consumer' = "test"
  /\ line' = [line EXCEPT ![slv_in_queue] = FALSE] /\ slv_in_queue' = 0
  /\ UNCHANGED queue_slv_Intr

Thread_rawData_Online ==
  /\ ConsumerTest \/ WaitForLine \/ Take \/ ReadOnline
  /\ UNCHANGED <<told, cardVars0, prodVars, rises, spiThread>>
-----------------------------------------------------------------------------
Raise(i) ==
  /\ ~line[i] /\ rises < MaxRises /\ rises' = rises + 1
  /\ line' = [line EXCEPT ![i] = TRUE]
  /\ UNCHANGED <<told, cardVars0, prodVars, consVars, spiThread, queue_slv_Intr>>

AcqNext ==
  Lan \/ Thread_Spi \/ Thread_Prepare \/ Thread_rawData_Online \/ \E i \in Slv : Raise(i)

(* Each thread runs; nothing is assumed of the client and of the cards.     *)
AcqFairness ==
  WF_acqVars(Thread_Spi) /\ WF_acqVars(Thread_Prepare) /\ WF_acqVars(Thread_rawData_Online)

AcqSpec == AcqInit /\ [][AcqNext]_acqVars /\ AcqFairness

(* A stop returns, except where its signal found the consumer between its   *)
(* test of Handle_Online_State and its wait on an empty queue: the only     *)
(* window in which Thread_Spi may stay in the join, the mutex held.         *)
StopJoins == spi \in {"joinP", "joinC"} ~> spi \notin {"joinP", "joinC"} \/ missed

(* A card in the queue is read, or online acquisition is stopped: no signal *)
(* of the producer is lost on the consumer.                                 *)
QueuedIsRead ==
  Handle_Online_State /\ queue_slv_Intr # <<>>
    ~> consumer = "read" \/ ~Handle_Online_State
=============================================================================
