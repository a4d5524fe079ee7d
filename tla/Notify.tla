------------------------------- MODULE Notify -------------------------------
(***************************************************************************)
(* How the Telegram channel learns of the station's state: the main thread *)
(* and jobs of the thread pool set EventedVariables, a change makes        *)
(* SendTgListener compose a message of all of them, and a job of its own   *)
(* sends each message.                                                     *)
(*                                                                         *)
(* setValue compares, assigns and emits without a lock.  A change made by  *)
(* the main thread calls SendTgListener at once, one made by the pool      *)
(* posts it to the main loop.                                              *)
(***************************************************************************)
EXTENDS Integers, Sequences

CONSTANTS
  Var,         \* the variables that are followed
  Worker,      \* the threads of the pool
  MaxJobs,     \* jobs waiting when a slot starts, bounds the model
  MaxNotices,  \* valueChanged signals waiting when a job starts, bounds it
  Main         \* the main thread

(* The lines of a message are in this order.                                *)
Line == [CentServer_Connection |-> 1, AQC_Connection |-> 2,
         WdgAqc_Connection |-> 3, Internet_Connection |-> 4,
         USB_Modem_Connection |-> 5, AQC_KeepAlive_Rcv |-> 6,
         WdgAqc_KeepAlive_Rcv |-> 7, AQC_MemoryOverLoad |-> 8]

Names == DOMAIN Line

ASSUME NotifyAssumption ==
  /\ Var \subseteq Names
  /\ Main \notin Worker
  /\ MaxJobs \in Nat /\ MaxNotices \in Nat

Thread == Worker \cup {Main}

State == [Var -> {0, 1}]

Check == {"CheckNetSlot", "CheckCentServerSlot"}

(* A job of the pool: a check, or a message to be sent.                     *)
Job == [kind : Check, text : {{}}]
         \cup [kind : {"SendToChannel"}, text : {{s} : s \in State}]

(* What is left of a slot or of a check: setValues and jobs to be started.  *)
Op == [op : {"setValue"}, var : Names, value : {0, 1}]
        \cup [op : {"run"}, job : Check]

Set(v, x) == [op |-> "setValue", var |-> v, value |-> x]
Run(job)  == [op |-> "run", job |-> job]

VARIABLES
  val,        \* the value i_ of every variable
  todo,       \* what each thread has yet to do of its slot or check
  at,         \* where each thread is in the setValue at the head of todo
  notices,    \* valueChanged signals that wait in the main loop
  composing,  \* SendTgListener is running
  unread,     \* the variables it has yet to read
  summary,    \* what it has read of the others
  told,       \* the message composed last, in a set; {} before
  poolQ,      \* jobs that wait for a thread of the pool
  sending,    \* the message each thread of the pool is sending, in a set
  channel     \* the message the channel received last, in a set

listener == <<composing, unread, summary, told>>
pool     == <<poolQ, sending, channel>>
vars     == <<val, todo, at, notices, listener, pool>>

Texts == {{}} \cup {{s} : s \in State}

TypeOK ==
  /\ val \in State
  /\ todo \in [Thread -> Seq(Op)]
  /\ at \in [Thread -> {"compare", "assign", "emit"}]
  /\ notices \in Nat
  /\ composing \in BOOLEAN /\ unread \subseteq Var
  /\ summary \in State /\ told \in Texts
  /\ poolQ \in Seq(Job)
  /\ sending \in [Worker -> Texts] /\ channel \in Texts

Init ==
  /\ val = [v \in Var |-> 0]
  /\ todo = [t \in Thread |-> <<>>]
  /\ at = [t \in Thread |-> "compare"]
  /\ notices = 0
  /\ composing = FALSE /\ unread = {}
  /\ summary = [v \in Var |-> 0] /\ told = {}
  /\ poolQ = <<>>
  /\ sending = [w \in Worker |-> {}] /\ channel = {}
-----------------------------------------------------------------------------
(* The slots of the main thread, by what they set.                          *)

Start(ops) ==
  /\ todo[Main] = <<>> /\ ~composing /\ Len(poolQ) < MaxJobs
  /\ todo' = [todo EXCEPT ![Main] = ops]
  /\ UNCHANGED <<val, at, notices, listener, pool>>

AQC2CtrlDataSlot ==
  Start(<<Set("AQC_MemoryOverLoad", 0), Set("AQC_KeepAlive_Rcv", 1)>>)

WdgAqc2CtrlDataSlot ==
  \/ Start(<<Set("WdgAqc_KeepAlive_Rcv", 1)>>)
  \/ Start(<<Set("WdgAqc_KeepAlive_Rcv", 1), Set("AQC_MemoryOverLoad", 1)>>)

ErrorCurlexecSlot == Start(<<Set("USB_Modem_Connection", 0)>>)

timerTCP_KeepAliveCheckSlot ==
  \/ Start(<<Set("AQC_KeepAlive_Rcv", 0)>>)
  \/ Start(<<Set("WdgAqc_KeepAlive_Rcv", 0)>>)
  \/ Start(<<Set("AQC_KeepAlive_Rcv", 0), Set("WdgAqc_KeepAlive_Rcv", 0)>>)

(* Every fifth check that finds the server connected pings it as well;      *)
(* which one, is abstracted.                                                *)
timerConnectionsCheckSlot ==
  \E aqc, cent, wdg \in {0, 1}, ping \in BOOLEAN :
    /\ ping => cent = 1
    /\ Start(<<Set("AQC_Connection", aqc), Set("CentServer_Connection", cent)>>
               \o (IF ping THEN <<Run("CheckCentServerSlot")>> ELSE <<>>)
               \o <<Set("WdgAqc_Connection", wdg), Run("CheckNetSlot")>>)

(* QtConcurrent::run of a check.                                            *)
RunCheck ==
  /\ ~composing /\ todo[Main] # <<>> /\ Head(todo[Main]).op = "run"
  /\ poolQ' = Append(poolQ, [kind |-> Head(todo[Main]).job, text |-> {}])
  /\ todo' = [todo EXCEPT ![Main] = Tail(@)]
  /\ UNCHANGED <<val, at, notices, listener, sending, channel>>
-----------------------------------------------------------------------------
(* EventedVariable::setValue, by any thread.                                *)

(* The thread is at step pc of setValue.                                    *)
Sets(t, pc) ==
  /\ todo[t] # <<>> /\ Head(todo[t]).op = "setValue" /\ at[t] = pc
  /\ t = Main => ~composing

Changes(t) ==
  LET o == Head(todo[t]) IN o.var \in Var /\ val[o.var] # o.value

setValue_Compare(t) ==
  /\ Sets(t, "compare")
  /\ IF Changes(t)
     THEN at' = [at EXCEPT ![t] = "assign"] /\ UNCHANGED todo
     ELSE todo' = [todo EXCEPT ![t] = Tail(@)] /\ UNCHANGED at
  /\ UNCHANGED <<val, notices, listener, pool>>

setValue_Assign(t) ==
  /\ Sets(t, "assign")
  /\ val' = [val EXCEPT ![Head(todo[t]).var] = Head(todo[t]).value]
  /\ at' = [at EXCEPT ![t] = "emit"]
  /\ UNCHANGED <<todo, notices, listener, pool>>

Emitted(t) ==
  /\ Sets(t, "emit")
  /\ at' = [at EXCEPT ![t] = "compare"]
  /\ todo' = [todo EXCEPT ![t] = Tail(@)]
  /\ UNCHANGED <<val, summary, told, pool>>

(* Mutant: a signal from the pool reaches no slot.                          *)
setValue_Post_Lost(w) == Emitted(w) /\ UNCHANGED <<notices, composing, unread>>

(* From the pool the signal is queued ...                                   *)
setValue_Post(w) ==
  /\ Emitted(w)
  /\ notices' = notices + 1
  /\ UNCHANGED <<composing, unread>>

(* Mutant: blockSignals for changes of the main thread.                     *)
setValue_Call_Blocked == Emitted(Main) /\ UNCHANGED <<notices, composing, unread>>

(* ... in the main thread it calls SendTgListener.                          *)
setValue_Call ==
  /\ Emitted(Main)
  /\ composing' = TRUE /\ unread' = Var
  /\ UNCHANGED notices
-----------------------------------------------------------------------------
(* SendTgListener.  Only the summary is modelled, not the headline.         *)

(* Mutant: called for no signal.                                            *)
SendTgListener_Start_Free ==
  /\ todo[Main] = <<>> /\ ~composing
  /\ notices' = notices - 1
  /\ composing' = TRUE /\ unread' = Var
  /\ UNCHANGED <<val, todo, at, summary, told, pool>>

SendTgListener_Start ==
  /\ todo[Main] = <<>> /\ ~composing /\ notices > 0
  /\ notices' = notices - 1
  /\ composing' = TRUE /\ unread' = Var
  /\ UNCHANGED <<val, todo, at, summary, told, pool>>

SendTgListener_Read ==
  /\ composing
  /\ \E v \in unread :
       /\ \A u \in unread : Line[v] <= Line[u]
       /\ summary' = [summary EXCEPT ![v] = val[v]]
       /\ unread' = unread \ {v}
  /\ UNCHANGED <<val, todo, at, notices, composing, told, pool>>

SendTgListener_Run ==
  /\ composing /\ unread = {}
  /\ composing' = FALSE
  /\ told' = {summary}
  /\ poolQ' = Append(poolQ, [kind |-> "SendToChannel", text |-> {summary}])
  /\ UNCHANGED <<val, todo, at, notices, unread, summary, sending, channel>>
-----------------------------------------------------------------------------
(* The pool starts jobs in their order, as threads get free.                *)

StartJob(w, ops) ==
  /\ todo[w] = <<>> /\ sending[w] = {}
  /\ poolQ # <<>> /\ poolQ' = Tail(poolQ)
  /\ todo' = [todo EXCEPT ![w] = ops]
  /\ UNCHANGED <<val, at, notices, listener, channel>>

(* The ping is answered by the modem's own page, or it is not; no answer at *)
(* all counts as the latter.                                                *)
CheckNetSlot(w) ==
  /\ \/ StartJob(w, <<Set("Internet_Connection", 0)>>)
     \/ StartJob(w, <<Set("Internet_Connection", 1), Set("USB_Modem_Connection", 0)>>)
  /\ Head(poolQ).kind = "CheckNetSlot" /\ notices < MaxNotices
  /\ UNCHANGED sending

CheckCentServerSlot(w) ==
  /\ \E reached \in {0, 1} : StartJob(w, <<Set("CentServer_Connection", reached)>>)
  /\ Head(poolQ).kind = "CheckCentServerSlot" /\ notices < MaxNotices
  /\ UNCHANGED sending

SendToChannel(w) ==
  /\ StartJob(w, <<>>)
  /\ Head(poolQ).kind = "SendToChannel"
  /\ sending' = [sending EXCEPT ![w] = Head(poolQ).text]

(* curl has ended: the message has arrived or is lost, which is ignored.    *)
exeCurlCmd(w) ==
  /\ sending[w] # {}
  /\ channel' \in {channel, sending[w]}
  /\ sending' = [sending EXCEPT ![w] = {}]
  /\ UNCHANGED <<val, todo, at, notices, listener, poolQ>>
-----------------------------------------------------------------------------
setValue(t) == setValue_Compare(t) \/ setValue_Assign(t)

MainSlot ==
  \/ AQC2CtrlDataSlot \/ WdgAqc2CtrlDataSlot \/ ErrorCurlexecSlot
  \/ timerTCP_KeepAliveCheckSlot

MainStep ==
  \/ setValue(Main) \/ setValue_Call \/ RunCheck
  \/ SendTgListener_Read \/ SendTgListener_Run

PoolStep(w) ==
  \/ setValue(w) \/ setValue_Post(w)
  \/ CheckNetSlot(w) \/ CheckCentServerSlot(w) \/ SendToChannel(w)

Next ==
  \/ MainSlot \/ timerConnectionsCheckSlot \/ SendTgListener_Start
  \/ MainStep
  \/ \E w \in Worker : PoolStep(w) \/ exeCurlCmd(w)

(* As in the other modules, slots and jobs that have started go on, and the *)
(* main loop serves timers and posted signals in turn.  The program waits   *)
(* for curl without a limit, so exeCurlCmd has no fairness.                 *)
Fairness ==
  /\ WF_vars(MainStep) /\ \A w \in Worker : WF_vars(PoolStep(w))
  /\ SF_vars(SendTgListener_Start) /\ SF_vars(timerConnectionsCheckSlot)

Spec == Init /\ [][Next]_vars /\ Fairness
-----------------------------------------------------------------------------
(* A change that SendTgListener has yet to hear of.                         *)
Pending == notices > 0 \/ \E t \in Thread : at[t] = "emit"

(* Whenever no change is under way, the message composed last shows the     *)
(* value of every variable, however setValues of several threads and the    *)
(* composition of messages were interleaved.                                *)
StateIsTold ==
  ~Pending /\ ~composing =>
    \/ told = {val}
    \/ told = {} /\ \A v \in Var : val[v] = 0

(* A state that stays as it is, is the last one told.                       *)
LastStateIsTold ==
  \A s \in State : <>[](val = s) => <>[](told \subseteq {s})

(* Once the pings are answered from beyond the modem for good, the modem is *)
(* known to be connected: 0, set with the alarm Rpi_USB_Modem_Disconnect    *)
(* when curl fails, is "disconnected".                                      *)
ModemConnectsAgain ==
  <>[](val["Internet_Connection"] = 1) => <>(val["USB_Modem_Connection"] = 1)
=============================================================================
