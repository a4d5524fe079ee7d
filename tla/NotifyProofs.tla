---------------------------- MODULE NotifyProofs ----------------------------
(***************************************************************************)
(* Proofs about Notify: for any threads of the pool, any of the variables  *)
(* and any bounds.                                                         *)
(***************************************************************************)
EXTENDS Notify, SequenceTheorems, TLAPS

(* While nothing is under way, a message that is being composed shows the   *)
(* present values as far as it has been composed.                           *)
ComposedIsCurrent ==
  ~Pending /\ composing => \A v \in Var \ unread : summary[v] = val[v]

IInv == TypeOK /\ ComposedIsCurrent /\ StateIsTold
-----------------------------------------------------------------------------
(* Type correctness.                                                        *)

LEMMA OpTypes ==
  /\ \A v \in Names, x \in {0, 1} : Set(v, x) \in Op
  /\ \A job \in Check : Run(job) \in Op
BY DEF Op, Set, Run

LEMMA NamesAre ==
  {"CentServer_Connection", "AQC_Connection", "WdgAqc_Connection",
   "Internet_Connection", "USB_Modem_Connection", "AQC_KeepAlive_Rcv",
   "WdgAqc_KeepAlive_Rcv", "AQC_MemoryOverLoad"} \subseteq Names
BY DEF Names, Line

(* One or two operations make a sequence of operations.                     *)
LEMMA OpSeqs ==
  /\ <<>> \in Seq(Op)
  /\ \A o \in Op : <<o>> \in Seq(Op)
  /\ \A o, q \in Op : <<o, q>> \in Seq(Op)
OBVIOUS

LEMMA StartType ==
  ASSUME TypeOK, NEW ops \in Seq(Op), Start(ops)
  PROVE  TypeOK'
<1>1. todo' \in [Thread -> Seq(Op)]
  BY DEF TypeOK, Start
<1>2. QED
  BY <1>1 DEF TypeOK, Start, listener, pool

LEMMA MainSlotType == TypeOK /\ MainSlot => TypeOK'
<1> SUFFICES ASSUME TypeOK, MainSlot PROVE TypeOK'
  OBVIOUS
<1>1. \A v, u \in Names, x, y \in {0, 1} :
        <<Set(v, x)>> \in Seq(Op) /\ <<Set(v, x), Set(u, y)>> \in Seq(Op)
  BY OpTypes, OpSeqs
<1>2. CASE AQC2CtrlDataSlot
  <2>1. <<Set("AQC_MemoryOverLoad", 0), Set("AQC_KeepAlive_Rcv", 1)>> \in Seq(Op)
    BY <1>1, NamesAre
  <2>2. QED
    BY <1>2, <2>1, StartType DEF AQC2CtrlDataSlot
<1>3. CASE WdgAqc2CtrlDataSlot
  <2>1. /\ <<Set("WdgAqc_KeepAlive_Rcv", 1)>> \in Seq(Op)
        /\ <<Set("WdgAqc_KeepAlive_Rcv", 1), Set("AQC_MemoryOverLoad", 1)>> \in Seq(Op)
    BY <1>1, NamesAre
  <2>2. QED
    BY <1>3, <2>1, StartType DEF WdgAqc2CtrlDataSlot
<1>4. CASE ErrorCurlexecSlot
  <2>1. <<Set("USB_Modem_Connection", 0)>> \in Seq(Op)
    BY <1>1, NamesAre
  <2>2. QED
    BY <1>4, <2>1, StartType DEF ErrorCurlexecSlot
<1>5. CASE timerTCP_KeepAliveCheckSlot
  <2>1. /\ <<Set("AQC_KeepAlive_Rcv", 0)>> \in Seq(Op)
        /\ <<Set("WdgAqc_KeepAlive_Rcv", 0)>> \in Seq(Op)
        /\ <<Set("AQC_KeepAlive_Rcv", 0), Set("WdgAqc_KeepAlive_Rcv", 0)>> \in Seq(Op)
    BY <1>1, NamesAre
  <2>2. QED
    BY <1>5, <2>1, StartType DEF timerTCP_KeepAliveCheckSlot
<1>6. QED
  BY <1>2, <1>3, <1>4, <1>5 DEF MainSlot

LEMMA ConnectionsCheckType == TypeOK /\ timerConnectionsCheckSlot => TypeOK'
<1> SUFFICES ASSUME TypeOK, timerConnectionsCheckSlot PROVE TypeOK'
  OBVIOUS
<1>1. PICK aqc, cent, wdg \in {0, 1}, ping \in BOOLEAN :
        Start(<<Set("AQC_Connection", aqc), Set("CentServer_Connection", cent)>>
               \o (IF ping THEN <<Run("CheckCentServerSlot")>> ELSE <<>>)
               \o <<Set("WdgAqc_Connection", wdg), Run("CheckNetSlot")>>)
  BY DEF timerConnectionsCheckSlot
<1>2. /\ <<Set("AQC_Connection", aqc), Set("CentServer_Connection", cent)>> \in Seq(Op)
      /\ <<Set("WdgAqc_Connection", wdg), Run("CheckNetSlot")>> \in Seq(Op)
      /\ <<Run("CheckCentServerSlot")>> \in Seq(Op)
  BY OpTypes, OpSeqs, NamesAre DEF Check
<1>3. (IF ping THEN <<Run("CheckCentServerSlot")>> ELSE <<>>) \in Seq(Op)
  BY <1>2, OpSeqs
<1>4. \A a, b, c \in Seq(Op) : a \o b \o c \in Seq(Op)
  OBVIOUS
<1>5. QED
  BY <1>1, <1>2, <1>3, <1>4, StartType

LEMMA HeadTail ==
  ASSUME NEW S, NEW s \in Seq(S), s # <<>>
  PROVE  Head(s) \in S /\ Tail(s) \in Seq(S)
OBVIOUS

(* Every step of a setValue has done its part of todo.                      *)
LEMMA SetsType ==
  ASSUME TypeOK, NEW t \in Thread, NEW pc, Sets(t, pc)
  PROVE  /\ Head(todo[t]) \in Op /\ Head(todo[t]).value \in {0, 1}
         /\ [todo EXCEPT ![t] = Tail(@)] \in [Thread -> Seq(Op)]
<1>1. todo[t] \in Seq(Op) /\ todo[t] # <<>>
  BY DEF TypeOK, Sets
<1>2. Head(todo[t]) \in Op /\ Tail(todo[t]) \in Seq(Op)
  BY <1>1, HeadTail
<1>3. Head(todo[t]).op = "setValue"
  BY DEF Sets
<1>4. Head(todo[t]).value \in {0, 1}
  BY <1>2, <1>3 DEF Op
<1>5. QED
  BY <1>2, <1>4 DEF TypeOK

LEMMA setValueType ==
  ASSUME TypeOK, NEW t \in Thread, setValue(t)
  PROVE  TypeOK'
<1>1. CASE setValue_Compare(t)
  <2>1. at' \in [Thread -> {"compare", "assign", "emit"}]
    BY <1>1 DEF TypeOK, setValue_Compare
  <2>2. todo' \in [Thread -> Seq(Op)]
    BY <1>1, SetsType DEF TypeOK, setValue_Compare
  <2>3. QED
    BY <1>1, <2>1, <2>2 DEF TypeOK, setValue_Compare, listener, pool
<1>2. CASE setValue_Assign(t)
  <2>1. at' \in [Thread -> {"compare", "assign", "emit"}]
    BY <1>2 DEF TypeOK, setValue_Assign
  <2>2. Head(todo[t]).value \in {0, 1}
    BY <1>2, SetsType DEF setValue_Assign
  <2>3. val' \in State
    BY <1>2, <2>2 DEF TypeOK, State, setValue_Assign
  <2>4. QED
    BY <1>2, <2>1, <2>3 DEF TypeOK, setValue_Assign, listener, pool
<1>3. QED
  BY <1>1, <1>2 DEF setValue

LEMMA EmittedType ==
  ASSUME TypeOK, NEW t \in Thread, Emitted(t), notices' \in Nat,
         composing' \in BOOLEAN, unread' \subseteq Var
  PROVE  TypeOK'
<1>1. at' \in [Thread -> {"compare", "assign", "emit"}]
  BY DEF TypeOK, Emitted
<1>2. todo' \in [Thread -> Seq(Op)]
  BY SetsType DEF Emitted
<1>3. QED
  BY <1>1, <1>2 DEF TypeOK, Emitted, pool

LEMMA ListenerType ==
  TypeOK /\ (SendTgListener_Start \/ SendTgListener_Read \/ SendTgListener_Run)
    => TypeOK'
<1> SUFFICES ASSUME TypeOK PROVE
      (SendTgListener_Start \/ SendTgListener_Read \/ SendTgListener_Run) => TypeOK'
  OBVIOUS
<1>1. CASE SendTgListener_Start
  <2>1. notices' \in Nat
    BY <1>1 DEF TypeOK, SendTgListener_Start
  <2>2. QED
    BY <1>1, <2>1 DEF TypeOK, SendTgListener_Start, pool
<1>2. CASE SendTgListener_Read
  <2>1. summary' \in State /\ unread' \subseteq Var
    BY <1>2 DEF TypeOK, State, SendTgListener_Read
  <2>2. QED
    BY <1>2, <2>1 DEF TypeOK, SendTgListener_Read, pool
<1>3. CASE SendTgListener_Run
  <2>1. told' \in Texts
    BY <1>3 DEF TypeOK, Texts, SendTgListener_Run
  <2>2. [kind |-> "SendToChannel", text |-> {summary}] \in Job
    BY DEF TypeOK, Job
  <2>3. poolQ' \in Seq(Job)
    BY <1>3, <2>2 DEF TypeOK, SendTgListener_Run
  <2>4. QED
    BY <1>3, <2>1, <2>3 DEF TypeOK, SendTgListener_Run
<1>4. QED
  BY <1>1, <1>2, <1>3

LEMMA RunCheckType == TypeOK /\ RunCheck => TypeOK'
<1> SUFFICES ASSUME TypeOK, RunCheck PROVE TypeOK'
  OBVIOUS
<1>1. todo[Main] \in Seq(Op) /\ todo[Main] # <<>>
  BY DEF TypeOK, RunCheck, Thread
<1>2. Head(todo[Main]) \in Op /\ Tail(todo[Main]) \in Seq(Op)
  BY <1>1, HeadTail
<1>3. Head(todo[Main]).job \in Check
  BY <1>2 DEF RunCheck, Op
<1>4. poolQ' \in Seq(Job)
  BY <1>3 DEF TypeOK, RunCheck, Job
<1>5. todo' \in [Thread -> Seq(Op)]
  BY <1>2 DEF TypeOK, RunCheck
<1>6. QED
  BY <1>4, <1>5 DEF TypeOK, RunCheck, listener

LEMMA StartJobType ==
  ASSUME TypeOK, NEW w \in Worker, NEW ops \in Seq(Op), StartJob(w, ops),
         sending' \in [Worker -> Texts]
  PROVE  TypeOK'
<1>1. poolQ' \in Seq(Job)
  BY HeadTail DEF TypeOK, StartJob
<1>2. todo' \in [Thread -> Seq(Op)]
  BY DEF TypeOK, StartJob, Thread
<1>3. QED
  BY <1>1, <1>2 DEF TypeOK, StartJob, listener

LEMMA PoolType ==
  ASSUME TypeOK, NEW w \in Worker,
         CheckNetSlot(w) \/ CheckCentServerSlot(w) \/ SendToChannel(w) \/ exeCurlCmd(w)
  PROVE  TypeOK'
<1>1. CASE CheckNetSlot(w)
  <2>1. /\ <<Set("Internet_Connection", 0)>> \in Seq(Op)
        /\ <<Set("Internet_Connection", 1), Set("USB_Modem_Connection", 0)>> \in Seq(Op)
    BY OpTypes, OpSeqs, NamesAre
  <2>2. sending' \in [Worker -> Texts]
    BY <1>1 DEF TypeOK, CheckNetSlot
  <2>3. QED
    BY <1>1, <2>1, <2>2, StartJobType DEF CheckNetSlot
<1>2. CASE CheckCentServerSlot(w)
  <2>1. \A x \in {0, 1} : <<Set("CentServer_Connection", x)>> \in Seq(Op)
    BY OpTypes, OpSeqs, NamesAre
  <2>2. sending' \in [Worker -> Texts]
    BY <1>2 DEF TypeOK, CheckCentServerSlot
  <2>3. QED
    BY <1>2, <2>1, <2>2, StartJobType DEF CheckCentServerSlot
<1>3. CASE SendToChannel(w)
  <2>1. Head(poolQ) \in Job
    BY <1>3, HeadTail DEF TypeOK, SendToChannel, StartJob
  <2>2. Head(poolQ).text \in Texts
    BY <2>1 DEF Job, Texts
  <2>3. sending' \in [Worker -> Texts]
    BY <1>3, <2>2 DEF TypeOK, SendToChannel
  <2>4. QED
    BY <1>3, <2>3, OpSeqs, StartJobType DEF SendToChannel
<1>4. CASE exeCurlCmd(w)
  <2>1. channel' \in Texts
    BY <1>4 DEF TypeOK, exeCurlCmd
  <2>2. sending' \in [Worker -> Texts]
    BY <1>4 DEF TypeOK, exeCurlCmd, Texts
  <2>3. QED
    BY <1>4, <2>1, <2>2 DEF TypeOK, exeCurlCmd, listener
<1>5. QED
  BY <1>1, <1>2, <1>3, <1>4

LEMMA TypeOKStep == TypeOK /\ [Next]_vars => TypeOK'
<1> SUFFICES ASSUME TypeOK, [Next]_vars PROVE TypeOK'
  OBVIOUS
<1> USE DEF Thread
<1>1. CASE MainSlot
  BY <1>1, MainSlotType
<1>2. CASE timerConnectionsCheckSlot
  BY <1>2, ConnectionsCheckType
<1>3. CASE SendTgListener_Start
  BY <1>3, ListenerType
<1>4. CASE MainStep
  <2>1. CASE setValue(Main)
    BY <2>1, setValueType
  <2>2. CASE setValue_Call
    BY <2>2, EmittedType DEF TypeOK, setValue_Call
  <2>3. CASE RunCheck
    BY <2>3, RunCheckType
  <2>4. CASE SendTgListener_Read \/ SendTgListener_Run
    BY <2>4, ListenerType
  <2>5. QED
    BY <1>4, <2>1, <2>2, <2>3, <2>4 DEF MainStep
<1>5. ASSUME NEW w \in Worker, PoolStep(w) \/ exeCurlCmd(w)
      PROVE  TypeOK'
  <2>1. CASE setValue(w)
    BY <2>1, setValueType
  <2>2. CASE setValue_Post(w)
    <3>1. notices' \in Nat /\ composing' \in BOOLEAN /\ unread' \subseteq Var
      BY <2>2 DEF TypeOK, setValue_Post
    <3>2. QED
      BY <2>2, <3>1, EmittedType DEF setValue_Post
  <2>3. CASE CheckNetSlot(w) \/ CheckCentServerSlot(w) \/ SendToChannel(w)
               \/ exeCurlCmd(w)
    BY <2>3, PoolType
  <2>4. QED
    BY <1>5, <2>1, <2>2, <2>3 DEF PoolStep
<1>6. CASE UNCHANGED vars
  BY <1>6 DEF TypeOK, vars, listener, pool
<1>7. QED
  BY <1>1, <1>2, <1>3, <1>4, <1>5, <1>6 DEF Next

LEMMA InitType == Init => TypeOK
<1> SUFFICES ASSUME Init PROVE TypeOK
  OBVIOUS
<1>1. val \in State /\ summary \in State
  BY DEF Init, State
<1>2. todo \in [Thread -> Seq(Op)]
  BY OpSeqs DEF Init
<1>3. poolQ \in Seq(Job)
  BY DEF Init
<1>4. told \in Texts /\ channel \in Texts /\ sending \in [Worker -> Texts]
  BY DEF Init, Texts
<1>5. QED
  BY <1>1, <1>2, <1>3, <1>4 DEF Init, TypeOK

(* The variables, the threads' work, the queue of jobs and the messages     *)
(* keep their types: no signal is served that was not posted.               *)
THEOREM TypeCorrect == Spec => []TypeOK
BY InitType, TypeOKStep, PTL DEF Spec
-----------------------------------------------------------------------------
(* The message composed last shows the state.                               *)

(* Steps that change none of what the invariant is about.                   *)
LEMMA Elsewhere ==
  ASSUME IInv, UNCHANGED <<val, notices, composing, unread, summary, told>>,
         \A t \in Thread : at[t] = "emit" => at'[t] = "emit"
  PROVE  ComposedIsCurrent' /\ StateIsTold'
<1>1. Pending => Pending'
  BY DEF Pending
<1>2. QED
  BY <1>1 DEF IInv, ComposedIsCurrent, StateIsTold

(* A change makes the thread that made it due to emit.                      *)
LEMMA AssignStep ==
  ASSUME IInv, NEW t \in Thread, setValue_Assign(t)
  PROVE  ComposedIsCurrent' /\ StateIsTold'
<1>1. at'[t] = "emit"
  BY DEF IInv, TypeOK, setValue_Assign
<1>2. Pending'
  BY <1>1 DEF Pending
<1>3. QED
  BY <1>2 DEF ComposedIsCurrent, StateIsTold

LEMMA CompareStep ==
  ASSUME IInv, NEW t \in Thread, setValue_Compare(t)
  PROVE  ComposedIsCurrent' /\ StateIsTold'
<1>1. \A u \in Thread : at[u] = "emit" => at'[u] = "emit"
  BY DEF IInv, TypeOK, setValue_Compare, Sets
<1>2. QED
  BY <1>1, Elsewhere DEF setValue_Compare, listener

(* A message that starts to be composed has read nothing yet.               *)
LEMMA FreshStep ==
  ASSUME composing', unread' = Var
  PROVE  ComposedIsCurrent' /\ StateIsTold'
BY DEF ComposedIsCurrent, StateIsTold

LEMMA PostStep ==
  ASSUME IInv, NEW w \in Worker, setValue_Post(w)
  PROVE  ComposedIsCurrent' /\ StateIsTold'
<1>1. notices' > 0
  BY DEF IInv, TypeOK, setValue_Post
<1>2. Pending'
  BY <1>1 DEF Pending
<1>3. QED
  BY <1>2 DEF ComposedIsCurrent, StateIsTold

LEMMA ReadStep ==
  ASSUME IInv, SendTgListener_Read
  PROVE  ComposedIsCurrent' /\ StateIsTold'
<1>1. PICK v \in unread :
        /\ summary' = [summary EXCEPT ![v] = val[v]]
        /\ unread' = unread \ {v}
  BY DEF SendTgListener_Read
<1>2. composing /\ composing' /\ UNCHANGED <<val, at, notices>>
  BY DEF SendTgListener_Read
<1>3. Pending' <=> Pending
  BY <1>2 DEF Pending
<1>4. ASSUME ~Pending, NEW u \in Var \ unread' PROVE summary'[u] = val[u]
  <2>1. CASE u = v
    BY <1>1, <2>1 DEF IInv, TypeOK, State
  <2>2. CASE u # v
    BY <1>1, <1>2, <1>4, <2>2 DEF IInv, TypeOK, State, ComposedIsCurrent
  <2>3. QED
    BY <2>1, <2>2
<1>5. QED
  BY <1>2, <1>3, <1>4 DEF ComposedIsCurrent, StateIsTold

LEMMA RunStep ==
  ASSUME IInv, SendTgListener_Run
  PROVE  ComposedIsCurrent' /\ StateIsTold'
<1>1. /\ composing /\ unread = {} /\ ~composing' /\ told' = {summary}
      /\ UNCHANGED <<val, at, notices>>
  BY DEF SendTgListener_Run
<1>2. Pending' <=> Pending
  BY <1>1 DEF Pending
<1>3. ASSUME ~Pending PROVE summary = val
  <2>1. \A v \in Var : summary[v] = val[v]
    BY <1>1, <1>3 DEF IInv, ComposedIsCurrent
  <2>2. summary \in [Var -> {0, 1}] /\ val \in [Var -> {0, 1}]
    BY DEF IInv, TypeOK, State
  <2>3. QED
    BY <2>1, <2>2
<1>4. QED
  BY <1>1, <1>2, <1>3 DEF ComposedIsCurrent, StateIsTold

LEMMA InitIInv == Init => IInv
<1> SUFFICES ASSUME Init PROVE IInv
  OBVIOUS
<1>1. told = {} /\ \A v \in Var : val[v] = 0
  BY DEF Init
<1>2. ~composing
  BY DEF Init
<1>3. QED
  BY <1>1, <1>2, InitType DEF IInv, ComposedIsCurrent, StateIsTold

LEMMA IInvStep == IInv /\ [Next]_vars => IInv'
<1> SUFFICES ASSUME IInv, [Next]_vars PROVE IInv'
  OBVIOUS
<1>1. TypeOK'
  BY TypeOKStep DEF IInv
<1>2. ComposedIsCurrent' /\ StateIsTold'
  <2>1. CASE MainSlot \/ timerConnectionsCheckSlot
    BY <2>1, Elsewhere DEF MainSlot, timerConnectionsCheckSlot, AQC2CtrlDataSlot,
       WdgAqc2CtrlDataSlot, ErrorCurlexecSlot, timerTCP_KeepAliveCheckSlot, Start,
       listener
  <2>2. CASE SendTgListener_Start
    BY <2>2, FreshStep DEF SendTgListener_Start
  <2>3. CASE MainStep
    <3>1. CASE setValue(Main)
      BY <3>1, AssignStep, CompareStep DEF setValue, Thread
    <3>2. CASE setValue_Call
      BY <3>2, FreshStep DEF setValue_Call
    <3>3. CASE RunCheck
      BY <3>3, Elsewhere DEF RunCheck, listener
    <3>4. CASE SendTgListener_Read
      BY <3>4, ReadStep
    <3>5. CASE SendTgListener_Run
      BY <3>5, RunStep
    <3>6. QED
      BY <2>3, <3>1, <3>2, <3>3, <3>4, <3>5 DEF MainStep
  <2>4. ASSUME NEW w \in Worker, PoolStep(w) \/ exeCurlCmd(w)
        PROVE  ComposedIsCurrent' /\ StateIsTold'
    <3>1. CASE setValue(w)
      BY <3>1, AssignStep, CompareStep DEF setValue, Thread
    <3>2. CASE setValue_Post(w)
      BY <3>2, PostStep
    <3>3. CASE CheckNetSlot(w) \/ CheckCentServerSlot(w) \/ SendToChannel(w)
                 \/ exeCurlCmd(w)
      BY <3>3, Elsewhere DEF CheckNetSlot, CheckCentServerSlot, SendToChannel,
         StartJob, exeCurlCmd, listener
    <3>4. QED
      BY <2>4, <3>1, <3>2, <3>3 DEF PoolStep
  <2>5. CASE UNCHANGED vars
    BY <2>5, Elsewhere DEF vars, listener
  <2>6. QED
    BY <2>1, <2>2, <2>3, <2>4, <2>5 DEF Next
<1>3. QED
  BY <1>1, <1>2 DEF IInv

LEMMA Inductive == Spec => []IInv
BY InitIInv, IInvStep, PTL DEF Spec

(* When no change is under way, the message composed last shows the value   *)
(* of every variable, although setValue and SendTgListener share them       *)
(* without a lock: what changes under a message being composed is told by   *)
(* the message after it.                                                    *)
THEOREM LastMessageIsState == Spec => []StateIsTold
<1>1. IInv => StateIsTold
  BY DEF IInv
<1>2. QED
  BY <1>1, Inductive, PTL
=============================================================================
