-------------------------- MODULE ClientLifeProofs --------------------------
(***************************************************************************)
(* Proofs about ClientLife, for any number of pool threads and any bounds: *)
(* its type correctness, that the current client is deleted only while it  *)
(* is being replaced, and that a client is wired once as long as renewals  *)
(* do not overlap.                                                         *)
(***************************************************************************)
EXTENDS ClientLife, TLAPS

LEMMA Numbers ==
  /\ None \notin Client /\ Client \subseteq Nat /\ Thread = Client
  /\ \A n \in 0..MaxClients : n < MaxClients => n + 1 \in Client
BY LifeAssumption DEF None, Client, Thread

(* What happens in the loops and the clients' threads.                      *)
Loops ==
  \/ \E t \in Thread : ClientThread(t) \/ Deliver_Quit(t)
  \/ \E o \in Client : Deliver_Connect(o) \/ Deliver_Delete(o) \/ Disconnect(o)

(* The global is set before anyone uses it.                                 *)
Ready ==
  /\ obj = None => /\ pc[Main] \in {"told", "thread"}
                   /\ \A w \in Worker : pc[w] = "idle"
  /\ \A a \in Actor : pc[a] \in {"thread", "client", "moved", "wired"} => thr # None

IType == TypeOK /\ Ready

LEMMA LoopsKeep ==
  Loops => UNCHANGED <<obj, thr, pc, clients, maker, moved, threads, tMaker, told,
                       overlapped>>
BY DEF Loops, ClientThread, EmitStarted, connect2Server, EnterLoop, LeaveLoop,
       Deliver_Quit, Deliver_Connect, Deliver_Delete, Disconnect, Quit, Attempt,
       cVars, tVars, counts

LEMMA Steps_Next ==
  ASSUME Next
  PROVE  \/ Loops
         \/ \E a \in Actor : initCentServerCnn(a)
         \/ timerConnectionsCheck_Up \/ timerConnectionsCheck_Down
         \/ \E w \in Worker : CheckCentServer_Reached(w) \/ CheckCentServer_Redirected(w)
BY DEF Next, Loops, PoolThread, Actor

LEMMA TypeLoops ==
  ASSUME IType, Loops
  PROVE  TypeOK'
<1> USE DEF IType, TypeOK, cVars, tVars, counts
<1>1. CASE \E t \in Thread : ClientThread(t)
  <2>1. PICK t \in Thread : ClientThread(t)
    BY <1>1
  <2>2. CASE EmitStarted(t)
    BY <2>2 DEF EmitStarted, Running
  <2>3. CASE connect2Server(t)
    BY <2>3, LifeAssumption DEF connect2Server, Attempt
  <2>4. CASE EnterLoop(t)
    BY <2>4 DEF EnterLoop, Running
  <2>5. CASE LeaveLoop(t)
    BY <2>5 DEF LeaveLoop
  <2> QED
    BY <2>1, <2>2, <2>3, <2>4, <2>5 DEF ClientThread
<1>2. CASE \E t \in Thread : Deliver_Quit(t)
  BY <1>2 DEF Deliver_Quit, Quit
<1>3. CASE \E o \in Client : Deliver_Connect(o)
  BY <1>3, LifeAssumption, Numbers DEF Deliver_Connect, Attempt
<1>4. CASE \E o \in Client : Deliver_Delete(o)
  BY <1>4 DEF Deliver_Delete
<1>5. CASE \E o \in Client : Disconnect(o)
  BY <1>5, LifeAssumption DEF Disconnect
<1> QED
  BY <1>1, <1>2, <1>3, <1>4, <1>5 DEF Loops

LEMMA TypeInit ==
  ASSUME IType, NEW a \in Actor, initCentServerCnn(a)
  PROVE  IType'
<1> USE Numbers, LifeAssumption DEF IType, TypeOK, Ready, Goto, Actor, Steps
<1>1. CASE init_NewThread(a)
  BY <1>1 DEF init_NewThread, cVars, counts
<1>2. CASE init_NewClient(a)
  BY <1>2 DEF init_NewClient, tVars, counts
<1>3. CASE init_Move(a)
  BY <1>3 DEF init_Move, tVars, counts
<1>4. CASE init_Connect(a)
  <2>1. obj \in Client /\ thr \in Thread
    BY <1>4 DEF init_Connect
  <2>2. wires' \in [Client -> [Thread -> Nat]]
    BY <1>4, <2>1 DEF init_Connect
  <2> QED
    BY <1>4, <2>2 DEF init_Connect, cVars, tVars, counts
<1>5. CASE init_Start(a)
  BY <1>5 DEF init_Start, cVars, counts, Running
<1> QED
  BY <1>1, <1>2, <1>3, <1>4, <1>5 DEF initCentServerCnn

LEMMA TypeFinish ==
  ASSUME IType, NEW a \in Actor, obj # None, finishObject(a),
         redirects' \in 0..MaxRedirects, early' \in 0..MaxEarly
  PROVE  IType'
<1>1. TypeOK'
  BY Numbers DEF IType, TypeOK, finishObject, Goto, Quit, Steps
<1>2. Ready'
  BY DEF IType, TypeOK, Ready, finishObject, Goto
<1> QED
  BY <1>1, <1>2 DEF IType

LEMMA TypeNext ==
  ASSUME IType, [Next]_vars
  PROVE  IType'
<1>1. CASE UNCHANGED vars
  BY <1>1 DEF vars, cVars, tVars, counts, IType, TypeOK, Ready
<1>2. CASE Loops
  BY <1>2, TypeLoops, LoopsKeep DEF IType, Ready
<1>3. CASE \E a \in Actor : initCentServerCnn(a)
  BY <1>3, TypeInit
<1>4. CASE timerConnectionsCheck_Up
  <2>1. obj # None
    BY <1>4 DEF timerConnectionsCheck_Up, IType, Ready
  <2> QED
    BY <1>4, <2>1, LifeAssumption
    DEF timerConnectionsCheck_Up, Goto, IType, TypeOK, Ready, Actor, cVars, tVars, counts
<1>5. CASE timerConnectionsCheck_Down
  <2>1. obj # None /\ Main \in Actor
    BY <1>5 DEF timerConnectionsCheck_Down, IType, Ready, Actor
  <2>2. redirects' \in 0..MaxRedirects /\ early' \in 0..MaxEarly
    BY <1>5, LifeAssumption DEF timerConnectionsCheck_Down, IType, TypeOK
  <2> QED
    BY <1>5, <2>1, <2>2, TypeFinish DEF timerConnectionsCheck_Down
<1>6. CASE \E w \in Worker : CheckCentServer_Reached(w)
  <2>1. PICK w \in Worker : CheckCentServer_Reached(w)
    BY <1>6
  <2>2. w # Main /\ obj # None
    BY <2>1, LifeAssumption DEF CheckCentServer_Reached, IType, Ready
  <2>3. TypeOK'
    BY <2>1 DEF CheckCentServer_Reached, Goto, IType, TypeOK, cVars, tVars, counts
  <2>4. Ready'
    BY <2>1, <2>2 DEF CheckCentServer_Reached, Goto, IType, TypeOK, Ready, Actor
  <2> QED
    BY <2>3, <2>4 DEF IType
<1>7. CASE \E w \in Worker : CheckCentServer_Redirected(w)
  <2>1. PICK w \in Worker : CheckCentServer_Redirected(w)
    BY <1>7
  <2>2. obj # None /\ w \in Actor
    BY <2>1 DEF CheckCentServer_Redirected, IType, Ready, Actor
  <2>3. redirects' \in 0..MaxRedirects /\ early' \in 0..MaxEarly
    BY <2>1, LifeAssumption DEF CheckCentServer_Redirected, IType, TypeOK
  <2> QED
    BY <2>1, <2>2, <2>3, TypeFinish DEF CheckCentServer_Redirected
<1> QED
  BY <1>1, <1>2, <1>3, <1>4, <1>5, <1>6, <1>7, Steps_Next

LEMMA TypeInv == Spec => []IType
<1>1. Init => IType
  <2>1. Init => TypeOK
    <3> SUFFICES ASSUME Init PROVE TypeOK
      OBVIOUS
    <3>1. pc \in [Actor -> Steps \cup {"idle", "ping"}] /\ Main \in Actor
      BY DEF Init, Actor, Steps
    <3>2. wires \in [Client -> [Thread -> Nat]]
      BY DEF Init
    <3>3. posted \in [Client -> SUBSET {"connect2Server", "deleteLater"}]
          /\ todo \in [Thread -> SUBSET Client]
      BY DEF Init
    <3>4. /\ maker \in [Client -> Actor] /\ moved \in [Client -> {None} \cup Thread]
          /\ sock \in [Client -> {"closed", "connected"}]
      BY <3>1 DEF Init
    <3>5. /\ tMaker \in [Thread -> Actor]
          /\ run \in [Thread -> {"made", "ended"} \cup Running]
          /\ exit \in [Thread -> BOOLEAN] /\ quitPosted \in [Thread -> BOOLEAN]
      BY <3>1 DEF Init
    <3>6. /\ obj = None /\ thr = None /\ freed = {} /\ told = {} /\ overlapped = FALSE
          /\ clients \in 0..MaxClients /\ threads \in 0..MaxClients
          /\ drops \in 0..MaxDrops /\ redirects \in 0..MaxRedirects
          /\ early \in 0..MaxEarly
      BY LifeAssumption DEF Init
    <3> QED
      BY <3>1, <3>2, <3>3, <3>4, <3>5, <3>6 DEF TypeOK
  <2>2. Init => Ready
    BY LifeAssumption DEF Init, Ready, Actor, None
  <2> QED
    BY <2>1, <2>2 DEF IType
<1>2. IType /\ [Next]_vars => IType'
  BY TypeNext
<1> QED
  BY <1>1, <1>2, PTL DEF Spec

(* The variables of ClientLife keep their types.                            *)
THEOREM TypeCorrect == Spec => []TypeOK
BY TypeInv, PTL DEF IType
-----------------------------------------------------------------------------
(* Only clients that were told to finish are deleted or about to be, and    *)
(* whoever told the current one has not made the next yet.                  *)
Condemned ==
  /\ obj <= clients /\ obj \in Nat /\ \A o \in told : o <= clients
  /\ freed \subseteq told
  /\ \A o \in Client : "deleteLater" \in posted[o] => o \in told
  /\ obj \in told => \E a \in Actor : pc[a] \in {"told", "thread"}

LEMMA CondemnedLoops ==
  ASSUME IType, Condemned, Loops
  PROVE  Condemned'
<1>1. /\ freed' \subseteq told
      /\ \A o \in Client : "deleteLater" \in posted'[o] => "deleteLater" \in posted[o]
  <2> USE DEF Condemned, IType, TypeOK, cVars
  <2>1. CASE \E t \in Thread : ClientThread(t)
    <3>1. PICK t \in Thread : ClientThread(t)
      BY <2>1
    <3>2. CASE EmitStarted(t)
      <4>1. \A o \in Client : posted'[o] = posted[o]
                            \/ posted'[o] = posted[o] \cup {"connect2Server"}
        BY <3>2 DEF EmitStarted
      <4> QED
        BY <3>2, <4>1 DEF EmitStarted
    <3>3. CASE connect2Server(t) \/ EnterLoop(t) \/ LeaveLoop(t)
      BY <3>3 DEF connect2Server, EnterLoop, LeaveLoop
    <3> QED
      BY <3>1, <3>2, <3>3 DEF ClientThread
  <2>2. CASE \E t \in Thread : Deliver_Quit(t)
    BY <2>2 DEF Deliver_Quit
  <2>3. CASE \E o \in Client : Deliver_Connect(o)
    BY <2>3 DEF Deliver_Connect
  <2>4. CASE \E o \in Client : Deliver_Delete(o)
    BY <2>4 DEF Deliver_Delete
  <2>5. CASE \E o \in Client : Disconnect(o)
    BY <2>5 DEF Disconnect
  <2> QED
    BY <2>1, <2>2, <2>3, <2>4, <2>5 DEF Loops
<1> QED
  BY <1>1, LoopsKeep DEF Condemned

LEMMA CondemnedInit ==
  ASSUME IType, Condemned, NEW a \in Actor, initCentServerCnn(a)
  PROVE  Condemned'
<1> USE DEF Condemned, IType, TypeOK, Goto
<1>1. CASE init_NewThread(a)
  BY <1>1 DEF init_NewThread, cVars
<1>2. CASE init_NewClient(a)
  BY <1>2, Numbers DEF init_NewClient
<1>3. CASE init_Move(a)
  BY <1>3 DEF init_Move
<1>4. CASE init_Connect(a)
  BY <1>4 DEF init_Connect, cVars
<1>5. CASE init_Start(a)
  BY <1>5 DEF init_Start, cVars
<1> QED
  BY <1>1, <1>2, <1>3, <1>4, <1>5 DEF initCentServerCnn

LEMMA CondemnedFinish ==
  ASSUME IType, Condemned, NEW a \in Actor, obj # None, finishObject(a)
  PROVE  Condemned'
BY Numbers DEF Condemned, IType, TypeOK, finishObject, Goto

LEMMA CondemnedNext ==
  ASSUME IType, Condemned, [Next]_vars
  PROVE  Condemned'
<1>1. CASE UNCHANGED vars
  BY <1>1 DEF vars, cVars, Condemned
<1>2. CASE Loops
  BY <1>2, CondemnedLoops
<1>3. CASE \E a \in Actor : initCentServerCnn(a)
  BY <1>3, CondemnedInit
<1>4. CASE timerConnectionsCheck_Up
  BY <1>4 DEF timerConnectionsCheck_Up, Goto, Condemned, IType, TypeOK, cVars, Actor
<1>5. CASE timerConnectionsCheck_Down
  <2>1. obj # None /\ Main \in Actor
    BY <1>5 DEF timerConnectionsCheck_Down, IType, Ready, Actor
  <2> QED
    BY <1>5, <2>1, CondemnedFinish DEF timerConnectionsCheck_Down
<1>6. CASE \E w \in Worker : CheckCentServer_Reached(w)
  BY <1>6 DEF CheckCentServer_Reached, Goto, Condemned, IType, TypeOK, cVars, Actor
<1>7. CASE \E w \in Worker : CheckCentServer_Redirected(w)
  <2>1. PICK w \in Worker : CheckCentServer_Redirected(w)
    BY <1>7
  <2>2. obj # None /\ w \in Actor
    BY <2>1 DEF CheckCentServer_Redirected, IType, Ready, Actor
  <2> QED
    BY <2>1, <2>2, CondemnedFinish DEF CheckCentServer_Redirected
<1> QED
  BY <1>1, <1>2, <1>3, <1>4, <1>5, <1>6, <1>7, Steps_Next

LEMMA CondemnedInv == Spec => []Condemned
<1>1. Init => Condemned
  BY DEF Init, Condemned, None
<1>2. IType /\ Condemned /\ [Next]_vars => Condemned'
  BY CondemnedNext
<1> QED
  BY <1>1, <1>2, TypeInv, PTL DEF Spec

(* The current client is deleted only between finishObject and the          *)
(* assignment of the next one, whichever threads renew at the same time.    *)
THEOREM NeverStale == Spec => []FreedOnlyWhileReplaced
<1>1. Condemned => FreedOnlyWhileReplaced
  BY DEF Condemned, FreedOnlyWhileReplaced
<1> QED
  BY <1>1, CondemnedInv, PTL
-----------------------------------------------------------------------------
Unwired(o) == \A t \in Thread : wires[o][t] = 0

(* What renewals that do not overlap maintain: one thread at most renews,   *)
(* its new client is wired when it is done and not before.                  *)
Sole ==
  /\ \A a, b \in Actor : Renewing(a) /\ Renewing(b) => a = b
  /\ \A a \in Actor : pc[a] \in {"told", "thread"} => obj = None \/ obj \in told
  /\ \A a \in Actor : pc[a] = "client" =>
        maker[obj] = a /\ moved[obj] = None /\ Unwired(obj)
  /\ \A a \in Actor : pc[a] = "moved" => moved[obj] = thr /\ Unwired(obj)
  /\ \A o \in Client : o > clients => moved[o] = None /\ Unwired(o)
  /\ \A o \in Client : \A t \in Thread : wires[o][t] > 0 =>
        /\ wires[o][t] = 1 /\ moved[o] = t
        /\ o = obj \/ o \in told

SoleRenewal == ~overlapped => Sole

LEMMA SoleLoops ==
  ASSUME IType, SoleRenewal, Loops
  PROVE  SoleRenewal'
<1>1. wires' = wires
      \/ \E o \in Client : wires' = [wires EXCEPT ![o] = [t \in Thread |-> 0]]
  BY DEF Loops, ClientThread, EmitStarted, connect2Server, EnterLoop, LeaveLoop,
         Deliver_Quit, Deliver_Connect, Deliver_Delete, Disconnect
<1>2. \A o \in Client : \A t \in Thread :
        wires'[o][t] = wires[o][t] \/ wires'[o][t] = 0
  BY <1>1 DEF IType, TypeOK
<1>3. \A o \in Client : Unwired(o) => Unwired(o)'
  BY <1>2 DEF Unwired
<1>4. \A a \in Actor : pc[a] = "client" \/ pc[a] = "moved" => obj \in Client
  BY DEF IType, TypeOK, Ready, Actor
<1> QED
  BY <1>2, <1>3, <1>4, LoopsKeep DEF SoleRenewal, Sole, Renewing

LEMMA SoleInit ==
  ASSUME IType, Condemned, SoleRenewal, NEW a \in Actor, initCentServerCnn(a)
  PROVE  SoleRenewal'
<1> SUFFICES ASSUME ~overlapped
             PROVE  Sole'
  BY DEF SoleRenewal, initCentServerCnn, init_NewThread, init_NewClient, init_Move,
         init_Connect, init_Start
<1>0. Sole /\ Renewing(a)
  BY DEF SoleRenewal, Renewing, Steps, initCentServerCnn, init_NewThread,
         init_NewClient, init_Move, init_Connect, init_Start
<1>a. \A b \in Actor \ {a} : ~Renewing(b)
  BY <1>0 DEF Sole
<1>b. \A b \in Actor \ {a} : pc'[b] = pc[b] /\ ~Renewing(b)'
  BY <1>a DEF IType, TypeOK, Goto, Renewing, initCentServerCnn, init_NewThread,
              init_NewClient, init_Move, init_Connect, init_Start
<1>c. \A b \in Actor : b # a => pc'[b] \notin Steps
  BY <1>b DEF Renewing
<1> USE DEF IType, TypeOK, Goto, Sole, Renewing, Unwired
<1>1. CASE init_NewThread(a)
  BY <1>0, <1>c, <1>1 DEF init_NewThread, cVars, Steps
<1>2. CASE init_NewClient(a)
  BY <1>0, <1>c, <1>2, Numbers DEF init_NewClient, Steps
<1>3. CASE init_Move(a)
  <2>1. obj \notin freed /\ obj \in Client
    BY <1>0, <1>a, <1>3, Numbers DEF init_Move, Condemned, Steps, Ready, Actor
  <2>2. moved' = [moved EXCEPT ![obj] = thr]
    BY <1>0, <1>3, <2>1 DEF init_Move
  <2> QED
    BY <1>0, <1>c, <1>3, <2>1, <2>2 DEF init_Move, Steps, Condemned
<1>4. CASE init_Connect(a)
  <2>1. obj \in Client /\ thr \in Thread /\ moved[obj] = thr /\ Unwired(obj)
    BY <1>0, <1>4 DEF init_Connect, Ready, Actor
  <2>2. \A o \in Client : \A t \in Thread :
          \/ wires'[o][t] = wires[o][t]
          \/ o = obj /\ t = thr /\ wires'[o][t] = 1
    BY <1>4, <2>1 DEF init_Connect
  <2>3. obj <= clients
    BY DEF Condemned
  <2> QED
    BY <1>0, <1>c, <1>4, <2>1, <2>2, <2>3, Numbers DEF init_Connect, cVars, Steps
<1>5. CASE init_Start(a)
  BY <1>0, <1>c, <1>5 DEF init_Start, cVars, Steps
<1> QED
  BY <1>1, <1>2, <1>3, <1>4, <1>5 DEF initCentServerCnn

LEMMA SoleFinish ==
  ASSUME IType, SoleRenewal, NEW a \in Actor, obj # None, finishObject(a),
         ~Renewing(a)
  PROVE  SoleRenewal'
<1> SUFFICES ASSUME ~overlapped, \A b \in Actor \ {a} : ~Renewing(b)
             PROVE  Sole'
  BY DEF SoleRenewal, finishObject
<1>1. \A b \in Actor : b # a => pc'[b] = pc[b] /\ pc'[b] \notin Steps
  BY DEF finishObject, Goto, Renewing, IType, TypeOK
<1>2. pc'[a] = "told" /\ obj \in told'
  BY DEF finishObject, Goto, IType, TypeOK
<1> QED
  BY <1>1, <1>2 DEF finishObject, SoleRenewal, Sole, Renewing, Steps, Unwired

LEMMA SoleNext ==
  ASSUME IType, Condemned, SoleRenewal, [Next]_vars
  PROVE  SoleRenewal'
<1>1. CASE UNCHANGED vars
  BY <1>1 DEF vars, cVars, SoleRenewal, Sole, Renewing, Unwired
<1>2. CASE Loops
  BY <1>2, SoleLoops
<1>3. CASE \E a \in Actor : initCentServerCnn(a)
  BY <1>3, SoleInit
<1>4. CASE timerConnectionsCheck_Up
  BY <1>4 DEF timerConnectionsCheck_Up, Goto, SoleRenewal, Sole, Renewing, Unwired,
              Steps, IType, TypeOK, cVars, Actor
<1>5. CASE timerConnectionsCheck_Down
  <2>1. obj # None /\ Main \in Actor /\ ~Renewing(Main)
    BY <1>5 DEF timerConnectionsCheck_Down, IType, Ready, Actor, Renewing, Steps
  <2> QED
    BY <1>5, <2>1, SoleFinish DEF timerConnectionsCheck_Down
<1>6. CASE \E w \in Worker : CheckCentServer_Reached(w)
  BY <1>6 DEF CheckCentServer_Reached, Goto, SoleRenewal, Sole, Renewing, Unwired,
              Steps, IType, TypeOK, cVars, Actor
<1>7. CASE \E w \in Worker : CheckCentServer_Redirected(w)
  <2>1. PICK w \in Worker : CheckCentServer_Redirected(w)
    BY <1>7
  <2>2. obj # None /\ w \in Actor /\ ~Renewing(w)
    BY <2>1 DEF CheckCentServer_Redirected, IType, Ready, Actor, Renewing, Steps
  <2> QED
    BY <2>1, <2>2, SoleFinish DEF CheckCentServer_Redirected
<1> QED
  BY <1>1, <1>2, <1>3, <1>4, <1>5, <1>6, <1>7, Steps_Next

(* Without overlapping renewals every client is wired once, to the thread   *)
(* it lives in, and all but the current one have been told to finish.       *)
THEOREM OneWiring == Spec => []WiredOnce
<1>1. Init => SoleRenewal
  BY LifeAssumption DEF Init, SoleRenewal, Sole, Renewing, Steps, Unwired, None
<1>2. IType /\ Condemned /\ SoleRenewal /\ [Next]_vars => SoleRenewal'
  BY SoleNext
<1>3. IType /\ SoleRenewal => WiredOnce
  BY DEF SoleRenewal, Sole, WiredOnce, WiredTo
<1> QED
  BY <1>1, <1>2, <1>3, TypeInv, CondemnedInv, PTL DEF Spec
=============================================================================
