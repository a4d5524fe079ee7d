----------------------------- MODULE ClientLife -----------------------------
(***************************************************************************)
(* The life of the clients of the central server and of their threads.     *)
(* initCentServerCnn makes a QThread and a client, moves the one to the    *)
(* other and wires them to the controller; a client whose link is down is  *)
(* told to finish and replaced.  The main thread does so for a closed      *)
(* socket (timerConnectionsCheckSlot), a thread of Qt's pool for a modem   *)
(* that answers instead of the server (CheckCentServerSlot): both work     *)
(* line by line on the globals CentServer_Client_Obj and                   *)
(* CentServerConnThread, without a lock.  The links of the AQC program and *)
(* its watchdog are this specification without pool threads.               *)
(*                                                                         *)
(* A queued call runs in the loop of the thread its receiver lives in.     *)
(* The pool's threads have no loop: what is posted there never runs.       *)
(***************************************************************************)
EXTENDS Naturals

CONSTANTS
  Worker,        \* the threads of the pool that run CheckCentServerSlot
  MaxClients,    \* bounds the clients, and the threads, that are made
  MaxDrops,      \* bounds closed connections and failed attempts
  MaxRedirects,  \* bounds the pings that the modem answers
  MaxEarly       \* bounds the checks that do not wait for a renewal to end

Main == "main"
None == 0

ASSUME LifeAssumption ==
  /\ Main \notin Worker
  /\ MaxClients \in Nat /\ MaxClients > 0
  /\ MaxDrops \in Nat /\ MaxRedirects \in Nat /\ MaxEarly \in Nat

Actor  == {Main} \cup Worker
Client == 1..MaxClients
Thread == 1..MaxClients

VARIABLES
  obj,        \* CentServer_Client_Obj
  thr,        \* CentServerConnThread
  pc,         \* where main and pool threads are
  (* Clients:                                                               *)
  clients,    \* how many were made
  maker,      \* who made each, and owns it until it is moved
  moved,      \* the thread it was moved to, or None
  sock,       \* whether its socket is in ConnectedState
  posted,     \* calls that wait for it in the loop of the thread it lives in
  freed,      \* the clients that were deleted
  (* Threads:                                                               *)
  threads,    \* how many were made
  tMaker,     \* who made each, and owns the QThread object
  run,        \* "starting": before started(), "started": before its loop
  exit,       \* whether quit() has been called since it was started
  quitPosted, \* whether a call of quit() waits in its owner's loop
  todo,       \* the clients whose connect2Server the thread has to run
  wires,      \* how often a client and a thread were connected by signals
  (* Counted for the bounds:                                                *)
  drops, redirects, early,
  (* History:                                                               *)
  told,       \* the clients for which finishObject was emitted
  overlapped  \* whether two threads were renewing at the same time

cVars  == <<clients, maker, moved, sock, posted, freed>>
tVars  == <<threads, tMaker, run, exit, quitPosted, todo>>
counts == <<drops, redirects, early>>
vars   == <<obj, thr, pc, cVars, tVars, wires, counts, told, overlapped>>

Running == {"starting", "started", "loop"}
Steps   == {"told", "thread", "client", "moved", "wired"}

TypeOK ==
  /\ obj \in {None} \cup Client /\ thr \in {None} \cup Thread
  /\ pc \in [Actor -> Steps \cup {"idle", "ping"}]
  /\ clients \in 0..MaxClients /\ threads \in 0..MaxClients
  /\ maker \in [Client -> Actor] /\ moved \in [Client -> {None} \cup Thread]
  /\ sock \in [Client -> {"closed", "connected"}]
  /\ posted \in [Client -> SUBSET {"connect2Server", "deleteLater"}]
  /\ freed \subseteq Client
  /\ tMaker \in [Thread -> Actor]
  /\ run \in [Thread -> {"made", "ended"} \cup Running]
  /\ exit \in [Thread -> BOOLEAN] /\ quitPosted \in [Thread -> BOOLEAN]
  /\ todo \in [Thread -> SUBSET Client]
  /\ wires \in [Client -> [Thread -> Nat]]
  /\ drops \in 0..MaxDrops /\ redirects \in 0..MaxRedirects /\ early \in 0..MaxEarly
  /\ told \subseteq Client /\ overlapped \in BOOLEAN

(* InitController has reached initCentServerCnn; the timers start after it. *)
Init ==
  /\ obj = None /\ thr = None
  /\ pc = [a \in Actor |-> IF a = Main THEN "told" ELSE "idle"]
  /\ clients = 0 /\ threads = 0
  /\ maker = [o \in Client |-> Main] /\ moved = [o \in Client |-> None]
  /\ sock = [o \in Client |-> "closed"] /\ posted = [o \in Client |-> {}]
  /\ freed = {}
  /\ tMaker = [t \in Thread |-> Main] /\ run = [t \in Thread |-> "made"]
  /\ exit = [t \in Thread |-> FALSE] /\ quitPosted = [t \in Thread |-> FALSE]
  /\ todo = [t \in Thread |-> {}]
  /\ wires = [o \in Client |-> [t \in Thread |-> 0]]
  /\ drops = 0 /\ redirects = 0 /\ early = 0
  /\ told = {} /\ overlapped = FALSE
-----------------------------------------------------------------------------
Renewing(a) == pc[a] \in Steps
Goto(a, step) == pc' = [pc EXCEPT ![a] = step]
WiredTo(o)  == {t \in Thread : wires[o][t] > 0}

(* QThread::quit has an effect on a thread that runs.                       *)
Quit(ts) == exit' = [t \in Thread |-> exit[t] \/ (t \in ts /\ run[t] \in Running)]

(* Mutant: the signal is not connected to deleteLater.                      *)
finishObject_Kept(a) ==
  /\ threads < MaxClients
  /\ Quit({t \in WiredTo(obj) : tMaker[t] = a})
  /\ quitPosted' = [t \in Thread |->
                      quitPosted[t] \/ (t \in WiredTo(obj) /\ tMaker[t] # a)]
  /\ told' = told \cup {obj}
  /\ overlapped' = (overlapped \/ \E b \in Actor \ {a} : Renewing(b))
  /\ Goto(a, "told")
  /\ UNCHANGED <<obj, thr, cVars, threads, tMaker, run, todo, wires, drops>>

(* emit finishObject: quit is called at once by the thread that owns the    *)
(* QThread object and posted by any other; deleteLater is posted to the     *)
(* client.  A client that is not wired hears nothing.  The emitting thread  *)
(* then sleeps for 100 ms.                                                  *)
finishObject(a) ==
  /\ threads < MaxClients
  /\ Quit({t \in WiredTo(obj) : tMaker[t] = a})
  /\ quitPosted' = [t \in Thread |->
                      quitPosted[t] \/ (t \in WiredTo(obj) /\ tMaker[t] # a)]
  /\ posted' = [posted EXCEPT ![obj] =
                  IF WiredTo(obj) = {} THEN @ ELSE @ \cup {"deleteLater"}]
  /\ told' = told \cup {obj}
  /\ overlapped' = (overlapped \/ \E b \in Actor \ {a} : Renewing(b))
  /\ Goto(a, "told")
  /\ UNCHANGED <<obj, thr, clients, maker, moved, sock, freed, threads, tMaker,
                 run, todo, wires, drops>>

(* initCentServerCnn, by main or pool thread.                               *)
init_NewThread(a) ==
  /\ pc[a] = "told" /\ threads < MaxClients
  /\ threads' = threads + 1
  /\ thr' = threads + 1
  /\ tMaker' = [tMaker EXCEPT ![threads + 1] = a]
  /\ Goto(a, "thread")
  /\ UNCHANGED <<obj, cVars, run, exit, quitPosted, todo, wires, counts, told,
                 overlapped>>

(* The client is global from here on, before its address is looked up.      *)
init_NewClient(a) ==
  /\ pc[a] = "thread" /\ clients < MaxClients
  /\ clients' = clients + 1
  /\ obj' = clients + 1
  /\ maker' = [maker EXCEPT ![clients + 1] = a]
  /\ Goto(a, "client")
  /\ UNCHANGED <<thr, moved, sock, posted, freed, tVars, wires, counts, told,
                 overlapped>>

(* After the look-up and another 100 ms.  moveToThread fails unless the     *)
(* caller runs in the thread that the object lives in.                      *)
init_Move(a) ==
  /\ pc[a] = "client"
  /\ moved' = IF maker[obj] = a /\ moved[obj] = None /\ obj \notin freed
              THEN [moved EXCEPT ![obj] = thr] ELSE moved
  /\ Goto(a, "moved")
  /\ UNCHANGED <<obj, thr, clients, maker, sock, posted, freed, tVars, wires,
                 counts, told, overlapped>>

init_Connect(a) ==
  /\ pc[a] = "moved"
  /\ wires' = IF obj \in freed THEN wires ELSE [wires EXCEPT ![obj][thr] = @ + 1]
  /\ Goto(a, "wired")
  /\ UNCHANGED <<obj, thr, cVars, tVars, counts, told, overlapped>>

(* A thread that runs is not started again; one that has ended may be gone. *)
init_Start(a) ==
  /\ pc[a] = "wired"
  /\ \/ /\ run[thr] \in {"made", "ended"}
        /\ run' = [run EXCEPT ![thr] = "starting"]
        /\ exit' = [exit EXCEPT ![thr] = FALSE]
     \/ run[thr] # "made" /\ UNCHANGED <<run, exit>>
  /\ Goto(a, "idle")
  /\ UNCHANGED <<obj, thr, cVars, threads, tMaker, quitPosted, todo, wires, counts,
                 told, overlapped>>

initCentServerCnn(a) ==
  init_NewThread(a) \/ init_NewClient(a) \/ init_Move(a) \/ init_Connect(a)
    \/ init_Start(a)
-----------------------------------------------------------------------------
(* The loops of the clients' threads and of the main thread.                *)

(* A loop delivers calls to the clients that live in its thread.            *)
InLoop(t) == run[t] = "loop" /\ todo[t] = {}
Serves(o) == IF moved[o] = None THEN maker[o] = Main /\ pc[Main] = "idle"
                                ELSE InLoop(moved[o])

(* connect2Server will still run for the client, or is running.             *)
Awaited(o) ==
  \/ \E t \in WiredTo(o) : run[t] = "starting"
  \/ \E t \in Thread : o \in todo[t]
  \/ "connect2Server" \in posted[o] /\ (Serves(o) \/ (moved[o] = None /\ maker[o] = Main))

(* started() is emitted in the new thread: a client that lives there runs   *)
(* connect2Server at once, before the loop; to another it is posted.        *)
EmitStarted(t) ==
  /\ run[t] = "starting"
  /\ LET wired == {o \in Client : t \in WiredTo(o)}
         here  == {o \in wired : moved[o] = t}
     IN /\ todo' = [todo EXCEPT ![t] = here]
        /\ posted' = [o \in Client |-> IF o \in wired \ here
                        THEN posted[o] \cup {"connect2Server"} ELSE posted[o]]
  /\ run' = [run EXCEPT ![t] = "started"]
  /\ UNCHANGED <<obj, thr, pc, clients, maker, moved, sock, freed, threads, tMaker,
                 exit, quitPosted, wires, counts, told, overlapped>>

(* The server is reached within 2 s, or not; a socket that is connected     *)
(* stays so.                                                                *)
Attempt(o) ==
  \/ sock[o] = "connected" /\ UNCHANGED <<sock, drops>>
  \/ sock' = [sock EXCEPT ![o] = "connected"] /\ UNCHANGED drops
  \/ /\ sock[o] # "connected" /\ drops < MaxDrops /\ drops' = drops + 1
     /\ sock' = [sock EXCEPT ![o] = "closed"]

(* Mutant: an attempt that fails emits finishObject, as line 65 once did.   *)
connect2Server_GiveUp(t) ==
  /\ \E o \in todo[t] :
       /\ Attempt(o)
       /\ todo' = [todo EXCEPT ![t] = @ \ {o}]
       /\ posted' = IF sock'[o] = "connected" THEN posted
                    ELSE [posted EXCEPT ![o] = @ \cup {"deleteLater"}]
  /\ UNCHANGED <<obj, thr, pc, clients, maker, moved, freed, threads, tMaker, run,
                 exit, quitPosted, wires, redirects, early, told, overlapped>>

connect2Server(t) ==
  /\ \E o \in todo[t] :
       /\ Attempt(o)
       /\ todo' = [todo EXCEPT ![t] = @ \ {o}]
  /\ UNCHANGED <<obj, thr, pc, clients, maker, moved, posted, freed, threads,
                 tMaker, run, exit, quitPosted, wires, redirects, early, told,
                 overlapped>>

(* exec returns at once when quit was called before it.                     *)
EnterLoop(t) ==
  /\ run[t] = "started" /\ todo[t] = {}
  /\ run' = [run EXCEPT ![t] = IF exit[t] THEN "ended" ELSE "loop"]
  /\ UNCHANGED <<obj, thr, pc, cVars, threads, tMaker, exit, quitPosted, todo, wires,
                 counts, told, overlapped>>

(* The loop ends, whatever is still posted to the clients in its thread.    *)
LeaveLoop(t) ==
  /\ InLoop(t) /\ exit[t]
  /\ run' = [run EXCEPT ![t] = "ended"]
  /\ UNCHANGED <<obj, thr, pc, cVars, threads, tMaker, exit, quitPosted, todo, wires,
                 counts, told, overlapped>>

(* A posted connect2Server; in the main thread it is not interrupted.       *)
Deliver_Connect(o) ==
  /\ Serves(o) /\ "connect2Server" \in posted[o]
  /\ posted' = [posted EXCEPT ![o] = @ \ {"connect2Server"}]
  /\ IF moved[o] = None
     THEN Attempt(o) /\ UNCHANGED todo
     ELSE todo' = [todo EXCEPT ![moved[o]] = {o}] /\ UNCHANGED <<sock, drops>>
  /\ UNCHANGED <<obj, thr, pc, clients, maker, moved, freed, threads, tMaker, run,
                 exit, quitPosted, wires, redirects, early, told, overlapped>>

(* Mutant: one connection too many is undone.                               *)
Deliver_Delete_Less(o) ==
  /\ Serves(o) /\ "deleteLater" \in posted[o]
  /\ posted' = [posted EXCEPT ![o] = {}]
  /\ freed' = freed \cup {o}
  /\ sock' = [sock EXCEPT ![o] = "closed"]
  /\ wires' = [wires EXCEPT ![o] = [t \in Thread |-> @[t] - 1]]
  /\ UNCHANGED <<obj, thr, pc, clients, maker, moved, tVars, counts, told, overlapped>>

(* Deleting a client closes its socket and undoes its connections.          *)
Deliver_Delete(o) ==
  /\ Serves(o) /\ "deleteLater" \in posted[o]
  /\ posted' = [posted EXCEPT ![o] = {}]
  /\ freed' = freed \cup {o}
  /\ sock' = [sock EXCEPT ![o] = "closed"]
  /\ wires' = [wires EXCEPT ![o] = [t \in Thread |-> 0]]
  /\ UNCHANGED <<obj, thr, pc, clients, maker, moved, tVars, counts, told, overlapped>>

Deliver_Quit(t) ==
  /\ pc[Main] = "idle" /\ quitPosted[t] /\ tMaker[t] = Main
  /\ quitPosted' = [quitPosted EXCEPT ![t] = FALSE]
  /\ Quit({t})
  /\ UNCHANGED <<obj, thr, pc, cVars, threads, tMaker, run, todo, wires, counts, told,
                 overlapped>>

(* The server or the network closes a connection.                           *)
Disconnect(o) ==
  /\ sock[o] = "connected" /\ Serves(o)
  /\ drops < MaxDrops /\ drops' = drops + 1
  /\ sock' = [sock EXCEPT ![o] = "closed"]
  /\ UNCHANGED <<obj, thr, pc, clients, maker, moved, posted, freed, tVars, wires,
                 redirects, early, told, overlapped>>
-----------------------------------------------------------------------------
(* timerConnectionsCheckSlot.  A deleted client's socket reads as anything. *)

(* Every fifth of these checks has the pool ping the server.                *)
timerConnectionsCheck_Up ==
  /\ pc[Main] = "idle" /\ (sock[obj] = "connected" \/ obj \in freed)
  /\ \E w \in Worker : pc[w] = "idle" /\ Goto(w, "ping")
  /\ UNCHANGED <<obj, thr, cVars, tVars, wires, counts, told, overlapped>>

(* An attempt ends 2 s after it began and a check comes every 4 s.  A check *)
(* that was due during a long look-up comes at once, and a look-up in the   *)
(* pool may outlast some checks.                                            *)
Early == Awaited(obj) \/ \E w \in Worker : Renewing(w)

(* Mutants: main leaves the clients that the pool made to the pool's pings; *)
(* it replaces a client without telling it to finish.                       *)
timerConnectionsCheck_Down_Own ==
  /\ pc[Main] = "idle" /\ (sock[obj] # "connected" \/ obj \in freed)
  /\ IF maker[obj] = Main
     THEN ~Early /\ finishObject(Main) /\ UNCHANGED <<redirects, early>>
     ELSE /\ \E w \in Worker : pc[w] = "idle" /\ Goto(w, "ping")
          /\ UNCHANGED <<obj, thr, cVars, tVars, wires, counts, told, overlapped>>

timerConnectionsCheck_Down_Unsaid ==
  /\ pc[Main] = "idle" /\ (sock[obj] # "connected" \/ obj \in freed)
  /\ threads < MaxClients /\ early < MaxEarly /\ early' = early + 1
  /\ Goto(Main, "told")
  /\ UNCHANGED <<obj, thr, cVars, tVars, wires, drops, redirects, told, overlapped>>

timerConnectionsCheck_Down ==
  /\ pc[Main] = "idle" /\ (sock[obj] # "connected" \/ obj \in freed)
  /\ \/ ~Early /\ UNCHANGED early
     \/ Early /\ early < MaxEarly /\ early' = early + 1
  /\ finishObject(Main)
  /\ UNCHANGED redirects

(* The ping has been answered by the server, or by the modem.               *)
CheckCentServer_Reached(w) ==
  /\ pc[w] = "ping" /\ Goto(w, "idle")
  /\ UNCHANGED <<obj, thr, cVars, tVars, wires, counts, told, overlapped>>

CheckCentServer_Redirected(w) ==
  /\ pc[w] = "ping"
  /\ redirects < MaxRedirects /\ redirects' = redirects + 1
  /\ finishObject(w)
  /\ UNCHANGED early
-----------------------------------------------------------------------------
ClientThread(t) ==
  \/ EmitStarted(t) \/ connect2Server(t)
  \/ EnterLoop(t) \/ LeaveLoop(t)

PoolThread(w) ==
  CheckCentServer_Reached(w) \/ CheckCentServer_Redirected(w) \/ initCentServerCnn(w)

Next ==
  \/ initCentServerCnn(Main)
  \/ timerConnectionsCheck_Up \/ timerConnectionsCheck_Down
  \/ \E w \in Worker : PoolThread(w)
  \/ \E t \in Thread : ClientThread(t) \/ Deliver_Quit(t)
  \/ \E o \in Client : Deliver_Connect(o) \/ Deliver_Delete(o) \/ Disconnect(o)

(* What the threads and the loops have been given to do, they get done; no  *)
(* ping need ever return, nor need one thread get its turn before another.  *)
Work ==
  \/ \E a \in Actor : initCentServerCnn(a)
  \/ timerConnectionsCheck_Down
  \/ \E t \in Thread : ClientThread(t) \/ Deliver_Quit(t)
  \/ \E o \in Client : Deliver_Connect(o) \/ Deliver_Delete(o)

Fairness == WF_vars(Work)

Spec == Init /\ [][Next]_vars /\ Fairness
-----------------------------------------------------------------------------
(* The global designates a deleted client only while some thread that told  *)
(* it to finish has yet to make the next one: the other slots of the        *)
(* controller, which use it unasked, otherwise find a live object.          *)
FreedOnlyWhileReplaced ==
  obj \in freed => \E a \in Actor : pc[a] \in {"told", "thread"}

(* As long as no two threads have renewed at the same time, a client is     *)
(* wired once and to the thread it lives in, and every wired client but the *)
(* current one has been told to finish: no message is handed on twice.      *)
WiredOnce ==
  ~overlapped =>
    \A o \in Client : \A t \in WiredTo(o) :
      /\ wires[o][t] = 1 /\ moved[o] = t
      /\ o = obj \/ o \in told

(* In the end every client that was told to finish is deleted or its thread *)
(* has ended, unless two threads have renewed at the same time.             *)
Silent(o) == o \in freed \/ \A t \in WiredTo(o) : run[t] = "ended"

ReplacedFallSilent == <>[](overlapped \/ \A o \in told : Silent(o))

(* When links have ceased to break, and however the renewals of the main    *)
(* and the pool threads have crossed, the current client is connected.      *)
Heals == <>[](obj # None /\ sock[obj] = "connected" /\ obj \notin freed)
=============================================================================
