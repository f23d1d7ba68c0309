------------------------------- MODULE Janitor -------------------------------
(***************************************************************************)
(* The thread manager of src/janitor.c.  Clients (threads of the           *)
(* application) create, start and join managed threads; every managed      *)
(* thread runs runthread.  Both kinds of process share threadlock and the  *)
(* two circular doubly linked lists threadlist and finishedthreadlist.     *)
(*                                                                         *)
(* A process whose pc is in LockLabel and which is not the owner of        *)
(* threadlock is blocked in pthread_mutex_lock; the owner is inside the    *)
(* critical section that label names.  The start barrier is the native     *)
(* pthread barrier; JanitorBarrier.tla models the replacement.             *)
(***************************************************************************)
EXTENDS Ring

CONSTANTS Client,     \* application threads that call the API
          Thread,     \* records (struct janitor_thread_struct) that may be allocated
          Class,      \* thread classes
          Detached,   \* the classes with setdetached
          Autorun,    \* the classes with setautorun
          ClassOf     \* the class a record is created with; NULL: _DEFAULT

ASSUME ConstantsAssumption ==
    /\ Client \intersect Thread = {}
    /\ NULL \notin Client \union Thread \union Class
    /\ Detached \subseteq Class
    /\ Autorun \subseteq Class
    /\ ClassOf \in [Thread -> Class \union {NULL}]

VARIABLES threadlock,          \* the owner of the mutex, or NULL
          threadlist,          \* head of the ring of running threads
          finishedthreadlist,  \* head of the ring of threads to be joined
          next, prev,          \* the links of every record
          isstarted,           \* the records whose isstarted is set
          arrived, leaving,    \* startbarrier: blocked in wait; released, not yet out
          keyready, located,   \* threadlocator exists; threads that stored their info
          freed,               \* the records passed to free()
          crashed,             \* the program died
          pc,                  \* where every process is
          call,                \* the API call a client is in
          target,              \* the record that call works on
          wanted               \* the class that call joins

listvars == <<threadlist, finishedthreadlist, next, prev>>
barriervars == <<arrived, leaving>>
keyvars == <<keyready, located>>
callvars == <<call, target, wanted>>
vars == <<threadlock, listvars, isstarted, barriervars, keyvars, freed, crashed,
          pc, callvars>>

Process == Client \union Thread

ThreadLabel == {"none", "failed", "boot", "startwait", "run", "unregister",
                "destroy", "finished", "finish", "exit", "exited"}
ClientLabel == {"idle", "register", "start", "arrive", "startwait", "join",
                "dispose", "free", "scan", "check"}

\* The labels at which a process takes threadlock.
LockLabel == {"register", "start", "dispose", "scan", "check", "unregister",
              "finish"}

JoinCall == {"join", "tryjoinall", "joinall"}
Call == {"none", "create", "start"} \union JoinCall

TypeOK ==
    /\ threadlock \in Process \union {NULL}
    /\ threadlist \in Thread \union {NULL}
    /\ finishedthreadlist \in Thread \union {NULL}
    /\ next \in [Thread -> Thread \union {NULL}]
    /\ prev \in [Thread -> Thread \union {NULL}]
    /\ isstarted \in SUBSET Thread
    /\ arrived \in [Thread -> SUBSET Process]
    /\ leaving \in [Thread -> SUBSET Process]
    /\ keyready \in BOOLEAN
    /\ located \in SUBSET Thread
    /\ freed \in SUBSET Thread
    /\ crashed \in BOOLEAN
    /\ pc \in [Process -> ThreadLabel \union ClientLabel]
    /\ \A t \in Thread : pc[t] \in ThreadLabel
    /\ \A c \in Client : pc[c] \in ClientLabel
    /\ call \in [Client -> Call]
    /\ target \in [Client -> Thread \union {NULL}]
    /\ wanted \in [Client -> Class \union {NULL}]

Init ==
    /\ threadlock = NULL
    /\ threadlist = NULL
    /\ finishedthreadlist = NULL
    /\ next = [t \in Thread |-> NULL]
    /\ prev = [t \in Thread |-> NULL]
    /\ isstarted = {}
    /\ arrived = [t \in Thread |-> {}]
    /\ leaving = [t \in Thread |-> {}]
    /\ keyready = FALSE
    /\ located = {}
    /\ freed = {}
    /\ crashed = FALSE
    /\ pc = [p \in Process |-> IF p \in Thread THEN "none" ELSE "idle"]
    /\ call = [c \in Client |-> "none"]
    /\ target = [c \in Client |-> NULL]
    /\ wanted = [c \in Client |-> NULL]

Goto(p, label) == pc' = [pc EXCEPT ![p] = label]

JoinableThread(t) == ClassOf[t] \notin Detached

-----------------------------------------------------------------------------
(* The mutex, the rings and the barrier.                                   *)

\* pthread_mutex_lock(&threadlock) succeeds.
Lock(p) == /\ pc[p] \in LockLabel
           /\ threadlock = NULL
           /\ threadlock' = p
           /\ UNCHANGED <<listvars, isstarted, barriervars, keyvars, freed,
                          crashed, pc, callvars>>

\* The critical section of process p at a label: it owns the mutex, and
\* Unlock gives it back in the same step as the last of the section's work.
Inside(p, label) == pc[p] = label /\ threadlock = p
Unlock == threadlock' = NULL

\* The records a walk along next from a list head visits.
Walk(h) == Visited(next, h)

\* Process p enters pthread_barrier_wait(&t->startbarrier): the second one
\* to arrive releases both and begins a new round.
Arrive(p, t) ==
    IF arrived[t] = {}
    THEN /\ arrived' = [arrived EXCEPT ![t] = {p}]
         /\ UNCHANGED leaving
    ELSE /\ arrived' = [arrived EXCEPT ![t] = {}]
         /\ leaving' = [leaving EXCEPT ![t] = @ \union arrived[t] \union {p}]

Leave(p, t) == /\ p \in leaving[t]
               /\ leaving' = [leaving EXCEPT ![t] = @ \ {p}]
               /\ UNCHANGED arrived

-----------------------------------------------------------------------------
(* A managed thread: runthread.                                            *)

\* runthread up to the barrier.  If no thread was registered yet the key
\* threadlocator does not exist, and the info is stored nowhere useful.
Boot(t) ==
    /\ pc[t] = "boot"
    /\ located' = IF keyready THEN located \union {t} ELSE located
    /\ Arrive(t, t)
    /\ Goto(t, "startwait")
    /\ UNCHANGED <<threadlock, listvars, isstarted, keyready, freed, crashed, callvars>>

\* Mutant: the thread does not wait for its starter.
RunFunctionEarly(t) ==
    /\ pc[t] = "startwait"
    /\ Goto(t, "run")
    /\ UNCHANGED <<threadlock, listvars, isstarted, barriervars, keyvars, freed, crashed, callvars>>

RunFunction(t) ==
    /\ pc[t] = "startwait"
    /\ Leave(t, t)
    /\ Goto(t, "run")
    /\ UNCHANGED <<threadlock, listvars, isstarted, keyvars, freed, crashed, callvars>>

FunctionReturns(t) ==
    /\ pc[t] = "run"
    /\ Goto(t, "unregister")
    /\ UNCHANGED <<threadlock, listvars, isstarted, barriervars, keyvars, freed,
                   crashed, callvars>>

\* janitor_thread_unregister takes the record off the running ring, and
\* holds threadlock while ...
UnregisterUnlink(t) ==
    /\ Inside(t, "unregister")
    /\ IF threadlist # NULL
       THEN /\ threadlist' = HeadWithout(next, t, threadlist)
            /\ next' = NextUnlinked(next, prev, t)
            /\ prev' = PrevUnlinked(next, prev, t)
            /\ Goto(t, "destroy")
            /\ UNCHANGED threadlock
       ELSE /\ Unlock
            /\ Goto(t, "finished")
            /\ UNCHANGED <<threadlist, next, prev>>
    /\ UNCHANGED <<finishedthreadlist, isstarted, barriervars, keyvars, freed, crashed,
                   callvars>>

\* Mutant: the barrier is not destroyed, and so not waited for.
UnregisterKeepBarrier(t) ==
    /\ Inside(t, "destroy")
    /\ Unlock
    /\ Goto(t, "finished")
    /\ UNCHANGED <<listvars, isstarted, barriervars, keyvars, freed, crashed, callvars>>

\* ... pthread_barrier_destroy waits until both released processes are out.
\* (The signal on threadblock concerns dumpthreads only: JanitorDump.tla.)
UnregisterDestroy(t) ==
    /\ Inside(t, "destroy")
    /\ arrived[t] = {} /\ leaving[t] = {}
    /\ Unlock
    /\ Goto(t, "finished")
    /\ UNCHANGED <<listvars, isstarted, barriervars, keyvars, freed, crashed, callvars>>

\* janitor_thread_finished looks at info->threadclass->detached.  A detached
\* thread frees its own record; a joinable one goes for the lock.
FinishedDetached(t) ==
    /\ pc[t] = "finished"
    /\ ClassOf[t] \in Detached
    /\ freed' = freed \union {t}
    /\ Goto(t, "exit")
    /\ UNCHANGED <<threadlock, listvars, isstarted, barriervars, keyvars, crashed, callvars>>

FinishedJoinable(t) ==
    /\ pc[t] = "finished"
    /\ ClassOf[t] \in Class \ Detached
    /\ Goto(t, "finish")
    /\ UNCHANGED <<threadlock, listvars, isstarted, barriervars, keyvars, freed,
                   crashed, callvars>>

\* With janitor_threadclass_DEFAULT the class is NULL and is dereferenced.
FinishedDefault(t) ==
    /\ pc[t] = "finished"
    /\ ClassOf[t] = NULL
    /\ crashed' = TRUE
    /\ UNCHANGED <<threadlock, listvars, isstarted, barriervars, keyvars, freed,
                   pc, callvars>>

FinishedInsert(t) ==
    /\ Inside(t, "finish")
    /\ next' = NextInserted(next, prev, t, finishedthreadlist)
    /\ prev' = PrevInserted(next, prev, t, finishedthreadlist)
    /\ finishedthreadlist' = t
    /\ Unlock
    /\ Goto(t, "exit")
    /\ UNCHANGED <<threadlist, isstarted, barriervars, keyvars, freed, crashed, callvars>>

Exit(t) ==
    /\ pc[t] = "exit"
    /\ Goto(t, "exited")
    /\ UNCHANGED <<threadlock, listvars, isstarted, barriervars, keyvars, freed,
                   crashed, callvars>>

\* The steps of thread t other than taking the mutex.
ThreadStep(t) ==
    \/ Boot(t) \/ RunFunction(t) \/ FunctionReturns(t)
    \/ UnregisterUnlink(t) \/ UnregisterDestroy(t)
    \/ FinishedDetached(t) \/ FinishedJoinable(t) \/ FinishedDefault(t)
    \/ FinishedInsert(t) \/ Exit(t)

-----------------------------------------------------------------------------
(* The calls an application may make.  A record may be used from the time  *)
(* create returned until a join of it may begin; a thread is joined after  *)
(* it was started, and by one client only; while a class is joined as a    *)
(* whole nobody else joins a thread of it; no start call is in progress on *)
(* a thread when a join of it begins; only its first starter uses a        *)
(* detached thread.                                                        *)

Creating(t) == \E c \in Client : call[c] = "create" /\ target[c] = t
Starting(t) == \E c \in Client : call[c] = "start" /\ target[c] = t
Joining(k)  == \E c \in Client : call[c] \in JoinCall /\ wanted[c] = k

\* Some client joins t, or whatever thread of its class finishes.
MayReap(c, t) == \/ call[c] = "join" /\ target[c] = t
                 \/ call[c] \in JoinCall \ {"join"} /\ wanted[c] = ClassOf[t]
BeingJoined(t) == \E c \in Client : MayReap(c, t)

Reaped(t) == t \in freed \/ \E c \in Client : pc[c] = "free" /\ target[c] = t

\* The application holds a handle of t it may still use.
Handle(t) == pc[t] \notin {"none", "failed"} /\ ~Creating(t) /\ ~Reaped(t)

Begin(c, name, t, k) ==
    /\ pc[c] = "idle"
    /\ call' = [call EXCEPT ![c] = name]
    /\ target' = [target EXCEPT ![c] = t]
    /\ wanted' = [wanted EXCEPT ![c] = k]

Return(c) ==
    /\ call' = [call EXCEPT ![c] = "none"]
    /\ target' = [target EXCEPT ![c] = NULL]
    /\ wanted' = [wanted EXCEPT ![c] = NULL]
    /\ Goto(c, "idle")

\* janitor_thread_create up to and including a successful pthread_create.
CallCreate(c, t) ==
    /\ pc[t] = "none"
    /\ Begin(c, "create", t, NULL)
    /\ pc' = [pc EXCEPT ![c] = "register", ![t] = "boot"]
    /\ UNCHANGED <<threadlock, listvars, isstarted, barriervars, keyvars, freed, crashed>>

\* barrier_init or pthread_create fails: the record is left behind.
CallCreateFails(c, t) ==
    /\ pc[t] = "none"
    /\ pc[c] = "idle"
    /\ Goto(t, "failed")
    /\ UNCHANGED <<threadlock, listvars, isstarted, barriervars, keyvars, freed,
                   crashed, callvars>>

CallStart(c, t) ==
    /\ Handle(t)
    /\ \/ t \notin isstarted /\ ~Starting(t)
       \/ JoinableThread(t) /\ ~BeingJoined(t)
    /\ Begin(c, "start", t, NULL)
    /\ Goto(c, "start")
    /\ UNCHANGED <<threadlock, listvars, isstarted, barriervars, keyvars, freed, crashed>>

CallJoin(c, t) ==
    /\ Handle(t)
    /\ JoinableThread(t)
    /\ t \in isstarted
    /\ ~Starting(t)
    /\ ~BeingJoined(t)
    /\ Begin(c, "join", t, ClassOf[t])
    /\ Goto(c, "join")
    /\ UNCHANGED <<threadlock, listvars, isstarted, barriervars, keyvars, freed, crashed>>

\* janitor_thread_tryjoinall and janitor_thread_joinall.
CallJoinAll(c, name, k) ==
    /\ ~Joining(k)
    /\ \A t \in Thread : ClassOf[t] = k => ~Starting(t)
    /\ Begin(c, name, NULL, k)
    /\ Goto(c, "scan")
    /\ UNCHANGED <<threadlock, listvars, isstarted, barriervars, keyvars, freed, crashed>>

ClientCall(c) ==
    \/ \E t \in Thread : \/ CallCreate(c, t) \/ CallCreateFails(c, t)
                         \/ CallStart(c, t) \/ CallJoin(c, t)
    \/ \E k \in Class \union {NULL}, name \in {"tryjoinall", "joinall"} :
          CallJoinAll(c, name, k)

-----------------------------------------------------------------------------
(* The steps of a client inside a call.                                    *)

\* Mutant: the thread is appended, the head of the list stays.
RegisterAtTail(c) ==
    /\ Inside(c, "register")
    /\ keyready' = TRUE
    /\ next' = NextInserted(next, prev, target[c], threadlist)
    /\ prev' = PrevInserted(next, prev, target[c], threadlist)
    /\ threadlist' = IF threadlist = NULL THEN target[c] ELSE threadlist
    /\ Unlock
    /\ IF ClassOf[target[c]] \in Autorun
       THEN Goto(c, "start") /\ UNCHANGED callvars
       ELSE Return(c)
    /\ UNCHANGED <<finishedthreadlist, isstarted, barriervars, located, freed, crashed>>

\* janitor_thread_register, then the rest of janitor_thread_create.
Register(c) ==
    /\ Inside(c, "register")
    /\ keyready' = TRUE
    /\ next' = NextInserted(next, prev, target[c], threadlist)
    /\ prev' = PrevInserted(next, prev, target[c], threadlist)
    /\ threadlist' = target[c]
    /\ Unlock
    /\ IF ClassOf[target[c]] \in Autorun
       THEN Goto(c, "start") /\ UNCHANGED callvars
       ELSE Return(c)
    /\ UNCHANGED <<finishedthreadlist, isstarted, barriervars, located, freed, crashed>>

\* Mutant: the old value of isstarted is not looked at.
SetOnly(c) ==
    /\ Inside(c, "start")
    /\ isstarted' = isstarted \union {target[c]}
    /\ Unlock
    /\ Goto(c, "arrive")
    /\ UNCHANGED <<listvars, barriervars, keyvars, freed, crashed, callvars>>

\* janitor_thread_start: only the first caller goes on to the barrier.
TestAndSet(c) ==
    /\ Inside(c, "start")
    /\ isstarted' = isstarted \union {target[c]}
    /\ Unlock
    /\ IF target[c] \in isstarted THEN Return(c)
       ELSE Goto(c, "arrive") /\ UNCHANGED callvars
    /\ UNCHANGED <<listvars, barriervars, keyvars, freed, crashed>>

StartArrive(c) ==
    /\ pc[c] = "arrive"
    /\ Arrive(c, target[c])
    /\ Goto(c, "startwait")
    /\ UNCHANGED <<threadlock, listvars, isstarted, keyvars, freed, crashed, callvars>>

StartLeave(c) ==
    /\ pc[c] = "startwait"
    /\ Leave(c, target[c])
    /\ Return(c)
    /\ UNCHANGED <<threadlock, listvars, isstarted, keyvars, freed, crashed>>

\* janitor_thread_join: pthread_join, dispose, free; joinall then looks again.
Join(c) ==
    /\ pc[c] = "join"
    /\ pc[target[c]] = "exited"
    /\ Goto(c, "dispose")
    /\ UNCHANGED <<threadlock, listvars, isstarted, barriervars, keyvars, freed,
                   crashed, callvars>>

DisposeUnlink(c) ==
    /\ Inside(c, "dispose")
    /\ IF finishedthreadlist # NULL
       THEN /\ finishedthreadlist' = HeadWithout(next, target[c], finishedthreadlist)
            /\ next' = NextDisposed(next, prev, target[c])
            /\ prev' = PrevDisposed(next, prev, target[c])
       ELSE UNCHANGED <<finishedthreadlist, next, prev>>
    /\ Unlock
    /\ Goto(c, "free")
    /\ UNCHANGED <<threadlist, isstarted, barriervars, keyvars, freed, crashed, callvars>>

Free(c) ==
    /\ pc[c] = "free"
    /\ freed' = freed \union {target[c]}
    /\ IF call[c] = "join" THEN Return(c)
       ELSE /\ Goto(c, "scan")
            /\ target' = [target EXCEPT ![c] = NULL]
            /\ UNCHANGED <<call, wanted>>
    /\ UNCHANGED <<threadlock, listvars, isstarted, barriervars, keyvars, crashed>>

OfClass(k, h) == {t \in Walk(h) : ClassOf[t] = k}

\* tryjoinall looks for a finished thread of the class.  Which one of them is
\* first on the ring makes no difference to what follows.
ScanFound(c) ==
    /\ Inside(c, "scan")
    /\ \E t \in OfClass(wanted[c], finishedthreadlist) :
          target' = [target EXCEPT ![c] = t]
    /\ Unlock
    /\ Goto(c, "join")
    /\ UNCHANGED <<listvars, isstarted, barriervars, keyvars, freed, crashed, call, wanted>>

ScanNone(c) ==
    /\ Inside(c, "scan")
    /\ OfClass(wanted[c], finishedthreadlist) = {}
    /\ Unlock
    /\ Goto(c, "check")
    /\ UNCHANGED <<listvars, isstarted, barriervars, keyvars, freed, crashed, callvars>>

\* Mutant: only the threads that have finished count as left.
FinishedLeft(k) == OfClass(k, finishedthreadlist) # {}

\* Having let go of the lock, it looks at both rings for what is left.
MoreLeft(k) == OfClass(k, finishedthreadlist) \union OfClass(k, threadlist) # {}

\* Mutant: joinall goes round with the lock held until nothing is left.
CheckHolding(c) ==
    /\ Inside(c, "check")
    /\ IF call[c] = "joinall" /\ MoreLeft(wanted[c])
       THEN UNCHANGED <<threadlock, pc, callvars>>
       ELSE Unlock /\ Return(c)
    /\ UNCHANGED <<listvars, isstarted, barriervars, keyvars, freed, crashed>>

CheckLeft(c) ==
    /\ Inside(c, "check")
    /\ Unlock
    /\ IF call[c] = "joinall" /\ MoreLeft(wanted[c])
       THEN Goto(c, "scan") /\ UNCHANGED callvars
       ELSE Return(c)
    /\ UNCHANGED <<listvars, isstarted, barriervars, keyvars, freed, crashed>>

ClientStep(c) ==
    \/ Register(c) \/ TestAndSet(c) \/ StartArrive(c) \/ StartLeave(c)
    \/ Join(c) \/ DisposeUnlink(c) \/ Free(c)
    \/ ScanFound(c) \/ ScanNone(c) \/ CheckLeft(c)

-----------------------------------------------------------------------------
\* The program has ended: it died, or every thread came to its end and the
\* clients made their last call.
Ended == /\ \/ crashed
            \/ /\ \A t \in Thread : pc[t] \in {"failed", "exited"}
               /\ \A c \in Client : pc[c] = "idle"
         /\ UNCHANGED vars

Next == \/ /\ ~crashed
           /\ \/ \E p \in Process : Lock(p)
              \/ \E t \in Thread : ThreadStep(t)
              \/ \E c \in Client : ClientCall(c) \/ ClientStep(c)
        \/ Ended

Spec == Init /\ [][Next]_vars
-----------------------------------------------------------------------------
(* Properties.                                                             *)

Registering(t) == \E c \in Client : pc[c] = "register" /\ target[c] = t

\* The threads that have been registered and not yet unregistered, and the
\* joinable ones that have finished and are not yet taken off by a join.
OnRunning == {t \in Thread : /\ pc[t] \in {"boot", "startwait", "run", "unregister"}
                             /\ ~Registering(t)}
OnFinished == {t \in Thread : /\ pc[t] \in {"exit", "exited"}
                              /\ JoinableThread(t)
                              /\ ~Reaped(t)}

\* Whatever the order in which threads are registered, unregistered, finished
\* and joined, a walk along next from either list head visits exactly the
\* threads that belong on that list: no pointer assignment of register,
\* unregister, finished or dispose loses a thread or leaves one behind.
RingsExact == /\ Walk(threadlist) = OnRunning
              /\ Walk(finishedthreadlist) = OnFinished

\* The records some process still reads or writes, or could reach by a walk.
UsedByClient == {target[c] : c \in {d \in Client : pc[d] \in
                   {"register", "start", "arrive", "startwait", "join", "dispose", "free"}}}
UsedByThread == {t \in Thread : pc[t] \in
                   {"boot", "startwait", "run", "unregister", "destroy", "finished", "finish"}}

\* No record is used after free(): the starter has left the barrier in the
\* record, every walker has let go of it and no one frees it again when a
\* joiner, or a detached thread itself, gives the memory back.
NoUseAfterFree ==
    freed \intersect (UsedByClient \union UsedByThread
                      \union Walk(threadlist) \union Walk(finishedthreadlist)) = {}

\* The start barrier is crossed by the thread and one starter: once the thread
\* is past it nobody waits there any more, however many clients call
\* janitor_thread_start, so that pthread_barrier_destroy, which is called with
\* threadlock held, always comes to an end.
StartBarrierCrossedOnce ==
    \A t \in Thread : pc[t] \notin {"none", "failed", "boot", "startwait"} =>
                          arrived[t] = {}

\* When joinall(k) returns, every joinable thread of the class that was
\* registered has been joined, except one that is just between unregister and
\* finished, and so on neither list.
Unjoined(k) == {t \in Thread : /\ ClassOf[t] = k
                               /\ JoinableThread(t)
                               /\ pc[t] \notin {"none", "failed"}
                               /\ ~Registering(t)
                               /\ ~Reaped(t)}
InTransit == {t \in Thread : pc[t] \in {"finished", "finish"}}

JoinAllReturns(c) == call[c] = "joinall" /\ call'[c] = "none"

JoinAllMissesOnlyInTransit ==
    [][\A c \in Client : JoinAllReturns(c) => Unjoined(wanted[c]) \subseteq InTransit]_vars

\* janitor.h:47 defines janitor_threadclass_DEFAULT as a class a thread may be
\* created with, and create and dispose test for it: no thread dies of it.
NoNullDereference == ~crashed

-----------------------------------------------------------------------------
(* Fairness: the operating system runs every thread and hands a mutex that *)
(* is free again and again to every thread that waits for it; a run        *)
(* function returns.  Whether a client makes another call is up to it.     *)
Fairness == /\ \A t \in Thread : WF_vars(~crashed /\ ThreadStep(t))
            /\ \A c \in Client : WF_vars(~crashed /\ ClientStep(c))
            /\ \A p \in Process : SF_vars(~crashed /\ Lock(p))

FairSpec == Spec /\ Fairness

\* A thread that was started comes to its end, even if the starter is delayed
\* in the barrier and even against a client that spins in joinall.
StartedThreadsExit == \A t \in Thread : t \in isstarted ~> pc[t] = "exited"

\* A create or start call comes back; so does a join of a started thread.
CallsReturn ==
    \A c \in Client :
        /\ call[c] \in {"create", "start"} ~> pc[c] = "idle"
        /\ \A t \in Thread :
              (call[c] = "join" /\ target[c] = t /\ t \in isstarted) ~> pc[c] = "idle"

-----------------------------------------------------------------------------
(* The rings implement the two sets of ThreadLifecycle.                    *)

stageOf(t) ==
    IF t \in freed THEN "released"
    ELSE CASE pc[t] = "none" -> "absent"
           [] pc[t] = "failed" -> "failed"
           [] pc[t] \in {"boot", "startwait"} ->
                 IF t \in isstarted THEN "started" ELSE "created"
           [] pc[t] = "run" -> "running"
           [] pc[t] = "exited" -> "exited"
           [] OTHER -> "returned"

Lifecycle == INSTANCE ThreadLifecycle WITH
    Joinable <- {t \in Thread : JoinableThread(t)},
    stage <- [t \in Thread |-> stageOf(t)],
    running <- Walk(threadlist),
    finished <- Walk(finishedthreadlist)

\* Every behaviour of the thread manager is one of ThreadLifecycle.
ImplementsLifecycle == Lifecycle!LSpec
-----------------------------------------------------------------------------
(* The inductive invariant the proofs of JanitorProofs.tla rest on.        *)

InBarrier == {"arrive", "startwait"}
BeforeRun == {"boot", "startwait"}
AfterRun  == {"unregister", "destroy", "finished", "finish", "exit", "exited"}

\* The mutex is owned only by a process inside a critical section.  (Nothing
\* else rests on that, and a dump breaks it: JanitorDump.tla.)
OwnerInside == threadlock # NULL => pc[threadlock] \in LockLabel \union {"destroy"}

\* A thread that waits for its barrier to be destroyed holds the mutex.
LockInv == \A t \in Thread : pc[t] = "destroy" => threadlock = t

\* Where a client is, the call it makes and the record it works on agree.
ClientInv ==
    \A c \in Client :
        /\ pc[c] = "idle" => call[c] = "none"
        /\ pc[c] = "register" => call[c] = "create"
        /\ pc[c] \in {"start"} \union InBarrier => call[c] \in {"create", "start"}
        /\ pc[c] \in {"join", "dispose", "free"} => call[c] \in JoinCall
        /\ pc[c] \in {"scan", "check"} => call[c] \in JoinCall \ {"join"}
        /\ pc[c] \in {"register", "start", "join", "dispose", "free"} \union InBarrier =>
              target[c] \in Thread /\ pc[target[c]] \notin {"none", "failed"}
        /\ pc[c] \in {"join", "dispose", "free"} =>
              /\ ClassOf[target[c]] = wanted[c]
              /\ JoinableThread(target[c])
              /\ target[c] \notin freed
        /\ pc[c] \in {"dispose", "free"} => pc[target[c]] = "exited"

\* No two clients join the same thread, and a record is its creator's alone
\* until create returns.
UniqueInv ==
    \A c, d \in Client :
        /\ call[c] \in JoinCall /\ call[d] \in JoinCall /\ wanted[c] = wanted[d] =>
              c = d \/ (call[c] = "join" /\ call[d] = "join" /\ target[c] # target[d])
        /\ (call[c] = "create" /\ call[d] \in {"create", "start"} /\
              target[c] = target[d]) => c = d

\* How far a thread is, and what has been done to its record.
ThreadInv ==
    \A t \in Thread :
        /\ pc[t] \in {"run"} \union AfterRun => t \in isstarted
        /\ t \in isstarted => pc[t] \notin {"none", "failed"}
        /\ pc[t] = "finish" => JoinableThread(t)
        /\ pc[t] \in {"exit", "exited"} => JoinableThread(t) \/ t \in freed
        /\ t \in freed => pc[t] \in {"exit", "exited"}
        /\ t \in freed /\ JoinableThread(t) => pc[t] = "exited"

\* Who is in the start barrier: the thread, and the one starter that found
\* isstarted unset.
BarrierInv ==
    /\ \A t \in Thread :
          /\ \A p \in arrived[t] \union leaving[t] :
                \/ p = t /\ pc[t] = "startwait"
                \/ p \in Client /\ pc[p] = "startwait" /\ target[p] = t
          /\ pc[t] = "startwait" => t \in arrived[t] \union leaving[t]
          /\ leaving[t] # {} => t \in isstarted /\ arrived[t] = {} /\ pc[t] # "boot"
          /\ \A c \in Client : c \in arrived[t] => pc[t] = "boot"
    /\ \A c \in Client :
          /\ pc[c] \in InBarrier =>
                /\ target[c] \in isstarted
                /\ pc[target[c]] \notin {"finished", "finish", "exit", "exited"}
          /\ pc[c] = "arrive" => /\ pc[target[c]] \in BeforeRun
                                 /\ leaving[target[c]] = {}
          /\ pc[c] = "startwait" => c \in arrived[target[c]] \union leaving[target[c]]
    /\ \A c, d \in Client :
          pc[c] \in InBarrier /\ pc[d] \in InBarrier /\ target[c] = target[d] => c = d

\* Who may be about to test isstarted: the creator or first starter, or
\* several clients while nobody can join the thread.
StartInv ==
    /\ \A c \in Client :
          /\ pc[c] = "register" \/ (pc[c] = "start" /\ call[c] = "create") =>
                target[c] \notin isstarted
          /\ pc[c] = "start" => target[c] \notin freed
          /\ pc[c] = "start" /\ target[c] \in isstarted =>
                JoinableThread(target[c]) /\ ~BeingJoined(target[c])
    /\ \A c, d \in Client :
          call[c] = "start" /\ call[d] = "start" /\ c # d /\ target[c] = target[d] =>
                JoinableThread(target[c]) /\ ~BeingJoined(target[c])

\* Each list head starts one ring, of exactly the threads that belong there.
RingInv == /\ RingOf(next, prev, threadlist, OnRunning)
           /\ RingOf(next, prev, finishedthreadlist, OnFinished)

IInv == /\ TypeOK /\ LockInv /\ ClientInv /\ UniqueInv /\ ThreadInv
        /\ BarrierInv /\ StartInv /\ RingInv
=============================================================================
