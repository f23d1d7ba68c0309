--------------------------- MODULE ThreadLifecycle ---------------------------
(***************************************************************************)
(* What the thread manager of janitor.c promises its callers, without the  *)
(* rings, locks and barriers it is built from: every managed thread walks  *)
(* once through the stages of its life, and two SETS say which threads are *)
(* running (threadlist) and which wait to be joined (finishedthreadlist).  *)
(* Janitor.tla is shown to implement this specification.                   *)
(***************************************************************************)
CONSTANTS Thread,      \* the thread records that may ever be allocated
          Joinable     \* those whose class is not detached

VARIABLES stage,       \* stage[t]: how far thread t has come
          running,     \* the threads a dump or a joinall can see running
          finished     \* the threads that wait to be joined

lvars == <<stage, running, finished>>

Stage == {"absent", "failed", "created", "started", "running", "returned",
          "exited", "released"}

LTypeOK == /\ stage \in [Thread -> Stage]
           /\ running \subseteq Thread
           /\ finished \subseteq Thread

LInit == /\ stage = [t \in Thread |-> "absent"]
         /\ running = {}
         /\ finished = {}

Advance(t, from, to) == /\ stage[t] = from
                        /\ stage' = [stage EXCEPT ![t] = to]

\* janitor_thread_create: the native thread exists, or could not be made.
Create(t) == Advance(t, "absent", "created") /\ UNCHANGED <<running, finished>>
Fail(t)   == Advance(t, "absent", "failed")  /\ UNCHANGED <<running, finished>>

\* janitor_thread_register makes it visible before anyone may start it.
Register(t) == /\ stage[t] = "created"
               /\ running' = running \union {t}
               /\ UNCHANGED <<stage, finished>>

\* Only a registered thread is started, and only a started one runs.
Start(t)  == /\ t \in running
             /\ Advance(t, "created", "started")
             /\ UNCHANGED <<running, finished>>
Run(t)    == Advance(t, "started", "running")  /\ UNCHANGED <<running, finished>>
Return(t) == Advance(t, "running", "returned") /\ UNCHANGED <<running, finished>>

Unregister(t) == /\ stage[t] = "returned"
                 /\ t \in running
                 /\ running' = running \ {t}
                 /\ UNCHANGED <<stage, finished>>

\* A joinable thread is put up for joining after it left the running set.
Finish(t) == /\ t \in Joinable
             /\ stage[t] = "returned"
             /\ t \notin running
             /\ finished' = finished \union {t}
             /\ UNCHANGED <<stage, running>>

Exit(t) == /\ t \in finished
           /\ Advance(t, "returned", "exited")
           /\ UNCHANGED <<running, finished>>

\* A join takes an exited thread off the finished set, once.
Reap(t) == /\ stage[t] = "exited"
           /\ t \in finished
           /\ finished' = finished \ {t}
           /\ UNCHANGED <<stage, running>>

\* The record is freed by the joiner, or by the detached thread itself.
Dispose(t) == /\ t \notin running \union finished
              /\ \/ t \in Joinable /\ stage[t] = "exited"
                 \/ t \notin Joinable /\ stage[t] = "returned"
              /\ stage' = [stage EXCEPT ![t] = "released"]
              /\ UNCHANGED <<running, finished>>

LNext == \E t \in Thread :
            \/ Create(t) \/ Fail(t) \/ Register(t) \/ Start(t) \/ Run(t)
            \/ Return(t) \/ Unregister(t) \/ Finish(t) \/ Exit(t) \/ Reap(t)
            \/ Dispose(t)

LSpec == LInit /\ [][LNext]_lvars

\* A thread is visible among the running ones during the whole of its run
\* function, and a record is on neither list once it has been released
\* (janitor.c:183-185 and the order of calls in runthread).
ListsFollowLife ==
    /\ \A t \in running : stage[t] \in {"created", "started", "running", "returned"}
    /\ \A t \in finished : t \in Joinable /\ stage[t] \in {"returned", "exited"}
    /\ \A t \in Thread : stage[t] \in {"started", "running"} => t \in running
    /\ running \intersect finished = {}
=============================================================================
