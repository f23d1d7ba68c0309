----------------------------- MODULE JanitorDump -----------------------------
(***************************************************************************)
(* The thread dump of janitor.c on top of the thread manager: dumpthreads  *)
(* walks threadlist, sends SIGQUIT to each thread and waits on threadblock *)
(* for the answer of its handler.  Waiting gives up threadlock in the      *)
(* middle of the walk.  A handler runs on top of whatever its thread does: *)
(* that thread takes no other step until the handler returns.              *)
(*                                                                         *)
(* A dump is made by an application thread (janitor_backtrace_all) or by a *)
(* managed thread that crashes in its run function (handlesignal).         *)
(***************************************************************************)
EXTENDS Janitor, Naturals

CONSTANTS Dumper,     \* application threads that call janitor_backtrace_all
          Crashing    \* managed threads whose run function may crash

ASSUME DumperAssumption == /\ Dumper \intersect (Process \union {NULL}) = {}
                           /\ Crashing \subseteq Thread

VARIABLES dpc,        \* how far each dump is
          dumpat,     \* list: the record each dump stands on
          pending,    \* threads with a SIGQUIT that is not delivered yet
          handling,   \* threads in the SIGQUIT handler
          asked,      \* how often each dump signalled each thread, up to 2
          began       \* the threads on threadlist when each dump began

quitvars == <<pending, handling>>
tracevars == <<asked, began>>
dvars == <<vars, dpc, dumpat, quitvars, tracevars>>

Caller == Dumper \union Thread

DumpTypeOK ==
    /\ dpc \in [Caller -> {"none", "begin", "wait", "woken", "self", "wild", "done"}]
    /\ dumpat \in [Caller -> Thread \union {NULL}]
    /\ pending \in SUBSET Thread
    /\ handling \in SUBSET Thread
    /\ asked \in [Caller -> [Thread -> 0..2]]
    /\ began \in [Caller -> SUBSET Thread]

NoDump == /\ dpc = [p \in Caller |-> "none"]
          /\ dumpat = [p \in Caller |-> NULL]
          /\ pending = {}
          /\ handling = {}
          /\ asked = [p \in Caller |-> [t \in Thread |-> 0]]
          /\ began = [p \in Caller |-> {}]

DumpInit == Init /\ NoDump

\* No handler runs on top of thread t.
Undisturbed(t) == t \notin handling /\ dpc[t] = "none"

\* pthread_cond_signal(&threadblock) wakes one waiting dump, if there is one.
Waiting == {p \in Caller : dpc[p] = "wait"}
Signal == IF Waiting = {} THEN UNCHANGED dpc
          ELSE \E p \in Waiting : dpc' = [dpc EXCEPT ![p] = "woken"]

-----------------------------------------------------------------------------
(* dumpthreads, from one wait on threadblock to the next.                  *)

\* janitor_backtrace_all, and a crash caught by handlesignal.
BeginDump(p) ==
    /\ dpc[p] = "none"
    /\ p \in Thread => p \in Crashing /\ pc[p] = "run" /\ p \notin handling
    /\ dpc' = [dpc EXCEPT ![p] = "begin"]
    /\ UNCHANGED <<vars, dumpat, quitvars, tracevars>>

\* Dump p has threadlock, for the first time or again after its wait.
Resumes(p) == dpc[p] \in {"begin", "woken"} /\ threadlock = NULL /\ p \notin handling

\* The record it stands on still exists; the one it comes to next.
Readable(t) == t # NULL /\ t \notin freed
Onward(p) == dpc[p] = "woken" => Readable(dumpat[p])
Reached(p) == IF dpc[p] = "begin" THEN threadlist ELSE next[dumpat[p]]

\* The walk skips the caller's own record, which it finds by the key.
Own(p, t) == t = p /\ p \in located

\* Mutant: the walk stops at NULL, as if the list were not a ring.
OverAtNull(p) == Reached(p) = NULL

\* The record to signal next; threadlist where the walk is over.  (A walk
\* that begins stands on threadlist and is not over.)
Over(p) == \/ threadlist = NULL /\ Reached(p) = NULL
           \/ dpc[p] = "woken" /\ Reached(p) = threadlist
           \/ Readable(Reached(p)) /\ Own(p, Reached(p)) /\ next[Reached(p)] = threadlist
ToAsk(p) == IF Own(p, Reached(p)) THEN next[Reached(p)] ELSE Reached(p)

Starts(p) == began' = IF dpc[p] = "begin" THEN [began EXCEPT ![p] = Walk(threadlist)]
                      ELSE began

\* At the end of its dump a crashed thread raises its signal again, which
\* this time has the original action and ends the program.
FinishDump(p) ==
    /\ Resumes(p) /\ Onward(p) /\ Over(p)
    /\ dpc' = [dpc EXCEPT ![p] = "done"]
    /\ crashed' = (p \in Thread)
    /\ Starts(p)
    /\ UNCHANGED <<threadlock, listvars, isstarted, barriervars, keyvars, freed, pc,
                   callvars, dumpat, quitvars, asked>>

\* The thread was joined: its identifier is not valid any more.
Joined(t) == \E c \in Client : pc[c] \in {"dispose", "free"} /\ target[c] = t

\* SIGQUIT to another thread, then the wait, which gives up the lock.  A
\* thread that has ended never answers.
Ask(p) ==
    LET t == ToAsk(p) IN
    /\ Resumes(p) /\ Onward(p) /\ ~Over(p)
    /\ Readable(t) /\ ~Joined(t) /\ t # p
    /\ dpc' = [dpc EXCEPT ![p] = "wait"]
    /\ dumpat' = [dumpat EXCEPT ![p] = t]
    /\ pending' = IF pc[t] = "exited" THEN pending ELSE pending \union {t}
    /\ asked' = [asked EXCEPT ![p][t] = IF @ = 0 THEN 1 ELSE 2]
    /\ Starts(p)
    /\ UNCHANGED <<vars, handling>>

\* A thread that did not store its record under the key finds itself on the
\* list: SIGQUIT is delivered at once, and the handler waits for the lock the
\* same thread holds.
AskSelf(p) ==
    /\ Resumes(p) /\ Onward(p) /\ ~Over(p)
    /\ ToAsk(p) = p
    /\ dpc' = [dpc EXCEPT ![p] = "self"]
    /\ threadlock' = p
    /\ Starts(p)
    /\ UNCHANGED <<listvars, isstarted, barriervars, keyvars, freed, crashed, pc,
                   callvars, dumpat, quitvars, asked>>

\* The walk follows a NULL link, reads a freed record or signals a joined
\* thread: what the program does from here on is undefined.
GoWild(p) ==
    /\ Resumes(p)
    /\ \/ ~Onward(p)
       \/ ~Over(p) /\ (~Readable(ToAsk(p)) \/ Joined(ToAsk(p)))
    /\ dpc' = [dpc EXCEPT ![p] = "wild"]
    /\ UNCHANGED <<vars, dumpat, quitvars, tracevars>>

\* pthread_cond_wait may return without a signal.
SpuriousWake(p) ==
    /\ dpc[p] = "wait"
    /\ dpc' = [dpc EXCEPT ![p] = "woken"]
    /\ UNCHANGED <<vars, dumpat, quitvars, tracevars>>

DumpStep(p) == FinishDump(p) \/ Ask(p) \/ AskSelf(p) \/ GoWild(p)

-----------------------------------------------------------------------------
(* handlesignal for SIGQUIT.                                               *)

\* The signal is blocked while its handler runs, and is delivered at any
\* other moment of a thread's life, also inside a critical section.
Deliver(t) ==
    /\ t \in pending \ handling
    /\ pc[t] # "exited"
    /\ dpc[t] # "self"
    /\ pending' = pending \ {t}
    /\ handling' = handling \union {t}
    /\ UNCHANGED <<vars, dpc, dumpat, tracevars>>

\* Mutant: the handler gives up when it does not get the lock at once.
AnswerTry(t) ==
    /\ t \in handling
    /\ IF threadlock = NULL THEN Signal ELSE UNCHANGED dpc
    /\ handling' = handling \ {t}
    /\ UNCHANGED <<vars, dumpat, pending, tracevars>>

Answer(t) ==
    /\ t \in handling
    /\ threadlock = NULL
    /\ Signal
    /\ handling' = handling \ {t}
    /\ UNCHANGED <<vars, dumpat, pending, tracevars>>

-----------------------------------------------------------------------------
(* The thread manager beneath.                                             *)

\* The end of unregister signals threadblock as well.
Unregistered(t) == UnregisterDestroy(t) /\ Signal

ManagedStep(t) ==
    /\ Undisturbed(t)
    /\ \/ Unregistered(t)
       \/ pc[t] # "destroy" /\ ThreadStep(t) /\ UNCHANGED dpc
    /\ UNCHANGED <<dumpat, quitvars, tracevars>>

TakeLock(p) == /\ p \in Thread => Undisturbed(p)
               /\ Lock(p)
               /\ UNCHANGED <<dpc, dumpat, quitvars, tracevars>>

Application(c) == /\ ClientCall(c) \/ ClientStep(c)
                  /\ UNCHANGED <<dpc, dumpat, quitvars, tracevars>>

DumpNext ==
    /\ ~crashed
    /\ \A p \in Caller : dpc[p] # "wild"
    /\ \/ \E p \in Process : TakeLock(p)
       \/ \E t \in Thread : ManagedStep(t) \/ Deliver(t) \/ Answer(t)
       \/ \E c \in Client : Application(c)
       \/ \E p \in Caller : BeginDump(p) \/ DumpStep(p) \/ SpuriousWake(p)

DumpSpec == DumpInit /\ [][DumpNext]_dvars

-----------------------------------------------------------------------------
(* Properties.                                                             *)

Active(p) == dpc[p] \in {"begin", "wait", "woken", "self"}

\* While the dump waited, the record it stands on was unregistered.
OffList(p) == dpc[p] \in {"wait", "woken"} /\ dumpat[p] \notin OnRunning

\* Threads are registered and unregistered while the dump waits, the list gets
\* new heads and loses old ones.  All the same a thread that stays on the list
\* is signalled by a dump at most once, a completed dump has signalled every
\* thread that was there all the time, and none that came after it began.
DumpAsksEachOnce ==
    \A p \in Caller :
        /\ \A t \in OnRunning : asked[p][t] <= IF t \in began[p] THEN 1 ELSE 0
        /\ dpc[p] = "done" => \A t \in (began[p] \intersect OnRunning) \ {p} : asked[p][t] = 1

\* A dump leaves the rails only at a record that left the list while the dump
\* stood on it; no other change of the lists leads it to NULL, to a freed
\* record or to a joined thread.
WildOnlyOffList ==
    [][\A p \in Caller : dpc[p] # "wild" /\ dpc'[p] = "wild" => OffList(p)]_dvars

\* As long as there is one dump only, the thread it waits for has still to
\* answer: its answer cannot come before the wait began, and no wake-up by a
\* thread that unregisters makes the dump miss it.
NoLostAnswer ==
    \A p \in Caller :
        /\ dpc[p] = "wait"
        /\ \A q \in Caller \ {p} : dpc[q] = "none"
        /\ ~OffList(p)
        => dumpat[p] \in pending \union handling

\* The handler waits for a lock that the thread beneath it owns.
Interrupted == \E t \in handling : threadlock = t

\* A dump comes to its end, unless it leaves the list at its own record, waits
\* for itself (a thread that could not store its record under the key), is one
\* of two, or a handler interrupted a critical section.
DumpEnds ==
    \A p \in Caller :
        Active(p) ~> \/ ~Active(p)
                     \/ OffList(p)
                     \/ dpc[p] = "self"
                     \/ Interrupted
                     \/ \E q \in Caller \ {p} : dpc[q] # "none"

\* The operating system runs every thread, delivers every signal and hands out
\* the mutex.  A thread is not kept from its run function's end.
DumpFairness ==
    /\ \A t \in Thread : WF_dvars(~crashed /\ Deliver(t)) /\ SF_dvars(~crashed /\ Answer(t))
    /\ \A t \in Thread : WF_dvars(~crashed /\ ManagedStep(t))
    /\ \A p \in Caller : SF_dvars(~crashed /\ DumpStep(p))
    /\ \A p \in Process : SF_dvars(~crashed /\ TakeLock(p))
    /\ \A c \in Client : WF_dvars(~crashed /\ ClientStep(c) /\ UNCHANGED <<dpc, dumpat, quitvars, tracevars>>)
=============================================================================
