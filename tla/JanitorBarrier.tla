--------------------------- MODULE JanitorBarrier ---------------------------
(***************************************************************************)
(* The barrier janitor.c brings along for systems without pthread          *)
(* barriers: a counter with a mutex and a condition, made for one crossing *)
(* by Party.  The code inside the mutex is short and only                  *)
(* pthread_cond_wait gives the mutex up, so that each stretch between two  *)
(* of its operations is one step.                                          *)
(***************************************************************************)
EXTENDS Naturals, FiniteSets

CONSTANTS Party       \* the processes that call wait, each once

ASSUME PartyAssumption == IsFiniteSet(Party) /\ Party # {}

VARIABLES spurious,          \* whether pthread_cond_wait may return without a
                             \* broadcast; this does not change
          waiting, count,    \* the fields of the barrier
          life,              \* what destroy has done to the barrier
          pc                 \* where each process is

vars == <<spurious, waiting, count, life, pc>>

\* blocked: in pthread_cond_wait; woken: to take the mutex again on the way
\* out of it; serial, passed: wait returned.
Label == {"outside", "blocked", "woken", "serial", "passed"}

\* busy: destroy failed; freeing: it has passed its test; freed: it returned.
TypeOK == /\ spurious \in BOOLEAN
          /\ waiting \in 0..Cardinality(Party)
          /\ count \in {0, Cardinality(Party)}
          /\ life \in {"open", "busy", "freeing", "freed"}
          /\ pc \in [Party -> Label]

\* janitor_pthread_barrier_init.
Init == /\ spurious \in BOOLEAN
        /\ waiting = 0
        /\ count = Cardinality(Party)
        /\ life = "open"
        /\ pc = [p \in Party |-> "outside"]

\* janitor_pthread_barrier_wait, for all but the last, up to the wait.
Block(p) == /\ pc[p] = "outside"
            /\ waiting + 1 # count
            /\ waiting' = waiting + 1
            /\ pc' = [pc EXCEPT ![p] = "blocked"]
            /\ UNCHANGED <<spurious, count, life>>

\* Mutant: the last to come wakes only one of the others.
ReleaseOne(p) ==
    /\ pc[p] = "outside"
    /\ waiting + 1 = count
    /\ waiting' = waiting + 1
    /\ count' = 0
    /\ \E r \in Party \ {p} :
          pc' = [pc EXCEPT ![p] = "serial", ![r] = IF @ = "blocked" THEN "woken" ELSE @]
    /\ UNCHANGED <<spurious, life>>

\* Mutant: one too few is enough.
ReleaseEarly(p) ==
    /\ pc[p] = "outside"
    /\ waiting + 1 >= count - 1
    /\ waiting' = waiting + 1
    /\ count' = 0
    /\ pc' = [q \in Party |-> IF q = p THEN "serial"
                              ELSE IF pc[q] = "blocked" THEN "woken" ELSE pc[q]]
    /\ UNCHANGED <<spurious, life>>

\* The last one wakes all the others.
Release(p) ==
    /\ pc[p] = "outside"
    /\ waiting + 1 = count
    /\ waiting' = waiting + 1
    /\ count' = 0
    /\ pc' = [q \in Party |-> IF q = p THEN "serial"
                              ELSE IF pc[q] = "blocked" THEN "woken" ELSE pc[q]]
    /\ UNCHANGED <<spurious, life>>

SpuriousWake(p) == /\ spurious
                   /\ pc[p] = "blocked"
                   /\ pc' = [pc EXCEPT ![p] = "woken"]
                   /\ UNCHANGED <<spurious, waiting, count, life>>

\* pthread_cond_wait takes the mutex again, freed by destroy or not, and wait
\* returns 0.
Pass(p) == /\ pc[p] = "woken"
           /\ pc' = [pc EXCEPT ![p] = "passed"]
           /\ UNCHANGED <<spurious, waiting, count, life>>

Returned(p) == pc[p] \in {"serial", "passed"}

\* Mutant: whether all have come is not looked at.
DestroyUntested(p) == /\ Returned(p) /\ life = "open"
                      /\ life' = "freeing"
                      /\ UNCHANGED <<spurious, waiting, count, pc>>

\* janitor_pthread_barrier_destroy, by one that has left the barrier, as
\* unregister calls it.  As long as count is not 0 it returns -1 with EBUSY in
\* errno, which unregister's loop does not take for EBUSY: it is not repeated.
Destroy(p) == /\ Returned(p) /\ life = "open"
              /\ life' = IF count > 0 THEN "busy" ELSE "freeing"
              /\ UNCHANGED <<spurious, waiting, count, pc>>

DestroyFree == /\ life = "freeing"
               /\ life' = "freed"
               /\ UNCHANGED <<spurious, waiting, count, pc>>

\* Everybody has left, and somebody called destroy.
Ended == /\ \A p \in Party : Returned(p)
         /\ life \in {"busy", "freed"}
         /\ UNCHANGED vars

WaitStep(p) == Block(p) \/ Release(p) \/ Pass(p)

Next == \/ \E p \in Party : WaitStep(p) \/ SpuriousWake(p) \/ Destroy(p)
        \/ DestroyFree
        \/ Ended

Spec == Init /\ [][Next]_vars
-----------------------------------------------------------------------------
(* Properties.                                                             *)

Came == {p \in Party : pc[p] # "outside"}
Gone == {p \in Party : Returned(p)}

\* destroy gives the memory back only after the last one came, even if some
\* left the barrier early; until then it answers EBUSY.
DestroyedOnlyWhenCrossed == life = "freed" => Came = Party

\* Once all have come, nobody stays behind in the condition, whatever spurious
\* wake-ups there were on the way.
EverybodyPasses == Came = Party ~> Gone = Party

Fairness == \A p \in Party : WF_vars(WaitStep(p))
FairSpec == Spec /\ Fairness

\* The serial thread, told from the others by the value of count it saw.
Native == INSTANCE NativeBarrier WITH
    present <- Came,
    serial <- {p \in Party : pc[p] = "serial"},
    through <- {p \in Party : pc[p] = "passed"}

\* Unless there are spurious wake-ups, a crossing is one of the native barrier,
\* which nobody leaves early.
ImplementsNative ==
    Native!BInit /\ [][~spurious => Native!BNext]_(Native!bvars)
=============================================================================
