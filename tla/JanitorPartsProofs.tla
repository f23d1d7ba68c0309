-------------------------- MODULE JanitorPartsProofs --------------------------
(***************************************************************************)
(* The two parts the proofs about janitor.c stand beside.  The replacement *)
(* barrier, for any finite set of processes: it implements the native one  *)
(* as long as pthread_cond_wait returns only when signalled, and destroy   *)
(* waits for the crossing in any case.  And what ThreadLifecycle guarantees*)
(* of the two sets, for any number of threads; Refinement in JanitorProofs *)
(* carries it over to janitor.c.                                           *)
(***************************************************************************)
EXTENDS JanitorBarrier, ThreadLifecycle, FiniteSetTheorems, TLAPS

-----------------------------------------------------------------------------
(* The replacement barrier.                                                 *)

\* waiting counts those that came, and count is 0 from the moment the last
\* one did; from then on nobody is left in the condition.
CountInv ==
    /\ TypeOK
    /\ waiting = Cardinality(Came)
    /\ IF Came = Party THEN count = 0 ELSE count = Cardinality(Party)
    /\ Came = Party => \A p \in Party : pc[p] # "blocked"
    /\ life \in {"freeing", "freed"} => Came = Party

\* Without spurious wake-ups, those woken and those gone were released, and
\* the last one to come is serial.
OrderInv ==
    ~spurious /\ Came # Party => \A p \in Party : pc[p] \in {"outside", "blocked"}

\* One more process comes: the count of those that came follows.
LEMMA CameGrows ==
    ASSUME NEW p \in Party, pc[p] = "outside", Came' = Came \union {p}
    PROVE  /\ Cardinality(Came') = Cardinality(Came) + 1
           /\ Cardinality(Came) \in Nat /\ Cardinality(Party) \in Nat
           /\ Came' = Party <=> Cardinality(Came) + 1 = Cardinality(Party)
<1>1. IsFiniteSet(Came) /\ p \notin Came /\ Came' \subseteq Party
  BY PartyAssumption, FS_Subset DEF Came
<1>2. /\ IsFiniteSet(Came') /\ Cardinality(Came') = Cardinality(Came) + 1
      /\ Cardinality(Came) \in Nat /\ Cardinality(Party) \in Nat
  BY <1>1, PartyAssumption, FS_AddElement, FS_CardinalityType
<1>3. Cardinality(Came') = Cardinality(Party) => Came' = Party
  BY <1>1, PartyAssumption, FS_Subset
<1>4. QED
  BY <1>2, <1>3

\* Nobody has come at the start, and there is somebody to come.
LEMMA CountInit == Init => CountInv
<1> SUFFICES ASSUME Init PROVE CountInv
  OBVIOUS
<1>1. Came = {} /\ Cardinality({}) = 0
  BY FS_EmptySet DEF Init, Came
<1>2. Cardinality(Party) \in Nat
  BY PartyAssumption, FS_CardinalityType
<1>3. Came # Party
  BY <1>1, PartyAssumption
<1>4. TypeOK
  <2>1. 0 \in 0..Cardinality(Party)
    BY <1>2
  <2>2. pc \in [Party -> Label]
    BY DEF Init, Label
  <2>3. QED
    BY <2>1, <2>2 DEF Init, TypeOK
<1>5. QED
  BY <1>1, <1>3, <1>4 DEF Init, CountInv

\* Every step keeps the count.
LEMMA CountStep == CountInv /\ [Next]_vars => CountInv'
<1> SUFFICES ASSUME CountInv, [Next]_vars PROVE CountInv'
  OBVIOUS
<1> USE DEF CountInv, TypeOK, Label
<1>1. ASSUME NEW p \in Party, Block(p) \/ Release(p) PROVE CountInv'
  <2>1. pc[p] = "outside" /\ Came' = Came \union {p} /\ Came # Party
    BY <1>1 DEF Block, Release, Came
  <2>2. /\ Cardinality(Came') = Cardinality(Came) + 1
        /\ Cardinality(Came) \in Nat /\ Cardinality(Party) \in Nat
        /\ Came' = Party <=> Cardinality(Came) + 1 = Cardinality(Party)
    BY <2>1, CameGrows
  <2>3. Cardinality(Came') <= Cardinality(Party)
    <3>1. Came' \subseteq Party
      BY DEF Came
    <3>2. QED
      BY <3>1, PartyAssumption, FS_Subset
  <2>4. QED
    BY <1>1, <2>1, <2>2, <2>3 DEF Block, Release
<1>2. ASSUME NEW p \in Party, SpuriousWake(p) \/ Pass(p) \/ Destroy(p) PROVE CountInv'
  <2>1. Came' = Came
    BY <1>2 DEF SpuriousWake, Pass, Destroy, Came
  <2>2. CASE SpuriousWake(p) \/ Pass(p)
    BY <2>1, <2>2 DEF SpuriousWake, Pass
  <2>3. CASE Destroy(p)
    <3>1. Cardinality(Party) \in Nat /\ Cardinality(Party) # 0
      BY PartyAssumption, FS_CardinalityType, FS_EmptySet
    <3>2. count > 0 \/ Came = Party
      BY <3>1
    <3>3. QED
      BY <2>1, <2>3, <3>2 DEF Destroy
  <2>4. QED
    BY <1>2, <2>2, <2>3
<1>3. CASE DestroyFree \/ UNCHANGED vars
  <2>1. Came' = Came
    BY <1>3 DEF DestroyFree, vars, Came
  <2>2. QED
    BY <1>3, <2>1 DEF DestroyFree, vars
<1>4. QED
  BY <1>1, <1>2, <1>3 DEF Next, WaitStep, Ended

\* The count of those that came is right in every reachable state, spurious
\* wake-ups or not.
THEOREM CountExact == Spec => []CountInv
  BY CountInit, CountStep, PTL DEF Spec

\* destroy frees the barrier only after everybody came.
THEOREM DestroyWaits == Spec => []DestroyedOnlyWhenCrossed
<1>1. CountInv => DestroyedOnlyWhenCrossed
  BY DEF CountInv, DestroyedOnlyWhenCrossed
<1>2. QED
  BY <1>1, CountExact, PTL

\* Without spurious wake-ups nobody is woken before the last one came.
LEMMA OrderStep ==
    CountInv /\ OrderInv /\ [Next]_vars => OrderInv'
<1> SUFFICES ASSUME CountInv, OrderInv, [Next]_vars PROVE OrderInv'
  OBVIOUS
<1> USE DEF CountInv, TypeOK, Label, OrderInv, Came
<1>1. ASSUME NEW p \in Party, Block(p) PROVE OrderInv'
  BY <1>1 DEF Block
<1>2. ASSUME NEW p \in Party, Release(p) PROVE OrderInv'
  <2>1. pc[p] = "outside" /\ Came' = Came \union {p}
    BY <1>2 DEF Release
  <2>2. Came' = Party
    BY <1>2, <2>1, CameGrows DEF Release
  <2>3. QED
    BY <2>2
<1>3. ASSUME NEW p \in Party, SpuriousWake(p) \/ Pass(p) \/ Destroy(p) PROVE OrderInv'
  BY <1>3 DEF SpuriousWake, Pass, Destroy
<1>4. CASE DestroyFree \/ UNCHANGED vars
  BY <1>4 DEF DestroyFree, vars
<1>5. QED
  BY <1>1, <1>2, <1>3, <1>4 DEF Next, WaitStep, Ended

\* Each step of the replacement is one of the native barrier, or none.
LEMMA NativeStep ==
    CountInv /\ OrderInv /\ [Next]_vars => [~spurious => Native!BNext]_(Native!bvars)
<1> SUFFICES ASSUME CountInv, OrderInv, [Next]_vars, ~spurious
             PROVE  Native!BNext \/ UNCHANGED Native!bvars
  OBVIOUS
<1> USE DEF CountInv, TypeOK, Label, OrderInv, Native!bvars
<1>1. ASSUME NEW p \in Party, Block(p) PROVE Native!Come(p)
  BY <1>1 DEF Block, Native!Come, Came
<1>2. ASSUME NEW p \in Party, Release(p) PROVE Native!ComeLast(p)
  <2>1. pc[p] = "outside" /\ Came' = Came \union {p}
    BY <1>2 DEF Release, Came
  <2>2. Came' = Party /\ Came # Party
    BY <1>2, <2>1, CameGrows DEF Release, Came
  <2>3. \A q \in Party : pc[q] \in {"outside", "blocked"}
    BY <2>2
  <2>4. {q \in Party : pc'[q] = "serial"} = {p}
    BY <1>2, <2>3 DEF Release
  <2>5. {q \in Party : pc'[q] = "passed"} = {q \in Party : pc[q] = "passed"}
    BY <1>2, <2>3 DEF Release
  <2>6. QED
    BY <2>1, <2>2, <2>4, <2>5 DEF Native!ComeLast, Came
<1>3. ASSUME NEW p \in Party, Pass(p) PROVE Native!Go(p)
  <2>1. Came = Party
    BY <1>3 DEF Pass
  <2>2. QED
    BY <1>3, <2>1 DEF Pass, Came, Native!Go
<1>4. ASSUME NEW p \in Party, SpuriousWake(p) \/ Destroy(p) PROVE UNCHANGED Native!bvars
  BY <1>4 DEF SpuriousWake, Destroy, Came
<1>5. CASE DestroyFree \/ UNCHANGED vars
  BY <1>5 DEF DestroyFree, vars, Came
<1>6. QED
  BY <1>1, <1>2, <1>3, <1>4, <1>5 DEF Next, WaitStep, Ended, Native!BNext

\* Without spurious wake-ups the replacement implements the native barrier.
THEOREM BarrierRefinement == Spec => ImplementsNative
<1>1. Init => OrderInv
  BY DEF Init, OrderInv
<1>2. Init => Native!BInit
  BY DEF Init, Native!BInit, Came
<1>3. CountInv /\ OrderInv /\ [Next]_vars => OrderInv'
  BY OrderStep
<1>4. QED
  BY <1>1, <1>2, <1>3, CountInit, CountStep, NativeStep, PTL
     DEF Spec, ImplementsNative

-----------------------------------------------------------------------------
(* The life of a thread.                                                    *)

LInv == LTypeOK /\ ListsFollowLife

\* One step of the life of one thread keeps the stages and the lists in tune.
LEMMA LifeStep == LInv /\ [LNext]_lvars => LInv'
<1> SUFFICES ASSUME LInv, [LNext]_lvars PROVE LInv'
  OBVIOUS
<1> USE DEF LInv, LTypeOK, Stage, Advance, ListsFollowLife
<1>1. ASSUME NEW t \in Thread, Create(t) \/ Fail(t) PROVE LInv'
  BY <1>1 DEF Create, Fail
<1>2. ASSUME NEW t \in Thread, Register(t) PROVE LInv'
  BY <1>2 DEF Register
<1>3. ASSUME NEW t \in Thread, Start(t) \/ Run(t) \/ Return(t) PROVE LInv'
  BY <1>3 DEF Start, Run, Return
<1>4. ASSUME NEW t \in Thread, Unregister(t) PROVE LInv'
  BY <1>4 DEF Unregister
<1>5. ASSUME NEW t \in Thread, Finish(t) PROVE LInv'
  BY <1>5 DEF Finish
<1>6. ASSUME NEW t \in Thread, Exit(t) PROVE LInv'
  BY <1>6 DEF Exit
<1>7. ASSUME NEW t \in Thread, Reap(t) \/ Dispose(t) PROVE LInv'
  BY <1>7 DEF Reap, Dispose
<1>8. CASE UNCHANGED lvars
  BY <1>8 DEF lvars
<1>9. QED
  BY <1>1, <1>2, <1>3, <1>4, <1>5, <1>6, <1>7, <1>8 DEF LNext

\* A thread is visible during the whole of its run function, and its record is
\* on neither list once it has been released, for any number of threads.
THEOREM ListsFollow == LSpec => []ListsFollowLife
<1>1. LInit => LInv
  BY DEF LInit, LInv, LTypeOK, Stage, ListsFollowLife
<1>2. LInv => ListsFollowLife
  BY DEF LInv
<1>3. QED
  BY <1>1, <1>2, LifeStep, PTL DEF LSpec
=============================================================================
