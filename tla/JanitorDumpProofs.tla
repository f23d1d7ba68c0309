-------------------------- MODULE JanitorDumpProofs --------------------------
(***************************************************************************)
(* Proofs about the thread dump, for any number of threads and of dumps.   *)
(* The inductive invariant of the thread manager survives the dump; on top *)
(* of it, what a dump has passed of the ring is a segment of it, from the  *)
(* head to the record it stands on, whoever comes and goes meanwhile.      *)
(***************************************************************************)
EXTENDS JanitorDump, JanitorProofs

-----------------------------------------------------------------------------
(* Segments of a ring.                                                     *)

\* A is the part of the ring of h from its head up to d.
Segment(n, p, h, M, d, A) ==
    /\ A \subseteq M /\ d \in A /\ h \in A
    /\ \A t \in A \ {d} : n[t] \in A
    /\ \A t \in A \ {h} : p[t] \in A
    /\ n[d] \notin A \/ n[d] = h

\* The head is one.
LEMMA SegmentBegins ==
    ASSUME NEW n, NEW p, NEW h, NEW M
    PROVE  h \in M => Segment(n, p, h, M, h, {h})
  BY DEF Segment

\* It grows by one record, unless that is the head again.
LEMMA SegmentGrows ==
    ASSUME NEW n, NEW p, NEW h, NEW M, NEW d, NEW A, RingOf(n, p, h, M),
           Segment(n, p, h, M, d, A), n[d] # h
    PROVE  /\ n[d] \in M \ A
           /\ Segment(n, p, h, M, n[d], A \union {n[d]})
<1>1. n[d] \in M \ A /\ p[n[d]] = d
  BY DEF RingOf, Segment
<1>2. \A t \in A : n[t] \in A \union {n[d]}
  BY DEF Segment
<1>3. \A t \in (A \union {n[d]}) \ {h} : p[t] \in A
  BY <1>1 DEF Segment
<1>4. n[n[d]] \notin A \union {n[d]} \/ n[n[d]] = h
  <2> SUFFICES ASSUME n[n[d]] \in A \union {n[d]}, n[n[d]] # h PROVE FALSE
    OBVIOUS
  <2>1. p[n[n[d]]] = n[d] /\ n[n[d]] \in M
    BY <1>1 DEF RingOf
  <2>2. p[n[n[d]]] \in A
    BY <1>3
  <2> QED BY <1>1, <2>1, <2>2
<1> QED BY <1>1, <1>2, <1>3, <1>4 DEF Segment

\* If that is the head again it is the whole ring.
LEMMA SegmentIsWhole ==
    ASSUME NEW n, NEW p, NEW h, NEW M, NEW d, NEW A, RingOf(n, p, h, M),
           Segment(n, p, h, M, d, A), n[d] = h
    PROVE  A = M
<1>1. A \in SUBSET M /\ h \in A /\ \A t \in A : n[t] \in A
  BY DEF Segment
<1> QED BY <1>1 DEF RingOf

\* register puts a record before all that was passed.
LEMMA SegmentInserted ==
    ASSUME NEW Node, NULL \notin Node, NEW n \in Links(Node), NEW p \in Links(Node),
           NEW h \in Node \union {NULL}, NEW M \in SUBSET Node, RingOf(n, p, h, M),
           NEW d, NEW A, Segment(n, p, h, M, d, A), NEW t \in Node \ M
    PROVE  Segment(NextInserted(n, p, t, h), PrevInserted(n, p, t, h), t, M \union {t},
                   d, A \union {t})
<1> DEFINE n2 == NextInserted(n, p, t, h)
           p2 == PrevInserted(n, p, t, h)
<1>1. /\ A \subseteq M /\ d \in A /\ h \in A /\ h # NULL /\ t # h /\ p[h] \in M
  BY DEF Segment, RingOf
<1>2. /\ DOMAIN n = Node /\ DOMAIN p = Node
      /\ n2 = [n EXCEPT ![t] = h, ![p[h]] = t] /\ p2 = [p EXCEPT ![t] = p[h], ![h] = t]
  BY <1>1 DEF Links, NextInserted, PrevInserted
<1>3. /\ n2[p[h]] = t /\ n2[t] = h /\ \A s \in M \ {p[h]} : n2[s] = n[s]
      /\ p2[h] = t /\ \A s \in M \ {h} : p2[s] = p[s]
  BY <1>1, <1>2
<1> HIDE DEF n2, p2
<1>4. \A s \in (A \union {t}) \ {d} : n2[s] \in A \union {t}
  BY <1>1, <1>3 DEF Segment
<1>5. \A s \in (A \union {t}) \ {t} : p2[s] \in A \union {t}
  BY <1>1, <1>3 DEF Segment
<1>6. n2[d] \notin A \union {t} \/ n2[d] = t
  <2>1. CASE d = p[h]
    BY <1>3, <2>1
  <2>2. CASE d # p[h]
    <3>1. n2[d] = n[d] /\ n[d] # h /\ n[d] \in M
      BY <1>1, <1>3, <2>2 DEF RingOf
    <3> QED BY <3>1 DEF Segment
  <2> QED BY <2>1, <2>2
<1>7. A \union {t} \subseteq M \union {t} /\ d \in A \union {t} /\ t \in A \union {t}
  BY <1>1
<1>8. Segment(n2, p2, t, M \union {t}, d, A \union {t})
  BY <1>4, <1>5, <1>6, <1>7 DEF Segment
<1> QED BY <1>8 DEF n2, p2

\* unregister takes out a record that was passed, or one that was not.
LEMMA SegmentUnlinked ==
    ASSUME NEW Node, NULL \notin Node, NEW n \in Links(Node), NEW p \in Links(Node),
           NEW h \in Node \union {NULL}, NEW M \in SUBSET Node, RingOf(n, p, h, M),
           NEW d, NEW A, Segment(n, p, h, M, d, A), NEW t \in M \ {d}
    PROVE  Segment(NextUnlinked(n, p, t), PrevUnlinked(n, p, t), HeadWithout(n, t, h),
                   M \ {t}, d, A \ {t})
<1> DEFINE n2 == NextUnlinked(n, p, t)
           p2 == PrevUnlinked(n, p, t)
           h2 == HeadWithout(n, t, h)
<1>1. /\ A \subseteq M /\ d \in A /\ h \in A
      /\ n[t] \in M /\ p[t] \in M /\ n[p[t]] = t /\ p[n[t]] = t
      /\ \A s \in M : n[s] \in M /\ p[s] \in M /\ p[n[s]] = s /\ n[p[s]] = s
  BY DEF Segment, RingOf
<1>2. n[t] # t /\ p[t] # t
  <2>1. n[t] # t
    <3> SUFFICES ASSUME n[t] = t PROVE FALSE
      OBVIOUS
    <3>1. CASE t = h
      <4>1. {h} \in SUBSET M /\ \A s \in {h} : n[s] \in {h}
        BY <1>1, <3>1
      <4>2. {h} = M
        BY <4>1 DEF RingOf
      <4> QED BY <1>1, <3>1, <4>2
    <3>2. CASE t # h
      <4>1. \A s \in M \ {t} : n[s] \in M \ {t}
        BY <1>1
      <4>2. M \ {t} \in SUBSET M /\ h \in M \ {t}
        BY <1>1, <3>2
      <4>3. M \ {t} = M
        BY <4>1, <4>2 DEF RingOf
      <4> QED BY <4>3
    <3> QED BY <3>1, <3>2
  <2> QED BY <1>1, <2>1
<1>3. /\ DOMAIN n = Node /\ DOMAIN p = Node
      /\ n2 = [n EXCEPT ![p[t]] = n[t], ![t] = NULL]
      /\ p2 = [p EXCEPT ![n[t]] = p[t], ![t] = NULL]
  BY DEF Links, NextUnlinked, PrevUnlinked
<1>4. /\ n2[p[t]] = n[t] /\ \A s \in M \ {t, p[t]} : n2[s] = n[s]
      /\ p2[n[t]] = p[t] /\ \A s \in M \ {t, n[t]} : p2[s] = p[s]
  BY <1>1, <1>2, <1>3
<1>5. h2 = IF h = t THEN n[t] ELSE h
  BY <1>2 DEF HeadWithout
<1> HIDE DEF n2, p2, h2
<1>6. h2 \in A \ {t}
  BY <1>1, <1>2, <1>5 DEF Segment
<1>7. \A s \in A \ {t, d} : n2[s] \in A \ {t}
  <2> TAKE s \in A \ {t, d}
  <2>1. CASE s = p[t]
    <3>1. n[s] = t /\ n[s] \in A
      BY <1>1, <2>1 DEF Segment
    <3>2. n[t] \in A
      BY <3>1 DEF Segment
    <3> QED BY <1>2, <1>4, <2>1, <3>2
  <2>2. CASE s # p[t]
    <3>1. n2[s] = n[s] /\ n[s] \in A
      BY <1>1, <1>4, <2>2 DEF Segment
    <3>2. n[s] # t
      BY <1>1, <2>2
    <3> QED BY <3>1, <3>2
  <2> QED BY <2>1, <2>2
<1>8. \A s \in (A \ {t}) \ {h2} : p2[s] \in A \ {t}
  <2> TAKE s \in (A \ {t}) \ {h2}
  <2>1. s # h \/ h = t
    BY <1>5
  <2>2. s # h
    BY <2>1
  <2>3. p[s] \in A
    BY <2>2 DEF Segment
  <2>4. CASE s = n[t]
    <3>1. p[s] = t /\ t \in A /\ t # h
      BY <1>1, <1>5, <2>3, <2>4
    <3>2. p[t] \in A
      BY <3>1 DEF Segment
    <3> QED BY <1>2, <1>4, <2>4, <3>2
  <2>5. CASE s # n[t]
    <3>1. p2[s] = p[s] /\ p[s] # t
      BY <1>1, <1>4, <2>5
    <3> QED BY <2>3, <3>1
  <2> QED BY <2>4, <2>5
<1>9. n2[d] \notin A \ {t} \/ n2[d] = h2
  <2>1. CASE d = p[t]
    <3>1. n[d] = t /\ n2[d] = n[t]
      BY <1>1, <1>4, <2>1
    <3>2. CASE t = h
      BY <1>5, <3>1, <3>2
    <3>3. CASE t # h
      <4>1. t \notin A
        BY <3>1, <3>3 DEF Segment
      <4>2. n[t] \notin A \/ n[t] = h
        <5> SUFFICES ASSUME n[t] \in A, n[t] # h PROVE FALSE
          OBVIOUS
        <5>1. p[n[t]] \in A
          BY DEF Segment
        <5> QED BY <1>1, <4>1, <5>1
      <4> QED BY <1>5, <3>1, <3>3, <4>2
    <3> QED BY <3>2, <3>3
  <2>2. CASE d # p[t]
    <3>1. n2[d] = n[d] /\ n[d] # t
      BY <1>1, <1>4, <2>2
    <3>2. n[d] \notin A \/ n[d] = h
      BY DEF Segment
    <3> QED BY <1>5, <3>1, <3>2
  <2> QED BY <2>1, <2>2
<1>10. A \ {t} \subseteq M \ {t} /\ d \in A \ {t}
  BY <1>1
<1>11. Segment(n2, p2, h2, M \ {t}, d, A \ {t})
  BY <1>6, <1>7, <1>8, <1>9, <1>10 DEF Segment
<1> QED BY <1>11 DEF n2, p2, h2

\* The other list's steps leave it alone.
LEMMA SegmentStays ==
    ASSUME NEW n, NEW p, NEW n2, NEW p2, NEW h, NEW M, NEW d, NEW A,
           Segment(n, p, h, M, d, A), \A s \in M : n2[s] = n[s] /\ p2[s] = p[s]
    PROVE  Segment(n2, p2, h, M, d, A)
  BY DEF Segment

-----------------------------------------------------------------------------
(* The thread manager beneath a dump.                                      *)

\* The threads that are not registered yet.
Unborn == {t \in Thread : pc[t] \in {"none", "failed"} \/ Registering(t)}

\* A record on neither list has no link.
LooseInv == \A t \in Thread \ (OnRunning \union OnFinished) : next[t] = NULL

\* A step of the thread manager, as a dump sees it.
Beneath == ~crashed /\ ( \/ \E p \in Process : Lock(p)
                         \/ \E t \in Thread : ThreadStep(t)
                         \/ \E c \in Client : ClientCall(c) \/ ClientStep(c) )

\* What a client does moves no thread that exists, and creates at most one.
LEMMA ClientLeaves ==
    ASSUME IInv, NEW c \in Client, ClientCall(c) \/ ClientStep(c)
    PROVE  /\ \A t \in Thread : pc'[t] = pc[t] \/ pc[t] = "none"
           /\ \A d \in Client \ {c} : pc'[d] = pc[d] /\ target'[d] = target[d]
           /\ pc'[c] = "register" => pc[target'[c]] = "none"
<1>0. TypeOK /\ ConstantsAssumption /\ Client \subseteq Process /\ Thread \subseteq Process
      /\ \A t \in Thread : t # c /\ t \notin Client
  BY ConstantsAssumption DEF IInv, Process, ConstantsAssumption
<1>1. CASE \E t \in Thread : CallCreate(c, t)
  BY <1>0, <1>1 DEF CallCreate, Begin, TypeOK
<1>2. CASE \E t \in Thread : CallCreateFails(c, t)
  BY <1>0, <1>2 DEF CallCreateFails, Goto, TypeOK, callvars
<1>3. CASE \/ \E t \in Thread : CallStart(c, t) \/ CallJoin(c, t)
           \/ \E k \in Class \union {NULL}, name \in {"tryjoinall", "joinall"} :
                 CallJoinAll(c, name, k)
  <2>1. \E label \in {"start", "join", "scan"} : Goto(c, label)
    BY <1>3 DEF CallStart, CallJoin, CallJoinAll
  <2>2. \E t : target' = [target EXCEPT ![c] = t]
    BY <1>3 DEF CallStart, CallJoin, CallJoinAll, Begin
  <2> QED BY <1>0, <2>1, <2>2 DEF Goto, TypeOK
<1>4. CASE ClientStep(c)
  <2>1. \E label \in {"start", "idle", "arrive", "startwait", "dispose", "free", "scan", "join",
                      "check"} : Goto(c, label)
    BY <1>4 DEF ClientStep, Register, TestAndSet, StartArrive, StartLeave, Join, DisposeUnlink,
       Free, ScanFound, ScanNone, CheckLeft, Return
  <2>2. UNCHANGED target \/ \E t : target' = [target EXCEPT ![c] = t]
    BY <1>4 DEF ClientStep, Register, TestAndSet, StartArrive, StartLeave, Join, DisposeUnlink,
       Free, ScanFound, ScanNone, CheckLeft, Return, callvars
  <2> QED BY <1>0, <2>1, <2>2 DEF Goto, TypeOK
<1> QED BY <1>1, <1>2, <1>3, <1>4 DEF ClientCall

\* A thread moves itself only.
LEMMA ThreadLeaves ==
    ASSUME IInv, NEW t \in Thread, ThreadStep(t)
    PROVE  /\ \A p \in Process \ {t} : pc'[p] = pc[p]
           /\ pc[t] \notin {"none", "failed"} /\ pc'[t] \notin {"none", "failed"}
           /\ UNCHANGED target
<1>1. TypeOK
  BY DEF IInv
<1>2. UNCHANGED pc \/ \E label \in AfterRun \union {"startwait", "run"} : Goto(t, label)
  BY DEF ThreadStep, Boot, RunFunction, FunctionReturns, UnregisterUnlink, UnregisterDestroy,
     FinishedDetached, FinishedJoinable, FinishedDefault, FinishedInsert, Exit, AfterRun
<1>3. pc[t] \notin {"none", "failed"} /\ UNCHANGED target
  BY DEF ThreadStep, Boot, RunFunction, FunctionReturns, UnregisterUnlink, UnregisterDestroy,
     FinishedDetached, FinishedJoinable, FinishedDefault, FinishedInsert, Exit, Inside, callvars
<1> QED BY <1>1, <1>2, <1>3 DEF Goto, TypeOK, AfterRun, Process

\* A thread is registered once: who is on the list never was unborn again, and
\* who comes to it was.
LEMMA BornOnce ==
    ASSUME IInv, Beneath
    PROVE  /\ Unborn' \subseteq Unborn
           /\ OnRunning' \subseteq OnRunning \union Unborn
           /\ OnRunning \intersect Unborn = {}
<1>0. TypeOK /\ ConstantsAssumption /\ Client \subseteq Process /\ Thread \subseteq Process
      /\ \A t \in Thread : t \notin Client
  BY ConstantsAssumption DEF IInv, Process, ConstantsAssumption
<1>1. ASSUME NEW t \in Unborn' PROVE t \in Unborn
  <2>1. CASE \E p \in Process : Lock(p)
    BY <1>1, <2>1 DEF Lock, callvars, Unborn, Registering
  <2>2. ASSUME NEW u \in Thread, ThreadStep(u) PROVE t \in Unborn
    BY <1>0, <1>1, <2>2, ThreadLeaves DEF Unborn, Registering
  <2>3. ASSUME NEW c \in Client, ClientCall(c) \/ ClientStep(c) PROVE t \in Unborn
    <3>1. CASE pc'[t] \in {"none", "failed"}
      BY <1>1, <2>3, <3>1, ClientLeaves DEF Unborn
    <3>2. CASE Registering(t)'
      <4>1. PICK d \in Client : pc'[d] = "register" /\ target'[d] = t
        BY <3>2 DEF Registering
      <4>2. CASE d = c
        BY <1>1, <2>3, <4>1, <4>2, ClientLeaves DEF Unborn
      <4>3. CASE d # c
        BY <1>1, <2>3, <4>1, <4>3, ClientLeaves DEF Unborn, Registering
      <4> QED BY <4>2, <4>3
    <3> QED BY <1>1, <3>1, <3>2 DEF Unborn
  <2> QED BY <2>1, <2>2, <2>3 DEF Beneath
<1>2. OnRunning' \subseteq OnRunning \union Unborn
  <2>1. [Next]_vars
    BY DEF Beneath, Next
  <2>2. ASSUME NEW c \in Client, Register(c) PROVE OnRunning' \subseteq OnRunning \union Unborn
    <3>1. target[c] \in Thread /\ Registering(target[c])
      BY <2>2, RegisterMembers DEF Register, Inside, Registering
    <3> QED BY <2>2, <3>1, RegisterMembers DEF Unborn
  <2> QED BY <2>1, <2>2, ListSteps, UnregisterMembers, FinishMembers, DisposeMembers DEF ListsStay
<1>3. OnRunning \intersect Unborn = {}
  BY DEF OnRunning, Unborn
<1> QED BY <1>1, <1>2, <1>3

\* What the rings are, in the terms of Ring.tla.
LEMMA RingTypes ==
    ASSUME IInv
    PROVE  /\ next \in Links(Thread) /\ prev \in Links(Thread) /\ NULL \notin Thread
           /\ threadlist \in Thread \union {NULL} /\ finishedthreadlist \in Thread \union {NULL}
           /\ OnRunning \in SUBSET Thread /\ OnFinished \in SUBSET Thread
           /\ OnRunning \intersect OnFinished = {}
           /\ RingOf(next, prev, threadlist, OnRunning)
           /\ RingOf(next, prev, finishedthreadlist, OnFinished)
<1>1. OnRunning \intersect OnFinished = {}
  BY DEF OnRunning, OnFinished
<1> QED BY <1>1, ConstantsAssumption DEF IInv, TypeOK, RingInv, Links, OnRunning, OnFinished

\* A record that leaves a list leaves it without links.
LEMMA LooseStep == IInv /\ LooseInv /\ Beneath => LooseInv'
<1> SUFFICES ASSUME IInv, LooseInv, Beneath PROVE LooseInv'
  OBVIOUS
<1>1. [Next]_vars
  BY DEF Beneath, Next
<1>2. ASSUME NEW c \in Client, Register(c) PROVE LooseInv'
  <2>1. next' = NextInserted(next, prev, target[c], threadlist)
    BY <1>2 DEF Register
  <2>2. \A s \in Thread \ (OnRunning \union {target[c]}) : next'[s] = next[s]
    BY <1>2, <2>1, RingTypes, RegisterMembers, LinksTouched
  <2> QED BY <1>2, <2>2, RegisterMembers DEF LooseInv
<1>3. ASSUME NEW t \in Thread, FinishedInsert(t) PROVE LooseInv'
  <2>1. next' = NextInserted(next, prev, t, finishedthreadlist)
    BY <1>3 DEF FinishedInsert
  <2>2. \A s \in Thread \ (OnFinished \union {t}) : next'[s] = next[s]
    BY <1>3, <2>1, RingTypes, LinksTouched
  <2> QED BY <1>3, <2>2, FinishMembers DEF LooseInv
<1>4. ASSUME NEW t \in Thread, UnregisterUnlink(t) PROVE LooseInv'
  <2>1. next' = NextUnlinked(next, prev, t) /\ t \in OnRunning
    BY <1>4, UnregisterMembers DEF UnregisterUnlink
  <2>2. \A s \in Thread \ (OnRunning \union {t}) : next'[s] = next[s]
    BY <2>1, RingTypes, LinksTouched
  <2>3. next'[t] = NULL
    BY <2>1, RingTypes DEF NextUnlinked, Links
  <2> QED BY <1>4, <2>2, <2>3, UnregisterMembers DEF LooseInv
<1>5. ASSUME NEW c \in Client, DisposeUnlink(c) PROVE LooseInv'
  <2> DEFINE t == target[c]
  <2>1. next' = NextUnlinked(next, prev, t) /\ t \in OnFinished /\ t \in Thread
    BY <1>5, RingTypes, DisposeMembers, DisposeIsUnlink DEF DisposeUnlink
  <2>2. \A s \in Thread \ (OnFinished \union {t}) : next'[s] = next[s]
    BY <2>1, RingTypes, LinksTouched
  <2>3. next'[t] = NULL
    BY <2>1, RingTypes DEF NextUnlinked, Links
  <2> QED BY <1>5, <2>2, <2>3, DisposeMembers DEF LooseInv
<1>6. CASE ListsStay
  BY <1>6 DEF ListsStay, LooseInv, listvars
<1> QED BY <1>1, <1>2, <1>3, <1>4, <1>5, <1>6, ListSteps

-----------------------------------------------------------------------------
(* The dumps.                                                              *)

\* A is what dump p has passed of the list: it has asked those of A that were
\* there when it began, and nobody else who is on the list.
Passed(p, A) ==
    /\ Segment(next, prev, threadlist, OnRunning, dumpat[p], A)
    /\ \A t \in OnRunning \ A : t \in began[p] /\ asked[p][t] = 0
    /\ \A t \in A \ {p} : t \in began[p] => asked[p][t] = 1

OnTheWay == {"wait", "woken"}

\* A dump by a crashed thread stops that thread; a dump stands on a thread that
\* was registered, and knows of no other.
PlaceInv(p) ==
    /\ p \in Thread /\ dpc[p] # "none" => pc[p] = "run"
    /\ dpc[p] \in OnTheWay => dumpat[p] \in Thread \ Unborn
    /\ \A t \in Unborn : asked[p][t] = 0 /\ t \notin began[p]
    /\ p \in Thread => asked[p][p] = 0
    /\ dpc[p] \in {"none", "begin"} => \A t \in Thread : asked[p][t] = 0

OnceInv(p) == \A t \in OnRunning : asked[p][t] <= IF t \in began[p] THEN 1 ELSE 0

WalkInv(p) == dpc[p] \in OnTheWay /\ dumpat[p] \in OnRunning =>
                 \E A \in SUBSET OnRunning : Passed(p, A)

DoneInv(p) ==
    dpc[p] = "done" => \A t \in (began[p] \intersect OnRunning) \ {p} : asked[p][t] = 1

CallerInv(p) == PlaceInv(p) /\ OnceInv(p) /\ WalkInv(p) /\ DoneInv(p)

DInv == /\ IInv /\ LooseInv /\ DumpTypeOK
        /\ \A p \in Caller : CallerInv(p)

\* The step of a dump leaves the thread manager as it is, but for the lock.
LEMMA DumpLeaves ==
    ASSUME IInv, DumpTypeOK, NEW p \in Caller,
           BeginDump(p) \/ DumpStep(p) \/ SpuriousWake(p)
    PROVE  /\ UNCHANGED <<listvars, isstarted, barriervars, keyvars, freed, pc, callvars>>
           /\ IInv'
<1>1. UNCHANGED <<listvars, isstarted, barriervars, keyvars, freed, pc, callvars>>
  BY DEF BeginDump, DumpStep, SpuriousWake, FinishDump, Ask, AskSelf, GoWild, vars, listvars,
     barriervars, keyvars, callvars
<1>2. /\ UNCHANGED threadlock \/ (threadlock = NULL /\ threadlock' \in Process)
      /\ crashed' \in BOOLEAN
  <2>1. CASE AskSelf(p)
    <3>1. ToAsk(p) = p /\ Resumes(p)
      BY <2>1 DEF AskSelf
    <3>2. p \in Thread
      <4>1. CASE Own(p, Reached(p))
        BY <4>1 DEF Own, IInv, TypeOK
      <4>2. CASE ~Own(p, Reached(p))
        <5>1. p = Reached(p)
          BY <3>1, <4>2 DEF ToAsk
        <5>2. p \in Thread \/ (p # NULL /\ p \notin Process)
          BY DumperAssumption DEF Caller
        <5>3. p \in Thread \union {NULL}
          <6>1. CASE dpc[p] = "begin"
            BY <5>1, <6>1 DEF Reached, IInv, TypeOK
          <6>2. CASE dpc[p] # "begin"
            <7>1. Onward(p) /\ dpc[p] = "woken"
              BY <2>1, <3>1, <6>2 DEF AskSelf, Resumes
            <7>2. dumpat[p] \in Thread
              BY <7>1 DEF Onward, Readable, DumpTypeOK
            <7> QED BY <5>1, <6>2, <7>2 DEF Reached, IInv, TypeOK
          <6> QED BY <6>1, <6>2
        <5> QED BY <5>2, <5>3 DEF Process
      <4> QED BY <4>1, <4>2
    <3> QED BY <2>1, <3>1, <3>2 DEF AskSelf, Resumes, Process, IInv, TypeOK
  <2>2. CASE FinishDump(p)
    <3>1. crashed' \in BOOLEAN /\ UNCHANGED threadlock
      BY <2>2 DEF FinishDump
    <3> QED BY <3>1
  <2>3. CASE BeginDump(p) \/ Ask(p) \/ GoWild(p) \/ SpuriousWake(p)
    BY <2>3 DEF BeginDump, SpuriousWake, Ask, GoWild, vars, IInv, TypeOK
  <2> QED BY <2>1, <2>2, <2>3 DEF DumpStep
<1>3. TypeOK' /\ LockInv'
  BY <1>1, <1>2, ConstantsAssumption
     DEF IInv, TypeOK, LockInv, listvars, barriervars, keyvars, callvars
<1>4. ClientInv' /\ UniqueInv' /\ ThreadInv'
  BY <1>1 DEF IInv, ClientInv, UniqueInv, ThreadInv, callvars
<1>5. BarrierInv' /\ StartInv'
  BY <1>1 DEF IInv, BarrierInv, StartInv, BeingJoined, MayReap, barriervars, callvars
<1>6. RingInv'
  BY <1>1 DEF IInv, RingInv, OnRunning, OnFinished, Registering, Reaped, listvars, callvars
<1> QED BY <1>1, <1>3, <1>4, <1>5, <1>6 DEF IInv

\* So nobody comes to the lists by it, or leaves them.
LEMMA ListsSame ==
    ASSUME UNCHANGED <<listvars, freed, pc, callvars>>
    PROVE  ListsStay /\ Unborn' = Unborn
<1>1. OnRunning' = OnRunning
  BY DEF OnRunning, Registering, callvars
<1>2. OnFinished' = OnFinished
  BY DEF OnFinished, Reaped, callvars
<1> QED BY <1>1, <1>2 DEF ListsStay, Unborn, Registering, callvars

\* A dump that is woken at most, or only begins, over lists that stay.
LEMMA CallerStays ==
    ASSUME NEW p \in Caller, CallerInv(p), ListsStay, Unborn' = Unborn,
           p \in Thread /\ dpc'[p] # "none" => pc'[p] = "run",
           dumpat'[p] = dumpat[p], asked'[p] = asked[p], began'[p] = began[p],
           \/ dpc'[p] = dpc[p]
           \/ dpc[p] = "wait" /\ dpc'[p] = "woken"
           \/ dpc[p] = "none" /\ dpc'[p] = "begin"
    PROVE  CallerInv(p)'
<1>1. PlaceInv(p)'
  BY DEF CallerInv, PlaceInv, OnTheWay
<1>2. OnceInv(p)' /\ DoneInv(p)'
  BY DEF CallerInv, OnceInv, DoneInv, ListsStay
<1>3. WalkInv(p)'
  BY DEF CallerInv, WalkInv, Passed, Segment, ListsStay, listvars, OnTheWay
<1> QED BY <1>1, <1>2, <1>3 DEF CallerInv

\* The ring changes under a dump that waits.
LEMMA WalkKept ==
    ASSUME DInv, Beneath, NEW p \in Caller,
           UNCHANGED <<dumpat, tracevars>>,
           dpc'[p] = dpc[p] \/ (dpc[p] = "wait" /\ dpc'[p] = "woken")
    PROVE  WalkInv(p)'
<1> SUFFICES ASSUME dpc'[p] \in OnTheWay, dumpat'[p] \in OnRunning'
             PROVE  \E A \in SUBSET OnRunning' : Passed(p, A)'
  BY DEF WalkInv
<1>0. IInv /\ CallerInv(p) /\ [Next]_vars
  BY DEF DInv, Beneath, Next
<1>1. dpc[p] \in OnTheWay /\ dumpat[p] \in OnRunning
  BY <1>0, BornOnce DEF CallerInv, PlaceInv, OnTheWay
<1>2. PICK A \in SUBSET OnRunning : Passed(p, A)
  BY <1>0, <1>1 DEF CallerInv, WalkInv
<1>3. UNCHANGED <<dumpat, asked, began>>
  BY DEF tracevars
<1>4. ASSUME NEW c \in Client, NEW t, t = target[c], Register(c)
      PROVE  Passed(p, A \union {t})'
  <2>1. /\ next' = NextInserted(next, prev, t, threadlist)
        /\ prev' = PrevInserted(next, prev, t, threadlist)
        /\ threadlist' = t
    BY <1>4 DEF Register
  <2>2. t \in Thread \ OnRunning /\ OnRunning' = OnRunning \union {t}
    BY <1>0, <1>4, RegisterMembers
  <2>3. t \in Unborn
    BY <1>4, <2>2 DEF Unborn, Register, Inside, Registering
  <2>4. Segment(next', prev', threadlist', OnRunning', dumpat'[p], A \union {t})
    BY <1>0, <1>2, <1>3, <2>1, <2>2, RingTypes, SegmentInserted DEF Passed
  <2>5. t \notin began[p]
    BY <1>0, <2>3 DEF CallerInv, PlaceInv
  <2>6. OnRunning' \ (A \union {t}) = OnRunning \ A
    BY <1>2, <2>2
  <2>7. \A s \in OnRunning' \ (A \union {t}) : s \in began'[p] /\ asked'[p][s] = 0
    BY <1>2, <1>3, <2>6 DEF Passed
  <2>8. \A s \in (A \union {t}) \ {p} : s \in began'[p] => asked'[p][s] = 1
    BY <1>2, <1>3, <2>5 DEF Passed
  <2> QED BY <2>4, <2>7, <2>8 DEF Passed
<1>5. ASSUME NEW t \in Thread, UnregisterUnlink(t) PROVE Passed(p, A \ {t})'
  <2>1. /\ next' = NextUnlinked(next, prev, t)
        /\ prev' = PrevUnlinked(next, prev, t)
        /\ threadlist' = HeadWithout(next, t, threadlist)
        /\ t \in OnRunning /\ OnRunning' = OnRunning \ {t}
    BY <1>0, <1>5, UnregisterMembers DEF UnregisterUnlink
  <2>2. t # dumpat[p]
    BY <1>3, <2>1
  <2>3. Segment(next', prev', threadlist', OnRunning', dumpat'[p], A \ {t})
    BY <1>0, <1>2, <1>3, <2>1, <2>2, RingTypes, SegmentUnlinked DEF Passed
  <2> QED BY <1>2, <1>3, <2>1, <2>3 DEF Passed
<1>6. ASSUME \/ \E c \in Client : DisposeUnlink(c)
             \/ \E t \in Thread : FinishedInsert(t)
      PROVE  Passed(p, A)'
  <2> DEFINE Same == /\ threadlist' = threadlist /\ OnRunning' = OnRunning
                     /\ \A s \in OnRunning : next'[s] = next[s] /\ prev'[s] = prev[s]
  <2>1. Same
    <3>1. ASSUME NEW t \in Thread, FinishedInsert(t) PROVE Same
      <4>1. /\ next' = NextInserted(next, prev, t, finishedthreadlist)
            /\ prev' = PrevInserted(next, prev, t, finishedthreadlist)
            /\ threadlist' = threadlist
        BY <3>1 DEF FinishedInsert
      <4> QED BY <1>0, <3>1, <4>1, FinishMembers, RingTypes, LinksTouched
    <3>2. ASSUME NEW c \in Client, DisposeUnlink(c) PROVE Same
      <4>1. /\ next' = NextDisposed(next, prev, target[c])
            /\ prev' = PrevDisposed(next, prev, target[c])
            /\ threadlist' = threadlist
        BY <1>0, <3>2, DisposeMembers DEF DisposeUnlink
      <4> QED BY <1>0, <3>2, <4>1, DisposeMembers, DisposeIsUnlink, RingTypes, LinksTouched
    <3> QED BY <1>6, <3>1, <3>2
  <2>2. Segment(next', prev', threadlist', OnRunning', dumpat'[p], A)
    BY <1>2, <1>3, <2>1, SegmentStays DEF Passed
  <2> QED BY <1>2, <1>3, <2>1, <2>2 DEF Passed
<1>7. CASE ListsStay
  BY <1>2, <1>3, <1>7 DEF Passed, ListsStay, listvars
<1>8. \/ \E c \in Client : Register(c)
      \/ \E t \in Thread : UnregisterUnlink(t)
      \/ \E c \in Client : DisposeUnlink(c)
      \/ \E t \in Thread : FinishedInsert(t)
      \/ ListsStay
  BY <1>0, ListSteps
<1>9. \A B : Passed(p, B)' => B \in SUBSET OnRunning'
  BY DEF Passed, Segment
<1> QED BY <1>4, <1>5, <1>6, <1>7, <1>8, <1>9

\* Where a walk is that goes on: at the head, on the list, or astray among those
\* that left it.  Astray it meets nobody who is on the list.
LEMMA Astray ==
    ASSUME IInv, LooseInv, DumpTypeOK, NEW p \in Caller, PlaceInv(p), dpc[p] = "woken",
           dumpat[p] \notin OnRunning
    PROVE  /\ Reached(p) \in OnFinished \union {NULL}
           /\ ~Own(p, Reached(p)) /\ ToAsk(p) = Reached(p)
<1>1. dumpat[p] \in Thread /\ Reached(p) = next[dumpat[p]]
  BY DEF PlaceInv, OnTheWay, Reached
<1>2. Reached(p) \in OnFinished \union {NULL}
  BY <1>1, RingTypes DEF LooseInv, RingOf
<1>3. ~Own(p, Reached(p))
  <2> SUFFICES ASSUME Reached(p) = p, p \in located PROVE FALSE
    BY DEF Own
  <2>1. p \in Thread /\ pc[p] = "run"
    BY DEF IInv, TypeOK, PlaceInv
  <2>2. p \notin OnFinished /\ p # NULL
    BY <2>1, ConstantsAssumption DEF OnFinished, ConstantsAssumption
  <2> QED BY <1>2, <2>2
<1> QED BY <1>2, <1>3 DEF ToAsk

\* Who has finished is not unborn, who is on the list was not freed.
LEMMA Members ==
    ASSUME IInv
    PROVE  /\ OnFinished \intersect Unborn = {}
           /\ \A t \in OnRunning : Readable(t) /\ ~Joined(t)
<1>1. ASSUME NEW t \in OnFinished PROVE t \notin Unborn
  <2>1. t \in isstarted /\ pc[t] \notin {"none", "failed"} /\ t \in Thread
    BY DEF OnFinished, IInv, ThreadInv, AfterRun
  <2>2. ~Registering(t)
    BY <2>1 DEF Registering, IInv, StartInv
  <2> QED BY <2>1, <2>2 DEF Unborn
<1>2. ASSUME NEW t \in OnRunning PROVE Readable(t) /\ ~Joined(t)
  <2>1. t \in Thread /\ pc[t] \notin {"exit", "exited"} /\ t # NULL
    BY ConstantsAssumption DEF OnRunning, ConstantsAssumption
  <2>2. t \notin freed
    BY <2>1 DEF IInv, ThreadInv
  <2>3. ~Joined(t)
    BY <2>1 DEF Joined, IInv, ClientInv
  <2> QED BY <2>1, <2>2, <2>3 DEF Readable
<1> QED BY <1>1, <1>2

\* A walk that begins has passed its first record, or that and its own.
LEMMA FirstPassed ==
    ASSUME IInv, NEW p \in Caller, dpc[p] = "begin", ~Over(p)
    PROVE  \E A \in SUBSET OnRunning :
              /\ Segment(next, prev, threadlist, OnRunning, ToAsk(p), A)
              /\ A \subseteq {ToAsk(p), p} /\ ToAsk(p) \in OnRunning
<1>1. Reached(p) = threadlist /\ threadlist \in OnRunning
  BY RingTypes DEF Reached, Over, RingOf
<1>2. Segment(next, prev, threadlist, OnRunning, threadlist, {threadlist})
  BY <1>1, SegmentBegins
<1>3. CASE ~Own(p, threadlist)
  BY <1>1, <1>2, <1>3 DEF ToAsk
<1>4. CASE Own(p, threadlist)
  <2>1. ToAsk(p) = next[threadlist] /\ p = threadlist
    BY <1>1, <1>4 DEF ToAsk, Own
  <2>2. next[threadlist] # threadlist
    BY <1>1, <1>4, Members DEF Over
  <2>3. /\ next[threadlist] \in OnRunning \ {threadlist}
        /\ Segment(next, prev, threadlist, OnRunning, next[threadlist],
                   {threadlist} \union {next[threadlist]})
    BY <1>2, <2>2, RingTypes, SegmentGrows
  <2> QED BY <1>1, <2>1, <2>3
<1> QED BY <1>3, <1>4

\* A walk that goes on passes one more record, or one more and its own.
LEMMA MorePassed ==
    ASSUME IInv, NEW p \in Caller, dpc[p] = "woken", dumpat[p] \in OnRunning, ~Over(p),
           NEW A \in SUBSET OnRunning,
           Segment(next, prev, threadlist, OnRunning, dumpat[p], A)
    PROVE  \E B \in SUBSET OnRunning :
              /\ Segment(next, prev, threadlist, OnRunning, ToAsk(p), B)
              /\ A \subseteq B /\ B \subseteq A \union {ToAsk(p), p}
              /\ ToAsk(p) \in OnRunning \ A
<1>1. Reached(p) = next[dumpat[p]] /\ next[dumpat[p]] # threadlist
  BY DEF Reached, Over
<1> DEFINE d == next[dumpat[p]]
           B == A \union {d}
<1>2. d \in OnRunning \ A /\ Segment(next, prev, threadlist, OnRunning, d, B)
  BY <1>1, RingTypes, SegmentGrows
<1>3. CASE ~Own(p, d)
  BY <1>1, <1>2, <1>3 DEF ToAsk
<1>4. CASE Own(p, d)
  <2>1. ToAsk(p) = next[d] /\ p = d
    BY <1>1, <1>4 DEF ToAsk, Own
  <2>2. next[d] # threadlist
    BY <1>1, <1>2, <1>4, Members DEF Over
  <2>3. /\ next[d] \in OnRunning \ B
        /\ Segment(next, prev, threadlist, OnRunning, next[d], B \union {next[d]})
    <3> HIDE DEF d, B
    <3> QED BY <1>2, <2>2, RingTypes, SegmentGrows
  <2> QED BY <1>2, <2>1, <2>3
<1> QED BY <1>3, <1>4

\* A walk that is over has passed everybody but its own thread.
LEMMA AllPassed ==
    ASSUME IInv, LooseInv, DumpTypeOK, NEW p \in Caller, CallerInv(p),
           dpc[p] \in {"begin", "woken"}, Over(p)
    PROVE  /\ dpc[p] = "begin" => OnRunning \subseteq {p}
           /\ dpc[p] = "woken" => \A t \in (began[p] \intersect OnRunning) \ {p} : asked[p][t] = 1
<1>1. ASSUME dpc[p] = "begin" PROVE OnRunning \subseteq {p}
  <2>1. Reached(p) = threadlist
    BY <1>1 DEF Reached
  <2>2. CASE threadlist = NULL
    BY <2>2, RingTypes DEF RingOf
  <2>3. CASE Own(p, threadlist) /\ next[threadlist] = threadlist /\ threadlist # NULL
    <3>1. threadlist \in OnRunning
      BY <2>3, RingTypes DEF RingOf
    <3>2. Segment(next, prev, threadlist, OnRunning, threadlist, {threadlist})
      BY <3>1, SegmentBegins
    <3>3. {threadlist} = OnRunning
      BY <2>3, <3>2, RingTypes, SegmentIsWhole
    <3> QED BY <2>3, <3>3 DEF Own
  <2> QED BY <1>1, <2>1, <2>2, <2>3 DEF Over, Readable
<1>2. ASSUME dpc[p] = "woken", dumpat[p] \notin OnRunning
      PROVE  OnRunning = {}
  <2>1. Reached(p) \in OnFinished \union {NULL} /\ ~Own(p, Reached(p))
    BY <1>2, Astray DEF CallerInv
  <2>2. threadlist = NULL
    BY <1>2, <2>1, RingTypes DEF Over, RingOf
  <2> QED BY <2>2, RingTypes DEF RingOf
<1>3. ASSUME dpc[p] = "woken", dumpat[p] \in OnRunning
      PROVE  \A t \in (began[p] \intersect OnRunning) \ {p} : asked[p][t] = 1
  <2>1. PICK A \in SUBSET OnRunning : Passed(p, A)
    BY <1>3 DEF CallerInv, WalkInv, OnTheWay
  <2>2. /\ Reached(p) = next[dumpat[p]] /\ threadlist # NULL
    BY <1>3, RingTypes DEF Reached, RingOf
  <2>3. CASE next[dumpat[p]] = threadlist
    <3>1. A = OnRunning
      BY <2>1, <2>3, RingTypes, SegmentIsWhole DEF Passed
    <3> QED BY <2>1, <3>1 DEF Passed
  <2>4. CASE next[dumpat[p]] # threadlist
    <3> DEFINE B == A \union {p}
    <3>1. next[dumpat[p]] = p /\ next[p] = threadlist
      BY <1>3, <2>2, <2>4 DEF Over, Own
    <3>2. Segment(next, prev, threadlist, OnRunning, p, B)
      BY <2>1, <2>4, <3>1, RingTypes, SegmentGrows DEF Passed
    <3>3. B = OnRunning
      BY <3>1, <3>2, RingTypes, SegmentIsWhole
    <3> QED BY <2>1, <3>3 DEF Passed
  <2> QED BY <2>3, <2>4
<1> QED BY <1>1, <1>2, <1>3
-----------------------------------------------------------------------------
(* The steps of a dump.                                                    *)

\* Asking marks one more thread, and that one only.
LEMMA AskEffect ==
    ASSUME DumpTypeOK, NEW p \in Caller, NEW t \in Thread, t = ToAsk(p), Ask(p)
    PROVE  /\ dumpat'[p] = t /\ dpc'[p] = "wait" /\ t # p
           /\ asked'[p][t] = IF asked[p][t] = 0 THEN 1 ELSE 2
           /\ \A s \in Thread \ {t} : asked'[p][s] = asked[p][s]
           /\ UNCHANGED vars
           /\ dpc[p] = "begin" => began'[p] = Walk(threadlist)
           /\ dpc[p] # "begin" => began'[p] = began[p]
<1>1. /\ dumpat' = [dumpat EXCEPT ![p] = t] /\ dpc' = [dpc EXCEPT ![p] = "wait"] /\ t # p
      /\ asked' = [asked EXCEPT ![p][t] = IF @ = 0 THEN 1 ELSE 2]
      /\ Starts(p) /\ UNCHANGED vars
  BY DEF Ask
<1>2. dumpat'[p] = t /\ dpc'[p] = "wait" /\ t # p
  BY <1>1 DEF DumpTypeOK
<1>3. /\ asked'[p][t] = IF asked[p][t] = 0 THEN 1 ELSE 2
      /\ \A s \in Thread \ {t} : asked'[p][s] = asked[p][s]
  BY <1>1 DEF DumpTypeOK
<1>4. /\ dpc[p] = "begin" => began'[p] = Walk(threadlist)
      /\ dpc[p] # "begin" => began'[p] = began[p]
  BY <1>1 DEF Starts, DumpTypeOK
<1> QED BY <1>1, <1>2, <1>3, <1>4

\* The walk asks the next thread, and has passed it.
LEMMA AskKeeps ==
    ASSUME DInv, NEW p \in Caller, Ask(p) PROVE CallerInv(p)'
<1>0. /\ IInv /\ LooseInv /\ DumpTypeOK /\ CallerInv(p)
      /\ dpc[p] \in {"begin", "woken"} /\ ~Over(p) /\ UNCHANGED vars
      /\ Readable(ToAsk(p)) /\ OnRunning \intersect Unborn = {}
  BY DEF DInv, Ask, Resumes, OnRunning, Unborn
<1>1. /\ ListsStay /\ Unborn' = Unborn /\ pc' = pc
      /\ next' = next /\ prev' = prev /\ threadlist' = threadlist /\ OnRunning' = OnRunning
  BY <1>0, ListsSame DEF vars, listvars, ListsStay
<1>2. PICK t : t = ToAsk(p)
  OBVIOUS
<1>3. CASE dpc[p] = "begin"
  <2>1. PICK A \in SUBSET OnRunning :
           /\ Segment(next, prev, threadlist, OnRunning, t, A)
           /\ A \subseteq {t, p} /\ t \in OnRunning
    BY <1>0, <1>2, <1>3, FirstPassed
  <2>2. t \in Thread
    BY <2>1 DEF OnRunning
  <2>3. began'[p] = OnRunning
    BY <1>0, <1>2, <1>3, <2>2, AskEffect, WalkExact DEF IInv, RingsExact
  <2>4. asked'[p][t] = 1 /\ \A s \in Thread \ {t} : asked'[p][s] = 0
    BY <1>0, <1>2, <1>3, <2>2, AskEffect DEF CallerInv, PlaceInv
  <2>5. PlaceInv(p)'
    <3>1. dumpat'[p] = t /\ dpc'[p] = "wait" /\ t # p
      BY <1>0, <1>2, <2>2, AskEffect
    <3>2. t \in Thread \ Unborn
      BY <1>0, <2>1, <2>2
    <3>3. \A s \in Unborn : s \in Thread /\ s # t /\ s \notin OnRunning
      BY <1>0, <2>1 DEF Unborn
    <3> QED BY <1>0, <1>1, <1>3, <2>3, <2>4, <3>1, <3>2, <3>3 DEF CallerInv, PlaceInv
  <2>6. OnceInv(p)'
    BY <1>1, <2>2, <2>3, <2>4 DEF OnceInv, OnRunning
  <2>7. Passed(p, A)'
    <3>1. Segment(next', prev', threadlist', OnRunning', dumpat'[p], A)
      BY <1>0, <1>1, <1>2, <2>1, <2>2, AskEffect
    <3>2. \A s \in OnRunning \ A : s \in Thread /\ s # t
      BY <2>1 DEF OnRunning, Segment
    <3> QED BY <1>1, <2>1, <2>3, <2>4, <3>1, <3>2 DEF Passed
  <2>8. DoneInv(p)'
    BY <1>0, <1>2, <2>2, AskEffect DEF DoneInv
  <2> QED BY <1>1, <2>5, <2>6, <2>7, <2>8 DEF CallerInv, WalkInv
<1>4. CASE dpc[p] = "woken"
  <2>1. t \in Thread \ Unborn
    <3>1. CASE dumpat[p] \in OnRunning
      <4>1. PICK A \in SUBSET OnRunning : Passed(p, A)
        BY <1>0, <1>4, <3>1 DEF CallerInv, WalkInv, OnTheWay
      <4>2. t \in OnRunning
        BY <1>0, <1>2, <1>4, <3>1, <4>1, MorePassed DEF Passed
      <4> QED BY <1>0, <4>2 DEF OnRunning
    <3>2. CASE dumpat[p] \notin OnRunning
      BY <1>0, <1>2, <1>4, <3>2, Astray, Members DEF CallerInv, Readable, OnFinished
    <3> QED BY <3>1, <3>2
  <2>2. /\ dumpat'[p] = t /\ dpc'[p] = "wait" /\ t # p /\ began'[p] = began[p]
        /\ asked'[p][t] = IF asked[p][t] = 0 THEN 1 ELSE 2
        /\ \A s \in Thread \ {t} : asked'[p][s] = asked[p][s]
    BY <1>0, <1>2, <1>4, <2>1, AskEffect
  <2>3. PlaceInv(p)'
    <3>1. \A s \in Unborn : s \in Thread /\ s # t
      BY <2>1 DEF Unborn
    <3> QED BY <1>0, <1>1, <1>4, <2>1, <2>2, <3>1 DEF CallerInv, PlaceInv
  <2>4. DoneInv(p)'
    BY <2>2 DEF DoneInv
  <2>5. CASE dumpat[p] \notin OnRunning
    <3>1. t \notin OnRunning
      BY <1>0, <1>2, <1>4, <2>5, Astray, RingTypes, ConstantsAssumption
         DEF CallerInv, OnRunning, ConstantsAssumption
    <3>2. OnceInv(p)'
      BY <1>0, <1>1, <2>2, <3>1 DEF CallerInv, OnceInv, OnRunning
    <3> QED BY <1>1, <2>2, <2>3, <2>4, <3>1, <3>2 DEF CallerInv, WalkInv
  <2>6. CASE dumpat[p] \in OnRunning
    <3>1. PICK A \in SUBSET OnRunning : Passed(p, A)
      BY <1>0, <1>4, <2>6 DEF CallerInv, WalkInv, OnTheWay
    <3>2. PICK B \in SUBSET OnRunning :
             /\ Segment(next, prev, threadlist, OnRunning, t, B)
             /\ A \subseteq B /\ B \subseteq A \union {t, p}
             /\ t \in OnRunning \ A
      BY <1>0, <1>2, <1>4, <2>6, <3>1, MorePassed DEF Passed
    <3>3. asked'[p][t] = 1 /\ t \in began[p] /\ t \in B
      BY <2>2, <3>1, <3>2 DEF Passed, Segment
    <3>4. OnceInv(p)'
      BY <1>0, <1>1, <2>2, <3>3 DEF CallerInv, OnceInv, OnRunning
    <3>5. Passed(p, B)'
      <4>1. Segment(next', prev', threadlist', OnRunning', dumpat'[p], B)
        BY <1>1, <2>2, <3>2
      <4>2. \A s \in OnRunning \ B : s \in began'[p] /\ asked'[p][s] = 0
        <5> TAKE s \in OnRunning \ B
        <5>1. s \in OnRunning \ A /\ s \in Thread /\ s # t
          BY <3>2, <3>3 DEF OnRunning
        <5> QED BY <2>2, <3>1, <5>1 DEF Passed
      <4>3. \A s \in B \ {p} : s \in began'[p] => asked'[p][s] = 1
        <5> TAKE s \in B \ {p}
        <5>1. CASE s = t
          BY <3>3, <5>1
        <5>2. CASE s # t
          <6>1. s \in A \ {p} /\ s \in Thread
            BY <3>2, <5>2 DEF OnRunning
          <6> QED BY <2>2, <3>1, <5>2, <6>1 DEF Passed
        <5> QED BY <5>1, <5>2
      <4> QED BY <1>1, <4>1, <4>2, <4>3 DEF Passed
    <3> QED BY <1>1, <2>3, <2>4, <3>2, <3>4, <3>5 DEF CallerInv, WalkInv
  <2> QED BY <2>5, <2>6
<1> QED BY <1>0, <1>3, <1>4
\* A walk that is over has asked all it had to.
LEMMA FinishKeeps ==
    ASSUME DInv, NEW p \in Caller, FinishDump(p) PROVE CallerInv(p)'
<1>0. /\ IInv /\ LooseInv /\ DumpTypeOK /\ CallerInv(p)
      /\ dpc[p] \in {"begin", "woken"} /\ Over(p)
      /\ UNCHANGED <<listvars, freed, pc, callvars>>
  BY DEF DInv, FinishDump, Resumes
<1>1. ListsStay /\ Unborn' = Unborn /\ pc' = pc /\ OnRunning' = OnRunning
  BY <1>0, ListsSame DEF ListsStay
<1>2. dpc'[p] = "done" /\ asked' = asked
  BY DEF FinishDump, DInv, DumpTypeOK
<1>3. began'[p] = IF dpc[p] = "begin" THEN OnRunning ELSE began[p]
  BY <1>0, WalkExact DEF FinishDump, Starts, DumpTypeOK, IInv, RingsExact
<1>4. PlaceInv(p)'
  <2>1. \A t \in Unborn : t \notin OnRunning
    BY DEF Unborn, OnRunning
  <2> QED BY <1>0, <1>1, <1>2, <1>3, <2>1 DEF CallerInv, PlaceInv, OnTheWay
<1>5. OnceInv(p)' /\ DoneInv(p)'
  <2>1. CASE dpc[p] = "begin"
    <3>1. OnRunning \subseteq {p} /\ \A t \in OnRunning : asked[p][t] = 0
      BY <1>0, <2>1, AllPassed DEF CallerInv, PlaceInv, OnRunning
    <3> QED BY <1>1, <1>2, <1>3, <2>1, <3>1 DEF OnceInv, DoneInv
  <2>2. CASE dpc[p] = "woken"
    <3>1. \A t \in (began[p] \intersect OnRunning) \ {p} : asked[p][t] = 1
      BY <1>0, <2>2, AllPassed
    <3> QED BY <1>0, <1>1, <1>2, <1>3, <2>2, <3>1 DEF CallerInv, OnceInv, DoneInv
  <2> QED BY <1>0, <2>1, <2>2
<1>6. WalkInv(p)'
  BY <1>2 DEF WalkInv, OnTheWay
<1> QED BY <1>4, <1>5, <1>6 DEF CallerInv

\* So has one that waits for itself, or is lost: of them nothing more is asked.
LEMMA SelfKeeps ==
    ASSUME DInv, NEW p \in Caller, AskSelf(p) \/ GoWild(p) PROVE CallerInv(p)'
<1>0. /\ IInv /\ DumpTypeOK /\ CallerInv(p)
      /\ dpc[p] \in {"begin", "woken"}
      /\ UNCHANGED <<listvars, freed, pc, callvars>>
  BY DEF DInv, AskSelf, GoWild, Resumes, vars
<1>1. ListsStay /\ Unborn' = Unborn /\ pc' = pc /\ OnRunning' = OnRunning
  BY <1>0, ListsSame DEF ListsStay
<1>2. dpc'[p] \in {"self", "wild"} /\ asked' = asked
  BY DEF AskSelf, GoWild, tracevars, DInv, DumpTypeOK
<1>3. began'[p] = began[p] \/ (dpc[p] = "begin" /\ began'[p] = OnRunning)
  BY <1>0, WalkExact DEF AskSelf, GoWild, tracevars, Starts, DumpTypeOK, IInv, RingsExact
<1>4. PlaceInv(p)'
  <2>1. \A t \in Unborn : t \notin OnRunning
    BY DEF Unborn, OnRunning
  <2> QED BY <1>0, <1>1, <1>2, <1>3, <2>1 DEF CallerInv, PlaceInv, OnTheWay
<1>5. OnceInv(p)'
  <2>1. CASE dpc[p] = "begin"
    <3>1. \A t \in OnRunning : asked[p][t] = 0
      BY <1>0, <2>1 DEF CallerInv, PlaceInv, OnRunning
    <3> QED BY <1>1, <1>2, <3>1 DEF OnceInv
  <2>2. CASE dpc[p] # "begin"
    BY <1>0, <1>1, <1>2, <1>3, <2>2 DEF CallerInv, OnceInv
  <2> QED BY <2>1, <2>2
<1>6. WalkInv(p)' /\ DoneInv(p)'
  BY <1>2 DEF WalkInv, DoneInv, OnTheWay
<1> QED BY <1>4, <1>5, <1>6 DEF CallerInv

\* What a dump records of its walk.
LEMMA DumpTypes ==
    ASSUME IInv, DumpTypeOK, NEW p \in Caller,
           BeginDump(p) \/ DumpStep(p) \/ SpuriousWake(p)
    PROVE  /\ DumpTypeOK'
           /\ \A q \in Caller \ {p} : /\ dpc'[q] = dpc[q] /\ dumpat'[q] = dumpat[q]
                                      /\ asked'[q] = asked[q] /\ began'[q] = began[q]
<1>1. CASE BeginDump(p) \/ SpuriousWake(p) \/ GoWild(p)
  BY <1>1 DEF BeginDump, SpuriousWake, GoWild, DumpTypeOK, quitvars, tracevars
<1>2. Starts(p) => /\ began' \in [Caller -> SUBSET Thread]
                   /\ \A q \in Caller \ {p} : began'[q] = began[q]
  <2>1. Walk(threadlist) \subseteq Thread
    BY DEF Walk, Visited, IInv, TypeOK
  <2> QED BY <2>1 DEF Starts, DumpTypeOK
<1>3. CASE FinishDump(p) \/ AskSelf(p)
  BY <1>2, <1>3 DEF FinishDump, AskSelf, DumpTypeOK, quitvars
<1>4. CASE Ask(p)
  <2>1. PICK t : t = ToAsk(p)
    OBVIOUS
  <2>2. t \in Thread
    <3>1. Reached(p) \in Thread \union {NULL}
      BY <1>4 DEF Ask, Resumes, Onward, Readable, Reached, IInv, TypeOK, DumpTypeOK
    <3>2. CASE Own(p, Reached(p))
      <4>1. p \in Thread /\ Reached(p) = p
        BY <3>2 DEF Own, IInv, TypeOK
      <4> QED BY <1>4, <2>1, <3>2, <4>1 DEF Ask, Readable, ToAsk, IInv, TypeOK
    <3>3. CASE ~Own(p, Reached(p))
      BY <1>4, <2>1, <3>1, <3>3 DEF Ask, Readable, ToAsk
    <3> QED BY <3>2, <3>3
  <2>3. /\ dpc' = [dpc EXCEPT ![p] = "wait"] /\ dumpat' = [dumpat EXCEPT ![p] = t]
        /\ pending' \in {pending, pending \union {t}} /\ handling' = handling
        /\ asked' = [asked EXCEPT ![p][t] = IF @ = 0 THEN 1 ELSE 2]
        /\ Starts(p)
    BY <1>4, <2>1 DEF Ask
  <2>4. asked' \in [Caller -> [Thread -> 0..2]] /\ \A q \in Caller \ {p} : asked'[q] = asked[q]
    BY <2>2, <2>3 DEF DumpTypeOK
  <2>5. dumpat' \in [Caller -> Thread \union {NULL}] /\ pending' \in SUBSET Thread
    BY <2>2, <2>3 DEF DumpTypeOK
  <2> QED BY <1>2, <2>3, <2>4, <2>5 DEF DumpTypeOK
<1> QED BY <1>1, <1>3, <1>4 DEF DumpStep

\* The invariant of a dump is kept by the dump and by every other one.
LEMMA DumpKeeps ==
    ASSUME DInv, NEW p \in Caller, BeginDump(p) \/ DumpStep(p) \/ SpuriousWake(p)
    PROVE  DInv'
<1>0. IInv /\ LooseInv /\ DumpTypeOK /\ \A q \in Caller : CallerInv(q)
  BY DEF DInv
<1>1. /\ IInv' /\ ListsStay /\ Unborn' = Unborn /\ pc' = pc
      /\ UNCHANGED <<listvars, freed, callvars>>
  BY <1>0, DumpLeaves, ListsSame
<1>2. DumpTypeOK'
  BY <1>0, DumpTypes
<1>3. LooseInv'
  BY <1>0, <1>1 DEF LooseInv, ListsStay, listvars
<1>4. ASSUME NEW q \in Caller \ {p} PROVE CallerInv(q)'
  <2>1. /\ dpc'[q] = dpc[q] /\ dumpat'[q] = dumpat[q]
        /\ asked'[q] = asked[q] /\ began'[q] = began[q]
    BY <1>0, DumpTypes
  <2>2. q \in Thread /\ dpc'[q] # "none" => pc'[q] = "run"
    BY <1>0, <1>1, <2>1 DEF CallerInv, PlaceInv
  <2> QED BY <1>0, <1>1, <2>1, <2>2, CallerStays
<1>5. CallerInv(p)'
  <2>1. CASE BeginDump(p)
    <3>1. /\ dpc[p] = "none" /\ dpc'[p] = "begin" /\ (p \in Thread => pc[p] = "run")
          /\ dumpat'[p] = dumpat[p] /\ asked'[p] = asked[p] /\ began'[p] = began[p]
      BY <1>0, <2>1 DEF BeginDump, DumpTypeOK, tracevars
    <3> QED BY <1>0, <1>1, <3>1, CallerStays
  <2>2. CASE SpuriousWake(p)
    <3>1. /\ dpc[p] = "wait" /\ dpc'[p] = "woken"
          /\ dumpat'[p] = dumpat[p] /\ asked'[p] = asked[p] /\ began'[p] = began[p]
      BY <1>0, <2>2 DEF SpuriousWake, DumpTypeOK, tracevars
    <3>2. p \in Thread /\ dpc'[p] # "none" => pc'[p] = "run"
      BY <1>0, <1>1, <3>1 DEF CallerInv, PlaceInv
    <3> QED BY <1>0, <1>1, <3>1, <3>2, CallerStays
  <2> QED BY <2>1, <2>2, AskKeeps, FinishKeeps, SelfKeeps DEF DumpStep
<1> QED BY <1>1, <1>2, <1>3, <1>4, <1>5 DEF DInv
\* A signal on threadblock wakes a dump that waits, and does no more.
LEMMA SignalTypes ==
    ASSUME DumpTypeOK, Signal
    PROVE  /\ dpc' \in [Caller -> {"none", "begin", "wait", "woken", "self", "wild", "done"}]
           /\ \A p \in Caller : dpc'[p] = dpc[p] \/ (dpc[p] = "wait" /\ dpc'[p] = "woken")
<1>1. CASE UNCHANGED dpc
  BY <1>1 DEF DumpTypeOK
<1>2. CASE \E p \in Waiting : dpc' = [dpc EXCEPT ![p] = "woken"]
  BY <1>2 DEF Waiting, DumpTypeOK
<1> QED BY <1>1, <1>2 DEF Signal

\* A signal that is delivered, or answered, changes nothing of the thread manager.
LEMMA HandlerKeeps ==
    ASSUME DInv, NEW t \in Thread, Deliver(t) \/ Answer(t) PROVE DInv'
<1>0. /\ IInv /\ LooseInv /\ DumpTypeOK /\ \A q \in Caller : CallerInv(q)
      /\ UNCHANGED vars /\ UNCHANGED <<dumpat, asked, began>>
  BY DEF DInv, Deliver, Answer, tracevars
<1>1. IInv'
  BY <1>0, InvStep
<1>2. ListsStay /\ Unborn' = Unborn /\ pc' = pc /\ UNCHANGED listvars
  BY <1>0, ListsSame DEF vars
<1>3. /\ dpc' \in [Caller -> {"none", "begin", "wait", "woken", "self", "wild", "done"}]
      /\ \A p \in Caller : dpc'[p] = dpc[p] \/ (dpc[p] = "wait" /\ dpc'[p] = "woken")
  BY <1>0, SignalTypes DEF Deliver, Answer, DumpTypeOK
<1>4. DumpTypeOK'
  BY <1>0, <1>3 DEF Deliver, Answer, DumpTypeOK
<1>5. LooseInv'
  BY <1>0, <1>2 DEF LooseInv, ListsStay, listvars
<1>6. ASSUME NEW q \in Caller PROVE CallerInv(q)'
  <2>1. q \in Thread /\ dpc'[q] # "none" => pc'[q] = "run"
    BY <1>0, <1>2, <1>3 DEF CallerInv, PlaceInv
  <2> QED BY <1>0, <1>2, <1>3, <2>1, CallerStays
<1> QED BY <1>1, <1>4, <1>5, <1>6 DEF DInv

\* The thread manager goes on under the dumps, but for the threads that dump.
LEMMA BeneathKeeps ==
    ASSUME DInv, ~crashed,
           \/ \E p \in Process : TakeLock(p)
           \/ \E t \in Thread : ManagedStep(t)
           \/ \E c \in Client : Application(c)
    PROVE  DInv'
<1>0. /\ IInv /\ LooseInv /\ DumpTypeOK /\ \A q \in Caller : CallerInv(q)
      /\ UNCHANGED <<dumpat, pending, handling, asked, began>>
  BY DEF DInv, TakeLock, ManagedStep, Application, quitvars, tracevars
<1>1. Beneath
  BY DEF Beneath, TakeLock, ManagedStep, Unregistered, ThreadStep, Application
<1>2. /\ dpc' \in [Caller -> {"none", "begin", "wait", "woken", "self", "wild", "done"}]
      /\ \A p \in Caller : dpc'[p] = dpc[p] \/ (dpc[p] = "wait" /\ dpc'[p] = "woken")
  BY <1>0, SignalTypes DEF TakeLock, ManagedStep, Unregistered, Application, DumpTypeOK
<1>3. IInv'
  BY <1>0, <1>1, InvStep DEF Beneath, Next
<1>4. LooseInv' /\ DumpTypeOK'
  BY <1>0, <1>1, <1>2, LooseStep DEF DumpTypeOK
<1>5. ASSUME NEW p \in Thread, dpc[p] # "none" PROVE pc'[p] = pc[p]
  <2>1. CASE \E q \in Process : TakeLock(q)
    BY <2>1 DEF TakeLock, Lock
  <2>2. ASSUME NEW t \in Thread, ManagedStep(t) PROVE pc'[p] = pc[p]
    <3>1. t # p /\ ThreadStep(t) /\ p \in Process
      BY <1>5, <2>2 DEF ManagedStep, Undisturbed, Unregistered, ThreadStep, Process
    <3> QED BY <1>0, <3>1, ThreadLeaves
  <2>3. ASSUME NEW c \in Client, Application(c) PROVE pc'[p] = pc[p]
    <3>1. pc[p] = "run"
      BY <1>0, <1>5 DEF CallerInv, PlaceInv, Caller
    <3> QED BY <1>0, <2>3, <3>1, ClientLeaves DEF Application
  <2> QED BY <2>1, <2>2, <2>3
<1>6. ASSUME NEW p \in Caller PROVE CallerInv(p)'
  <2>0. CallerInv(p) /\ (dpc'[p] = dpc[p] \/ (dpc[p] = "wait" /\ dpc'[p] = "woken"))
    BY <1>0, <1>2
  <2>1. PlaceInv(p)'
    <3>1. Unborn' \subseteq Unborn
      BY <1>0, <1>1, BornOnce
    <3> QED BY <1>0, <1>5, <2>0, <3>1 DEF CallerInv, PlaceInv, OnTheWay
  <2>2. OnceInv(p)'
    <3>1. ASSUME NEW t \in OnRunning'
          PROVE  asked[p][t] <= IF t \in began[p] THEN 1 ELSE 0
      <4>1. CASE t \in OnRunning
        BY <2>0, <4>1 DEF CallerInv, OnceInv
      <4>2. CASE t \in Unborn
        BY <2>0, <4>2 DEF CallerInv, PlaceInv
      <4> QED BY <1>0, <1>1, <4>1, <4>2, BornOnce
    <3> QED BY <1>0, <3>1 DEF OnceInv
  <2>3. WalkInv(p)'
    BY <1>0, <1>1, <2>0, WalkKept DEF tracevars
  <2>4. DoneInv(p)'
    <3>1. \A t \in began[p] \intersect OnRunning' : t \in OnRunning
      BY <1>0, <1>1, <2>0, BornOnce DEF CallerInv, PlaceInv
    <3> QED BY <1>0, <2>0, <3>1 DEF CallerInv, DoneInv
  <2> QED BY <2>1, <2>2, <2>3, <2>4 DEF CallerInv
<1> QED BY <1>3, <1>4, <1>6 DEF DInv

\* Before the first call there is no list, no dump and nothing asked.
LEMMA DumpInitInv == DumpInit => DInv
<1> SUFFICES ASSUME Init, NoDump PROVE DInv
  BY DEF DumpInit
<1>1. IInv
  BY InitInv
<1>2. LooseInv
  BY DEF Init, LooseInv
<1>3. DumpTypeOK
  BY DEF NoDump, DumpTypeOK, Caller
<1>4. ASSUME NEW p \in Caller PROVE CallerInv(p)
  <2>1. /\ dpc[p] = "none" /\ began[p] = {}
        /\ \A t \in Thread : asked[p][t] = 0
    BY DEF NoDump
  <2>2. OnRunning \subseteq Thread /\ Unborn \subseteq Thread
    BY DEF OnRunning, Unborn
  <2> QED BY <2>1, <2>2 DEF CallerInv, PlaceInv, OnceInv, WalkInv, DoneInv, OnTheWay
<1> QED BY <1>1, <1>2, <1>3, <1>4 DEF DInv

\* Every step of the program keeps the invariant.
LEMMA DumpInvStep == DInv /\ [DumpNext]_dvars => DInv'
<1> SUFFICES ASSUME DInv, [DumpNext]_dvars PROVE DInv'
  OBVIOUS
<1>1. CASE UNCHANGED dvars
  <2>1. IInv'
    BY <1>1, InvStep DEF DInv, dvars
  <2>2. /\ UNCHANGED <<listvars, freed, pc, callvars>>
        /\ UNCHANGED <<dpc, dumpat, pending, handling, asked, began>>
    BY <1>1 DEF dvars, vars, quitvars, tracevars
  <2>3. ListsStay /\ Unborn' = Unborn
    BY <2>2, ListsSame
  <2>4. LooseInv' /\ DumpTypeOK'
    BY <2>2, <2>3 DEF DInv, LooseInv, ListsStay, listvars, DumpTypeOK
  <2>5. ASSUME NEW q \in Caller PROVE CallerInv(q)'
    <3>1. CallerInv(q) /\ (q \in Thread /\ dpc'[q] # "none" => pc'[q] = "run")
      BY <2>2 DEF DInv, CallerInv, PlaceInv
    <3> QED BY <2>2, <2>3, <3>1, CallerStays
  <2> QED BY <2>1, <2>4, <2>5 DEF DInv
<1>2. CASE DumpNext
  BY <1>2, BeneathKeeps, HandlerKeeps, DumpKeeps DEF DumpNext
<1> QED BY <1>1, <1>2
-----------------------------------------------------------------------------
(* What follows.                                                           *)

\* So it holds throughout.
LEMMA DumpInvariance == DumpSpec => []DInv
  BY DumpInitInv, DumpInvStep, PTL DEF DumpSpec

\* Registering and unregistering while a dump waits does not make it ask a
\* thread that stays on the list twice, nor leave one out, nor ask one that came
\* after it began, for any number of threads and of dumps.
THEOREM AskedOnce == DumpSpec => []DumpAsksEachOnce
<1>1. DInv => DumpAsksEachOnce
  BY DEF DInv, CallerInv, OnceInv, DoneInv, DumpAsksEachOnce
<1> QED BY <1>1, DumpInvariance, PTL

\* The lists stay two rings of exactly the threads that belong on them, though
\* dumps come between, and though threads run handlers in critical sections.
THEOREM ListsExactUnderDumps == DumpSpec => []RingsExact
<1>1. DInv => RingsExact
  BY WalkExact DEF DInv, IInv, RingsExact
<1> QED BY <1>1, DumpInvariance, PTL

\* Only the walk itself goes wild, and on the list it comes to a member.
LEMMA WildStep ==
    ASSUME DInv, [DumpNext]_dvars, NEW p \in Caller, dpc[p] # "wild", dpc'[p] = "wild"
    PROVE  OffList(p)
<1>0. /\ IInv /\ LooseInv /\ DumpTypeOK /\ CallerInv(p)
  BY DEF DInv
<1>1. GoWild(p)
  <2>1. DumpNext
    BY DEF dvars
  <2>2. ~ \E q \in Process : TakeLock(q)
    BY DEF TakeLock
  <2>3. ~ \E c \in Client : Application(c)
    BY DEF Application
  <2>4. ~ \E t \in Thread : ManagedStep(t) \/ Deliver(t) \/ Answer(t)
    BY <1>0, SignalTypes DEF ManagedStep, Unregistered, Deliver, Answer
  <2>5. PICK q \in Caller : BeginDump(q) \/ DumpStep(q) \/ SpuriousWake(q)
    BY <2>1, <2>2, <2>3, <2>4 DEF DumpNext
  <2>6. q = p
    BY <1>0, <2>5, DumpTypes
  <2>7. CASE BeginDump(p) \/ SpuriousWake(p) \/ FinishDump(p) \/ AskSelf(p)
    BY <1>0, <2>7 DEF BeginDump, SpuriousWake, FinishDump, AskSelf, DumpTypeOK
  <2>8. CASE Ask(p)
    BY <1>0, <2>8 DEF Ask, DumpTypeOK
  <2> QED BY <2>5, <2>6, <2>7, <2>8 DEF DumpStep
<1>2. SUFFICES ASSUME ~OffList(p) PROVE FALSE
  OBVIOUS
<1>3. dpc[p] \in {"begin", "woken"}
  BY <1>1 DEF GoWild, Resumes
<1>4. dpc[p] = "woken" => dumpat[p] \in OnRunning
  BY <1>2 DEF OffList
<1>5. Onward(p)
  BY <1>0, <1>4, Members DEF Onward
<1>6. ~Over(p) /\ (~Readable(ToAsk(p)) \/ Joined(ToAsk(p)))
  BY <1>1, <1>5 DEF GoWild
<1>7. ToAsk(p) \in OnRunning
  <2>1. CASE dpc[p] = "begin"
    BY <1>0, <1>6, <2>1, FirstPassed
  <2>2. CASE dpc[p] = "woken"
    <3>1. PICK A \in SUBSET OnRunning : Passed(p, A)
      BY <1>0, <1>4, <2>2 DEF CallerInv, WalkInv, OnTheWay
    <3> QED BY <1>0, <1>4, <1>6, <2>2, <3>1, MorePassed DEF Passed
  <2> QED BY <1>3, <2>1, <2>2
<1> QED BY <1>0, <1>6, <1>7, Members

\* As long as the record it stands on stays on the list, a dump comes to no NULL
\* link, no freed record and no joined thread.
THEOREM WildOffList == DumpSpec => WildOnlyOffList
<1>1. DInv /\ [DumpNext]_dvars =>
         [\A p \in Caller : dpc[p] # "wild" /\ dpc'[p] = "wild" => OffList(p)]_dvars
  BY WildStep
<1> QED BY <1>1, DumpInvariance, PTL DEF DumpSpec, WildOnlyOffList

\* Until the handler has answered the signal is pending or handled; its answer,
\* or that of a thread that unregisters, finds no other dump to wake.
LEMMA AnswerStep ==
    ASSUME DInv, NoLostAnswer, [DumpNext]_dvars PROVE NoLostAnswer'
<1> SUFFICES ASSUME NEW p \in Caller, dpc'[p] = "wait",
                    \A q \in Caller \ {p} : dpc'[q] = "none", ~OffList(p)'
             PROVE  dumpat'[p] \in pending' \union handling'
  BY DEF NoLostAnswer
<1>0. IInv /\ LooseInv /\ DumpTypeOK /\ CallerInv(p)
  BY DEF DInv
<1>1. dumpat'[p] \in OnRunning'
  BY DEF OffList
<1>2. ASSUME dpc[p] = "wait", \A q \in Caller \ {p} : dpc[q] = "none",
             dumpat[p] \in OnRunning
      PROVE  dumpat[p] \in pending \union handling
  BY <1>2 DEF NoLostAnswer, OffList
<1>3. CASE UNCHANGED dvars
  <2>1. UNCHANGED <<dpc, dumpat, pending, handling>> /\ OnRunning' = OnRunning
    BY <1>3, ListsSame DEF dvars, vars, quitvars, ListsStay
  <2> QED BY <1>1, <1>2, <2>1
<1>4. CASE /\ ~crashed
           /\ \/ \E q \in Process : TakeLock(q)
              \/ \E t \in Thread : ManagedStep(t)
              \/ \E c \in Client : Application(c)
  <2>1. Beneath /\ UNCHANGED <<dumpat, pending, handling>>
    BY <1>4 DEF Beneath, TakeLock, ManagedStep, Unregistered, ThreadStep, Application, quitvars
  <2>2. \A q \in Caller : dpc'[q] = dpc[q] \/ (dpc[q] = "wait" /\ dpc'[q] = "woken")
    BY <1>0, <1>4, SignalTypes DEF TakeLock, ManagedStep, Unregistered, Application
  <2>3. dpc[p] = "wait" /\ \A q \in Caller \ {p} : dpc[q] = "none"
    BY <2>2
  <2>4. dumpat[p] \in OnRunning
    BY <1>0, <1>1, <2>1, <2>3, BornOnce DEF CallerInv, PlaceInv, OnTheWay
  <2> QED BY <1>2, <2>1, <2>3, <2>4
<1>5. ASSUME NEW t \in Thread, Deliver(t) \/ Answer(t)
      PROVE  dumpat'[p] \in pending' \union handling'
  <2>1. UNCHANGED vars /\ dumpat' = dumpat
    BY <1>5 DEF Deliver, Answer
  <2>2. OnRunning' = OnRunning
    BY <2>1, ListsSame DEF vars, ListsStay
  <2>3. \A q \in Caller : dpc'[q] = dpc[q] \/ (dpc[q] = "wait" /\ dpc'[q] = "woken")
    BY <1>0, <1>5, SignalTypes DEF Deliver, Answer
  <2>4. dpc[p] = "wait" /\ \A q \in Caller \ {p} : dpc[q] = "none"
    BY <2>3
  <2>5. dumpat[p] \in pending \union handling
    BY <1>1, <1>2, <2>1, <2>2, <2>4
  <2>6. CASE Deliver(t)
    BY <2>1, <2>5, <2>6 DEF Deliver
  <2>7. ~Answer(t)
    <3> SUFFICES ASSUME Signal PROVE FALSE
      BY DEF Answer
    <3>1. p \in Waiting /\ \A q \in Waiting : q = p
      BY <2>4 DEF Waiting
    <3>2. dpc' = [dpc EXCEPT ![p] = "woken"]
      BY <3>1 DEF Signal
    <3> QED BY <1>0, <3>2 DEF DumpTypeOK
  <2> QED BY <1>5, <2>6, <2>7
<1>6. ASSUME NEW q \in Caller, BeginDump(q) \/ DumpStep(q) \/ SpuriousWake(q)
      PROVE  dumpat'[p] \in pending' \union handling'
  <2>1. dpc'[q] # "none"
    BY <1>0, <1>6 DEF BeginDump, DumpStep, SpuriousWake, FinishDump, Ask, AskSelf, GoWild,
       DumpTypeOK
  <2>2. q = p
    BY <2>1
  <2>3. Ask(p)
    BY <1>0, <1>6, <2>2 DEF BeginDump, DumpStep, SpuriousWake, FinishDump, AskSelf, GoWild,
       DumpTypeOK
  <2>4. UNCHANGED vars /\ dumpat'[p] = ToAsk(p)
    BY <1>0, <2>3 DEF Ask, DumpTypeOK
  <2>5. ToAsk(p) \in OnRunning
    BY <1>1, <2>4, ListsSame DEF vars, ListsStay
  <2>6. pc[ToAsk(p)] # "exited"
    BY <2>5 DEF OnRunning
  <2> QED BY <2>3, <2>4, <2>6 DEF Ask
<1> QED BY <1>3, <1>4, <1>5, <1>6 DEF DumpNext

\* A single dump that waits on a thread of the list has an answer to come: the
\* signal was sent before the wait began, with the lock that its handler needs,
\* and every signal on threadblock finds this dump waiting and ends its wait.
THEOREM AnswersCome == DumpSpec => []NoLostAnswer
<1>1. DumpInit => NoLostAnswer
  BY DEF DumpInit, NoDump, NoLostAnswer
<1>2. DInv /\ NoLostAnswer /\ [DumpNext]_dvars => NoLostAnswer'
  BY AnswerStep
<1> QED BY <1>1, <1>2, DumpInvariance, PTL DEF DumpSpec
=============================================================================
