--------------------------- MODULE JanitorProofs ---------------------------
(***************************************************************************)
(* Proofs about the thread manager, for any number of clients, threads and *)
(* classes.  What the list manipulations of janitor.c preserve comes       *)
(* first.  Each conjunct of the inductive invariant IInv of Janitor.tla    *)
(* has a lemma that every step preserves it; the theorems follow.  At the  *)
(* end every step of the thread manager is shown to be a step of           *)
(* ThreadLifecycle or to leave its variables alone.                        *)
(***************************************************************************)
EXTENDS Janitor, TLAPS

-----------------------------------------------------------------------------
(* The rings.                                                              *)

\* The fields of a set of records.
Links(Node) == [Node -> Node \union {NULL}]

\* A walk along next visits exactly the records of the ring.
THEOREM WalkVisitsRing ==
    ASSUME NEW Node, NULL \notin Node, NEW n \in Links(Node), NEW p \in Links(Node),
           NEW h \in Node \union {NULL}, NEW M \in SUBSET Node, RingOf(n, p, h, M)
    PROVE  Visited(n, h) = M
<1>1. DOMAIN n = Node
  BY DEF Links
<1>2. CASE h = NULL
  BY <1>2 DEF Visited, RingOf
<1>3. CASE h # NULL
  <2>1. h \in M /\ \A t \in M : n[t] \in M
    BY <1>3 DEF RingOf
  <2>2. Visited(n, h) \subseteq M
    BY <1>1, <1>3, <2>1 DEF Visited
  <2>3. ASSUME NEW t \in M, NEW S \in SUBSET Node, h \in S,
               \A s \in S : n[s] \in S \union {NULL}
        PROVE  t \in S
    <3>1. h \in S \intersect M
      BY <2>1, <2>3
    <3>2. \A s \in S \intersect M : n[s] \in S \intersect M
      BY <2>1, <2>3
    <3>3. S \intersect M = M
      BY <3>1, <3>2 DEF RingOf
    <3>4. QED
      BY <3>3
  <2>4. M \subseteq Visited(n, h)
    BY <1>1, <1>3, <2>3 DEF Visited
  <2>5. QED
    BY <2>2, <2>4
<1>4. QED
  BY <1>2, <1>3

\* Inserting a record that is on no list yields the ring with it as its head.
THEOREM InsertMakesRing ==
    ASSUME NEW Node, NULL \notin Node, NEW n \in Links(Node), NEW p \in Links(Node),
           NEW h \in Node \union {NULL}, NEW M \in SUBSET Node, RingOf(n, p, h, M),
           NEW t \in Node \ M
    PROVE  RingOf(NextInserted(n, p, t, h), PrevInserted(n, p, t, h), t, M \union {t})
<1> DEFINE n2 == NextInserted(n, p, t, h)
           p2 == PrevInserted(n, p, t, h)
<1>0. t # NULL /\ t \in M \union {t}
  OBVIOUS
<1>1. CASE h = NULL
  <2>1. M = {}
    BY <1>1 DEF RingOf
  <2>2. n2[t] = t /\ p2[t] = t
    BY <1>1 DEF NextInserted, PrevInserted, Links
  <2>3. QED
    BY <1>0, <2>1, <2>2 DEF RingOf
<1>2. CASE h # NULL
  <2>1. h \in M /\ p[h] \in M /\ n[p[h]] = h
    BY <1>2 DEF RingOf
  <2>2. n2 = [n EXCEPT ![t] = h, ![p[h]] = t] /\ p2 = [p EXCEPT ![t] = p[h], ![h] = t]
    BY <1>2 DEF NextInserted, PrevInserted
  <2>3. /\ n2[t] = h /\ n2[p[h]] = t
        /\ \A s \in M : s # p[h] => n2[s] = n[s]
    BY <2>1, <2>2 DEF Links
  <2>4. /\ p2[t] = p[h] /\ p2[h] = t
        /\ \A s \in M : s # h => p2[s] = p[s]
    BY <2>1, <2>2 DEF Links
  <2>5. \A s \in M : n[s] \in M /\ p[s] \in M /\ p[n[s]] = s /\ n[p[s]] = s
    BY DEF RingOf
  <2>6. ASSUME NEW s \in M \union {t}
        PROVE  /\ n2[s] \in M \union {t} /\ p2[s] \in M \union {t}
               /\ p2[n2[s]] = s /\ n2[p2[s]] = s
    BY <2>1, <2>3, <2>4, <2>5
  <2>7. ASSUME NEW S \in SUBSET (M \union {t}), t \in S, \A s \in S : n2[s] \in S
        PROVE  S = M \union {t}
    <3>1. h \in S \ {t}
      BY <2>1, <2>3, <2>7
    <3>2. \A s \in S \ {t} : n[s] \in S \ {t}
      BY <2>1, <2>3, <2>5, <2>7, <3>1
    <3>3. S \ {t} = M
      BY <3>1, <3>2 DEF RingOf
    <3>4. QED
      BY <2>7, <3>3
  <2>8. QED
    BY <1>0, <2>6, <2>7 DEF RingOf
<1>3. QED
  BY <1>1, <1>2

\* Taking a record of the list out of it leaves the ring of the others.
THEOREM UnlinkMakesRing ==
    ASSUME NEW Node, NULL \notin Node, NEW n \in Links(Node), NEW p \in Links(Node),
           NEW h \in Node \union {NULL}, NEW M \in SUBSET Node, RingOf(n, p, h, M),
           NEW t \in M
    PROVE  RingOf(NextUnlinked(n, p, t), PrevUnlinked(n, p, t), HeadWithout(n, t, h),
                  M \ {t})
<1> DEFINE n2 == NextUnlinked(n, p, t)
           p2 == PrevUnlinked(n, p, t)
           h2 == HeadWithout(n, t, h)
<1>1. \A s \in M : n[s] \in M /\ p[s] \in M /\ p[n[s]] = s /\ n[p[s]] = s
  BY DEF RingOf
<1>2. h \in M /\ h # NULL
  BY DEF RingOf
<1>3. ASSUME NEW s \in M, s # t
      PROVE  /\ n2[s] = IF s = p[t] THEN n[t] ELSE n[s]
             /\ p2[s] = IF s = n[t] THEN p[t] ELSE p[s]
  BY <1>1, <1>3 DEF NextUnlinked, PrevUnlinked, Links
<1>4. CASE n[t] = t
  <2>1. {t} = M
    <3>1. CASE h = t
      <4>1. {t} \in SUBSET M /\ h \in {t} /\ \A s \in {t} : n[s] \in {t}
        BY <1>4, <3>1
      <4>2. QED
        BY <4>1 DEF RingOf
    <3>2. CASE h # t
      <4>1. h \in M \ {t} /\ \A s \in M \ {t} : n[s] \in M \ {t}
        BY <1>1, <1>2, <1>4, <3>2
      <4>2. M \ {t} = M
        BY <4>1 DEF RingOf
      <4>3. QED
        BY <4>2
    <3>3. QED
      BY <3>1, <3>2
  <2>2. h2 = NULL
    BY <1>2, <1>4, <2>1 DEF HeadWithout
  <2>3. M \ {t} = {}
    BY <2>1
  <2>4. QED
    BY <2>2, <2>3 DEF RingOf
<1>5. CASE n[t] # t
  <2>1. h2 \in M \ {t} /\ h2 # NULL
    BY <1>1, <1>2, <1>5 DEF HeadWithout
  <2>2. p[t] # t /\ p[t] \in M /\ n[t] \in M
    BY <1>1, <1>5
  <2>3. ASSUME NEW s \in M \ {t}
        PROVE  /\ n2[s] \in M \ {t} /\ p2[s] \in M \ {t}
               /\ p2[n2[s]] = s /\ n2[p2[s]] = s
    BY <1>1, <1>3, <1>5, <2>2
  <2>4. ASSUME NEW S \in SUBSET (M \ {t}), h2 \in S, \A s \in S : n2[s] \in S
        PROVE  S = M \ {t}
    <3>1. ASSUME NEW R \in SUBSET M, h \in R, \A s \in R : n[s] \in R
          PROVE  R = M
      BY <3>1 DEF RingOf
    <3>2. \A s \in S : s # p[t] => n[s] \in S
      BY <1>3, <2>4
    <3>3. CASE p[t] \in S
      <4>1. n[t] \in S
        BY <1>3, <2>2, <2>4, <3>3
      <4>2. S \union {t} \in SUBSET M /\ h \in S \union {t}
        BY <2>4 DEF HeadWithout
      <4>3. \A s \in S \union {t} : n[s] \in S \union {t}
        BY <1>1, <3>2, <4>1
      <4>4. S \union {t} = M
        BY <3>1, <4>2, <4>3
      <4>5. QED
        BY <4>4
    <3>4. CASE p[t] \notin S
      <4>1. \A s \in S : n[s] \in S
        BY <3>2, <3>4
      <4>2. CASE h = t
        <5>1. n[t] \in S
          BY <1>5, <2>4, <4>2 DEF HeadWithout
        <5>2. S \union {t} \in SUBSET M /\ h \in S \union {t}
          BY <2>4, <4>2
        <5>3. \A s \in S \union {t} : n[s] \in S \union {t}
          BY <4>1, <5>1
        <5>4. S \union {t} = M
          BY <3>1, <5>2, <5>3
        <5>5. QED
          BY <5>4
      <4>3. CASE h # t
        <5>1. S = M
          BY <2>4, <3>1, <4>1, <4>3 DEF HeadWithout
        <5>2. QED
          BY <5>1
      <4>4. QED
        BY <4>2, <4>3
    <3>5. QED
      BY <3>3, <3>4
  <2>5. QED
    BY <2>1, <2>3, <2>4 DEF RingOf
<1>6. QED
  BY <1>4, <1>5

\* On a record of the list, the guarded relinking of dispose comes to the same
\* as the relinking of unregister.
THEOREM DisposeIsUnlink ==
    ASSUME NEW Node, NULL \notin Node, NEW n \in Links(Node), NEW p \in Links(Node),
           NEW h \in Node \union {NULL}, NEW M \in SUBSET Node, RingOf(n, p, h, M),
           NEW t \in M
    PROVE  /\ NextDisposed(n, p, t) = NextUnlinked(n, p, t)
           /\ PrevDisposed(n, p, t) = PrevUnlinked(n, p, t)
<1>1. n[t] \in M /\ p[t] \in M /\ p[n[t]] = t /\ n[p[t]] = t
  BY DEF RingOf
<1>2. PrevRelinked(n, p, t) = [p EXCEPT ![n[t]] = p[t]]
  BY <1>1 DEF PrevRelinked
<1>3. PrevRelinked(n, p, t)[t] = p[t]
  BY <1>1, <1>2 DEF Links
<1>4. QED
  BY <1>1, <1>2, <1>3 DEF NextDisposed, PrevDisposed, NextUnlinked, PrevUnlinked

\* A ring is left alone by assignments to the fields of other records.
THEOREM OtherRingUntouched ==
    ASSUME NEW Node, NEW n, NEW p, NEW n2, NEW p2, NEW h, NEW M \in SUBSET Node,
           RingOf(n, p, h, M), \A s \in M : n2[s] = n[s] /\ p2[s] = p[s]
    PROVE  RingOf(n2, p2, h, M)
  BY DEF RingOf

\* The manipulations of a list keep the fields of the right type, and of the
\* records they touch all are on the list, or are the record at hand.
THEOREM LinksTouched ==
    ASSUME NEW Node, NULL \notin Node, NEW n \in Links(Node), NEW p \in Links(Node),
           NEW h \in Node \union {NULL}, NEW M \in SUBSET Node, RingOf(n, p, h, M),
           NEW t \in Node
    PROVE  /\ NextInserted(n, p, t, h) \in Links(Node)
           /\ PrevInserted(n, p, t, h) \in Links(Node)
           /\ \A s \in Node \ (M \union {t}) :
                 /\ NextInserted(n, p, t, h)[s] = n[s]
                 /\ PrevInserted(n, p, t, h)[s] = p[s]
           /\ t \in M =>
                 /\ NextUnlinked(n, p, t) \in Links(Node)
                 /\ PrevUnlinked(n, p, t) \in Links(Node)
                 /\ HeadWithout(n, t, h) \in Node \union {NULL}
                 /\ \A s \in Node \ M : /\ NextUnlinked(n, p, t)[s] = n[s]
                                        /\ PrevUnlinked(n, p, t)[s] = p[s]
<1>1. h # NULL => h \in M /\ p[h] \in M
  BY DEF RingOf
<1>2. /\ NextInserted(n, p, t, h) \in Links(Node)
      /\ PrevInserted(n, p, t, h) \in Links(Node)
  BY <1>1 DEF NextInserted, PrevInserted, Links
<1>3. \A s \in Node \ (M \union {t}) : /\ NextInserted(n, p, t, h)[s] = n[s]
                                       /\ PrevInserted(n, p, t, h)[s] = p[s]
  BY <1>1 DEF NextInserted, PrevInserted, Links
<1>4. ASSUME t \in M
      PROVE  /\ NextUnlinked(n, p, t) \in Links(Node)
             /\ PrevUnlinked(n, p, t) \in Links(Node)
             /\ HeadWithout(n, t, h) \in Node \union {NULL}
             /\ \A s \in Node \ M : /\ NextUnlinked(n, p, t)[s] = n[s]
                                    /\ PrevUnlinked(n, p, t)[s] = p[s]
  <2>1. n[t] \in M /\ p[t] \in M
    BY <1>4 DEF RingOf
  <2>2. QED
    BY <1>4, <2>1 DEF NextUnlinked, PrevUnlinked, HeadWithout, Links
<1>5. QED
  BY <1>2, <1>3, <1>4

-----------------------------------------------------------------------------
(* The thread manager.                                                     *)

\* Under the ring invariant the walks that dispose, tryjoinall and the dump
\* make along next meet exactly the members of the two lists.
LEMMA WalkExact ==
    ASSUME TypeOK, RingInv
    PROVE  Walk(threadlist) = OnRunning /\ Walk(finishedthreadlist) = OnFinished
<1>1. /\ next \in Links(Thread) /\ prev \in Links(Thread) /\ NULL \notin Thread
      /\ threadlist \in Thread \union {NULL} /\ finishedthreadlist \in Thread \union {NULL}
  BY ConstantsAssumption DEF TypeOK, Links
<1>2. OnRunning \in SUBSET Thread /\ OnFinished \in SUBSET Thread
  BY DEF OnRunning, OnFinished
<1>3. QED
  BY <1>1, <1>2, WalkVisitsRing DEF RingInv, Walk

\* The initial state satisfies the inductive invariant.
LEMMA InitInv == Init => IInv
<1> SUFFICES ASSUME Init PROVE IInv
  OBVIOUS
<1>1. /\ \A t \in Thread : pc[t] = "none"
      /\ \A c \in Client : pc[c] = "idle"
  BY ConstantsAssumption DEF Init, Process
<1>2. TypeOK
  BY <1>1, ConstantsAssumption DEF Init, TypeOK, Process, ThreadLabel, ClientLabel, Call
<1>3. OnRunning = {} /\ OnFinished = {}
  BY <1>1 DEF OnRunning, OnFinished
<1>4. RingInv
  BY <1>3 DEF Init, RingInv, RingOf
<1>5. LockInv /\ ClientInv /\ UniqueInv /\ ThreadInv
  BY <1>1 DEF Init, LockInv, ClientInv, UniqueInv, ThreadInv, InBarrier, AfterRun, JoinCall
<1>6. BarrierInv /\ StartInv
  BY <1>1 DEF Init, BarrierInv, StartInv, InBarrier, BeforeRun
<1>7. QED
  BY <1>2, <1>4, <1>5, <1>6 DEF IInv

-----------------------------------------------------------------------------
\* When a call returns, its client is idle and every other process is left alone.
LEMMA ReturnEffect ==
    ASSUME TypeOK, NEW c \in Client, Return(c)
    PROVE  /\ pc'[c] = "idle" /\ call'[c] = "none"
           /\ \A p \in Process \ {c} : pc'[p] = pc[p]
           /\ \A d \in Client \ {c} : /\ call'[d] = call[d] /\ target'[d] = target[d]
                                      /\ wanted'[d] = wanted[d]
  BY DEF TypeOK, Process, Return, Goto

\* A client that goes on to a label leaves every other process alone.
LEMMA GotoEffect ==
    ASSUME TypeOK, NEW p \in Process, NEW label, Goto(p, label)
    PROVE  pc'[p] = label /\ \A q \in Process \ {p} : pc'[q] = pc[q]
  BY DEF TypeOK, Goto

\* A client that begins a call leaves every other client's call alone.
LEMMA BeginEffect ==
    ASSUME TypeOK, NEW c \in Client, NEW name, NEW t, NEW k, Begin(c, name, t, k)
    PROVE  pc[c] = "idle" /\ \A d \in Client \ {c} : target'[d] = target[d]
  BY DEF TypeOK, Begin

\* A step of a client that neither registers, disposes nor frees leaves the
\* threads that belong on the two lists as they are.
LEMMA ClientMoves ==
    ASSUME NEW c \in Client, freed' = freed, ConstantsAssumption,
           pc[c] \notin {"register", "free"}, pc'[c] \notin {"register", "free"},
           \A p \in Process \ {c} : pc'[p] = pc[p],
           \A d \in Client \ {c} : target'[d] = target[d]
    PROVE  OnRunning' = OnRunning /\ OnFinished' = OnFinished
<1>1. \A t \in Thread : pc'[t] = pc[t]
  BY DEF ConstantsAssumption, Process
<1>2. \A d \in Client : /\ pc'[d] = "register" <=> pc[d] = "register"
                        /\ pc'[d] = "free" <=> pc[d] = "free"
                        /\ pc[d] \in {"register", "free"} => target'[d] = target[d]
  BY DEF Process
<1>3. \A t \in Thread : (Registering(t)' <=> Registering(t)) /\ (Reaped(t)' <=> Reaped(t))
  BY <1>2 DEF Registering, Reaped
<1>4. QED
  BY <1>1, <1>3 DEF OnRunning, OnFinished

\* Starting a thread and beginning to join one are such steps.
LEMMA CallsKeepMembers ==
    ASSUME TypeOK, NEW c \in Client,
           \/ \E t \in Thread : CallStart(c, t) \/ CallJoin(c, t)
           \/ \E k \in Class \union {NULL}, name \in {"tryjoinall", "joinall"} :
                 CallJoinAll(c, name, k)
    PROVE  OnRunning' = OnRunning /\ OnFinished' = OnFinished
<1>1. PICK name, t, k, label : /\ Begin(c, name, t, k) /\ Goto(c, label)
                              /\ label \in {"start", "join", "scan"} /\ freed' = freed
  BY DEF CallStart, CallJoin, CallJoinAll
<1>2. pc[c] = "idle" /\ \A d \in Client \ {c} : target'[d] = target[d]
  BY <1>1, BeginEffect
<1>3. pc'[c] = label /\ \A p \in Process \ {c} : pc'[p] = pc[p]
  BY <1>1, GotoEffect DEF Process
<1>4. QED
  BY <1>1, <1>2, <1>3, ConstantsAssumption, ClientMoves

\* So are the test of isstarted and the look at what is left to join.
LEMMA ChecksKeepMembers ==
    ASSUME TypeOK, NEW c \in Client, TestAndSet(c) \/ CheckLeft(c)
    PROVE  OnRunning' = OnRunning /\ OnFinished' = OnFinished
<1>1. /\ pc[c] \in {"start", "check"} /\ freed' = freed
      /\ \/ Return(c)
         \/ target' = target /\ (Goto(c, "arrive") \/ Goto(c, "scan"))
  BY DEF TestAndSet, CheckLeft, Inside, callvars
<1>2. /\ pc'[c] \in {"idle", "arrive", "scan"}
      /\ \A p \in Process \ {c} : pc'[p] = pc[p]
      /\ \A d \in Client \ {c} : target'[d] = target[d]
  BY <1>1, ReturnEffect, GotoEffect DEF Process
<1>3. QED
  BY <1>1, <1>2, ConstantsAssumption, ClientMoves

\* What free leaves as it was.
LEMMA FreeEffect ==
    ASSUME TypeOK, NEW c \in Client, Free(c)
    PROVE  /\ pc[c] = "free" /\ pc'[c] \in {"idle", "scan"}
           /\ freed' = freed \union {target[c]}
           /\ \A p \in Process \ {c} : pc'[p] = pc[p]
           /\ call'[c] \in {"none", call[c]} /\ wanted'[c] \in {NULL, wanted[c]}
           /\ target'[c] = NULL
           /\ \A d \in Client \ {c} : /\ call'[d] = call[d] /\ target'[d] = target[d]
                                      /\ wanted'[d] = wanted[d]
<1>1. pc[c] = "free" /\ freed' = freed \union {target[c]}
  BY DEF Free
<1>2. CASE call[c] = "join"
  <2>1. Return(c)
    BY <1>2 DEF Free
  <2>2. target'[c] = NULL /\ wanted'[c] = NULL
    BY <2>1 DEF Return, TypeOK
  <2>3. QED
    BY <1>1, <2>1, <2>2, ReturnEffect
<1>3. CASE call[c] # "join"
  <2>1. /\ Goto(c, "scan") /\ target' = [target EXCEPT ![c] = NULL]
        /\ UNCHANGED <<call, wanted>>
    BY <1>3 DEF Free
  <2>2. target'[c] = NULL /\ \A d \in Client \ {c} : target'[d] = target[d]
    BY <2>1 DEF TypeOK
  <2>3. QED
    BY <1>1, <2>1, <2>2, GotoEffect DEF Process
<1>4. QED
  BY <1>2, <1>3

\* Nor does free change which threads belong on the lists: its thread is off.
LEMMA FreeKeepsMembers ==
    ASSUME TypeOK, NEW c \in Client, Free(c)
    PROVE  OnRunning' = OnRunning /\ OnFinished' = OnFinished
<1>1. \A t \in Thread : pc'[t] = pc[t]
  BY FreeEffect, ConstantsAssumption DEF ConstantsAssumption, Process
<1>2. \A t \in Thread : Registering(t)' <=> Registering(t)
  BY FreeEffect DEF Registering, Process
<1>3. \A t \in Thread : Reaped(t)' <=> Reaped(t)
  BY FreeEffect DEF Reaped, Process
<1>4. QED
  BY <1>1, <1>2, <1>3 DEF OnRunning, OnFinished

-----------------------------------------------------------------------------
\* What the four list manipulations do to the threads that belong on a list.

\* A thread that registers was on neither list.
LEMMA RegisterMembers ==
    ASSUME IInv, NEW c \in Client, Register(c)
    PROVE  /\ target[c] \in Thread /\ target[c] \notin OnRunning
           /\ target[c] \notin OnFinished
           /\ OnRunning' = OnRunning \union {target[c]} /\ OnFinished' = OnFinished
<1> USE ConstantsAssumption DEF TypeOK, ThreadLabel, ClientLabel, Call, JoinCall, Process,
        ThreadInv, ClientInv, UniqueInv, StartInv, AfterRun, InBarrier, BeforeRun
<1>0. TypeOK /\ ClientInv /\ UniqueInv /\ ThreadInv /\ StartInv
  BY DEF IInv
<1>1. /\ target[c] \in Thread /\ target[c] \notin OnRunning
      /\ target[c] \notin OnFinished
  BY <1>0 DEF Register, Inside, OnRunning, OnFinished, Registering
<1>2. /\ pc[c] = "register" /\ pc'[c] \in {"start", "idle"} /\ freed' = freed
      /\ \A p \in Process \ {c} : pc'[p] = pc[p]
      /\ \A d \in Client \ {c} : target'[d] = target[d]
  BY <1>0, ReturnEffect, GotoEffect DEF Register, Inside, callvars
<1>3. \A t \in Thread : /\ Registering(t)' <=> Registering(t) /\ t # target[c]
                        /\ Reaped(t)' <=> Reaped(t)
                        /\ pc'[t] = pc[t]
  BY <1>0, <1>2 DEF Registering, Reaped
<1>4. OnRunning' = OnRunning \union {target[c]}
  BY <1>0, <1>1, <1>2, <1>3 DEF OnRunning
<1>5. OnFinished' = OnFinished
  BY <1>3 DEF OnFinished
<1>6. QED
  BY <1>1, <1>4, <1>5

\* A thread that unregisters is on the running list, which is not empty.
LEMMA UnregisterMembers ==
    ASSUME IInv, NEW t \in Thread, UnregisterUnlink(t)
    PROVE  /\ t \in OnRunning /\ t \notin OnFinished /\ threadlist # NULL
           /\ OnRunning' = OnRunning \ {t} /\ OnFinished' = OnFinished
           /\ pc' = [pc EXCEPT ![t] = "destroy"]
<1> USE ConstantsAssumption DEF TypeOK, ThreadLabel, ClientLabel, Process,
        ThreadInv, ClientInv, StartInv, AfterRun
<1>0. TypeOK /\ ClientInv /\ ThreadInv /\ StartInv
  BY DEF IInv
<1>1. t \in OnRunning /\ t \notin OnFinished
  BY <1>0 DEF UnregisterUnlink, Inside, OnRunning, OnFinished, Registering
<1>2. threadlist # NULL
  BY <1>1 DEF IInv, RingInv, RingOf
<1>3. pc' = [pc EXCEPT ![t] = "destroy"] /\ UNCHANGED <<freed, callvars>>
  BY <1>2 DEF UnregisterUnlink, Goto
<1>4. OnRunning' = OnRunning \ {t}
  BY <1>0, <1>1, <1>3 DEF OnRunning, Registering, callvars
<1>5. OnFinished' = OnFinished
  BY <1>0, <1>1, <1>3 DEF UnregisterUnlink, Inside, OnFinished, Reaped, callvars
<1>6. QED
  BY <1>1, <1>2, <1>3, <1>4, <1>5

\* A thread that finishes is joinable, was on neither list and is nobody's.
LEMMA FinishMembers ==
    ASSUME IInv, NEW t \in Thread, FinishedInsert(t)
    PROVE  /\ t \notin OnFinished /\ t \notin OnRunning /\ JoinableThread(t)
           /\ OnFinished' = OnFinished \union {t} /\ OnRunning' = OnRunning
<1> USE ConstantsAssumption DEF TypeOK, ThreadLabel, ClientLabel, Process,
        ThreadInv, ClientInv
<1>0. TypeOK /\ ClientInv /\ ThreadInv
  BY DEF IInv
<1>1. /\ pc[t] = "finish" /\ JoinableThread(t)
      /\ pc' = [pc EXCEPT ![t] = "exit"] /\ UNCHANGED <<freed, callvars>>
  BY <1>0 DEF FinishedInsert, Inside, Goto
<1>2. t \notin OnFinished /\ t \notin OnRunning
  BY <1>1 DEF OnRunning, OnFinished
<1>3. \A s \in Thread : Reaped(s)' <=> Reaped(s)
  BY <1>0, <1>1 DEF Reaped, callvars
<1>4. ~Reaped(t)
  BY <1>0, <1>1 DEF Reaped
<1>5. OnFinished' = OnFinished \union {t}
  BY <1>0, <1>1, <1>3, <1>4 DEF OnFinished, JoinableThread
<1>6. OnRunning' = OnRunning
  BY <1>0, <1>1 DEF OnRunning, Registering, callvars
<1>7. QED
  BY <1>1, <1>2, <1>5, <1>6

\* A thread that is disposed of is on the finished list, and no longer after.
LEMMA DisposeMembers ==
    ASSUME IInv, NEW c \in Client, DisposeUnlink(c)
    PROVE  /\ target[c] \in Thread /\ target[c] \in OnFinished
           /\ target[c] \notin OnRunning /\ finishedthreadlist # NULL
           /\ OnFinished' = OnFinished \ {target[c]} /\ OnRunning' = OnRunning
<1> USE ConstantsAssumption DEF TypeOK, ThreadLabel, ClientLabel, JoinCall, Process,
        ThreadInv, ClientInv, UniqueInv
<1>0. TypeOK /\ ClientInv /\ UniqueInv /\ ThreadInv
  BY DEF IInv
<1>1. /\ target[c] \in Thread /\ target[c] \in OnFinished
      /\ target[c] \notin OnRunning
  BY <1>0 DEF DisposeUnlink, Inside, OnRunning, OnFinished, Registering, Reaped
<1>2. finishedthreadlist # NULL
  BY <1>1 DEF IInv, RingInv, RingOf
<1>3. /\ pc[c] = "dispose" /\ pc' = [pc EXCEPT ![c] = "free"]
      /\ UNCHANGED <<freed, target>>
  BY DEF DisposeUnlink, Inside, Goto, callvars
<1>4. \A t \in Thread : /\ Registering(t)' <=> Registering(t)
                        /\ Reaped(t)' <=> Reaped(t) \/ t = target[c]
                        /\ pc'[t] = pc[t]
  BY <1>0, <1>3 DEF Registering, Reaped
<1>5. OnFinished' = OnFinished \ {target[c]}
  BY <1>1, <1>4 DEF OnFinished
<1>6. OnRunning' = OnRunning
  BY <1>4 DEF OnRunning
<1>7. QED
  BY <1>1, <1>2, <1>5, <1>6

\* What register leaves as it was.
LEMMA RegisterEffect ==
    ASSUME TypeOK, NEW c \in Client, Register(c)
    PROVE  /\ pc[c] = "register" /\ pc'[c] \in {"start", "idle"}
           /\ freed' = freed /\ isstarted' = isstarted
           /\ \A p \in Process \ {c} : pc'[p] = pc[p]
           /\ call'[c] \in {"none", call[c]} /\ wanted'[c] \in {NULL, wanted[c]}
           /\ pc'[c] = "start" => call'[c] = call[c] /\ target'[c] = target[c]
           /\ pc'[c] = "idle" => call'[c] = "none"
           /\ \A d \in Client \ {c} : /\ call'[d] = call[d] /\ target'[d] = target[d]
                                      /\ wanted'[d] = wanted[d]
<1>1. pc[c] = "register" /\ freed' = freed /\ isstarted' = isstarted
  BY DEF Register, Inside
<1>2. CASE ClassOf[target[c]] \in Autorun
  <2>1. Goto(c, "start") /\ call' = call /\ target' = target /\ wanted' = wanted
    BY <1>2 DEF Register, callvars
  <2>2. QED
    BY <1>1, <2>1, GotoEffect DEF Process
<1>3. CASE ClassOf[target[c]] \notin Autorun
  <2>1. Return(c)
    BY <1>3 DEF Register
  <2>2. wanted'[c] = NULL
    BY <2>1 DEF Return, TypeOK
  <2>3. QED
    BY <1>1, <2>1, <2>2, ReturnEffect
<1>4. QED
  BY <1>2, <1>3

-----------------------------------------------------------------------------
\* Every variable keeps its type; a client that registers works on a record.
LEMMA TypeStep == IInv /\ [Next]_vars => TypeOK'
<1> SUFFICES ASSUME IInv, [Next]_vars PROVE TypeOK'
  OBVIOUS
<1>0. TypeOK /\ ConstantsAssumption /\ ClientInv
  BY ConstantsAssumption DEF IInv
<1> USE DEF TypeOK, ThreadLabel, ClientLabel, Call, JoinCall, LockLabel, Process, listvars, barriervars, keyvars, callvars, ClientInv, InBarrier
<1>1. ASSUME NEW p \in Process, Lock(p) PROVE TypeOK'
  BY <1>0, <1>1 DEF Lock
<1>2. ASSUME NEW t \in Thread, Boot(t) PROVE TypeOK'
  BY <1>0, <1>2 DEF Boot, Arrive, Goto
<1>3. ASSUME NEW t \in Thread, RunFunction(t) PROVE TypeOK'
  BY <1>0, <1>3 DEF RunFunction, Leave, Goto
<1>4. ASSUME NEW t \in Thread, FunctionReturns(t) PROVE TypeOK'
  BY <1>0, <1>4 DEF FunctionReturns, Goto
<1>5. ASSUME NEW t \in Thread, UnregisterUnlink(t) PROVE TypeOK'
  BY <1>0, <1>5 DEF UnregisterUnlink, Inside, Unlock, Goto, NextUnlinked, PrevUnlinked, HeadWithout
<1>6. ASSUME NEW t \in Thread, UnregisterDestroy(t) PROVE TypeOK'
  BY <1>0, <1>6 DEF UnregisterDestroy, Inside, Unlock, Goto
<1>7. ASSUME NEW t \in Thread, FinishedDetached(t) PROVE TypeOK'
  BY <1>0, <1>7 DEF FinishedDetached, Goto
<1>8. ASSUME NEW t \in Thread, FinishedJoinable(t) PROVE TypeOK'
  BY <1>0, <1>8 DEF FinishedJoinable, Goto
<1>9. ASSUME NEW t \in Thread, FinishedDefault(t) PROVE TypeOK'
  BY <1>0, <1>9 DEF FinishedDefault
<1>10. ASSUME NEW t \in Thread, FinishedInsert(t) PROVE TypeOK'
  <2>1. /\ next' = NextInserted(next, prev, t, finishedthreadlist)
        /\ prev' = PrevInserted(next, prev, t, finishedthreadlist)
        /\ finishedthreadlist' = t /\ threadlist' = threadlist /\ threadlock' = NULL
        /\ pc' = [pc EXCEPT ![t] = "exit"]
        /\ UNCHANGED <<isstarted, arrived, leaving, keyready, located, freed, crashed,
                       call, target, wanted>>
    BY <1>10 DEF FinishedInsert, Inside, Unlock, Goto
  <2>2. next' \in [Thread -> Thread \union {NULL}]
    BY <1>0, <2>1 DEF NextInserted
  <2>3. prev' \in [Thread -> Thread \union {NULL}]
    BY <1>0, <2>1 DEF PrevInserted
  <2>4. /\ pc' \in [Process -> ThreadLabel \union ClientLabel]
        /\ \A s \in Thread : pc'[s] \in ThreadLabel
        /\ \A c \in Client : pc'[c] \in ClientLabel
    BY <1>0, <2>1 DEF ConstantsAssumption
  <2>5. QED
    BY <1>0, <2>1, <2>2, <2>3, <2>4
<1>11. ASSUME NEW t \in Thread, Exit(t) PROVE TypeOK'
  BY <1>0, <1>11 DEF Exit, Goto
<1>12. ASSUME NEW c \in Client, NEW t \in Thread, CallCreate(c, t) PROVE TypeOK'
  BY <1>0, <1>12 DEF CallCreate, Begin
<1>13. ASSUME NEW c \in Client, NEW t \in Thread, CallCreateFails(c, t) PROVE TypeOK'
  BY <1>0, <1>13 DEF CallCreateFails, Goto
<1>14. ASSUME NEW c \in Client, NEW t \in Thread, CallStart(c, t) PROVE TypeOK'
  BY <1>0, <1>14 DEF CallStart, Begin, Goto, Handle, Creating, Reaped, Starting, BeingJoined, MayReap, JoinableThread
<1>15. ASSUME NEW c \in Client, NEW t \in Thread, CallJoin(c, t) PROVE TypeOK'
  BY <1>0, <1>15 DEF CallJoin, Begin, Goto, Handle, Creating, Reaped, Starting, BeingJoined, MayReap, JoinableThread
<1>16. ASSUME NEW c \in Client, NEW k \in Class \union {NULL}, NEW name \in {"tryjoinall", "joinall"}, CallJoinAll(c, name, k) PROVE TypeOK'
  BY <1>0, <1>16 DEF CallJoinAll, Begin, Goto, Joining, Starting
<1>17. ASSUME NEW c \in Client, Register(c) PROVE TypeOK'
  <2>1. target[c] \in Thread
    BY <1>0, <1>17 DEF Register, Inside
  <2>2. /\ next' = NextInserted(next, prev, target[c], threadlist)
        /\ prev' = PrevInserted(next, prev, target[c], threadlist)
        /\ threadlist' = target[c] /\ keyready' = TRUE /\ threadlock' = NULL
        /\ UNCHANGED <<finishedthreadlist, isstarted, arrived, leaving, located, freed, crashed>>
    BY <1>17 DEF Register, Unlock
  <2>3. next' \in [Thread -> Thread \union {NULL}]
    BY <1>0, <2>1, <2>2 DEF NextInserted
  <2>4. prev' \in [Thread -> Thread \union {NULL}]
    BY <1>0, <2>1, <2>2 DEF PrevInserted
  <2>5. /\ pc' \in [Process -> ThreadLabel \union ClientLabel]
        /\ call' \in [Client -> Call] /\ target' \in [Client -> Thread \union {NULL}]
        /\ wanted' \in [Client -> Class \union {NULL}]
    <3>1. CASE Goto(c, "start") /\ UNCHANGED callvars
      BY <1>0, <3>1 DEF Goto
    <3>2. CASE Return(c)
      BY <1>0, <3>2 DEF Return, Goto
    <3>3. QED
      BY <1>17, <3>1, <3>2 DEF Register
  <2>6. /\ \A t \in Thread : pc'[t] \in ThreadLabel
        /\ \A d \in Client : pc'[d] \in ClientLabel
    BY <1>0, <1>17, RegisterEffect DEF ConstantsAssumption
  <2>7. QED
    BY <1>0, <2>1, <2>2, <2>3, <2>4, <2>5, <2>6
<1>18. ASSUME NEW c \in Client, TestAndSet(c) PROVE TypeOK'
  BY <1>0, <1>18 DEF TestAndSet, Inside, Unlock, Goto, Return
<1>19. ASSUME NEW c \in Client, StartArrive(c) PROVE TypeOK'
  BY <1>0, <1>19 DEF StartArrive, Arrive, Goto
<1>20. ASSUME NEW c \in Client, StartLeave(c) PROVE TypeOK'
  <2>1. leaving' \in [Thread -> SUBSET Process] /\ arrived' \in [Thread -> SUBSET Process]
    BY <1>0, <1>20 DEF StartLeave, Leave
  <2>2. QED
    BY <1>0, <1>20, <2>1 DEF StartLeave, Return, Goto
<1>21. ASSUME NEW c \in Client, Join(c) PROVE TypeOK'
  BY <1>0, <1>21 DEF Join, Goto
<1>22. ASSUME NEW c \in Client, DisposeUnlink(c) PROVE TypeOK'
  <2>1. target[c] \in Thread
    BY <1>0, <1>22 DEF DisposeUnlink, Inside
  <2>2. next' \in [Thread -> Thread \union {NULL}]
    BY <1>0, <1>22, <2>1 DEF DisposeUnlink, NextDisposed
  <2>3. PrevRelinked(next, prev, target[c]) \in [Thread -> Thread \union {NULL}]
    BY <1>0, <2>1 DEF PrevRelinked
  <2>4. prev' \in [Thread -> Thread \union {NULL}]
    BY <1>0, <1>22, <2>1, <2>3 DEF DisposeUnlink, PrevDisposed
  <2>5. finishedthreadlist' \in Thread \union {NULL}
    BY <1>0, <1>22, <2>1 DEF DisposeUnlink, HeadWithout
  <2>6. /\ pc' = [pc EXCEPT ![c] = "free"] /\ threadlock' = NULL /\ threadlist' = threadlist
        /\ UNCHANGED <<isstarted, arrived, leaving, keyready, located, freed, crashed,
                       call, target, wanted>>
    BY <1>22 DEF DisposeUnlink, Unlock, Goto
  <2>7. /\ pc' \in [Process -> ThreadLabel \union ClientLabel]
        /\ \A t \in Thread : pc'[t] \in ThreadLabel
        /\ \A d \in Client : pc'[d] \in ClientLabel
    BY <1>0, <2>6 DEF ConstantsAssumption
  <2>8. QED
    BY <1>0, <2>2, <2>4, <2>5, <2>6, <2>7
<1>23. ASSUME NEW c \in Client, Free(c) PROVE TypeOK'
  <2>1. /\ pc' = [pc EXCEPT ![c] = IF call[c] = "join" THEN "idle" ELSE "scan"]
        /\ freed' = freed \union {target[c]}
        /\ target' = [target EXCEPT ![c] = NULL]
        /\ call' = (IF call[c] = "join" THEN [call EXCEPT ![c] = "none"] ELSE call)
        /\ wanted' = (IF call[c] = "join" THEN [wanted EXCEPT ![c] = NULL] ELSE wanted)
        /\ UNCHANGED <<threadlock, listvars, isstarted, arrived, leaving, keyready, located,
                       crashed>>
    BY <1>23 DEF Free, Return, Goto
  <2>2. target[c] \in Thread
    BY <1>0, <1>23 DEF Free
  <2>3. /\ pc' \in [Process -> ThreadLabel \union ClientLabel]
        /\ \A t \in Thread : pc'[t] \in ThreadLabel
        /\ \A d \in Client : pc'[d] \in ClientLabel
    BY <1>0, <2>1 DEF ConstantsAssumption
  <2>4. call' \in [Client -> Call] /\ wanted' \in [Client -> Class \union {NULL}]
    BY <1>0, <2>1
  <2>5. target' \in [Client -> Thread \union {NULL}] /\ freed' \in SUBSET Thread
    BY <1>0, <2>1, <2>2
  <2>6. QED
    BY <1>0, <2>1, <2>3, <2>4, <2>5
<1>24. ASSUME NEW c \in Client, ScanFound(c) PROVE TypeOK'
  BY <1>0, <1>24 DEF ScanFound, Inside, Unlock, Goto, OfClass, Walk, Visited
<1>25. ASSUME NEW c \in Client, ScanNone(c) PROVE TypeOK'
  BY <1>0, <1>25 DEF ScanNone, Inside, Unlock, Goto
<1>26. ASSUME NEW c \in Client, CheckLeft(c) PROVE TypeOK'
  <2>1. CASE Goto(c, "scan") /\ UNCHANGED callvars
    BY <1>0, <1>26, <2>1 DEF CheckLeft, Inside, Unlock, Goto
  <2>2. CASE Return(c)
    BY <1>0, <1>26, <2>2 DEF CheckLeft, Inside, Unlock, Goto, Return
  <2>3. QED
    BY <1>26, <2>1, <2>2 DEF CheckLeft
<1>27. CASE UNCHANGED vars
  BY <1>0, <1>27 DEF vars, listvars, barriervars, keyvars, callvars
<1>28. QED
  BY <1>1, <1>2, <1>3, <1>4, <1>5, <1>6, <1>7, <1>8, <1>9, <1>10, <1>11, <1>12, <1>13, <1>14, <1>15, <1>16, <1>17, <1>18, <1>19, <1>20, <1>21, <1>22, <1>23, <1>24, <1>25, <1>26, <1>27 DEF Next, Ended, ThreadStep, ClientCall, ClientStep

\* Whoever waits for the barrier to be destroyed keeps the mutex.
LEMMA LockStep == IInv /\ [Next]_vars => LockInv'
<1> SUFFICES ASSUME IInv, [Next]_vars PROVE LockInv'
  OBVIOUS
<1>0. TypeOK /\ ConstantsAssumption /\ LockInv
  BY ConstantsAssumption DEF IInv
<1> USE DEF TypeOK, ThreadLabel, ClientLabel, Call, JoinCall, LockLabel, Process, listvars, barriervars, keyvars, callvars, LockInv
<1>1. ASSUME NEW p \in Process, Lock(p) PROVE LockInv'
  BY <1>0, <1>1 DEF Lock
<1>2. ASSUME NEW t \in Thread, Boot(t) PROVE LockInv'
  BY <1>0, <1>2 DEF Boot, Arrive, Goto
<1>3. ASSUME NEW t \in Thread, RunFunction(t) PROVE LockInv'
  BY <1>0, <1>3 DEF RunFunction, Leave, Goto
<1>4. ASSUME NEW t \in Thread, FunctionReturns(t) PROVE LockInv'
  BY <1>0, <1>4 DEF FunctionReturns, Goto
<1>5. ASSUME NEW t \in Thread, UnregisterUnlink(t) PROVE LockInv'
  BY <1>0, <1>5 DEF UnregisterUnlink, Inside, Unlock, Goto
<1>6. ASSUME NEW t \in Thread, UnregisterDestroy(t) PROVE LockInv'
  BY <1>0, <1>6 DEF UnregisterDestroy, Inside, Unlock, Goto
<1>7. ASSUME NEW t \in Thread, FinishedDetached(t) PROVE LockInv'
  BY <1>0, <1>7 DEF FinishedDetached, Goto
<1>8. ASSUME NEW t \in Thread, FinishedJoinable(t) PROVE LockInv'
  BY <1>0, <1>8 DEF FinishedJoinable, Goto
<1>9. ASSUME NEW t \in Thread, FinishedDefault(t) PROVE LockInv'
  BY <1>0, <1>9 DEF FinishedDefault
<1>10. ASSUME NEW t \in Thread, FinishedInsert(t) PROVE LockInv'
  BY <1>0, <1>10 DEF FinishedInsert, Inside, Unlock, Goto
<1>11. ASSUME NEW t \in Thread, Exit(t) PROVE LockInv'
  BY <1>0, <1>11 DEF Exit, Goto
<1>12. ASSUME NEW c \in Client, NEW t \in Thread, CallCreate(c, t) PROVE LockInv'
  BY <1>0, <1>12 DEF CallCreate, Begin
<1>13. ASSUME NEW c \in Client, NEW t \in Thread, CallCreateFails(c, t) PROVE LockInv'
  BY <1>0, <1>13 DEF CallCreateFails, Goto
<1>14. ASSUME NEW c \in Client, NEW t \in Thread, CallStart(c, t) PROVE LockInv'
  BY <1>0, <1>14 DEF CallStart, Begin, Goto, Handle, Creating, Reaped, Starting, BeingJoined, MayReap, JoinableThread
<1>15. ASSUME NEW c \in Client, NEW t \in Thread, CallJoin(c, t) PROVE LockInv'
  BY <1>0, <1>15 DEF CallJoin, Begin, Goto, Handle, Creating, Reaped, Starting, BeingJoined, MayReap, JoinableThread
<1>16. ASSUME NEW c \in Client, NEW k \in Class \union {NULL}, NEW name \in {"tryjoinall", "joinall"}, CallJoinAll(c, name, k) PROVE LockInv'
  BY <1>0, <1>16 DEF CallJoinAll, Begin, Goto, Joining, Starting
<1>17. ASSUME NEW c \in Client, Register(c) PROVE LockInv'
  BY <1>0, <1>17 DEF Register, Inside, Unlock, Goto, Return
<1>18. ASSUME NEW c \in Client, TestAndSet(c) PROVE LockInv'
  BY <1>0, <1>18 DEF TestAndSet, Inside, Unlock, Goto, Return
<1>19. ASSUME NEW c \in Client, StartArrive(c) PROVE LockInv'
  BY <1>0, <1>19 DEF StartArrive, Arrive, Goto
<1>20. ASSUME NEW c \in Client, StartLeave(c) PROVE LockInv'
  BY <1>0, <1>20 DEF StartLeave, Leave, Return, Goto
<1>21. ASSUME NEW c \in Client, Join(c) PROVE LockInv'
  BY <1>0, <1>21 DEF Join, Goto
<1>22. ASSUME NEW c \in Client, DisposeUnlink(c) PROVE LockInv'
  BY <1>0, <1>22 DEF DisposeUnlink, Inside, Unlock, Goto
<1>23. ASSUME NEW c \in Client, Free(c) PROVE LockInv'
  BY <1>0, <1>23 DEF Free, Return, Goto
<1>24. ASSUME NEW c \in Client, ScanFound(c) PROVE LockInv'
  BY <1>0, <1>24 DEF ScanFound, Inside, Unlock, Goto, OfClass, Walk, Visited
<1>25. ASSUME NEW c \in Client, ScanNone(c) PROVE LockInv'
  BY <1>0, <1>25 DEF ScanNone, Inside, Unlock, Goto
<1>26. ASSUME NEW c \in Client, CheckLeft(c) PROVE LockInv'
  BY <1>0, <1>26 DEF CheckLeft, Inside, Unlock, Goto, Return
<1>27. CASE UNCHANGED vars
  BY <1>0, <1>27 DEF vars, listvars, barriervars, keyvars, callvars
<1>28. QED
  BY <1>1, <1>2, <1>3, <1>4, <1>5, <1>6, <1>7, <1>8, <1>9, <1>10, <1>11, <1>12, <1>13, <1>14, <1>15, <1>16, <1>17, <1>18, <1>19, <1>20, <1>21, <1>22, <1>23, <1>24, <1>25, <1>26, <1>27 DEF Next, Ended, ThreadStep, ClientCall, ClientStep

\* The mutex is owned only inside a critical section.
LEMMA OwnerStep == IInv /\ OwnerInside /\ [Next]_vars => OwnerInside'
<1> SUFFICES ASSUME IInv, OwnerInside, [Next]_vars PROVE OwnerInside'
  OBVIOUS
<1>0. TypeOK /\ ConstantsAssumption /\ OwnerInside
  BY ConstantsAssumption DEF IInv
<1> USE DEF TypeOK, ThreadLabel, ClientLabel, Call, JoinCall, LockLabel, Process, listvars, barriervars, keyvars, callvars, OwnerInside
<1>1. ASSUME NEW p \in Process, Lock(p) PROVE OwnerInside'
  BY <1>0, <1>1 DEF Lock
<1>2. ASSUME NEW t \in Thread, Boot(t) PROVE OwnerInside'
  BY <1>0, <1>2 DEF Boot, Arrive, Goto
<1>3. ASSUME NEW t \in Thread, RunFunction(t) PROVE OwnerInside'
  BY <1>0, <1>3 DEF RunFunction, Leave, Goto
<1>4. ASSUME NEW t \in Thread, FunctionReturns(t) PROVE OwnerInside'
  BY <1>0, <1>4 DEF FunctionReturns, Goto
<1>5. ASSUME NEW t \in Thread, UnregisterUnlink(t) PROVE OwnerInside'
  BY <1>0, <1>5 DEF UnregisterUnlink, Inside, Unlock, Goto
<1>6. ASSUME NEW t \in Thread, UnregisterDestroy(t) PROVE OwnerInside'
  BY <1>0, <1>6 DEF UnregisterDestroy, Inside, Unlock, Goto
<1>7. ASSUME NEW t \in Thread, FinishedDetached(t) PROVE OwnerInside'
  BY <1>0, <1>7 DEF FinishedDetached, Goto
<1>8. ASSUME NEW t \in Thread, FinishedJoinable(t) PROVE OwnerInside'
  BY <1>0, <1>8 DEF FinishedJoinable, Goto
<1>9. ASSUME NEW t \in Thread, FinishedDefault(t) PROVE OwnerInside'
  BY <1>0, <1>9 DEF FinishedDefault
<1>10. ASSUME NEW t \in Thread, FinishedInsert(t) PROVE OwnerInside'
  BY <1>0, <1>10 DEF FinishedInsert, Inside, Unlock, Goto
<1>11. ASSUME NEW t \in Thread, Exit(t) PROVE OwnerInside'
  BY <1>0, <1>11 DEF Exit, Goto
<1>12. ASSUME NEW c \in Client, NEW t \in Thread, CallCreate(c, t) PROVE OwnerInside'
  BY <1>0, <1>12 DEF CallCreate, Begin
<1>13. ASSUME NEW c \in Client, NEW t \in Thread, CallCreateFails(c, t) PROVE OwnerInside'
  BY <1>0, <1>13 DEF CallCreateFails, Goto
<1>14. ASSUME NEW c \in Client, NEW t \in Thread, CallStart(c, t) PROVE OwnerInside'
  BY <1>0, <1>14 DEF CallStart, Begin, Goto, Handle, Creating, Reaped, Starting, BeingJoined, MayReap, JoinableThread
<1>15. ASSUME NEW c \in Client, NEW t \in Thread, CallJoin(c, t) PROVE OwnerInside'
  BY <1>0, <1>15 DEF CallJoin, Begin, Goto, Handle, Creating, Reaped, Starting, BeingJoined, MayReap, JoinableThread
<1>16. ASSUME NEW c \in Client, NEW k \in Class \union {NULL}, NEW name \in {"tryjoinall", "joinall"}, CallJoinAll(c, name, k) PROVE OwnerInside'
  BY <1>0, <1>16 DEF CallJoinAll, Begin, Goto, Joining, Starting
<1>17. ASSUME NEW c \in Client, Register(c) PROVE OwnerInside'
  BY <1>0, <1>17 DEF Register, Inside, Unlock, Goto, Return
<1>18. ASSUME NEW c \in Client, TestAndSet(c) PROVE OwnerInside'
  BY <1>0, <1>18 DEF TestAndSet, Inside, Unlock, Goto, Return
<1>19. ASSUME NEW c \in Client, StartArrive(c) PROVE OwnerInside'
  BY <1>0, <1>19 DEF StartArrive, Arrive, Goto
<1>20. ASSUME NEW c \in Client, StartLeave(c) PROVE OwnerInside'
  BY <1>0, <1>20 DEF StartLeave, Leave, Return, Goto
<1>21. ASSUME NEW c \in Client, Join(c) PROVE OwnerInside'
  BY <1>0, <1>21 DEF Join, Goto
<1>22. ASSUME NEW c \in Client, DisposeUnlink(c) PROVE OwnerInside'
  BY <1>0, <1>22 DEF DisposeUnlink, Inside, Unlock, Goto
<1>23. ASSUME NEW c \in Client, Free(c) PROVE OwnerInside'
  BY <1>0, <1>23 DEF Free, Return, Goto
<1>24. ASSUME NEW c \in Client, ScanFound(c) PROVE OwnerInside'
  BY <1>0, <1>24 DEF ScanFound, Inside, Unlock, Goto, OfClass, Walk, Visited
<1>25. ASSUME NEW c \in Client, ScanNone(c) PROVE OwnerInside'
  BY <1>0, <1>25 DEF ScanNone, Inside, Unlock, Goto
<1>26. ASSUME NEW c \in Client, CheckLeft(c) PROVE OwnerInside'
  BY <1>0, <1>26 DEF CheckLeft, Inside, Unlock, Goto, Return
<1>27. CASE UNCHANGED vars
  BY <1>0, <1>27 DEF vars, listvars, barriervars, keyvars, callvars
<1>28. QED
  BY <1>1, <1>2, <1>3, <1>4, <1>5, <1>6, <1>7, <1>8, <1>9, <1>10, <1>11, <1>12, <1>13, <1>14, <1>15, <1>16, <1>17, <1>18, <1>19, <1>20, <1>21, <1>22, <1>23, <1>24, <1>25, <1>26, <1>27 DEF Next, Ended, ThreadStep, ClientCall, ClientStep

\* A joiner's record is a finished joinable one that nobody freed: the walk of tryjoinall
\* finds only such threads, and no two clients join the same one.
LEMMA ClientStepInv == IInv /\ [Next]_vars => ClientInv'
<1> SUFFICES ASSUME IInv, [Next]_vars PROVE ClientInv'
  OBVIOUS
<1>0. TypeOK /\ ConstantsAssumption /\ ClientInv /\ UniqueInv /\ ThreadInv /\ RingInv
  BY ConstantsAssumption DEF IInv
<1> USE DEF TypeOK, ThreadLabel, ClientLabel, Call, JoinCall, LockLabel, Process, listvars, barriervars, keyvars, callvars, ClientInv, UniqueInv, ThreadInv, AfterRun, InBarrier, JoinableThread
<1>1. ASSUME NEW p \in Process, Lock(p) PROVE ClientInv'
  BY <1>0, <1>1 DEF Lock
<1>2. ASSUME NEW t \in Thread, Boot(t) PROVE ClientInv'
  BY <1>0, <1>2 DEF Boot, Arrive, Goto
<1>3. ASSUME NEW t \in Thread, RunFunction(t) PROVE ClientInv'
  BY <1>0, <1>3 DEF RunFunction, Leave, Goto
<1>4. ASSUME NEW t \in Thread, FunctionReturns(t) PROVE ClientInv'
  BY <1>0, <1>4 DEF FunctionReturns, Goto
<1>5. ASSUME NEW t \in Thread, UnregisterUnlink(t) PROVE ClientInv'
  BY <1>0, <1>5 DEF UnregisterUnlink, Inside, Unlock, Goto
<1>6. ASSUME NEW t \in Thread, UnregisterDestroy(t) PROVE ClientInv'
  BY <1>0, <1>6 DEF UnregisterDestroy, Inside, Unlock, Goto
<1>7. ASSUME NEW t \in Thread, FinishedDetached(t) PROVE ClientInv'
  BY <1>0, <1>7 DEF FinishedDetached, Goto
<1>8. ASSUME NEW t \in Thread, FinishedJoinable(t) PROVE ClientInv'
  BY <1>0, <1>8 DEF FinishedJoinable, Goto
<1>9. ASSUME NEW t \in Thread, FinishedDefault(t) PROVE ClientInv'
  BY <1>0, <1>9 DEF FinishedDefault
<1>10. ASSUME NEW t \in Thread, FinishedInsert(t) PROVE ClientInv'
  BY <1>0, <1>10 DEF FinishedInsert, Inside, Unlock, Goto
<1>11. ASSUME NEW t \in Thread, Exit(t) PROVE ClientInv'
  BY <1>0, <1>11 DEF Exit, Goto
<1>12. ASSUME NEW c \in Client, NEW t \in Thread, CallCreate(c, t) PROVE ClientInv'
  BY <1>0, <1>12 DEF CallCreate, Begin
<1>13. ASSUME NEW c \in Client, NEW t \in Thread, CallCreateFails(c, t) PROVE ClientInv'
  BY <1>0, <1>13 DEF CallCreateFails, Goto
<1>14. ASSUME NEW c \in Client, NEW t \in Thread, CallStart(c, t) PROVE ClientInv'
  BY <1>0, <1>14 DEF CallStart, Begin, Goto, Handle, Creating, Reaped, Starting, BeingJoined, MayReap, JoinableThread
<1>15. ASSUME NEW c \in Client, NEW t \in Thread, CallJoin(c, t) PROVE ClientInv'
  BY <1>0, <1>15 DEF CallJoin, Begin, Goto, Handle, Creating, Reaped, Starting, BeingJoined, MayReap, JoinableThread
<1>16. ASSUME NEW c \in Client, NEW k \in Class \union {NULL}, NEW name \in {"tryjoinall", "joinall"}, CallJoinAll(c, name, k) PROVE ClientInv'
  BY <1>0, <1>16 DEF CallJoinAll, Begin, Goto, Joining, Starting
<1>17. ASSUME NEW c \in Client, Register(c) PROVE ClientInv'
  BY <1>0, <1>17 DEF Register, Inside, Unlock, Goto, Return
<1>18. ASSUME NEW c \in Client, TestAndSet(c) PROVE ClientInv'
  BY <1>0, <1>18 DEF TestAndSet, Inside, Unlock, Goto, Return
<1>19. ASSUME NEW c \in Client, StartArrive(c) PROVE ClientInv'
  BY <1>0, <1>19 DEF StartArrive, Arrive, Goto
<1>20. ASSUME NEW c \in Client, StartLeave(c) PROVE ClientInv'
  BY <1>0, <1>20 DEF StartLeave, Leave, Return, Goto
<1>21. ASSUME NEW c \in Client, Join(c) PROVE ClientInv'
  BY <1>0, <1>21 DEF Join, Goto
<1>22. ASSUME NEW c \in Client, DisposeUnlink(c) PROVE ClientInv'
  BY <1>0, <1>22 DEF DisposeUnlink, Inside, Unlock, Goto
<1>23. ASSUME NEW c \in Client, Free(c) PROVE ClientInv'
  BY <1>0, <1>23 DEF Free, Return, Goto
<1>24. ASSUME NEW c \in Client, ScanFound(c) PROVE ClientInv'
  <2>1. PICK t \in OnFinished : target' = [target EXCEPT ![c] = t]
    BY <1>0, <1>24, WalkExact DEF ScanFound, OfClass
  <2>2. t \in Thread /\ pc[t] \in {"exit", "exited"} /\ t \notin freed /\ JoinableThread(t)
    BY <2>1 DEF OnFinished, Reaped
  <2>3. ClassOf[t] = wanted[c]
    BY <1>0, <1>24, <2>1 DEF ScanFound, OfClass
  <2>4. QED
    BY <1>0, <1>24, <2>1, <2>2, <2>3 DEF ScanFound, Inside, Unlock, Goto
<1>25. ASSUME NEW c \in Client, ScanNone(c) PROVE ClientInv'
  BY <1>0, <1>25 DEF ScanNone, Inside, Unlock, Goto
<1>26. ASSUME NEW c \in Client, CheckLeft(c) PROVE ClientInv'
  BY <1>0, <1>26 DEF CheckLeft, Inside, Unlock, Goto, Return
<1>27. CASE UNCHANGED vars
  BY <1>0, <1>27 DEF vars, listvars, barriervars, keyvars, callvars
<1>28. QED
  BY <1>1, <1>2, <1>3, <1>4, <1>5, <1>6, <1>7, <1>8, <1>9, <1>10, <1>11, <1>12, <1>13, <1>14, <1>15, <1>16, <1>17, <1>18, <1>19, <1>20, <1>21, <1>22, <1>23, <1>24, <1>25, <1>26, <1>27 DEF Next, Ended, ThreadStep, ClientCall, ClientStep

\* The application's discipline keeps joiners and creators apart.
LEMMA UniqueStep == IInv /\ [Next]_vars => UniqueInv'
<1> SUFFICES ASSUME IInv, [Next]_vars PROVE UniqueInv'
  OBVIOUS
<1>0. TypeOK /\ ConstantsAssumption /\ ClientInv /\ UniqueInv /\ RingInv
  BY ConstantsAssumption DEF IInv
<1> USE DEF TypeOK, ThreadLabel, ClientLabel, Call, JoinCall, LockLabel, Process, listvars, barriervars, keyvars, callvars, UniqueInv, ClientInv, JoinableThread, InBarrier
<1>1. ASSUME NEW p \in Process, Lock(p) PROVE UniqueInv'
  BY <1>0, <1>1 DEF Lock
<1>2. ASSUME NEW t \in Thread, Boot(t) PROVE UniqueInv'
  BY <1>0, <1>2 DEF Boot, Arrive, Goto
<1>3. ASSUME NEW t \in Thread, RunFunction(t) PROVE UniqueInv'
  BY <1>0, <1>3 DEF RunFunction, Leave, Goto
<1>4. ASSUME NEW t \in Thread, FunctionReturns(t) PROVE UniqueInv'
  BY <1>0, <1>4 DEF FunctionReturns, Goto
<1>5. ASSUME NEW t \in Thread, UnregisterUnlink(t) PROVE UniqueInv'
  BY <1>0, <1>5 DEF UnregisterUnlink, Inside, Unlock, Goto
<1>6. ASSUME NEW t \in Thread, UnregisterDestroy(t) PROVE UniqueInv'
  BY <1>0, <1>6 DEF UnregisterDestroy, Inside, Unlock, Goto
<1>7. ASSUME NEW t \in Thread, FinishedDetached(t) PROVE UniqueInv'
  BY <1>0, <1>7 DEF FinishedDetached, Goto
<1>8. ASSUME NEW t \in Thread, FinishedJoinable(t) PROVE UniqueInv'
  BY <1>0, <1>8 DEF FinishedJoinable, Goto
<1>9. ASSUME NEW t \in Thread, FinishedDefault(t) PROVE UniqueInv'
  BY <1>0, <1>9 DEF FinishedDefault
<1>10. ASSUME NEW t \in Thread, FinishedInsert(t) PROVE UniqueInv'
  BY <1>0, <1>10 DEF FinishedInsert, Inside, Unlock, Goto
<1>11. ASSUME NEW t \in Thread, Exit(t) PROVE UniqueInv'
  BY <1>0, <1>11 DEF Exit, Goto
<1>12. ASSUME NEW c \in Client, NEW t \in Thread, CallCreate(c, t) PROVE UniqueInv'
  BY <1>0, <1>12 DEF CallCreate, Begin
<1>13. ASSUME NEW c \in Client, NEW t \in Thread, CallCreateFails(c, t) PROVE UniqueInv'
  BY <1>0, <1>13 DEF CallCreateFails, Goto
<1>14. ASSUME NEW c \in Client, NEW t \in Thread, CallStart(c, t) PROVE UniqueInv'
  BY <1>0, <1>14 DEF CallStart, Begin, Goto, Handle, Creating, Reaped, Starting, BeingJoined, MayReap, JoinableThread
<1>15. ASSUME NEW c \in Client, NEW t \in Thread, CallJoin(c, t) PROVE UniqueInv'
  BY <1>0, <1>15 DEF CallJoin, Begin, Goto, Handle, Creating, Reaped, Starting, BeingJoined, MayReap, JoinableThread
<1>16. ASSUME NEW c \in Client, NEW k \in Class \union {NULL}, NEW name \in {"tryjoinall", "joinall"}, CallJoinAll(c, name, k) PROVE UniqueInv'
  BY <1>0, <1>16 DEF CallJoinAll, Begin, Goto, Joining, Starting
<1>17. ASSUME NEW c \in Client, Register(c) PROVE UniqueInv'
  BY <1>0, <1>17 DEF Register, Inside, Unlock, Goto, Return
<1>18. ASSUME NEW c \in Client, TestAndSet(c) PROVE UniqueInv'
  BY <1>0, <1>18 DEF TestAndSet, Inside, Unlock, Goto, Return
<1>19. ASSUME NEW c \in Client, StartArrive(c) PROVE UniqueInv'
  BY <1>0, <1>19 DEF StartArrive, Arrive, Goto
<1>20. ASSUME NEW c \in Client, StartLeave(c) PROVE UniqueInv'
  BY <1>0, <1>20 DEF StartLeave, Leave, Return, Goto
<1>21. ASSUME NEW c \in Client, Join(c) PROVE UniqueInv'
  BY <1>0, <1>21 DEF Join, Goto
<1>22. ASSUME NEW c \in Client, DisposeUnlink(c) PROVE UniqueInv'
  BY <1>0, <1>22 DEF DisposeUnlink, Inside, Unlock, Goto
<1>23. ASSUME NEW c \in Client, Free(c) PROVE UniqueInv'
  BY <1>0, <1>23 DEF Free, Return, Goto
<1>24. ASSUME NEW c \in Client, ScanFound(c) PROVE UniqueInv'
  <2>1. PICK t \in OnFinished : target' = [target EXCEPT ![c] = t]
    BY <1>0, <1>24, WalkExact DEF ScanFound, OfClass
  <2>2. t \in Thread /\ pc[t] \in {"exit", "exited"} /\ t \notin freed /\ JoinableThread(t)
    BY <2>1 DEF OnFinished, Reaped
  <2>3. ClassOf[t] = wanted[c]
    BY <1>0, <1>24, <2>1 DEF ScanFound, OfClass
  <2>4. QED
    BY <1>0, <1>24, <2>1, <2>2, <2>3 DEF ScanFound, Inside, Unlock, Goto
<1>25. ASSUME NEW c \in Client, ScanNone(c) PROVE UniqueInv'
  BY <1>0, <1>25 DEF ScanNone, Inside, Unlock, Goto
<1>26. ASSUME NEW c \in Client, CheckLeft(c) PROVE UniqueInv'
  BY <1>0, <1>26 DEF CheckLeft, Inside, Unlock, Goto, Return
<1>27. CASE UNCHANGED vars
  BY <1>0, <1>27 DEF vars, listvars, barriervars, keyvars, callvars
<1>28. QED
  BY <1>1, <1>2, <1>3, <1>4, <1>5, <1>6, <1>7, <1>8, <1>9, <1>10, <1>11, <1>12, <1>13, <1>14, <1>15, <1>16, <1>17, <1>18, <1>19, <1>20, <1>21, <1>22, <1>23, <1>24, <1>25, <1>26, <1>27 DEF Next, Ended, ThreadStep, ClientCall, ClientStep

\* A thread gets past its barrier only if it was started.
LEMMA ThreadStepInv == IInv /\ [Next]_vars => ThreadInv'
<1> SUFFICES ASSUME IInv, [Next]_vars PROVE ThreadInv'
  OBVIOUS
<1>0. TypeOK /\ ConstantsAssumption /\ ClientInv /\ ThreadInv /\ BarrierInv
  BY ConstantsAssumption DEF IInv
<1> USE DEF TypeOK, ThreadLabel, ClientLabel, Call, JoinCall, LockLabel, Process, listvars, barriervars, keyvars, callvars, ThreadInv, ClientInv, AfterRun, BarrierInv, InBarrier, BeforeRun, JoinableThread
<1>1. ASSUME NEW p \in Process, Lock(p) PROVE ThreadInv'
  BY <1>0, <1>1 DEF Lock
<1>2. ASSUME NEW t \in Thread, Boot(t) PROVE ThreadInv'
  BY <1>0, <1>2 DEF Boot, Arrive, Goto
<1>3. ASSUME NEW t \in Thread, RunFunction(t) PROVE ThreadInv'
  BY <1>0, <1>3 DEF RunFunction, Leave, Goto
<1>4. ASSUME NEW t \in Thread, FunctionReturns(t) PROVE ThreadInv'
  BY <1>0, <1>4 DEF FunctionReturns, Goto
<1>5. ASSUME NEW t \in Thread, UnregisterUnlink(t) PROVE ThreadInv'
  BY <1>0, <1>5 DEF UnregisterUnlink, Inside, Unlock, Goto
<1>6. ASSUME NEW t \in Thread, UnregisterDestroy(t) PROVE ThreadInv'
  BY <1>0, <1>6 DEF UnregisterDestroy, Inside, Unlock, Goto
<1>7. ASSUME NEW t \in Thread, FinishedDetached(t) PROVE ThreadInv'
  BY <1>0, <1>7 DEF FinishedDetached, Goto
<1>8. ASSUME NEW t \in Thread, FinishedJoinable(t) PROVE ThreadInv'
  BY <1>0, <1>8 DEF FinishedJoinable, Goto
<1>9. ASSUME NEW t \in Thread, FinishedDefault(t) PROVE ThreadInv'
  BY <1>0, <1>9 DEF FinishedDefault
<1>10. ASSUME NEW t \in Thread, FinishedInsert(t) PROVE ThreadInv'
  BY <1>0, <1>10 DEF FinishedInsert, Inside, Unlock, Goto
<1>11. ASSUME NEW t \in Thread, Exit(t) PROVE ThreadInv'
  BY <1>0, <1>11 DEF Exit, Goto
<1>12. ASSUME NEW c \in Client, NEW t \in Thread, CallCreate(c, t) PROVE ThreadInv'
  BY <1>0, <1>12 DEF CallCreate, Begin
<1>13. ASSUME NEW c \in Client, NEW t \in Thread, CallCreateFails(c, t) PROVE ThreadInv'
  BY <1>0, <1>13 DEF CallCreateFails, Goto
<1>14. ASSUME NEW c \in Client, NEW t \in Thread, CallStart(c, t) PROVE ThreadInv'
  BY <1>0, <1>14 DEF CallStart, Begin, Goto, Handle, Creating, Reaped, Starting, BeingJoined, MayReap, JoinableThread
<1>15. ASSUME NEW c \in Client, NEW t \in Thread, CallJoin(c, t) PROVE ThreadInv'
  BY <1>0, <1>15 DEF CallJoin, Begin, Goto, Handle, Creating, Reaped, Starting, BeingJoined, MayReap, JoinableThread
<1>16. ASSUME NEW c \in Client, NEW k \in Class \union {NULL}, NEW name \in {"tryjoinall", "joinall"}, CallJoinAll(c, name, k) PROVE ThreadInv'
  BY <1>0, <1>16 DEF CallJoinAll, Begin, Goto, Joining, Starting
<1>17. ASSUME NEW c \in Client, Register(c) PROVE ThreadInv'
  BY <1>0, <1>17 DEF Register, Inside, Unlock, Goto, Return
<1>18. ASSUME NEW c \in Client, TestAndSet(c) PROVE ThreadInv'
  BY <1>0, <1>18 DEF TestAndSet, Inside, Unlock, Goto, Return
<1>19. ASSUME NEW c \in Client, StartArrive(c) PROVE ThreadInv'
  BY <1>0, <1>19 DEF StartArrive, Arrive, Goto
<1>20. ASSUME NEW c \in Client, StartLeave(c) PROVE ThreadInv'
  BY <1>0, <1>20 DEF StartLeave, Leave, Return, Goto
<1>21. ASSUME NEW c \in Client, Join(c) PROVE ThreadInv'
  BY <1>0, <1>21 DEF Join, Goto
<1>22. ASSUME NEW c \in Client, DisposeUnlink(c) PROVE ThreadInv'
  BY <1>0, <1>22 DEF DisposeUnlink, Inside, Unlock, Goto
<1>23. ASSUME NEW c \in Client, Free(c) PROVE ThreadInv'
  BY <1>0, <1>23 DEF Free, Return, Goto
<1>24. ASSUME NEW c \in Client, ScanFound(c) PROVE ThreadInv'
  BY <1>0, <1>24 DEF ScanFound, Inside, Unlock, Goto, OfClass, Walk, Visited
<1>25. ASSUME NEW c \in Client, ScanNone(c) PROVE ThreadInv'
  BY <1>0, <1>25 DEF ScanNone, Inside, Unlock, Goto
<1>26. ASSUME NEW c \in Client, CheckLeft(c) PROVE ThreadInv'
  BY <1>0, <1>26 DEF CheckLeft, Inside, Unlock, Goto, Return
<1>27. CASE UNCHANGED vars
  BY <1>0, <1>27 DEF vars, listvars, barriervars, keyvars, callvars
<1>28. QED
  BY <1>1, <1>2, <1>3, <1>4, <1>5, <1>6, <1>7, <1>8, <1>9, <1>10, <1>11, <1>12, <1>13, <1>14, <1>15, <1>16, <1>17, <1>18, <1>19, <1>20, <1>21, <1>22, <1>23, <1>24, <1>25, <1>26, <1>27 DEF Next, Ended, ThreadStep, ClientCall, ClientStep

\* The barrier holds the thread and the one starter that found isstarted unset; the record
\* is not given up before both are out.
LEMMA BarrierStep == IInv /\ [Next]_vars => BarrierInv'
<1> SUFFICES ASSUME IInv, [Next]_vars PROVE BarrierInv'
  OBVIOUS
<1>0. TypeOK /\ ConstantsAssumption /\ ClientInv /\ ThreadInv /\ BarrierInv /\ StartInv /\ UniqueInv /\ RingInv
  BY ConstantsAssumption DEF IInv
<1> USE DEF TypeOK, ThreadLabel, ClientLabel, Call, JoinCall, LockLabel, Process, listvars, barriervars, keyvars, callvars, ThreadInv, ClientInv, AfterRun, BarrierInv, InBarrier, BeforeRun, StartInv
<1>1. ASSUME NEW p \in Process, Lock(p) PROVE BarrierInv'
  BY <1>0, <1>1 DEF Lock
<1>2. ASSUME NEW t \in Thread, Boot(t) PROVE BarrierInv'
  BY <1>0, <1>2 DEF Boot, Arrive, Goto
<1>3. ASSUME NEW t \in Thread, RunFunction(t) PROVE BarrierInv'
  BY <1>0, <1>3 DEF RunFunction, Leave, Goto
<1>4. ASSUME NEW t \in Thread, FunctionReturns(t) PROVE BarrierInv'
  BY <1>0, <1>4 DEF FunctionReturns, Goto
<1>5. ASSUME NEW t \in Thread, UnregisterUnlink(t) PROVE BarrierInv'
  <2>1. pc' = [pc EXCEPT ![t] = "destroy"] /\ UNCHANGED <<isstarted, barriervars, callvars>>
    BY <1>5, UnregisterMembers DEF UnregisterUnlink
  <2>2. QED
    BY <1>0, <1>5, <2>1 DEF UnregisterUnlink, Inside
<1>6. ASSUME NEW t \in Thread, UnregisterDestroy(t) PROVE BarrierInv'
  BY <1>0, <1>6 DEF UnregisterDestroy, Inside, Unlock, Goto
<1>7. ASSUME NEW t \in Thread, FinishedDetached(t) PROVE BarrierInv'
  BY <1>0, <1>7 DEF FinishedDetached, Goto
<1>8. ASSUME NEW t \in Thread, FinishedJoinable(t) PROVE BarrierInv'
  BY <1>0, <1>8 DEF FinishedJoinable, Goto
<1>9. ASSUME NEW t \in Thread, FinishedDefault(t) PROVE BarrierInv'
  BY <1>0, <1>9 DEF FinishedDefault
<1>10. ASSUME NEW t \in Thread, FinishedInsert(t) PROVE BarrierInv'
  BY <1>0, <1>10 DEF FinishedInsert, Inside, Unlock, Goto
<1>11. ASSUME NEW t \in Thread, Exit(t) PROVE BarrierInv'
  BY <1>0, <1>11 DEF Exit, Goto
<1>12. ASSUME NEW c \in Client, NEW t \in Thread, CallCreate(c, t) PROVE BarrierInv'
  BY <1>0, <1>12 DEF CallCreate, Begin
<1>13. ASSUME NEW c \in Client, NEW t \in Thread, CallCreateFails(c, t) PROVE BarrierInv'
  BY <1>0, <1>13 DEF CallCreateFails, Goto
<1>14. ASSUME NEW c \in Client, NEW t \in Thread, CallStart(c, t) PROVE BarrierInv'
  BY <1>0, <1>14 DEF CallStart, Begin, Goto, Handle, Creating, Reaped, Starting, BeingJoined, MayReap, JoinableThread
<1>15. ASSUME NEW c \in Client, NEW t \in Thread, CallJoin(c, t) PROVE BarrierInv'
  BY <1>0, <1>15 DEF CallJoin, Begin, Goto, Handle, Creating, Reaped, Starting, BeingJoined, MayReap, JoinableThread
<1>16. ASSUME NEW c \in Client, NEW k \in Class \union {NULL}, NEW name \in {"tryjoinall", "joinall"}, CallJoinAll(c, name, k) PROVE BarrierInv'
  BY <1>0, <1>16 DEF CallJoinAll, Begin, Goto, Joining, Starting
<1>17. ASSUME NEW c \in Client, Register(c) PROVE BarrierInv'
  <2>1. isstarted' = isstarted /\ UNCHANGED barriervars
    BY <1>17 DEF Register
  <2>2. CASE ClassOf[target[c]] \in Autorun
    BY <1>0, <1>17, <2>1, <2>2 DEF Register, Inside, Goto
  <2>3. CASE ClassOf[target[c]] \notin Autorun
    <3>1. /\ pc[c] = "register" /\ pc' = [pc EXCEPT ![c] = "idle"]
          /\ call' = [call EXCEPT ![c] = "none"] /\ target' = [target EXCEPT ![c] = NULL]
          /\ wanted' = [wanted EXCEPT ![c] = NULL] /\ isstarted' = isstarted /\ UNCHANGED barriervars
      BY <1>17, <2>3 DEF Register, Inside, Return, Goto
    <3>2. \A t \in Thread : c \notin arrived[t] \union leaving[t]
      BY <1>0, <3>1
    <3>3. QED
      BY <1>0, <3>1, <3>2
  <2>4. QED
    BY <2>2, <2>3
<1>18. ASSUME NEW c \in Client, TestAndSet(c) PROVE BarrierInv'
  <2>1. CASE target[c] \in isstarted
    <3>1. /\ pc[c] = "start" /\ pc' = [pc EXCEPT ![c] = "idle"]
          /\ call' = [call EXCEPT ![c] = "none"] /\ target' = [target EXCEPT ![c] = NULL]
          /\ wanted' = [wanted EXCEPT ![c] = NULL] /\ isstarted' = isstarted /\ UNCHANGED barriervars
      BY <1>18, <2>1 DEF TestAndSet, Inside, Return, Goto
    <3>2. \A t \in Thread : c \notin arrived[t] \union leaving[t]
      BY <1>0, <3>1
    <3>3. QED
      BY <1>0, <3>1, <3>2
  <2>2. CASE target[c] \notin isstarted
    <3>1. /\ pc[c] = "start" /\ pc' = [pc EXCEPT ![c] = "arrive"]
          /\ isstarted' = isstarted \union {target[c]} /\ UNCHANGED <<barriervars, callvars>>
      BY <1>18, <2>2 DEF TestAndSet, Inside, Goto
    <3>2. target[c] \in Thread /\ pc[target[c]] \in BeforeRun /\ leaving[target[c]] = {}
      BY <1>0, <2>2, <3>1
    <3>3. \A d \in Client : pc[d] \in InBarrier => target[d] # target[c]
      BY <1>0, <2>2
    <3>4. QED
      BY <1>0, <2>2, <3>1, <3>2, <3>3
  <2>3. QED
    BY <2>1, <2>2
<1>19. ASSUME NEW c \in Client, StartArrive(c) PROVE BarrierInv'
  BY <1>0, <1>19 DEF StartArrive, Arrive, Goto
<1>20. ASSUME NEW c \in Client, StartLeave(c) PROVE BarrierInv'
  <2>1. /\ pc[c] = "startwait" /\ pc' = [pc EXCEPT ![c] = "idle"]
        /\ target' = [target EXCEPT ![c] = NULL]
        /\ leaving' = [leaving EXCEPT ![target[c]] = @ \ {c}]
        /\ c \in leaving[target[c]] /\ UNCHANGED <<arrived, isstarted>>
    BY <1>20 DEF StartLeave, Leave, Return, Goto
  <2>2. \A t \in Thread : c \notin arrived'[t] \union leaving'[t]
    BY <1>0, <2>1
  <2>3. QED
    BY <1>0, <2>1, <2>2
<1>21. ASSUME NEW c \in Client, Join(c) PROVE BarrierInv'
  BY <1>0, <1>21 DEF Join, Goto
<1>22. ASSUME NEW c \in Client, DisposeUnlink(c) PROVE BarrierInv'
  BY <1>0, <1>22 DEF DisposeUnlink, Inside, Unlock, Goto
<1>23. ASSUME NEW c \in Client, Free(c) PROVE BarrierInv'
  <2>1. pc[c] = "free" /\ UNCHANGED <<isstarted, barriervars>>
    BY <1>23 DEF Free
  <2>2. /\ pc' = [pc EXCEPT ![c] = IF call[c] = "join" THEN "idle" ELSE "scan"]
        /\ \A d \in Client : d # c => target'[d] = target[d]
    BY <1>0, <1>23 DEF Free, Return, Goto
  <2>3. \A t \in Thread : pc'[t] = pc[t] /\ c \notin arrived[t] \union leaving[t]
    BY <1>0, <2>1, <2>2
  <2>4. pc'[c] \notin InBarrier /\ \A d \in Client : d # c => pc'[d] = pc[d]
    BY <1>0, <2>2
  <2>5. QED
    BY <1>0, <2>1, <2>2, <2>3, <2>4
<1>24. ASSUME NEW c \in Client, ScanFound(c) PROVE BarrierInv'
  BY <1>0, <1>24 DEF ScanFound, Inside, Unlock, Goto, OfClass, Walk, Visited
<1>25. ASSUME NEW c \in Client, ScanNone(c) PROVE BarrierInv'
  BY <1>0, <1>25 DEF ScanNone, Inside, Unlock, Goto
<1>26. ASSUME NEW c \in Client, CheckLeft(c) PROVE BarrierInv'
  BY <1>0, <1>26 DEF CheckLeft, Inside, Unlock, Goto, Return
<1>27. CASE UNCHANGED vars
  BY <1>0, <1>27 DEF vars, listvars, barriervars, keyvars, callvars
<1>28. QED
  BY <1>1, <1>2, <1>3, <1>4, <1>5, <1>6, <1>7, <1>8, <1>9, <1>10, <1>11, <1>12, <1>13, <1>14, <1>15, <1>16, <1>17, <1>18, <1>19, <1>20, <1>21, <1>22, <1>23, <1>24, <1>25, <1>26, <1>27 DEF Next, Ended, ThreadStep, ClientCall, ClientStep

\* A step that changes the call of one client, which gives it up or keeps it,
\* and the place of that client away from the test of isstarted, keeps the
\* discipline of starting.
LEMMA StartKept ==
    ASSUME StartInv, NEW c \in Client, isstarted' = isstarted,
           \A d \in Client \ {c} : /\ call'[d] = call[d] /\ target'[d] = target[d]
                                   /\ wanted'[d] = wanted[d] /\ pc'[d] = pc[d],
           \A d \in Client \ {c} : pc[d] = "start" => target[d] \notin freed',
           \/ call'[c] = "none"
           \/ call[c] \in {"tryjoinall", "joinall"} /\ UNCHANGED <<call, wanted>>
           \/ call[c] = "create" /\ UNCHANGED callvars /\ target[c] \notin isstarted \union freed',
           pc'[c] \notin {"register", "start"} \/ (call'[c] = "create" /\ pc'[c] = "start")
    PROVE  StartInv'
<1>1. \A t : BeingJoined(t)' => BeingJoined(t)
  BY DEF BeingJoined, MayReap, JoinCall, callvars
<1>2. ASSUME NEW d \in Client \ {c}
      PROVE  (/\ pc[d] = "register" \/ (pc[d] = "start" /\ call[d] = "create") =>
                    target[d] \notin isstarted
              /\ pc[d] = "start" => target[d] \notin freed
              /\ pc[d] = "start" /\ target[d] \in isstarted =>
                    JoinableThread(target[d]) /\ ~BeingJoined(target[d]))'
  BY <1>1, <1>2 DEF StartInv, JoinableThread
<1>3. (/\ pc[c] = "register" \/ (pc[c] = "start" /\ call[c] = "create") =>
                    target[c] \notin isstarted
       /\ pc[c] = "start" => target[c] \notin freed
       /\ pc[c] = "start" /\ target[c] \in isstarted =>
             JoinableThread(target[c]) /\ ~BeingJoined(target[c]))'
  BY DEF callvars
<1>4. call'[c] # "start"
  BY DEF callvars
<1>5. ASSUME NEW d \in Client, NEW e \in Client
      PROVE  (call[d] = "start" /\ call[e] = "start" /\ d # e /\ target[d] = target[e] =>
                  JoinableThread(target[d]) /\ ~BeingJoined(target[d]))'
  BY <1>1, <1>4 DEF StartInv, JoinableThread
<1>6. QED
  BY <1>2, <1>3, <1>5 DEF StartInv

\* Neither the end of create nor free disturbs it.
LEMMA RegisterFreeStart ==
    ASSUME TypeOK, ClientInv, UniqueInv, ThreadInv, StartInv, NEW c \in Client,
           Register(c) \/ Free(c)
    PROVE  StartInv'
<1>1. CASE Register(c)
  <2>1. call[c] = "create" /\ target[c] \in Thread /\ target[c] \notin isstarted \union freed
    BY <1>1, RegisterEffect DEF ClientInv, StartInv, ThreadInv, AfterRun
  <2>2. call'[c] # "none" => call[c] = "create" /\ UNCHANGED callvars
    BY <1>1, <2>1, RegisterEffect DEF Register, Return, TypeOK
  <2>3. /\ isstarted' = isstarted /\ freed' = freed
        /\ \A d \in Client \ {c} : /\ call'[d] = call[d] /\ target'[d] = target[d]
                                   /\ wanted'[d] = wanted[d] /\ pc'[d] = pc[d]
        /\ pc'[c] \notin {"register", "start"} \/ (call'[c] = "create" /\ pc'[c] = "start")
    BY <1>1, <2>1, RegisterEffect DEF Process
  <2>4. \A d \in Client : pc[d] = "start" => target[d] \notin freed
    BY DEF StartInv
  <2>6. QED
    BY <2>1, <2>2, <2>3, <2>4, StartKept
<1>2. CASE Free(c)
  <2>1. /\ call[c] \in JoinCall /\ target[c] \in Thread /\ target[c] \in isstarted
        /\ ClassOf[target[c]] = wanted[c]
    BY <1>2, FreeEffect DEF ClientInv, ThreadInv, AfterRun
  <2>2. BeingJoined(target[c])
    BY <2>1 DEF BeingJoined, MayReap, JoinCall
  <2>3. \A d \in Client : pc[d] = "start" => target[d] \notin freed'
    BY <1>2, <2>1, <2>2, FreeEffect DEF StartInv
  <2>4. \/ call'[c] = "none"
        \/ call[c] \in {"tryjoinall", "joinall"} /\ UNCHANGED <<call, wanted>>
    BY <1>2, <2>1, FreeEffect, ReturnEffect DEF Free, JoinCall
  <2>5. /\ isstarted' = isstarted
        /\ \A d \in Client \ {c} : /\ call'[d] = call[d] /\ target'[d] = target[d]
                                   /\ wanted'[d] = wanted[d] /\ pc'[d] = pc[d]
        /\ pc'[c] \in {"idle", "scan"}
    BY <1>2, FreeEffect DEF Free, Process
  <2>6. QED
    BY <2>3, <2>4, <2>5, StartKept
<1>3. QED
  BY <1>1, <1>2

\* Several clients start a thread only while nobody can join it.
LEMMA StartStep == IInv /\ [Next]_vars => StartInv'
<1> SUFFICES ASSUME IInv, [Next]_vars PROVE StartInv'
  OBVIOUS
<1>0. TypeOK /\ ConstantsAssumption /\ ClientInv /\ ThreadInv /\ StartInv /\ UniqueInv /\ RingInv
  BY ConstantsAssumption DEF IInv
<1> USE DEF TypeOK, ThreadLabel, ClientLabel, Call, JoinCall, LockLabel, Process, listvars, barriervars, keyvars, callvars, StartInv, UniqueInv, ThreadInv, ClientInv, AfterRun, InBarrier, BeforeRun, BeingJoined, MayReap, JoinableThread
<1>1. ASSUME NEW p \in Process, Lock(p) PROVE StartInv'
  BY <1>0, <1>1 DEF Lock
<1>2. ASSUME NEW t \in Thread, Boot(t) PROVE StartInv'
  BY <1>0, <1>2 DEF Boot, Arrive, Goto
<1>3. ASSUME NEW t \in Thread, RunFunction(t) PROVE StartInv'
  BY <1>0, <1>3 DEF RunFunction, Leave, Goto
<1>4. ASSUME NEW t \in Thread, FunctionReturns(t) PROVE StartInv'
  BY <1>0, <1>4 DEF FunctionReturns, Goto
<1>5. ASSUME NEW t \in Thread, UnregisterUnlink(t) PROVE StartInv'
  BY <1>0, <1>5 DEF UnregisterUnlink, Inside, Unlock, Goto
<1>6. ASSUME NEW t \in Thread, UnregisterDestroy(t) PROVE StartInv'
  BY <1>0, <1>6 DEF UnregisterDestroy, Inside, Unlock, Goto
<1>7. ASSUME NEW t \in Thread, FinishedDetached(t) PROVE StartInv'
  BY <1>0, <1>7 DEF FinishedDetached, Goto
<1>8. ASSUME NEW t \in Thread, FinishedJoinable(t) PROVE StartInv'
  BY <1>0, <1>8 DEF FinishedJoinable, Goto
<1>9. ASSUME NEW t \in Thread, FinishedDefault(t) PROVE StartInv'
  BY <1>0, <1>9 DEF FinishedDefault
<1>10. ASSUME NEW t \in Thread, FinishedInsert(t) PROVE StartInv'
  BY <1>0, <1>10 DEF FinishedInsert, Inside, Unlock, Goto
<1>11. ASSUME NEW t \in Thread, Exit(t) PROVE StartInv'
  BY <1>0, <1>11 DEF Exit, Goto
<1>12. ASSUME NEW c \in Client, NEW t \in Thread, CallCreate(c, t) PROVE StartInv'
  BY <1>0, <1>12 DEF CallCreate, Begin
<1>13. ASSUME NEW c \in Client, NEW t \in Thread, CallCreateFails(c, t) PROVE StartInv'
  BY <1>0, <1>13 DEF CallCreateFails, Goto
<1>14. ASSUME NEW c \in Client, NEW t \in Thread, CallStart(c, t) PROVE StartInv'
  BY <1>0, <1>14 DEF CallStart, Begin, Goto, Handle, Creating, Reaped, Starting, BeingJoined, MayReap, JoinableThread
<1>15. ASSUME NEW c \in Client, NEW t \in Thread, CallJoin(c, t) PROVE StartInv'
  BY <1>0, <1>15 DEF CallJoin, Begin, Goto, Handle, Creating, Reaped, Starting, BeingJoined, MayReap, JoinableThread
<1>16. ASSUME NEW c \in Client, NEW k \in Class \union {NULL}, NEW name \in {"tryjoinall", "joinall"}, CallJoinAll(c, name, k) PROVE StartInv'
  BY <1>0, <1>16 DEF CallJoinAll, Begin, Goto, Joining, Starting
<1>17. ASSUME NEW c \in Client, Register(c) PROVE StartInv'
  BY <1>0, <1>17, RegisterFreeStart
<1>18. ASSUME NEW c \in Client, TestAndSet(c) PROVE StartInv'
  <2>1. CASE target[c] \in isstarted
    <3>1. /\ pc[c] = "start" /\ pc' = [pc EXCEPT ![c] = "idle"]
          /\ call' = [call EXCEPT ![c] = "none"] /\ target' = [target EXCEPT ![c] = NULL]
          /\ wanted' = [wanted EXCEPT ![c] = NULL] /\ UNCHANGED <<isstarted, freed>>
      BY <1>18, <2>1 DEF TestAndSet, Inside, Return, Goto
    <3>2. QED
      BY <1>0, <3>1
  <2>2. CASE target[c] \notin isstarted
    <3>1. /\ pc[c] = "start" /\ pc' = [pc EXCEPT ![c] = "arrive"]
          /\ isstarted' = isstarted \union {target[c]} /\ UNCHANGED <<freed, callvars>>
      BY <1>18, <2>2 DEF TestAndSet, Inside, Goto
    <3>2. ASSUME NEW d \in Client, d # c, target[d] = target[c], call[d] \in {"create", "start"}
          PROVE  JoinableThread(target[d]) /\ ~BeingJoined(target[d]) /\ call[d] = "start"
      BY <1>0, <3>1, <3>2
    <3>3. QED
      BY <1>0, <3>1, <3>2
  <2>3. QED
    BY <2>1, <2>2
<1>19. ASSUME NEW c \in Client, StartArrive(c) PROVE StartInv'
  BY <1>0, <1>19 DEF StartArrive, Arrive, Goto
<1>20. ASSUME NEW c \in Client, StartLeave(c) PROVE StartInv'
  BY <1>0, <1>20 DEF StartLeave, Leave, Return, Goto
<1>21. ASSUME NEW c \in Client, Join(c) PROVE StartInv'
  BY <1>0, <1>21 DEF Join, Goto
<1>22. ASSUME NEW c \in Client, DisposeUnlink(c) PROVE StartInv'
  BY <1>0, <1>22 DEF DisposeUnlink, Inside, Unlock, Goto
<1>23. ASSUME NEW c \in Client, Free(c) PROVE StartInv'
  BY <1>0, <1>23, RegisterFreeStart
<1>24. ASSUME NEW c \in Client, ScanFound(c) PROVE StartInv'
  <2>1. PICK t \in OnFinished : target' = [target EXCEPT ![c] = t]
    BY <1>0, <1>24, WalkExact DEF ScanFound, OfClass
  <2>2. t \in Thread /\ pc[t] \in {"exit", "exited"} /\ t \notin freed /\ JoinableThread(t)
    BY <2>1 DEF OnFinished, Reaped
  <2>3. ClassOf[t] = wanted[c]
    BY <1>0, <1>24, <2>1 DEF ScanFound, OfClass
  <2>4. QED
    BY <1>0, <1>24, <2>1, <2>2, <2>3 DEF ScanFound, Inside, Unlock, Goto
<1>25. ASSUME NEW c \in Client, ScanNone(c) PROVE StartInv'
  BY <1>0, <1>25 DEF ScanNone, Inside, Unlock, Goto
<1>26. ASSUME NEW c \in Client, CheckLeft(c) PROVE StartInv'
  BY <1>0, <1>26 DEF CheckLeft, Inside, Unlock, Goto, Return
<1>27. CASE UNCHANGED vars
  BY <1>0, <1>27 DEF vars, listvars, barriervars, keyvars, callvars
<1>28. QED
  BY <1>1, <1>2, <1>3, <1>4, <1>5, <1>6, <1>7, <1>8, <1>9, <1>10, <1>11, <1>12, <1>13, <1>14, <1>15, <1>16, <1>17, <1>18, <1>19, <1>20, <1>21, <1>22, <1>23, <1>24, <1>25, <1>26, <1>27 DEF Next, Ended, ThreadStep, ClientCall, ClientStep

ListsStay == UNCHANGED listvars /\ OnRunning' = OnRunning /\ OnFinished' = OnFinished

\* Four steps change the lists.  The others leave the links, and the threads
\* that belong on the lists, as they are.
LEMMA ListSteps ==
    ASSUME IInv, [Next]_vars
    PROVE  \/ \E c \in Client : Register(c) \/ DisposeUnlink(c)
           \/ \E t \in Thread : UnregisterUnlink(t) \/ FinishedInsert(t)
           \/ ListsStay
<1>0. TypeOK /\ ConstantsAssumption /\ ClientInv /\ ThreadInv /\ UniqueInv /\ StartInv /\ RingInv
  BY ConstantsAssumption DEF IInv
<1> USE DEF TypeOK, ThreadLabel, ClientLabel, Call, JoinCall, LockLabel, ThreadInv, ClientInv, AfterRun, InBarrier, BeforeRun, UniqueInv, StartInv, JoinableThread, Process, listvars, barriervars, keyvars, callvars
<1>1. ASSUME NEW p \in Process, Lock(p) PROVE ListsStay
  <2>1. UNCHANGED listvars
    BY <1>1 DEF Lock
  <2>2. OnRunning' = OnRunning
    BY <1>0, <1>1 DEF Lock, OnRunning, Registering
  <2>3. OnFinished' = OnFinished
    BY <1>0, <1>1 DEF Lock, OnFinished, Reaped
  <2>4. QED
    BY <2>1, <2>2, <2>3 DEF ListsStay
<1>2. ASSUME NEW t \in Thread, Boot(t) PROVE ListsStay
  <2>1. UNCHANGED listvars
    BY <1>2 DEF Boot, Arrive, Goto
  <2>2. OnRunning' = OnRunning
    BY <1>0, <1>2 DEF Boot, Arrive, Goto, OnRunning, Registering
  <2>3. OnFinished' = OnFinished
    BY <1>0, <1>2 DEF Boot, Arrive, Goto, OnFinished, Reaped
  <2>4. QED
    BY <2>1, <2>2, <2>3 DEF ListsStay
<1>3. ASSUME NEW t \in Thread, RunFunction(t) PROVE ListsStay
  <2>1. UNCHANGED listvars
    BY <1>3 DEF RunFunction, Leave, Goto
  <2>2. OnRunning' = OnRunning
    BY <1>0, <1>3 DEF RunFunction, Leave, Goto, OnRunning, Registering
  <2>3. OnFinished' = OnFinished
    BY <1>0, <1>3 DEF RunFunction, Leave, Goto, OnFinished, Reaped
  <2>4. QED
    BY <2>1, <2>2, <2>3 DEF ListsStay
<1>4. ASSUME NEW t \in Thread, FunctionReturns(t) PROVE ListsStay
  <2>1. UNCHANGED listvars
    BY <1>4 DEF FunctionReturns, Goto
  <2>2. OnRunning' = OnRunning
    BY <1>0, <1>4 DEF FunctionReturns, Goto, OnRunning, Registering
  <2>3. OnFinished' = OnFinished
    BY <1>0, <1>4 DEF FunctionReturns, Goto, OnFinished, Reaped
  <2>4. QED
    BY <2>1, <2>2, <2>3 DEF ListsStay
<1>5. ASSUME NEW t \in Thread, UnregisterDestroy(t) PROVE ListsStay
  <2>1. UNCHANGED listvars
    BY <1>5 DEF UnregisterDestroy, Inside, Unlock, Goto
  <2>2. OnRunning' = OnRunning
    BY <1>0, <1>5 DEF UnregisterDestroy, Inside, Unlock, Goto, OnRunning, Registering
  <2>3. OnFinished' = OnFinished
    BY <1>0, <1>5 DEF UnregisterDestroy, Inside, Unlock, Goto, OnFinished, Reaped
  <2>4. QED
    BY <2>1, <2>2, <2>3 DEF ListsStay
<1>6. ASSUME NEW t \in Thread, FinishedDetached(t) PROVE ListsStay
  <2>1. UNCHANGED listvars
    BY <1>6 DEF FinishedDetached, Goto
  <2>2. OnRunning' = OnRunning
    BY <1>0, <1>6 DEF FinishedDetached, Goto, OnRunning, Registering
  <2>3. OnFinished' = OnFinished
    BY <1>0, <1>6 DEF FinishedDetached, Goto, OnFinished, Reaped
  <2>4. QED
    BY <2>1, <2>2, <2>3 DEF ListsStay
<1>7. ASSUME NEW t \in Thread, FinishedJoinable(t) PROVE ListsStay
  <2>1. UNCHANGED listvars
    BY <1>7 DEF FinishedJoinable, Goto
  <2>2. OnRunning' = OnRunning
    BY <1>0, <1>7 DEF FinishedJoinable, Goto, OnRunning, Registering
  <2>3. OnFinished' = OnFinished
    BY <1>0, <1>7 DEF FinishedJoinable, Goto, OnFinished, Reaped
  <2>4. QED
    BY <2>1, <2>2, <2>3 DEF ListsStay
<1>8. ASSUME NEW t \in Thread, FinishedDefault(t) PROVE ListsStay
  <2>1. UNCHANGED listvars
    BY <1>8 DEF FinishedDefault
  <2>2. OnRunning' = OnRunning
    BY <1>0, <1>8 DEF FinishedDefault, OnRunning, Registering
  <2>3. OnFinished' = OnFinished
    BY <1>0, <1>8 DEF FinishedDefault, OnFinished, Reaped
  <2>4. QED
    BY <2>1, <2>2, <2>3 DEF ListsStay
<1>9. ASSUME NEW t \in Thread, Exit(t) PROVE ListsStay
  <2>1. UNCHANGED listvars
    BY <1>9 DEF Exit, Goto
  <2>2. OnRunning' = OnRunning
    BY <1>0, <1>9 DEF Exit, Goto, OnRunning, Registering
  <2>3. OnFinished' = OnFinished
    BY <1>0, <1>9 DEF Exit, Goto, OnFinished, Reaped
  <2>4. QED
    BY <2>1, <2>2, <2>3 DEF ListsStay
<1>10. ASSUME NEW c \in Client, NEW t \in Thread, CallCreate(c, t) PROVE ListsStay
  <2>1. UNCHANGED listvars
    BY <1>10 DEF CallCreate, Begin
  <2>2. OnRunning' = OnRunning
    <3>1. /\ pc' = [pc EXCEPT ![c] = "register", ![t] = "boot"]
          /\ target' = [target EXCEPT ![c] = t] /\ pc[c] = "idle" /\ pc[t] = "none"
      BY <1>10 DEF CallCreate, Begin
    <3>2. t \notin OnRunning /\ t \notin OnRunning'
      BY <1>0, <3>1 DEF OnRunning, Registering
    <3>3. \A s \in Thread \ {t} : pc'[s] = pc[s]
      BY <1>0, <3>1
    <3>4. /\ pc'[c] = "register" /\ target'[c] = t
          /\ \A d \in Client \ {c} : pc'[d] = pc[d] /\ target'[d] = target[d]
      BY <1>0, <3>1
    <3>5. \A s \in Thread \ {t} : Registering(s)' <=> Registering(s)
      BY <3>1, <3>4 DEF Registering
    <3>6. QED
      BY <3>2, <3>3, <3>5 DEF OnRunning
  <2>3. OnFinished' = OnFinished
    <3>1. /\ pc' = [pc EXCEPT ![c] = "register", ![t] = "boot"] /\ freed' = freed
          /\ target' = [target EXCEPT ![c] = t] /\ pc[c] = "idle" /\ pc[t] = "none"
      BY <1>10 DEF CallCreate, Begin
    <3>2. \A s \in Thread : pc'[s] \in {"exit", "exited"} <=> pc[s] \in {"exit", "exited"}
      BY <1>0, <3>1
    <3>3. /\ pc'[c] = "register"
          /\ \A d \in Client \ {c} : pc'[d] = pc[d] /\ target'[d] = target[d]
      BY <1>0, <3>1
    <3>4. \A s \in Thread : Reaped(s)' <=> Reaped(s)
      BY <3>1, <3>3 DEF Reaped
    <3>5. QED
      BY <3>2, <3>4 DEF OnFinished
  <2>4. QED
    BY <2>1, <2>2, <2>3 DEF ListsStay
<1>11. ASSUME NEW c \in Client, NEW t \in Thread, CallCreateFails(c, t) PROVE ListsStay
  <2>1. UNCHANGED listvars
    BY <1>11 DEF CallCreateFails, Goto
  <2>2. OnRunning' = OnRunning
    BY <1>0, <1>11 DEF CallCreateFails, Goto, OnRunning, Registering
  <2>3. OnFinished' = OnFinished
    BY <1>0, <1>11 DEF CallCreateFails, Goto, OnFinished, Reaped
  <2>4. QED
    BY <2>1, <2>2, <2>3 DEF ListsStay
<1>12. ASSUME NEW c \in Client, NEW t \in Thread, CallStart(c, t) PROVE ListsStay
  <2>1. UNCHANGED listvars
    BY <1>12 DEF CallStart, Begin, Goto, Handle, Creating, Reaped, Starting, BeingJoined, MayReap, JoinableThread
  <2>2. OnRunning' = OnRunning /\ OnFinished' = OnFinished
    BY <1>0, <1>12, CallsKeepMembers
  <2>3. QED
    BY <2>1, <2>2 DEF ListsStay
<1>13. ASSUME NEW c \in Client, NEW t \in Thread, CallJoin(c, t) PROVE ListsStay
  <2>1. UNCHANGED listvars
    BY <1>13 DEF CallJoin, Begin, Goto, Handle, Creating, Reaped, Starting, BeingJoined, MayReap, JoinableThread
  <2>2. OnRunning' = OnRunning /\ OnFinished' = OnFinished
    BY <1>0, <1>13, CallsKeepMembers
  <2>3. QED
    BY <2>1, <2>2 DEF ListsStay
<1>14. ASSUME NEW c \in Client, NEW k \in Class \union {NULL}, NEW name \in {"tryjoinall", "joinall"}, CallJoinAll(c, name, k) PROVE ListsStay
  <2>1. UNCHANGED listvars
    BY <1>14 DEF CallJoinAll, Begin, Goto, Joining, Starting
  <2>2. OnRunning' = OnRunning /\ OnFinished' = OnFinished
    BY <1>0, <1>14, CallsKeepMembers
  <2>3. QED
    BY <2>1, <2>2 DEF ListsStay
<1>15. ASSUME NEW c \in Client, TestAndSet(c) PROVE ListsStay
  <2>1. UNCHANGED listvars
    BY <1>15 DEF TestAndSet, Inside, Unlock, Goto, Return
  <2>2. OnRunning' = OnRunning /\ OnFinished' = OnFinished
    BY <1>0, <1>15, ChecksKeepMembers
  <2>3. QED
    BY <2>1, <2>2 DEF ListsStay
<1>16. ASSUME NEW c \in Client, StartArrive(c) PROVE ListsStay
  <2>1. UNCHANGED listvars
    BY <1>16 DEF StartArrive, Arrive, Goto
  <2>2. OnRunning' = OnRunning
    BY <1>0, <1>16 DEF StartArrive, Arrive, Goto, OnRunning, Registering
  <2>3. OnFinished' = OnFinished
    BY <1>0, <1>16 DEF StartArrive, Arrive, Goto, OnFinished, Reaped
  <2>4. QED
    BY <2>1, <2>2, <2>3 DEF ListsStay
<1>17. ASSUME NEW c \in Client, StartLeave(c) PROVE ListsStay
  <2>1. UNCHANGED listvars
    BY <1>17 DEF StartLeave, Leave, Return, Goto
  <2>2. OnRunning' = OnRunning
    BY <1>0, <1>17 DEF StartLeave, Leave, Return, Goto, OnRunning, Registering
  <2>3. OnFinished' = OnFinished
    BY <1>0, <1>17 DEF StartLeave, Leave, Return, Goto, OnFinished, Reaped
  <2>4. QED
    BY <2>1, <2>2, <2>3 DEF ListsStay
<1>18. ASSUME NEW c \in Client, Join(c) PROVE ListsStay
  <2>1. UNCHANGED listvars
    BY <1>18 DEF Join, Goto
  <2>2. OnRunning' = OnRunning
    BY <1>0, <1>18 DEF Join, Goto, OnRunning, Registering
  <2>3. OnFinished' = OnFinished
    BY <1>0, <1>18 DEF Join, Goto, OnFinished, Reaped
  <2>4. QED
    BY <2>1, <2>2, <2>3 DEF ListsStay
<1>19. ASSUME NEW c \in Client, Free(c) PROVE ListsStay
  <2>1. UNCHANGED listvars
    BY <1>19 DEF Free
  <2>2. OnRunning' = OnRunning /\ OnFinished' = OnFinished
    BY <1>0, <1>19, FreeKeepsMembers
  <2>3. QED
    BY <2>1, <2>2 DEF ListsStay
<1>20. ASSUME NEW c \in Client, ScanFound(c) PROVE ListsStay
  <2>1. UNCHANGED listvars
    BY <1>20 DEF ScanFound, Inside, Unlock, Goto, OfClass, Walk, Visited
  <2>2. OnRunning' = OnRunning
    BY <1>0, <1>20 DEF ScanFound, Inside, Unlock, Goto, OfClass, Walk, Visited, OnRunning, Registering
  <2>3. OnFinished' = OnFinished
    BY <1>0, <1>20 DEF ScanFound, Inside, Unlock, Goto, OfClass, Walk, Visited, OnFinished, Reaped
  <2>4. QED
    BY <2>1, <2>2, <2>3 DEF ListsStay
<1>21. ASSUME NEW c \in Client, ScanNone(c) PROVE ListsStay
  <2>1. UNCHANGED listvars
    BY <1>21 DEF ScanNone, Inside, Unlock, Goto
  <2>2. OnRunning' = OnRunning
    BY <1>0, <1>21 DEF ScanNone, Inside, Unlock, Goto, OnRunning, Registering
  <2>3. OnFinished' = OnFinished
    BY <1>0, <1>21 DEF ScanNone, Inside, Unlock, Goto, OnFinished, Reaped
  <2>4. QED
    BY <2>1, <2>2, <2>3 DEF ListsStay
<1>22. ASSUME NEW c \in Client, CheckLeft(c) PROVE ListsStay
  <2>1. UNCHANGED listvars
    BY <1>22 DEF CheckLeft, Inside, Unlock, Goto, Return
  <2>2. OnRunning' = OnRunning /\ OnFinished' = OnFinished
    BY <1>0, <1>22, ChecksKeepMembers
  <2>3. QED
    BY <2>1, <2>2 DEF ListsStay
<1>23. CASE UNCHANGED vars
  BY <1>0, <1>23 DEF vars, ListsStay, OnRunning, OnFinished, Registering, Reaped
<1>24. QED
  BY <1>1, <1>2, <1>3, <1>4, <1>5, <1>6, <1>7, <1>8, <1>9, <1>10, <1>11, <1>12, <1>13, <1>14, <1>15, <1>16, <1>17, <1>18, <1>19, <1>20, <1>21, <1>22, <1>23
     DEF Next, Ended, ThreadStep, ClientCall, ClientStep

\* Registering, unregistering, finishing and disposing keep both lists rings of the threads
\* that belong on them; no other step touches them.
LEMMA RingStep == IInv /\ [Next]_vars => RingInv'
<1> SUFFICES ASSUME IInv, [Next]_vars PROVE RingInv'
  OBVIOUS
<1>0. TypeOK /\ ConstantsAssumption /\ ClientInv /\ ThreadInv /\ UniqueInv /\ StartInv /\ RingInv
  BY ConstantsAssumption DEF IInv
<1> USE DEF TypeOK, ThreadLabel, ClientLabel, Call, JoinCall, LockLabel, ThreadInv, ClientInv, AfterRun, InBarrier, BeforeRun, UniqueInv, StartInv, JoinableThread, Process, listvars, barriervars, keyvars, callvars
<1>1. ASSUME NEW t \in Thread, UnregisterUnlink(t) PROVE RingInv'
  <2> DEFINE x == t
  <2>1. /\ x \in Thread /\ x \in OnRunning /\ x \notin OnFinished
        /\ OnRunning' = OnRunning \ {x} /\ OnFinished' = OnFinished
        /\ threadlist # NULL
    BY <1>1, UnregisterMembers
  <2>2. /\ next' = NextUnlinked(next, prev, x)
        /\ prev' = PrevUnlinked(next, prev, x)
        /\ threadlist' = HeadWithout(next, x, threadlist) /\ finishedthreadlist' = finishedthreadlist
    BY <1>1, <2>1 DEF UnregisterUnlink
  <2>3. OnRunning \intersect OnFinished = {}
    BY DEF OnRunning, OnFinished
  <2>4. /\ next \in Links(Thread) /\ prev \in Links(Thread) /\ NULL \notin Thread
        /\ threadlist \in Thread \union {NULL}
        /\ OnRunning \in SUBSET Thread /\ OnFinished \in SUBSET Thread
        /\ RingOf(next, prev, threadlist, OnRunning) /\ RingOf(next, prev, finishedthreadlist, OnFinished)
    BY <1>0, ConstantsAssumption DEF RingInv, Links, OnRunning, OnFinished
  <2>5. RingOf(next', prev', threadlist', OnRunning')
    BY <2>1, <2>2, <2>4, UnlinkMakesRing
  <2>6. \A s \in OnFinished : next'[s] = next[s] /\ prev'[s] = prev[s]
    BY <2>1, <2>2, <2>3, <2>4, LinksTouched
  <2>7. RingOf(next', prev', finishedthreadlist', OnFinished')
    BY <2>1, <2>2, <2>4, <2>6 DEF RingOf
  <2>8. QED
    BY <2>5, <2>7 DEF RingInv
<1>2. ASSUME NEW t \in Thread, FinishedInsert(t) PROVE RingInv'
  <2> DEFINE x == t
  <2>1. /\ x \in Thread /\ x \notin OnFinished /\ x \notin OnRunning
        /\ OnFinished' = OnFinished \union {x} /\ OnRunning' = OnRunning
    BY <1>2, FinishMembers
  <2>2. /\ next' = NextInserted(next, prev, x, finishedthreadlist)
        /\ prev' = PrevInserted(next, prev, x, finishedthreadlist)
        /\ finishedthreadlist' = x /\ threadlist' = threadlist
    BY <1>2, <2>1 DEF FinishedInsert
  <2>3. OnFinished \intersect OnRunning = {}
    BY DEF OnRunning, OnFinished
  <2>4. /\ next \in Links(Thread) /\ prev \in Links(Thread) /\ NULL \notin Thread
        /\ finishedthreadlist \in Thread \union {NULL}
        /\ OnFinished \in SUBSET Thread /\ OnRunning \in SUBSET Thread
        /\ RingOf(next, prev, finishedthreadlist, OnFinished) /\ RingOf(next, prev, threadlist, OnRunning)
    BY <1>0, ConstantsAssumption DEF RingInv, Links, OnRunning, OnFinished
  <2>5. RingOf(next', prev', finishedthreadlist', OnFinished')
    BY <2>1, <2>2, <2>4, InsertMakesRing
  <2>6. \A s \in OnRunning : next'[s] = next[s] /\ prev'[s] = prev[s]
    BY <2>1, <2>2, <2>3, <2>4, LinksTouched
  <2>7. RingOf(next', prev', threadlist', OnRunning')
    BY <2>1, <2>2, <2>4, <2>6 DEF RingOf
  <2>8. QED
    BY <2>5, <2>7 DEF RingInv
<1>3. ASSUME NEW c \in Client, Register(c) PROVE RingInv'
  <2> DEFINE x == target[c]
  <2>1. /\ x \in Thread /\ x \notin OnRunning /\ x \notin OnFinished
        /\ OnRunning' = OnRunning \union {x} /\ OnFinished' = OnFinished
    BY <1>3, RegisterMembers
  <2>2. /\ next' = NextInserted(next, prev, x, threadlist)
        /\ prev' = PrevInserted(next, prev, x, threadlist)
        /\ threadlist' = x /\ finishedthreadlist' = finishedthreadlist
    BY <1>3, <2>1 DEF Register
  <2>3. OnRunning \intersect OnFinished = {}
    BY DEF OnRunning, OnFinished
  <2>4. /\ next \in Links(Thread) /\ prev \in Links(Thread) /\ NULL \notin Thread
        /\ threadlist \in Thread \union {NULL}
        /\ OnRunning \in SUBSET Thread /\ OnFinished \in SUBSET Thread
        /\ RingOf(next, prev, threadlist, OnRunning) /\ RingOf(next, prev, finishedthreadlist, OnFinished)
    BY <1>0, ConstantsAssumption DEF RingInv, Links, OnRunning, OnFinished
  <2>5. RingOf(next', prev', threadlist', OnRunning')
    BY <2>1, <2>2, <2>4, InsertMakesRing
  <2>6. \A s \in OnFinished : next'[s] = next[s] /\ prev'[s] = prev[s]
    BY <2>1, <2>2, <2>3, <2>4, LinksTouched
  <2>7. RingOf(next', prev', finishedthreadlist', OnFinished')
    BY <2>1, <2>2, <2>4, <2>6 DEF RingOf
  <2>8. QED
    BY <2>5, <2>7 DEF RingInv
<1>4. ASSUME NEW c \in Client, DisposeUnlink(c) PROVE RingInv'
  <2> DEFINE x == target[c]
  <2>1. /\ x \in Thread /\ x \in OnFinished /\ x \notin OnRunning
        /\ OnFinished' = OnFinished \ {x} /\ OnRunning' = OnRunning
        /\ finishedthreadlist # NULL
    BY <1>4, DisposeMembers
  <2>2. /\ next' = NextDisposed(next, prev, x)
        /\ prev' = PrevDisposed(next, prev, x)
        /\ finishedthreadlist' = HeadWithout(next, x, finishedthreadlist) /\ threadlist' = threadlist
    BY <1>4, <2>1 DEF DisposeUnlink
  <2>3. OnFinished \intersect OnRunning = {}
    BY DEF OnRunning, OnFinished
  <2>4. /\ next \in Links(Thread) /\ prev \in Links(Thread) /\ NULL \notin Thread
        /\ finishedthreadlist \in Thread \union {NULL}
        /\ OnFinished \in SUBSET Thread /\ OnRunning \in SUBSET Thread
        /\ RingOf(next, prev, finishedthreadlist, OnFinished) /\ RingOf(next, prev, threadlist, OnRunning)
    BY <1>0, ConstantsAssumption DEF RingInv, Links, OnRunning, OnFinished
  <2>5. RingOf(next', prev', finishedthreadlist', OnFinished')
    BY <2>1, <2>2, <2>4, UnlinkMakesRing, DisposeIsUnlink
  <2>6. \A s \in OnRunning : next'[s] = next[s] /\ prev'[s] = prev[s]
    BY <2>1, <2>2, <2>3, <2>4, LinksTouched, DisposeIsUnlink
  <2>7. RingOf(next', prev', threadlist', OnRunning')
    BY <2>1, <2>2, <2>4, <2>6 DEF RingOf
  <2>8. QED
    BY <2>5, <2>7 DEF RingInv
<1>5. CASE ListsStay
  BY <1>0, <1>5 DEF RingInv, ListsStay
<1>6. QED
  BY <1>1, <1>2, <1>3, <1>4, <1>5, ListSteps

\* Every step keeps the inductive invariant.
LEMMA InvStep == IInv /\ [Next]_vars => IInv'
  BY TypeStep, LockStep, ClientStepInv, UniqueStep, ThreadStepInv, BarrierStep, StartStep,
     RingStep DEF IInv

-----------------------------------------------------------------------------
\* The inductive invariant holds in every reachable state.
THEOREM Invariance == Spec => []IInv
  BY InitInv, InvStep, PTL DEF Spec

\* Type correctness of the thread manager.
THEOREM TypeCorrect == Spec => []TypeOK
<1>1. IInv => TypeOK
  BY DEF IInv
<1>2. QED
  BY <1>1, Invariance, PTL

\* The mutex is owned only by a process that is inside a critical section.
THEOREM OwnedInside == Spec => []OwnerInside
<1>1. Init => OwnerInside
  BY DEF Init, OwnerInside
<1>2. QED
  BY <1>1, OwnerStep, Invariance, PTL DEF Spec

\* Both lists hold exactly the threads that belong on them, whatever the order
\* of register, unregister, finished and dispose.
THEOREM ListsExact == Spec => []RingsExact
<1>1. IInv => RingsExact
  BY WalkExact DEF IInv, RingsExact
<1>2. QED
  BY <1>1, Invariance, PTL

\* No record is used after janitor_thread_dispose freed it.
THEOREM MemorySafety == Spec => []NoUseAfterFree
<1>1. ASSUME IInv PROVE NoUseAfterFree
  <2>1. \A t \in freed : t \in Thread /\ pc[t] \in {"exit", "exited"} /\ Reaped(t)
    BY <1>1 DEF IInv, TypeOK, ThreadInv, Reaped
  <2>2. freed \intersect Walk(threadlist) = {}
    BY <1>1, <2>1, WalkExact DEF IInv, OnRunning
  <2>3. freed \intersect Walk(finishedthreadlist) = {}
    BY <1>1, <2>1, WalkExact DEF IInv, OnFinished
  <2>4. freed \intersect UsedByThread = {}
    BY <2>1 DEF UsedByThread
  <2>5. ASSUME NEW c \in Client,
               pc[c] \in {"register", "start", "join", "dispose", "free"} \union InBarrier
        PROVE  target[c] \notin freed
    <3>1. CASE pc[c] \in {"join", "dispose", "free"}
      BY <1>1, <3>1 DEF IInv, ClientInv
    <3>2. CASE pc[c] = "start"
      BY <1>1, <3>2 DEF IInv, StartInv
    <3>3. CASE pc[c] \in InBarrier
      BY <1>1, <2>1, <3>3 DEF IInv, BarrierInv
    <3>4. CASE pc[c] = "register"
      BY <1>1, <2>1, <3>4 DEF IInv, StartInv, ThreadInv, AfterRun
    <3>5. QED
      BY <2>5, <3>1, <3>2, <3>3, <3>4
  <2>6. freed \intersect UsedByClient = {}
    BY <2>5 DEF UsedByClient, InBarrier
  <2>7. QED
    BY <2>2, <2>3, <2>4, <2>6 DEF NoUseAfterFree
<1>2. QED
  BY <1>1, Invariance, PTL

\* Nobody waits at a start barrier its thread has crossed.
THEOREM BarrierOnce == Spec => []StartBarrierCrossedOnce
<1>1. ASSUME IInv, NEW t \in Thread,
             pc[t] \notin {"none", "failed", "boot", "startwait"}
      PROVE  arrived[t] = {}
  <2>1. \A p \in arrived[t] : p \in Client
    BY <1>1 DEF IInv, BarrierInv
  <2>2. QED
    BY <1>1, <2>1 DEF IInv, BarrierInv
<1>2. IInv => StartBarrierCrossedOnce
  BY <1>1 DEF StartBarrierCrossedOnce
<1>3. QED
  BY <1>2, Invariance, PTL

\* joinall returns only when every registered joinable thread of the class has
\* been joined or is between unregister and finished.
THEOREM JoinAllMisses == Spec => JoinAllMissesOnlyInTransit
<1> DEFINE Misses == \A c \in Client : JoinAllReturns(c) => Unjoined(wanted[c]) \subseteq InTransit
<1>1. ASSUME IInv, [Next]_vars, NEW c \in Client, JoinAllReturns(c)
      PROVE  Unjoined(wanted[c]) \subseteq InTransit
  <2>1. CheckLeft(c) /\ ~MoreLeft(wanted[c])
    <3>1. CASE UNCHANGED vars
      BY <1>1, <3>1 DEF JoinAllReturns, vars, callvars
    <3>2. CASE \E p \in Process : Lock(p)
      BY <1>1, <3>2 DEF JoinAllReturns, Lock, callvars
    <3>3. CASE \E t \in Thread : ThreadStep(t)
      BY <1>1, <3>3 DEF JoinAllReturns, callvars, ThreadStep, Boot, RunFunction,
         FunctionReturns, UnregisterUnlink, UnregisterDestroy, FinishedDetached,
         FinishedJoinable, FinishedDefault, FinishedInsert, Exit
    <3>4. ASSUME NEW d \in Client, ClientCall(d) PROVE FALSE
      <4>1. call[c] = "joinall" /\ pc[c] # "idle" /\ call'[c] = "none"
        BY <1>1 DEF IInv, ClientInv, JoinAllReturns
      <4>2. QED
        BY <1>1, <3>4, <4>1 DEF IInv, TypeOK, ClientCall, CallCreate, CallCreateFails, CallStart,
           CallJoin, CallJoinAll, Begin, callvars
    <3>5. ASSUME NEW d \in Client, ClientStep(d) PROVE CheckLeft(c) /\ ~MoreLeft(wanted[c])
      <4>1. call[c] = "joinall" /\ call'[c] = "none"
        BY <1>1 DEF JoinAllReturns
      <4>2. pc[c] \notin {"register", "start"} \union InBarrier
        BY <1>1, <4>1 DEF IInv, ClientInv
      <4>3. call' # call => c = d /\ Return(c)
        BY <1>1, <3>5, <4>1 DEF IInv, TypeOK, ClientStep, Register, TestAndSet, StartArrive,
           StartLeave, Join, DisposeUnlink, Free, ScanFound, ScanNone, CheckLeft, Return,
           callvars
      <4>4. c = d
        BY <4>1, <4>3
      <4>5. ~Register(c) /\ ~TestAndSet(c) /\ ~StartLeave(c) /\ ~StartArrive(c)
        BY <4>2 DEF Register, TestAndSet, StartLeave, StartArrive, Inside, InBarrier
      <4>6. ~Free(c) /\ ~Join(c) /\ ~DisposeUnlink(c) /\ ~ScanFound(c) /\ ~ScanNone(c)
        BY <4>1 DEF Free, Join, DisposeUnlink, ScanFound, ScanNone, callvars
      <4>7. CheckLeft(c)
        BY <3>5, <4>4, <4>5, <4>6 DEF ClientStep
      <4>8. QED
        BY <4>1, <4>7 DEF CheckLeft, callvars
    <3>6. QED
      BY <1>1, <3>1, <3>2, <3>3, <3>4, <3>5 DEF Next, Ended
  <2>2. threadlock = c
    BY <2>1 DEF CheckLeft, Inside
  <2>3. \A t \in Thread : pc[t] # "destroy"
    BY <1>1, <2>2, ConstantsAssumption DEF IInv, LockInv
  <2>4. \A t \in OnRunning \union OnFinished : ClassOf[t] # wanted[c]
    BY <1>1, <2>1, WalkExact DEF IInv, MoreLeft, OfClass
  <2>5. ASSUME NEW t \in Unjoined(wanted[c]) PROVE t \in InTransit
    <3>1. /\ t \in Thread /\ ClassOf[t] = wanted[c] /\ JoinableThread(t)
          /\ pc[t] \notin {"none", "failed"} /\ ~Registering(t) /\ ~Reaped(t)
      BY <2>5 DEF Unjoined
    <3>2. pc[t] \notin {"boot", "startwait", "run", "unregister"}
      BY <2>4, <3>1 DEF OnRunning
    <3>3. pc[t] \notin {"exit", "exited"}
      BY <2>4, <3>1 DEF OnFinished
    <3>4. QED
      BY <1>1, <2>3, <3>1, <3>2, <3>3 DEF IInv, TypeOK, ThreadLabel, InTransit
  <2>6. QED
    BY <2>5
<1>2. IInv /\ [Next]_vars => Misses
  BY <1>1
<1>3. IInv /\ [Next]_vars => [Misses]_vars
  BY <1>2
<1>4. QED
  BY <1>3, Invariance, PTL DEF Spec, JoinAllMissesOnlyInTransit

-----------------------------------------------------------------------------
(* Refinement: the sets of ThreadLifecycle and the rings of janitor.c.     *)

\* The stages the records are mapped to, and a step ThreadLifecycle does not see.
stageMap == [t \in Thread |-> stageOf(t)]
Stutter  == UNCHANGED Lifecycle!lvars

\* No record, and two empty lists: the initial states correspond.
LEMMA InitRefines == Init => Lifecycle!LInit
<1> SUFFICES ASSUME Init PROVE Lifecycle!LInit
  OBVIOUS
<1>1. \A t \in Thread : stageOf(t) = "absent"
  BY ConstantsAssumption DEF Init, stageOf, Process
<1>2. Walk(threadlist) = {} /\ Walk(finishedthreadlist) = {}
  BY DEF Init, Walk, Visited
<1>3. QED
  BY <1>1, <1>2 DEF Lifecycle!LInit

\* A step that leaves heads and links alone leaves both sets alone.
LEMMA ListsUnchanged ==
    ASSUME UNCHANGED listvars
    PROVE  /\ Walk(threadlist)' = Walk(threadlist)
           /\ Walk(finishedthreadlist)' = Walk(finishedthreadlist)
  BY DEF listvars, Walk

\* A step that changes no thread's label, start flag or record, and no list.
LEMMA NothingChanges ==
    ASSUME \A t \in Thread : pc'[t] = pc[t], UNCHANGED <<isstarted, freed>>,
           UNCHANGED listvars
    PROVE  Stutter
<1>1. stageMap' = stageMap
  BY DEF stageMap, stageOf
<1>2. QED
  BY <1>1, ListsUnchanged DEF Stutter, stageMap, Lifecycle!lvars

\* A step at which a single thread changes its stage.
LEMMA OneChanges ==
    ASSUME NEW t \in Thread,
           \A u \in Thread \ {t} : /\ pc'[u] = pc[u]
                                   /\ u \in isstarted' <=> u \in isstarted
                                   /\ u \in freed' <=> u \in freed
    PROVE  stageMap' = [stageMap EXCEPT ![t] = stageOf(t)']
<1>1. \A u \in Thread \ {t} : stageOf(u)' = stageOf(u)
  BY DEF stageOf
<1>2. QED
  BY <1>1 DEF stageMap

\* The walks visit exactly the threads that belong there, after a step too.
LEMMA WalkExactNext ==
    ASSUME TypeOK', RingInv'
    PROVE  Walk(threadlist)' = OnRunning' /\ Walk(finishedthreadlist)' = OnFinished'
<1>1. (TypeOK /\ RingInv => Walk(threadlist) = OnRunning /\ Walk(finishedthreadlist) = OnFinished)'
  BY WalkExact, PTL
<1>2. QED
  BY <1>1

\* The steps of a managed thread.
LEMMA ThreadStepRefines ==
    ASSUME IInv, IInv', NEW t \in Thread, ThreadStep(t)
    PROVE  Stutter \/ Lifecycle!LNext
<1> USE DEF Process
<1>0. pc \in [Process -> ThreadLabel \union ClientLabel] /\ freed \in SUBSET Thread
  BY DEF IInv, TypeOK
<1>1. /\ t \in freed => pc[t] \in {"exit", "exited"}
      /\ pc[t] \in {"run"} \union AfterRun => t \in isstarted
  BY DEF IInv, ThreadInv
<1>2. CASE Boot(t)
  <2>1. pc[t] = "boot" /\ pc'[t] = "startwait" /\ \A u \in Thread \ {t} : pc'[u] = pc[u]
    BY <1>0, <1>2 DEF Boot, Goto
  <2>2. UNCHANGED <<isstarted, freed>> /\ UNCHANGED listvars
    BY <1>2 DEF Boot
  <2>3. \A u \in Thread : stageOf(u)' = stageOf(u)
    BY <2>1, <2>2 DEF stageOf
  <2>4. QED
    BY <2>2, <2>3, ListsUnchanged DEF Stutter, Lifecycle!lvars
<1>3. CASE RunFunction(t)
  <2>1. pc[t] = "startwait" /\ pc'[t] = "run" /\ \A u \in Thread \ {t} : pc'[u] = pc[u]
    BY <1>0, <1>3 DEF RunFunction, Goto
  <2>2. UNCHANGED <<isstarted, freed>> /\ UNCHANGED listvars
    BY <1>3 DEF RunFunction
  <2>3. t \in isstarted
    BY <1>3 DEF RunFunction, Leave, IInv, BarrierInv
  <2>4. stageOf(t) = "started" /\ stageOf(t)' = "running"
    BY <1>1, <2>1, <2>2, <2>3 DEF stageOf
  <2>5. Lifecycle!Run(t)
    BY <2>1, <2>2, <2>4, OneChanges, ListsUnchanged
       DEF stageMap, Lifecycle!Run, Lifecycle!Advance
  <2>6. QED
    BY <2>5 DEF Lifecycle!LNext
<1>4. CASE FunctionReturns(t)
  <2>1. pc[t] = "run" /\ pc'[t] = "unregister" /\ \A u \in Thread \ {t} : pc'[u] = pc[u]
    BY <1>0, <1>4 DEF FunctionReturns, Goto
  <2>2. UNCHANGED <<isstarted, freed>> /\ UNCHANGED listvars
    BY <1>4 DEF FunctionReturns
  <2>3. stageOf(t) = "running" /\ stageOf(t)' = "returned"
    BY <1>1, <2>1, <2>2 DEF stageOf
  <2>4. Lifecycle!Return(t)
    BY <2>1, <2>2, <2>3, OneChanges, ListsUnchanged
       DEF stageMap, Lifecycle!Return, Lifecycle!Advance
  <2>5. QED
    BY <2>4 DEF Lifecycle!LNext
<1>5. CASE UnregisterUnlink(t)
  <2>1. /\ t \in OnRunning /\ OnRunning' = OnRunning \ {t} /\ OnFinished' = OnFinished
        /\ pc' = [pc EXCEPT ![t] = "destroy"]
    BY <1>5, UnregisterMembers
  <2>2. /\ Walk(threadlist) = OnRunning /\ Walk(finishedthreadlist) = OnFinished
        /\ Walk(threadlist)' = OnRunning' /\ Walk(finishedthreadlist)' = OnFinished'
    BY WalkExact, WalkExactNext DEF IInv
  <2>3. pc[t] = "unregister" /\ UNCHANGED <<isstarted, freed>>
    BY <1>5 DEF UnregisterUnlink, Inside
  <2>4. stageMap' = stageMap /\ stageOf(t) = "returned"
    BY <1>0, <1>1, <2>1, <2>3 DEF stageMap, stageOf
  <2>5. Lifecycle!Unregister(t)
    BY <2>1, <2>2, <2>4 DEF stageMap, Lifecycle!Unregister
  <2>6. QED
    BY <2>5 DEF Lifecycle!LNext
<1>6. CASE UnregisterDestroy(t) \/ FinishedJoinable(t) \/ FinishedDefault(t)
  <2>1. /\ pc[t] \in {"destroy", "finished"} /\ pc'[t] \in {"finished", "finish"}
        /\ \A u \in Thread \ {t} : pc'[u] = pc[u]
    BY <1>0, <1>6 DEF UnregisterDestroy, FinishedJoinable, FinishedDefault, Inside, Goto
  <2>2. UNCHANGED <<isstarted, freed>> /\ UNCHANGED listvars
    BY <1>6 DEF UnregisterDestroy, FinishedJoinable, FinishedDefault
  <2>3. \A u \in Thread : stageOf(u)' = stageOf(u)
    BY <2>1, <2>2 DEF stageOf
  <2>4. QED
    BY <2>2, <2>3, ListsUnchanged DEF Stutter, Lifecycle!lvars
<1>7. CASE FinishedDetached(t)
  <2>1. pc[t] = "finished" /\ pc'[t] = "exit" /\ \A u \in Thread \ {t} : pc'[u] = pc[u]
    BY <1>0, <1>7 DEF FinishedDetached, Goto
  <2>2. isstarted' = isstarted /\ freed' = freed \union {t} /\ UNCHANGED listvars
    BY <1>7 DEF FinishedDetached
  <2>3. stageOf(t) = "returned" /\ stageOf(t)' = "released"
    BY <1>1, <2>1, <2>2 DEF stageOf
  <2>4. t \notin Walk(threadlist) /\ t \notin Walk(finishedthreadlist)
    BY <2>1, WalkExact DEF IInv, OnRunning, OnFinished
  <2>5. ~JoinableThread(t)
    BY <1>7 DEF FinishedDetached, JoinableThread
  <2>6. Lifecycle!Dispose(t)
    BY <2>1, <2>2, <2>3, <2>4, <2>5, OneChanges, ListsUnchanged
       DEF stageMap, Lifecycle!Dispose
  <2>7. QED
    BY <2>6 DEF Lifecycle!LNext
<1>8. CASE FinishedInsert(t)
  <2>1. /\ t \notin OnFinished /\ t \notin OnRunning /\ JoinableThread(t)
        /\ OnFinished' = OnFinished \union {t} /\ OnRunning' = OnRunning
    BY <1>8, FinishMembers
  <2>2. /\ Walk(threadlist) = OnRunning /\ Walk(finishedthreadlist) = OnFinished
        /\ Walk(threadlist)' = OnRunning' /\ Walk(finishedthreadlist)' = OnFinished'
    BY WalkExact, WalkExactNext DEF IInv
  <2>3. /\ pc[t] = "finish" /\ UNCHANGED <<isstarted, freed>>
        /\ pc'[t] = "exit" /\ \A u \in Thread \ {t} : pc'[u] = pc[u]
    BY <1>0, <1>8 DEF FinishedInsert, Inside, Goto
  <2>4. stageMap' = stageMap /\ stageOf(t) = "returned"
    BY <1>1, <2>3 DEF stageMap, stageOf
  <2>5. Lifecycle!Finish(t)
    BY <2>1, <2>2, <2>4 DEF stageMap, Lifecycle!Finish
  <2>6. QED
    BY <2>5 DEF Lifecycle!LNext
<1>9. CASE Exit(t)
  <2>1. pc[t] = "exit" /\ pc'[t] = "exited" /\ \A u \in Thread \ {t} : pc'[u] = pc[u]
    BY <1>0, <1>9 DEF Exit, Goto
  <2>2. UNCHANGED <<isstarted, freed>> /\ UNCHANGED listvars
    BY <1>9 DEF Exit
  <2>3. CASE t \in freed
    <3>1. \A u \in Thread : stageOf(u)' = stageOf(u)
      BY <2>1, <2>2, <2>3 DEF stageOf
    <3>2. QED
      BY <2>2, <3>1, ListsUnchanged DEF Stutter, Lifecycle!lvars
  <2>4. CASE t \notin freed
    <3>1. stageOf(t) = "returned" /\ stageOf(t)' = "exited"
      BY <2>1, <2>2, <2>4 DEF stageOf
    <3>2. JoinableThread(t) /\ ~Reaped(t)
      BY <2>1, <2>4 DEF IInv, ThreadInv, ClientInv, Reaped
    <3>3. t \in Walk(finishedthreadlist)
      BY <2>1, <3>2, WalkExact DEF IInv, OnFinished
    <3>4. Lifecycle!Exit(t)
      BY <2>1, <2>2, <3>1, <3>3, OneChanges, ListsUnchanged
         DEF stageMap, Lifecycle!Exit, Lifecycle!Advance
    <3>5. QED
      BY <3>4 DEF Lifecycle!LNext
  <2>5. QED
    BY <2>3, <2>4
<1>10. QED
  BY <1>2, <1>3, <1>4, <1>5, <1>6, <1>7, <1>8, <1>9 DEF ThreadStep

\* The calls a client begins: create makes a thread, or fails to.
LEMMA ClientCallRefines ==
    ASSUME IInv, IInv', NEW c \in Client, ClientCall(c)
    PROVE  Stutter \/ Lifecycle!LNext
<1> USE ConstantsAssumption DEF Process
<1>0. pc \in [Process -> ThreadLabel \union ClientLabel]
  BY DEF IInv, TypeOK
<1>1. ASSUME NEW t \in Thread, CallCreate(c, t) \/ CallCreateFails(c, t)
      PROVE  Lifecycle!LNext
  <2>1. /\ pc[t] = "none" /\ \A u \in Thread \ {t} : pc'[u] = pc[u]
        /\ pc'[t] = IF CallCreate(c, t) THEN "boot" ELSE "failed"
    BY <1>0, <1>1 DEF CallCreate, CallCreateFails, Goto
  <2>2. UNCHANGED <<isstarted, freed>> /\ UNCHANGED listvars
    BY <1>1 DEF CallCreate, CallCreateFails
  <2>3. t \notin isstarted /\ t \notin freed
    BY <2>1 DEF IInv, ThreadInv
  <2>4. CASE CallCreate(c, t)
    <3>1. stageOf(t) = "absent" /\ stageOf(t)' = "created"
      BY <2>1, <2>2, <2>3, <2>4 DEF stageOf
    <3>2. Lifecycle!Create(t)
      BY <2>1, <2>2, <3>1, OneChanges, ListsUnchanged
         DEF stageMap, Lifecycle!Create, Lifecycle!Advance
    <3>3. QED
      BY <3>2 DEF Lifecycle!LNext
  <2>5. CASE ~CallCreate(c, t)
    <3>1. stageOf(t) = "absent" /\ stageOf(t)' = "failed"
      BY <2>1, <2>2, <2>3, <2>5 DEF stageOf
    <3>2. Lifecycle!Fail(t)
      BY <2>1, <2>2, <3>1, OneChanges, ListsUnchanged
         DEF stageMap, Lifecycle!Fail, Lifecycle!Advance
    <3>3. QED
      BY <3>2 DEF Lifecycle!LNext
  <2>6. QED
    BY <2>4, <2>5
<1>2. ASSUME NEW t \in Thread, CallStart(c, t) \/ CallJoin(c, t)
      PROVE  Stutter
  <2>1. \A u \in Thread : pc'[u] = pc[u]
    BY <1>0, <1>2 DEF CallStart, CallJoin, Goto
  <2>2. QED
    BY <1>2, <2>1, NothingChanges DEF CallStart, CallJoin
<1>3. ASSUME NEW k, NEW name, CallJoinAll(c, name, k)
      PROVE  Stutter
  <2>1. \A u \in Thread : pc'[u] = pc[u]
    BY <1>0, <1>3 DEF CallJoinAll, Goto
  <2>2. QED
    BY <1>3, <2>1, NothingChanges DEF CallJoinAll
<1>4. QED
  BY <1>1, <1>2, <1>3 DEF ClientCall

\* The steps of a client inside a call.
LEMMA ClientStepRefines ==
    ASSUME IInv, IInv', NEW c \in Client, ClientStep(c)
    PROVE  Stutter \/ Lifecycle!LNext
<1> USE ConstantsAssumption DEF Process
<1>0. pc \in [Process -> ThreadLabel \union ClientLabel]
  BY DEF IInv, TypeOK
<1>1. \A u \in Thread : pc'[u] = pc[u]
  BY <1>0 DEF ClientStep, Register, TestAndSet, StartArrive, StartLeave, Join, DisposeUnlink,
     Free, ScanFound, ScanNone, CheckLeft, Goto, Return
<1>2. /\ Walk(threadlist) = OnRunning /\ Walk(finishedthreadlist) = OnFinished
      /\ Walk(threadlist)' = OnRunning' /\ Walk(finishedthreadlist)' = OnFinished'
  BY WalkExact, WalkExactNext DEF IInv
<1>3. CASE Register(c)
  <2>1. /\ target[c] \in Thread
        /\ OnRunning' = OnRunning \union {target[c]} /\ OnFinished' = OnFinished
    BY <1>3, RegisterMembers
  <2>2. UNCHANGED <<isstarted, freed>>
    BY <1>3 DEF Register
  <2>3. stageMap' = stageMap
    BY <1>1, <2>2 DEF stageMap, stageOf
  <2>4. pc[target[c]] \in BeforeRun /\ target[c] \notin isstarted /\ target[c] \notin freed
    <3>1. pc[c] = "register"
      BY <1>3 DEF Register, Inside
    <3>2. target[c] \notin isstarted /\ pc[target[c]] \notin {"none", "failed"}
      BY <3>1 DEF IInv, StartInv, ClientInv
    <3>3. QED
      BY <2>1, <3>2 DEF IInv, TypeOK, ThreadInv, AfterRun, BeforeRun, ThreadLabel
  <2>5. stageOf(target[c]) = "created"
    BY <2>4 DEF stageOf, BeforeRun
  <2>6. Lifecycle!Register(target[c])
    BY <1>2, <2>1, <2>3, <2>5 DEF stageMap, Lifecycle!Register
  <2>7. QED
    BY <2>1, <2>6 DEF Lifecycle!LNext
<1>4. CASE TestAndSet(c)
  <2>1. /\ pc[c] = "start" /\ isstarted' = isstarted \union {target[c]} /\ freed' = freed
        /\ UNCHANGED listvars
    BY <1>4 DEF TestAndSet, Inside
  <2>2. CASE target[c] \in isstarted
    BY <1>1, <2>1, <2>2, NothingChanges
  <2>3. CASE target[c] \notin isstarted
    <3>1. PICK t \in Thread : t = target[c]
      BY <2>1 DEF IInv, ClientInv
    <3>2. pc[t] \in BeforeRun /\ t \notin freed
      BY <2>1, <2>3, <3>1 DEF IInv, TypeOK, ClientInv, ThreadInv, AfterRun, BeforeRun, ThreadLabel
    <3>3. stageOf(t) = "created" /\ stageOf(t)' = "started"
      BY <1>1, <2>1, <2>3, <3>1, <3>2 DEF stageOf, BeforeRun
    <3>4. ~Registering(t)
      BY <2>1, <3>1 DEF IInv, ClientInv, UniqueInv, Registering
    <3>5. t \in OnRunning
      BY <3>2, <3>4 DEF OnRunning, BeforeRun
    <3>6. Lifecycle!Start(t)
      BY <1>1, <1>2, <2>1, <3>1, <3>3, <3>5, OneChanges, ListsUnchanged
         DEF stageMap, Lifecycle!Start, Lifecycle!Advance
    <3>7. QED
      BY <3>6 DEF Lifecycle!LNext
  <2>4. QED
    BY <2>2, <2>3
<1>5. CASE DisposeUnlink(c)
  <2>1. /\ target[c] \in Thread /\ target[c] \in OnFinished
        /\ OnFinished' = OnFinished \ {target[c]} /\ OnRunning' = OnRunning
    BY <1>5, DisposeMembers
  <2>2. UNCHANGED <<isstarted, freed>>
    BY <1>5 DEF DisposeUnlink
  <2>3. stageMap' = stageMap
    BY <1>1, <2>2 DEF stageMap, stageOf
  <2>4. pc[target[c]] = "exited" /\ target[c] \notin freed
    BY <1>5 DEF DisposeUnlink, Inside, IInv, ClientInv
  <2>5. stageOf(target[c]) = "exited"
    BY <2>4 DEF stageOf
  <2>6. Lifecycle!Reap(target[c])
    BY <1>2, <2>1, <2>3, <2>5 DEF stageMap, Lifecycle!Reap
  <2>7. QED
    BY <2>1, <2>6 DEF Lifecycle!LNext
<1>6. CASE Free(c)
  <2>1. /\ pc[c] = "free" /\ isstarted' = isstarted /\ freed' = freed \union {target[c]}
        /\ UNCHANGED listvars
    BY <1>6 DEF Free
  <2>2. PICK t \in Thread : t = target[c]
    BY <2>1 DEF IInv, ClientInv
  <2>3. pc[t] = "exited" /\ t \notin freed /\ JoinableThread(t)
    BY <2>1, <2>2 DEF IInv, ClientInv
  <2>4. stageOf(t) = "exited" /\ stageOf(t)' = "released"
    BY <1>1, <2>1, <2>2, <2>3 DEF stageOf
  <2>5. Reaped(t)
    BY <2>1, <2>2 DEF Reaped
  <2>6. t \notin OnRunning /\ t \notin OnFinished
    BY <2>3, <2>5 DEF OnRunning, OnFinished
  <2>7. Lifecycle!Dispose(t)
    BY <1>1, <1>2, <2>1, <2>2, <2>3, <2>4, <2>6, OneChanges, ListsUnchanged
       DEF stageMap, Lifecycle!Dispose
  <2>8. QED
    BY <2>7 DEF Lifecycle!LNext
<1>7. CASE StartArrive(c) \/ StartLeave(c) \/ Join(c) \/ ScanFound(c) \/ ScanNone(c) \/ CheckLeft(c)
  BY <1>1, <1>7, NothingChanges
     DEF StartArrive, StartLeave, Join, ScanFound, ScanNone, CheckLeft
<1>8. QED
  BY <1>3, <1>4, <1>5, <1>6, <1>7 DEF ClientStep

\* Every step of the thread manager, under the inductive invariant.
LEMMA StepRefines == IInv /\ IInv' /\ [Next]_vars => [Lifecycle!LNext]_(Lifecycle!lvars)
<1> SUFFICES ASSUME IInv, IInv', [Next]_vars PROVE Stutter \/ Lifecycle!LNext
  BY DEF Stutter
<1>1. CASE UNCHANGED vars
  BY <1>1, NothingChanges DEF vars
<1>2. ASSUME NEW p \in Process, Lock(p) PROVE Stutter
  BY <1>2, NothingChanges DEF Lock
<1>3. QED
  BY <1>1, <1>2, ThreadStepRefines, ClientCallRefines, ClientStepRefines DEF Next, Ended

\* The rings, locks and barriers of the thread manager implement the life of
\* threads and the two sets of ThreadLifecycle.
THEOREM Refinement == Spec => ImplementsLifecycle
  BY InitRefines, StepRefines, Invariance, PTL DEF Spec, ImplementsLifecycle, Lifecycle!LSpec
=============================================================================
