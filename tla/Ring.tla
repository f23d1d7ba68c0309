-------------------------------- MODULE Ring --------------------------------
(***************************************************************************)
(* The circular doubly linked list janitor.c writes out four times, for    *)
(* threadlist and finishedthreadlist: n and p are the next and prev fields *)
(* of all records, h is the head of one list, t the record at hand.  Each  *)
(* operator gives the fields, or the head, after the assignments.  The   *)
(* OneWay operators are mutants: each forgets the neighbour's link.        *)
(***************************************************************************)
CONSTANT NULL

\* t is put before the head h, as register and finished do; they then make
\* it the head.
NextInsertedOneWay(n, p, t, h) == IF h = NULL THEN [n EXCEPT ![t] = t] ELSE [n EXCEPT ![t] = h]
NextInserted(n, p, t, h) ==
    IF h = NULL THEN [n EXCEPT ![t] = t] ELSE [n EXCEPT ![t] = h, ![p[h]] = t]
PrevInserted(n, p, t, h) ==
    IF h = NULL THEN [p EXCEPT ![t] = t] ELSE [p EXCEPT ![t] = p[h], ![h] = t]

\* The head after t is taken out of the list of h.
HeadWithout(n, t, h) == IF h # t THEN h ELSE IF n[t] = t THEN NULL ELSE n[t]

\* The links after unregister takes t out.
NextUnlinkedOneWay(n, p, t) == [n EXCEPT ![t] = NULL]
NextUnlinked(n, p, t) == [n EXCEPT ![p[t]] = n[t], ![t] = NULL]
PrevUnlinkedOneWay(n, p, t) == [p EXCEPT ![t] = NULL]
PrevUnlinked(n, p, t) == [p EXCEPT ![n[t]] = p[t], ![t] = NULL]

\* dispose relinks a neighbour only where that neighbour points back to t; it
\* assigns the prev fields first and reads them again for the next fields.
PrevRelinked(n, p, t) ==
    IF n[t] # NULL /\ p[n[t]] = t THEN [p EXCEPT ![n[t]] = p[t]] ELSE p
NextDisposed(n, p, t) ==
    LET q == PrevRelinked(n, p, t)
    IN IF q[t] # NULL /\ n[q[t]] = t THEN [n EXCEPT ![q[t]] = n[t], ![t] = NULL]
       ELSE [n EXCEPT ![t] = NULL]
PrevDisposed(n, p, t) == [PrevRelinked(n, p, t) EXCEPT ![t] = NULL]

\* The records a walk along n from h visits: those in every set of records
\* that contains h and that n does not lead out of.
Visited(n, h) ==
    {t \in DOMAIN n :
        /\ h # NULL
        /\ \A S \in SUBSET DOMAIN n :
              h \in S /\ (\A s \in S : n[s] \in S \union {NULL}) => t \in S}

\* The list of h is one ring, in both directions, of exactly the records M.
RingOf(n, p, h, M) ==
    /\ IF h = NULL THEN M = {} ELSE h \in M
    /\ \A t \in M : /\ n[t] \in M /\ p[t] \in M
                    /\ p[n[t]] = t /\ n[p[t]] = t
    /\ \A S \in SUBSET M : h \in S /\ (\A s \in S : n[s] \in S) => S = M
=============================================================================
