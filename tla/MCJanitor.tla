------------------------------ MODULE MCJanitor ------------------------------
(* Instances of Janitor: which class each thread is created with.          *)
EXTENDS Janitor, TLC

CONSTANTS t1, t2, t3, work, background

\* All threads are of one joinable class; t1 is of a detached, autorun class;
\* t1 is of the default class and t2 detached.
OneClass == [t \in Thread |-> work]
Mixed    == [OneClass EXCEPT ![t1] = background]
AllKinds == [OneClass EXCEPT ![t1] = NULL, ![t2] = background]

\* The clients run the same code, and no property singles one out.
ClientSymmetry == Permutations(Client)
=============================================================================
