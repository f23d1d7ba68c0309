--------------------------- MODULE MCJanitorDump ---------------------------
(* Instances of JanitorDump.  A run begins at Init, or at a moment when the *)
(* threads of Running have been created in the order t1, t2, t3 and run,    *)
(* no other exists, and the clients are idle.                               *)
EXTENDS JanitorDump, Sequences

CONSTANTS t1, t2, t3, work, background, Running

OneClass == [t \in Thread |-> work]
Kinds    == [OneClass EXCEPT ![t1] = background, ![t3] = NULL]

\* The last thread to be registered is the head of the list.
OnList == SelectSeq(<<t3, t2, t1>>, LAMBDA t : t \in Running)
After(i) == OnList[(i % Len(OnList)) + 1]
At(t) == CHOOSE i \in 1..Len(OnList) : OnList[i] = t

RunningInit ==
    /\ NoDump
    /\ threadlock = NULL
    /\ threadlist = OnList[1]
    /\ finishedthreadlist = NULL
    /\ next = [t \in Thread |-> IF t \in Running THEN After(At(t)) ELSE NULL]
    /\ prev = [t \in Thread |-> IF t \in Running
                                THEN CHOOSE u \in Running : next[u] = t ELSE NULL]
    /\ isstarted = Running
    /\ arrived = [t \in Thread |-> {}]
    /\ leaving = [t \in Thread |-> {}]
    /\ keyready = TRUE
    /\ located = Running
    /\ freed = {}
    /\ crashed = FALSE
    /\ pc = [p \in Process |-> IF p \in Running THEN "run" ELSE
                              IF p \in Thread THEN "none" ELSE "idle"]
    /\ call = [c \in Client |-> "none"]
    /\ target = [c \in Client |-> NULL]
    /\ wanted = [c \in Client |-> NULL]

RunningSpec == RunningInit /\ [][DumpNext]_dvars
FairDumpSpec == DumpSpec /\ DumpFairness
=============================================================================
