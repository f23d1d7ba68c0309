---------------------------- MODULE NativeBarrier ----------------------------
(***************************************************************************)
(* What janitor.c expects of a pthread barrier it uses for one crossing:   *)
(* everybody waits until the last one has come, one of them is told that   *)
(* it is the serial thread, and each goes its way when it is scheduled.    *)
(***************************************************************************)
CONSTANT Party

VARIABLES present,    \* have called pthread_barrier_wait
          serial,     \* have returned with PTHREAD_BARRIER_SERIAL_THREAD
          through     \* have returned with 0

bvars == <<present, serial, through>>

BInit == present = {} /\ serial = {} /\ through = {}

Come(p) == /\ p \notin present
           /\ present' = present \union {p}
           /\ UNCHANGED <<serial, through>>

\* The last one comes, and need not wait.
ComeLast(p) == /\ p \notin present
               /\ present \union {p} = Party
               /\ present' = Party
               /\ serial' = {p}
               /\ UNCHANGED through

Go(p) == /\ present = Party
         /\ p \in present \ (serial \union through)
         /\ through' = through \union {p}
         /\ UNCHANGED <<present, serial>>

BNext == \E p \in Party : Come(p) \/ ComeLast(p) \/ Go(p)

BSpec == BInit /\ [][BNext]_bvars
=============================================================================
