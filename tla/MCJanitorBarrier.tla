-------------------------- MODULE MCJanitorBarrier --------------------------
(* The instance of JanitorBarrier for four processes.                      *)
EXTENDS JanitorBarrier
=============================================================================
