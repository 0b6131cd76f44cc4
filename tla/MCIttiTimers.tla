---------------------------- MODULE MCIttiTimers ----------------------------
(* The timers of itti_mw for the model checker.                            *)
EXTENDS IttiTimers, TLC

\* Tasks do not tell each other apart.
ClientSymmetry == Permutations(Clients)
=============================================================================
