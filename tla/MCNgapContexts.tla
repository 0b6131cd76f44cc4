--------------------------- MODULE MCNgapContexts ---------------------------
(* Values of the constants of NgapContexts for the model checker.          *)
EXTENDS NgapContexts

\* Two gNBs that hand out different RAN UE NGAP IDs.
MCDisjointRan == [a \in Assocs |-> {a}]
=============================================================================
