------------------------------ MODULE MCMatch ------------------------------
(* Every search of at most N interfaces in MaxNs namespaces.  -1 is a       *)
(* failing callback; 1 and 2 are the weights master.c uses.                 *)
EXTENDS Match

MCWeights == {-1, 0, 1, 2}
=============================================================================
