----------------------------- MODULE MCTopology -----------------------------
(* Three interfaces in two namespaces, with indices that occur in both.      *)
EXTENDS Diagram

MCNss == {1, 2}
MCIndices == {1, 2}
=============================================================================
