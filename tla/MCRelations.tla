---------------------------- MODULE MCRelations ----------------------------
(* Three interfaces: a list has a first, a middle and a last entry, and two *)
(* of them may change places between the lists of all.                      *)
EXTENDS Relations

Entries == 1..3
=============================================================================
