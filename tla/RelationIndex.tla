--------------------------- MODULE RelationIndex ---------------------------
(***************************************************************************)
(* What the master and link relations of interfaces promise (master.h,     *)
(* if.h): every interface has at most one parent per relation, and every   *)
(* interface keeps, per relation, the list of the interfaces it is the     *)
(* parent of, in the order in which they were attached.                    *)
(***************************************************************************)
EXTENDS Naturals, Sequences, SequencesExt

CONSTANTS Ifs, Kinds, NULL

VARIABLES
    parent,     \* parent[k][e]: the master or link of e, or NULL
    children    \* children[k][p]: the interfaces whose parent is p

vars == <<parent, children>>

Init ==
    /\ parent = [k \in Kinds |-> [e \in Ifs |-> NULL]]
    /\ children = [k \in Kinds |-> [e \in Ifs |-> <<>>]]

Without(s, e) ==
    IF \E i \in DOMAIN s : s[i] = e THEN RemoveAt(s, CHOOSE i \in DOMAIN s : s[i] = e) ELSE s

Detached(k, e) == [p \in Ifs |-> Without(children[k][p], e)]

Attach(k, p, e) ==
    /\ parent' = [parent EXCEPT ![k][e] = p]
    /\ children' = [children EXCEPT ![k] =
            [q \in Ifs |-> IF q = p THEN Append(Detached(k, e)[q], e)
                                    ELSE Detached(k, e)[q]]]

Next == \E k \in Kinds, p \in Ifs \union {NULL}, e \in Ifs : Attach(k, p, e)

Spec == Init /\ [][Next]_vars

\* A parent has exactly the interfaces that point to it as children, each once.
OnceUnderParent ==
    \A k \in Kinds, p \in Ifs :
        /\ ToSet(children[k][p]) = {e \in Ifs : parent[k][e] = p}
        /\ IsInjective(children[k][p])
=============================================================================
