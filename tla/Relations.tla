----------------------------- MODULE Relations -----------------------------
(***************************************************************************)
(* The relations between interfaces as the program stores them (master.c   *)
(* and list.h): intrusive doubly linked lists with a head and a tail       *)
(* sentinel, whose nodes are embedded in the interface entries.            *)
(*                                                                         *)
(* An entry e embeds one node per relation k, and owns one list per        *)
(* relation.  Pointers are values of Node or NULL; the assignments of a    *)
(* list operation are applied one after the other, in the code's order.    *)
(***************************************************************************)
EXTENDS Integers, Sequences, SequencesExt, FiniteSets

CONSTANTS
    Ifs,        \* interface entries
    NULL

ASSUME NullAssumption == NULL \notin Ifs
ASSUME FiniteAssumption == IsFiniteSet(Ifs)

Kinds == {"master", "link"}

node(e) == <<"node", e>>
head(e) == <<"head", e>>
tail(e) == <<"tail", e>>
Node == {"node", "head", "tail"} \X Ifs

ASSUME NullNodeAssumption == NULL \notin Node

VARIABLES
    parent,     \* parent[k][e]: e->master or e->link
    next,       \* next[k][n] and prev[k][n]: the pointers of a struct node
    prev

vars == <<parent, next, prev>>

\* if_create: entries are zeroed, then list_init on each list
Init ==
    /\ parent = [k \in Kinds |-> [e \in Ifs |-> NULL]]
    /\ next = [k \in Kinds |->
                 [n \in Node |-> IF n[1] = "head" THEN tail(n[2]) ELSE NULL]]
    /\ prev = [k \in Kinds |->
                 [n \in Node |-> IF n[1] = "tail" THEN head(n[2]) ELSE NULL]]

-----------------------------------------------------------------------------
(* list.h, on the pointers l.next and l.prev of one relation *)

list_insert_before(l, before, n) ==
    LET a == l.prev[before]
    IN  [prev |-> [l.prev EXCEPT ![before] = n, ![n] = a],
         next |-> [l.next EXCEPT ![n] = before, ![a] = n]]

\* Mutant: list_prepend.
list_appendMutant(l, p, n) ==
    list_insert_before(l, l.next[head(p)], n)

list_append(l, p, n) == list_insert_before(l, tail(p), n)

\* Mutant: the predecessor keeps pointing to the removed node.
node_removeMutant(l, n) ==
    [next |-> [l.next EXCEPT ![n] = NULL],
     prev |-> [l.prev EXCEPT ![l.next[n]] = l.prev[n], ![n] = NULL]]

node_remove(l, n) ==
    [next |-> [l.next EXCEPT ![l.prev[n]] = l.next[n], ![n] = NULL],
     prev |-> [l.prev EXCEPT ![l.next[n]] = l.prev[n], ![n] = NULL]]

-----------------------------------------------------------------------------
(* master_set and link_set: the same steps on their own lists *)

\* Mutant: the old list is not left.
RemovedMutant(k, e) == [next |-> next[k], prev |-> prev[k]]

Removed(k, e) ==
    LET l == [next |-> next[k], prev |-> prev[k]]
    IN  IF parent[k][e] # NULL THEN node_remove(l, node(e)) ELSE l

Reparent(k, p, e) ==
    LET l == Removed(k, e)
        m == IF p # NULL THEN list_append(l, p, node(e)) ELSE l
    IN  /\ parent' = [parent EXCEPT ![k][e] = p]
        /\ next' = [next EXCEPT ![k] = m.next]
        /\ prev' = [prev EXCEPT ![k] = m.prev]

master_set(master, e) == Reparent("master", master, e)

\* link_set(link, NULL) returns at once
link_set(link, e) == Reparent("link", link, e)

Next ==
    \/ \E p \in Ifs \union {NULL}, e \in Ifs : master_set(p, e)
    \/ \E p \in Ifs \union {NULL}, e \in Ifs : link_set(p, e)

Spec == Init /\ [][Next]_vars

-----------------------------------------------------------------------------
TypeOK ==
    /\ parent \in [Kinds -> [Ifs -> Ifs \union {NULL}]]
    /\ next \in [Kinds -> [Node -> Node \union {NULL}]]
    /\ prev \in [Kinds -> [Node -> Node \union {NULL}]]

\* No pointer dangles and both directions agree: following next and then prev
\* leads back, sentinels stay at the ends, and an entry's node is in a list
\* exactly when the entry has a parent, so that node_remove never meets a NULL
\* neighbour (list.h:100-134, master.c:29-33).
WellLinked ==
    \A k \in Kinds :
        /\ \A n \in Node :
              /\ next[k][n] # NULL => prev[k][next[k][n]] = n
              /\ prev[k][n] # NULL => next[k][prev[k][n]] = n
        /\ \A e \in Ifs :
              /\ next[k][head(e)] # NULL /\ prev[k][head(e)] = NULL
              /\ prev[k][tail(e)] # NULL /\ next[k][tail(e)] = NULL
              /\ (next[k][node(e)] # NULL) <=> (parent[k][e] # NULL)
              /\ (prev[k][node(e)] # NULL) <=> (parent[k][e] # NULL)

\* The interface a node belongs to the list of.
Owner(k, n) == IF n[1] = "node" THEN parent[k][n[2]] ELSE n[2]

\* Walking a list never leads into another one: every entry met in p's list
\* has p as its parent, so that bond_post and team_post only touch slaves of
\* the master in hand (master.c:29-33, bond.c:156, team.c:312).
OwnLists ==
    \A k \in Kinds : \A n \in Node :
        next[k][n] # NULL => Owner(k, next[k][n]) = Owner(k, n)

-----------------------------------------------------------------------------
(* What list_for_each_member sees *)

\* The i-th node of a walk of p's list that meets the entries of s
NodeAt(p, s, i) == IF i = 0 THEN head(p) ELSE node(s[i])

\* list_for_each_member: from the head from node to node; the bound ends the
\* walk of a corrupted list.
Walks(nx, p, s) ==
    /\ \A i \in DOMAIN s : nx[NodeAt(p, s, i - 1)] = node(s[i])
    /\ Len(s) = Cardinality(Ifs) \/ nx[NodeAt(p, s, Len(s))] \notin {node(e) : e \in Ifs}

Walk(nx, p) == CHOOSE s \in BoundedSeq(Ifs, Cardinality(Ifs)) : Walks(nx, p, s)

Children == [k \in Kinds |-> [p \in Ifs |-> Walk(next[k], p)]]

Index == INSTANCE RelationIndex WITH children <- Children

\* A walk meets every entry that has the interface in hand as its parent, and
\* each once, so that no slave is left out or marked twice (bond.c:156,
\* team.c:312, list.h:64-67).
EachChildOnce == Index!OnceUnderParent

\* The pointer lists implement the abstract relation index: master_set and
\* link_set move one interface to the end of its new parent's list and disturb
\* no other list and no order (master.c:27-50, list.h:100-134).
ImplementsIndex == Index!Spec
=============================================================================
