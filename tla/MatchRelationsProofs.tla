------------------------ MODULE MatchRelationsProofs ------------------------
(***************************************************************************)
(* The two helpers all handlers are built on: the search for an interface  *)
(* (Match) and the lists that hold what it found (Relations).              *)
(*                                                                         *)
(* match_if finds the first heaviest interface and counts its ties, for    *)
(* every number of interfaces and namespaces and every callback.  The loop *)
(* invariant is the result restated for the interfaces visited so far;     *)
(* count is their cardinality, which is why finite-set theorems come in.   *)
(* While best is 0 the code counts the zero weights too: the invariant     *)
(* says nothing of count then.                                             *)
(*                                                                         *)
(* The pointer lists behind master and link stay well linked, and no list  *)
(* ever holds an entry of another parent, for any number of interfaces.    *)
(*                                                                         *)
(* The argument is about one relation at a time: ListOK is the invariant   *)
(* of its pointers, which removal and appending each preserve.  Removal    *)
(* alone leaves the entry without a parent, so ListOK takes the parents as *)
(* an argument and the intermediate state is covered too.                  *)
(*                                                                         *)
(* That the lists implement RelationIndex is a statement about walks, of   *)
(* any length.  The one induction is WalkIsList: a sequence that leads     *)
(* from the head to the tail is what a walk sees.  Indexed says that there *)
(* is such a sequence for every list, without repetitions and with exactly *)
(* the children; removal and appending change these sequences as Attach    *)
(* does, and the nodes in question are in no other list (MetOnce).         *)
(***************************************************************************)
EXTENDS Match, Relations, FiniteSetTheorems, SequenceTheorems, WellFoundedInduction, TLAPS

(* The search *)

Visited == {i \in Entries : i < cur /\ i # exclude}
Tied == {i \in Visited : weight[i] = best}

HeuristicLoop ==
    mode = "heuristic" =>
        /\ \A i \in Visited : weight[i] <= best
        /\ best > 0 =>
              /\ found \in Tied
              /\ \A i \in Tied : found <= i
              /\ count = Cardinality(Tied)

\* After a match in mode "first" the search goes on in another namespace.
FirstLoop ==
    (mode = "first" /\ found # 0) =>
        found \in Entries /\ \A k \in Entries : k >= cur => ns[k] # ns[found]

NsSorted == \A i, j \in Entries : i < j => ns[i] <= ns[j]

MatchIInv == MatchTypeOK /\ NsSorted /\ HeuristicLoop /\ FirstLoop

USE SizeAssumption

\* Callbacks return integers.
LEMMA WeightInt == ASSUME MatchTypeOK, NEW i \in Entries PROVE weight[i] \in Int
  BY WeightAssumption DEF MatchTypeOK

\* The entries up to the end of a namespace, as the early return skips them.
LEMMA AfterBetterSkips ==
    ASSUME MatchIInv, Visiting, mode = "first"
    PROVE  /\ AfterBetter(cur) \in 1..(N + 1)
           /\ \A k \in Entries : k >= AfterBetter(cur) => ns[k] # ns[cur]
<1>. DEFINE S == {k \in Entries : ns[k] <= ns[cur]}
<1>1. IsFiniteSet(Entries) /\ Cardinality(Entries) = N
  BY FS_Interval DEF Entries
<1>2. IsFiniteSet(S) /\ Cardinality(S) <= N /\ Cardinality(S) \in Nat
  BY <1>1, FS_Subset, FS_CardinalityType
<1>3. AfterBetter(cur) = Cardinality(S) + 1
  BY DEF AfterBetter
<1>4. ASSUME NEW k \in Entries, k >= Cardinality(S) + 1, ns[k] = ns[cur] PROVE FALSE
  <2>1. cur \in Entries /\ k \in Nat /\ ns \in [Entries -> 1..MaxNs]
    BY DEF Entries, Visiting, MatchIInv, MatchTypeOK
  <2>2. 1..k \subseteq S
    <3>. SUFFICES ASSUME NEW i \in 1..k PROVE i \in S
      OBVIOUS
    <3>1. i \in Entries
      BY <2>1 DEF Entries
    <3>2. i = k \/ ns[i] <= ns[k]
      BY <2>1, <3>1 DEF MatchIInv, NsSorted
    <3>3. ns[i] <= ns[cur]
      BY <1>4, <2>1, <3>1, <3>2
    <3>. QED
      BY <3>1, <3>3
  <2>3. Cardinality(1..k) = k
    <3>1. k \in Int /\ ~(1 > k) /\ k - 1 + 1 = k
      BY <2>1 DEF Entries
    <3>2. Cardinality(1..k) = IF 1 > k THEN 0 ELSE k - 1 + 1
      BY <3>1, FS_Interval
    <3>. QED
      BY <3>1, <3>2
  <2>4. k <= Cardinality(S)
    <3>. HIDE DEF S
    <3>1. (1..k) \in SUBSET S
      BY <2>2
    <3>2. Cardinality(1..k) <= Cardinality(S)
      BY <1>2, <3>1, FS_Subset
    <3>. QED
      BY <2>3, <3>2
  <2>. QED
    BY <1>2, <1>4, <2>1, <2>4
<1>. HIDE DEF S
<1>. QED
  BY <1>2, <1>3, <1>4

\* What a visit adds to the visited interfaces.
LEMMA VisitNext ==
    ASSUME MatchTypeOK, Visiting, cur' = cur + 1, UNCHANGED exclude
    PROVE  Visited' = IF cur = exclude THEN Visited ELSE Visited \union {cur}
  BY DEF Visited, Visiting, Entries, MatchTypeOK

\* The ties among the visited interfaces are finitely many.
LEMMA TiedFinite == ASSUME MatchTypeOK PROVE IsFiniteSet(Tied)
<1>1. IsFiniteSet(Entries)
  BY FS_Interval DEF Entries
<1>. QED
  BY <1>1, FS_Subset DEF Tied, Visited

\* The invariant holds before the first interface is compared.
LEMMA MatchInitIInv == MatchInit => MatchIInv
<1>. SUFFICES ASSUME MatchInit PROVE MatchIInv
  OBVIOUS
<1>1. MatchTypeOK /\ NsSorted
  BY DEF MatchInit, MatchTypeOK, NsSorted
<1>2. HeuristicLoop /\ FirstLoop
  BY DEF MatchInit, HeuristicLoop, FirstLoop, Visited, Entries
<1>. QED
  BY <1>1, <1>2 DEF MatchIInv

\* Every visit keeps the loop invariant.
LEMMA MatchNextIInv == MatchIInv /\ [MatchNext]_matchVars => MatchIInv'
<1>. SUFFICES ASSUME MatchIInv, [MatchNext]_matchVars PROVE MatchIInv'
  OBVIOUS
<1>. USE DEF MatchIInv
<1>1. CASE Exclude
  <2>1. MatchTypeOK' /\ NsSorted'
    BY <1>1 DEF Exclude, MatchTypeOK, NsSorted, inputs, Visiting, Entries
  <2>2. Visited' = Visited /\ Tied' = Tied
    BY <1>1, VisitNext DEF Exclude, inputs, Tied
  <2>3. HeuristicLoop'
    BY <1>1, <2>2 DEF Exclude, inputs, HeuristicLoop
  <2>4. FirstLoop'
    BY <1>1 DEF Exclude, inputs, FirstLoop, MatchTypeOK, Entries
  <2>. QED
    BY <2>1, <2>3, <2>4
<1>2. CASE CallbackFails
  <2>1. weight[cur] \in Int /\ weight[cur] < 0
    BY <1>2, WeightInt DEF CallbackFails, Visiting
  <2>. DEFINE w == weight[cur]
  <2>. HIDE DEF w
  <2>4. ErrorOf(w) \in Nat
    BY <2>1 DEF ErrorOf, w
  <2>2. MatchTypeOK' /\ NsSorted'
    BY <1>2, <2>4 DEF CallbackFails, MatchTypeOK, NsSorted, inputs, w
  <2>3. HeuristicLoop' /\ FirstLoop'
    BY <1>2 DEF CallbackFails, inputs, HeuristicLoop, FirstLoop, Visited, Tied
  <2>. QED
    BY <2>2, <2>3
<1>3. CASE Better
  <2>0. cur \in Entries /\ weight[cur] \in Nat /\ weight[cur] > best /\ weight[cur] > 0
    BY <1>3, WeightInt DEF Better, Weighs, Visiting, Improves, MatchTypeOK
  <2>1. cur' \in 1..(N + 1) /\ (mode # "first" => cur' = cur + 1)
    BY <1>3, <2>0, AfterBetterSkips DEF Better, Weighs, AfterBetter, MatchTypeOK, Entries
  <2>2. MatchTypeOK' /\ NsSorted'
    BY <1>3, <2>0, <2>1 DEF Better, MatchTypeOK, NsSorted, inputs, Entries
  <2>3. HeuristicLoop'
    <3>. SUFFICES ASSUME mode = "heuristic" PROVE HeuristicLoop'
      BY <1>3 DEF HeuristicLoop, Better, inputs
    <3>0. \A i \in Visited : i < cur /\ i \in Int
      BY DEF Visited, Entries
    <3>1. Visited' = Visited \union {cur} /\ cur \notin Visited
      BY <1>3, <2>0, <2>1, <3>0, VisitNext DEF Better, Weighs, inputs, Entries
    <3>2. \A i \in Visited : weight[i] <= best /\ weight[i] \in Int
      BY WeightInt DEF HeuristicLoop, Visited
    <3>3. Tied' = {cur}
      BY <1>3, <2>0, <3>1, <3>2 DEF Better, Tied, inputs, MatchTypeOK
    <3>4. Cardinality({cur}) = 1
      BY FS_Singleton
    <3>5. \A i \in Visited' : weight'[i] <= best'
      BY <1>3, <2>0, <3>1, <3>2 DEF Better, inputs, MatchTypeOK
    <3>. QED
      BY <1>3, <2>0, <3>3, <3>4, <3>5 DEF Better, HeuristicLoop, Entries
  <2>4. FirstLoop'
    BY <1>3, <2>0, AfterBetterSkips DEF FirstLoop, Better, Weighs, inputs
  <2>. QED
    BY <2>2, <2>3, <2>4
<1>4. CASE NotBetter
  <2>0. cur \in Entries /\ weight[cur] \in Int /\ weight[cur] <= best /\ cur # exclude
    BY <1>4, WeightInt DEF NotBetter, Weighs, Visiting, Improves, MatchTypeOK
  <2>1. MatchTypeOK' /\ NsSorted'
    BY <1>4, <2>0 DEF NotBetter, MatchTypeOK, NsSorted, inputs, Entries
  <2>2. HeuristicLoop'
    <3>. SUFFICES ASSUME mode = "heuristic" PROVE HeuristicLoop'
      BY <1>4 DEF HeuristicLoop, NotBetter, inputs
    <3>0. \A i \in Visited : i < cur /\ i \in Int
      BY DEF Visited, Entries
    <3>1. Visited' = Visited \union {cur} /\ cur \notin Visited /\ \A i \in Visited : i < cur
      BY <1>4, <2>0, <3>0, VisitNext DEF NotBetter, Weighs, inputs, Entries
    <3>2. \A i \in Visited' : weight'[i] <= best'
      BY <1>4, <2>0, <3>1 DEF NotBetter, inputs, HeuristicLoop
    <3>3. CASE weight[cur] = best
      <4>1. Tied' = Tied \union {cur} /\ cur \notin Tied
        BY <1>4, <3>1, <3>3 DEF NotBetter, inputs, Tied
      <4>2. Cardinality(Tied') = Cardinality(Tied) + 1
        BY <4>1, TiedFinite, FS_AddElement
      <4>3. best > 0 => found \in Tied' /\ \A i \in Tied' : found <= i
        BY <3>1, <4>1 DEF HeuristicLoop, Tied, Visited, Entries
      <4>. QED
        BY <1>4, <3>2, <3>3, <4>2, <4>3 DEF NotBetter, HeuristicLoop
    <3>4. CASE weight[cur] # best
      <4>1. Tied' = Tied
        BY <1>4, <3>1, <3>4 DEF NotBetter, inputs, Tied
      <4>. QED
        BY <1>4, <3>2, <3>4, <4>1 DEF NotBetter, HeuristicLoop
    <3>. QED
      BY <3>3, <3>4
  <2>3. FirstLoop'
    BY <1>4, <2>0 DEF FirstLoop, NotBetter, inputs, MatchTypeOK, Entries
  <2>. QED
    BY <2>1, <2>2, <2>3
<1>5. CASE UNCHANGED matchVars
  BY <1>5 DEF matchVars, MatchTypeOK, NsSorted, HeuristicLoop, FirstLoop, Visited, Tied
<1>. QED
  BY <1>1, <1>2, <1>3, <1>4, <1>5 DEF MatchNext

\* The loop invariant holds in every reachable state.
LEMMA MatchInvariance == MatchSpec => []MatchIInv
  BY MatchInitIInv, MatchNextIInv, PTL DEF MatchSpec

\* At the end of the loops the invariant is the promised result.
LEMMA MatchIInvFinds == MatchIInv => FindsFirstHeaviest
<1>. SUFFICES ASSUME MatchIInv, Done, err = 0, mode = "heuristic"
              PROVE  /\ (match_found = 0) <=> (Heaviest = {})
                     /\ match_found # 0 =>
                           /\ match_found \in Heaviest
                           /\ \A i \in Heaviest : match_found <= i
                     /\ match_ambiguous <=> (Cardinality(Heaviest) > 1)
  BY DEF FindsFirstHeaviest
<1>1. Visited = {i \in Entries : i # exclude} /\ \A i \in Visited : weight[i] \in Int
  <2>1. cur = N + 1
    BY DEF Done, Visiting, Entries, MatchIInv, MatchTypeOK
  <2>2. \A i \in Entries : i < cur
    BY <2>1 DEF Entries
  <2>. QED
    BY <2>2, WeightInt DEF Visited, MatchIInv
<1>2. CASE best > 0
  <2>1. found \in Tied /\ found # 0 /\ count = Cardinality(Tied) /\ (\A i \in Tied : found <= i)
    BY <1>2 DEF MatchIInv, HeuristicLoop, Tied, Visited, Entries
  <2>2. Heaviest = Tied
    <3>1. \A i \in Visited : weight[i] <= best
      BY DEF MatchIInv, HeuristicLoop
    <3>2. Candidates = {i \in Visited : weight[i] > 0} /\ Tied \subseteq Candidates
      BY <1>1, <1>2 DEF Candidates, Tied
    <3>3. Tied \subseteq Heaviest
      BY <3>1, <3>2 DEF Heaviest, Tied
    <3>4. ASSUME NEW i \in Heaviest PROVE i \in Tied
      <4>1. i \in Visited /\ weight[found] <= weight[i] /\ weight[found] = best
        BY <2>1, <3>2, <3>4 DEF Heaviest, Tied
      <4>2. weight[i] = best
        BY <1>1, <3>1, <4>1 DEF MatchIInv, MatchTypeOK
      <4>. QED
        BY <4>1, <4>2 DEF Tied
    <3>. QED
      BY <3>3, <3>4
  <2>. QED
    BY <1>2, <2>1, <2>2 DEF match_found, match_ambiguous
<1>3. CASE ~(best > 0)
  <2>1. Candidates = {}
    BY <1>1, <1>3 DEF Candidates, MatchIInv, HeuristicLoop, MatchTypeOK
  <2>2. Heaviest = {} /\ Cardinality(Heaviest) = 0
    BY <2>1, FS_EmptySet DEF Heaviest
  <2>. QED
    BY <1>3, <2>2 DEF match_found, match_ambiguous
<1>. QED
  BY <1>2, <1>3

\* The search descriptor keeps its types; errors are returned positive.
THEOREM MatchType == MatchSpec => []MatchTypeOK
<1>1. MatchIInv => MatchTypeOK
  BY DEF MatchIInv
<1>. QED
  BY <1>1, MatchInvariance, PTL

\* For every set of interfaces and every callback: the first heaviest
\* interface is found and ambiguity is reported exactly (match.c:28-42).
THEOREM MatchCorrect == MatchSpec => []FindsFirstHeaviest
  BY MatchIInvFinds, MatchInvariance, PTL

\* In mode MM_FIRST one namespace never gives two results (match.c:38-39).
THEOREM MatchFirst == MatchSpec => FirstOfItsNamespace
<1>1. MatchIInv /\ [MatchNext]_matchVars =>
        [(mode = "first" /\ found # 0 /\ found' # found) => ns[found'] # ns[found]]_matchVars
  <2>. SUFFICES ASSUME MatchIInv, MatchNext, mode = "first", found # 0, found' # found
                PROVE  ns[found'] # ns[found]
    BY DEF matchVars
  <2>1. Better
    BY DEF MatchNext, Exclude, CallbackFails, NotBetter
  <2>. QED
    BY <2>1 DEF Better, Weighs, Visiting, MatchIInv, FirstLoop, MatchTypeOK, Entries
<1>. QED
  BY <1>1, MatchInvariance, PTL DEF MatchSpec, FirstOfItsNamespace

HIDE SizeAssumption

-----------------------------------------------------------------------------
(* The lists *)

\* The owner of a list node, given the parents of one relation.
OwnerIn(par, n) == IF n[1] = "node" THEN par[n[2]] ELSE n[2]

PointersOK(nx, pv) ==
    /\ nx \in [Node -> Node \union {NULL}]
    /\ pv \in [Node -> Node \union {NULL}]
    /\ \A n \in Node :
          /\ nx[n] # NULL => pv[nx[n]] = n
          /\ pv[n] # NULL => nx[pv[n]] = n

EndsOK(nx, pv, par) ==
    \A e \in Ifs :
        /\ nx[head(e)] # NULL /\ pv[head(e)] = NULL
        /\ pv[tail(e)] # NULL /\ nx[tail(e)] = NULL
        /\ (nx[node(e)] # NULL) <=> (par[e] # NULL)
        /\ (pv[node(e)] # NULL) <=> (par[e] # NULL)

OwnOK(nx, par) == \A n \in Node : nx[n] # NULL => OwnerIn(par, nx[n]) = OwnerIn(par, n)

ListOK(nx, pv, par) ==
    /\ par \in [Ifs -> Ifs \union {NULL}]
    /\ PointersOK(nx, pv)
    /\ EndsOK(nx, pv, par)
    /\ OwnOK(nx, par)

USE NullAssumption, NullNodeAssumption

\* Nodes and sentinels are all different.
LEMMA NodeFacts ==
    ASSUME NEW e \in Ifs
    PROVE  /\ node(e) \in Node /\ head(e) \in Node /\ tail(e) \in Node
           /\ node(e)[1] = "node" /\ head(e)[1] = "head" /\ tail(e)[1] = "tail"
           /\ node(e)[2] = e /\ head(e)[2] = e /\ tail(e)[2] = e
           /\ \A f \in Ifs : /\ node(e) # head(f) /\ node(e) # tail(f) /\ head(e) # tail(f)
                             /\ node(e) = node(f) => e = f
                             /\ head(e) = head(f) => e = f
                             /\ tail(e) = tail(f) => e = f
  BY DEF node, head, tail, Node

\* Every node is of one of the three sorts.
LEMMA NodeCases ==
    ASSUME NEW n \in Node
    PROVE  n[2] \in Ifs /\ (n = node(n[2]) \/ n = head(n[2]) \/ n = tail(n[2]))
  BY DEF node, head, tail, Node

\* node_remove takes an entry out of its list and leaves the others intact.
LEMMA RemoveOK ==
    ASSUME NEW nx, NEW pv, NEW par, ListOK(nx, pv, par), NEW e \in Ifs, par[e] # NULL,
           NEW l, l = node_remove([next |-> nx, prev |-> pv], node(e))
    PROVE  ListOK(l.next, l.prev, [par EXCEPT ![e] = NULL])
<1>. DEFINE n == node(e)
            z == pv[n]
            a == nx[n]
            nx1 == [nx EXCEPT ![z] = a, ![n] = NULL]
            pv1 == [pv EXCEPT ![a] = z, ![n] = NULL]
            par1 == [par EXCEPT ![e] = NULL]
<1>1. l.next = nx1 /\ l.prev = pv1
  BY DEF node_remove
<1>2. /\ n \in Node /\ z \in Node /\ a \in Node
      /\ nx[z] = n /\ pv[a] = n
      /\ nx \in [Node -> Node \union {NULL}] /\ pv \in [Node -> Node \union {NULL}]
  BY NodeFacts DEF ListOK, PointersOK, EndsOK
<1>3. PointersOK(nx1, pv1)
  <2>1. nx1 \in [Node -> Node \union {NULL}] /\ pv1 \in [Node -> Node \union {NULL}]
    BY <1>2
  <2>. HIDE DEF n, z, a
  <2>2. ASSUME NEW m \in Node, nx1[m] # NULL PROVE pv1[nx1[m]] = m
    BY <1>2, <2>2 DEF ListOK, PointersOK
  <2>3. ASSUME NEW m \in Node, pv1[m] # NULL PROVE nx1[pv1[m]] = m
    BY <1>2, <2>3 DEF ListOK, PointersOK
  <2>. QED
    BY <2>1, <2>2, <2>3 DEF PointersOK
<1>4. EndsOK(nx1, pv1, par1)
  <2>. SUFFICES ASSUME NEW f \in Ifs
       PROVE  /\ nx1[head(f)] # NULL /\ pv1[head(f)] = NULL
              /\ pv1[tail(f)] # NULL /\ nx1[tail(f)] = NULL
              /\ (nx1[node(f)] # NULL) <=> (par1[f] # NULL)
              /\ (pv1[node(f)] # NULL) <=> (par1[f] # NULL)
    BY DEF EndsOK
  <2>0. /\ nx[head(f)] # NULL /\ pv[head(f)] = NULL
        /\ pv[tail(f)] # NULL /\ nx[tail(f)] = NULL
        /\ (nx[node(f)] # NULL) <=> (par[f] # NULL)
        /\ (pv[node(f)] # NULL) <=> (par[f] # NULL)
    BY DEF ListOK, EndsOK
  <2>1. \A m \in Node : m # n => (nx1[m] = NULL <=> nx[m] = NULL) /\ (pv1[m] = NULL <=> pv[m] = NULL)
    BY <1>2
  <2>2. nx1[n] = NULL /\ pv1[n] = NULL
    BY <1>2
  <2>3. par1[e] = NULL /\ \A g \in Ifs : g # e => par1[g] = par[g]
    BY DEF ListOK
  <2>4. head(f) \in Node /\ tail(f) \in Node /\ node(f) \in Node /\ head(f) # n /\ tail(f) # n
        /\ (f # e => node(f) # n) /\ (f = e => node(f) = n)
    BY NodeFacts
  <2>. HIDE DEF nx1, pv1, par1, n
  <2>. QED
    BY <2>0, <2>1, <2>2, <2>3, <2>4
<1>5. OwnOK(nx1, par1)
  <2>. SUFFICES ASSUME NEW m \in Node, nx1[m] # NULL
                PROVE  OwnerIn(par1, nx1[m]) = OwnerIn(par1, m)
    BY DEF OwnOK
  <2>1. \A q \in Node : q # n => OwnerIn(par1, q) = OwnerIn(par, q)
    <3>. SUFFICES ASSUME NEW q \in Node, q # n PROVE OwnerIn(par1, q) = OwnerIn(par, q)
      OBVIOUS
    <3>1. q[1] = "node" => q[2] \in Ifs /\ q[2] # e
      BY NodeCases, NodeFacts
    <3>2. \A g \in Ifs : g # e => par1[g] = par[g]
      BY DEF ListOK
    <3>. HIDE DEF par1
    <3>. QED
      BY <3>1, <3>2 DEF OwnerIn
  <2>2. OwnerIn(par, a) = OwnerIn(par, n) /\ OwnerIn(par, n) = OwnerIn(par, z)
    BY <1>2 DEF ListOK, OwnOK
  <2>. HIDE DEF n, z, a
  <2>3. m # n
    BY <1>2
  <2>4. CASE m = z
    <3>1. nx1[m] = a
      BY <1>2, <2>3, <2>4
    <3>2. a # n
      BY <1>2, <2>3, <2>4 DEF ListOK, PointersOK
    <3>. QED
      BY <1>2, <2>1, <2>2, <2>3, <2>4, <3>1, <3>2
  <2>5. CASE m # z
    <3>1. nx1[m] = nx[m] /\ nx[m] \in Node
      BY <1>2, <2>3, <2>5
    <3>2. nx[m] # n
      BY <1>2, <2>5, <3>1 DEF ListOK, PointersOK, z
    <3>3. OwnerIn(par, nx[m]) = OwnerIn(par, m)
      BY <3>1 DEF ListOK, OwnOK
    <3>. QED
      BY <2>1, <2>3, <3>1, <3>2, <3>3
  <2>. QED
    BY <2>4, <2>5
<1>6. par1 \in [Ifs -> Ifs \union {NULL}]
  BY DEF ListOK
<1>. HIDE DEF nx1, pv1, par1
<1>7. ListOK(nx1, pv1, par1)
  BY <1>3, <1>4, <1>5, <1>6 DEF ListOK
<1>. QED
  BY <1>1, <1>7 DEF par1

\* list_append puts an entry that is in no list at the end of its parent's.
LEMMA AppendOK ==
    ASSUME NEW nx, NEW pv, NEW par, ListOK(nx, pv, par), NEW e \in Ifs, par[e] = NULL,
           NEW p \in Ifs,
           NEW l, l = list_append([next |-> nx, prev |-> pv], p, node(e))
    PROVE  ListOK(l.next, l.prev, [par EXCEPT ![e] = p])
<1>. DEFINE n == node(e)
            t == tail(p)
            a == pv[t]
            nx1 == [nx EXCEPT ![n] = t, ![a] = n]
            pv1 == [pv EXCEPT ![t] = n, ![n] = a]
            par1 == [par EXCEPT ![e] = p]
<1>1. l.next = nx1 /\ l.prev = pv1
  BY DEF list_append, list_insert_before
<1>2. /\ n \in Node /\ t \in Node /\ a \in Node /\ n # t /\ a # n /\ a # t
      /\ nx[a] = t /\ nx[n] = NULL /\ pv[n] = NULL /\ nx[t] = NULL
      /\ nx \in [Node -> Node \union {NULL}] /\ pv \in [Node -> Node \union {NULL}]
  BY NodeFacts DEF ListOK, PointersOK, EndsOK
<1>3. PointersOK(nx1, pv1)
  <2>1. nx1 \in [Node -> Node \union {NULL}] /\ pv1 \in [Node -> Node \union {NULL}]
    BY <1>2
  <2>. HIDE DEF n, t, a
  <2>2. ASSUME NEW m \in Node, nx1[m] # NULL PROVE pv1[nx1[m]] = m
    BY <1>2, <2>2 DEF ListOK, PointersOK
  <2>3. ASSUME NEW m \in Node, pv1[m] # NULL PROVE nx1[pv1[m]] = m
    BY <1>2, <2>3 DEF ListOK, PointersOK, a
  <2>. QED
    BY <2>1, <2>2, <2>3 DEF PointersOK
<1>4. EndsOK(nx1, pv1, par1)
  <2>. SUFFICES ASSUME NEW f \in Ifs
       PROVE  /\ nx1[head(f)] # NULL /\ pv1[head(f)] = NULL
              /\ pv1[tail(f)] # NULL /\ nx1[tail(f)] = NULL
              /\ (nx1[node(f)] # NULL) <=> (par1[f] # NULL)
              /\ (pv1[node(f)] # NULL) <=> (par1[f] # NULL)
    BY DEF EndsOK
  <2>0. /\ nx[head(f)] # NULL /\ pv[head(f)] = NULL
        /\ pv[tail(f)] # NULL /\ nx[tail(f)] = NULL
        /\ (nx[node(f)] # NULL) <=> (par[f] # NULL)
        /\ (pv[node(f)] # NULL) <=> (par[f] # NULL)
    BY DEF ListOK, EndsOK
  <2>1. \A m \in Node : m # n => (nx1[m] = NULL <=> nx[m] = NULL) /\ (pv1[m] = NULL <=> pv[m] = NULL)
    <3>1. pv[t] # NULL
      BY DEF ListOK, EndsOK
    <3>. QED
      BY <1>2, <3>1
  <2>2. nx1[n] # NULL /\ pv1[n] # NULL
    BY <1>2
  <2>3. par1[e] = p /\ p # NULL /\ \A g \in Ifs : g # e => par1[g] = par[g]
    BY DEF ListOK
  <2>4. head(f) \in Node /\ tail(f) \in Node /\ node(f) \in Node /\ head(f) # n /\ tail(f) # n
        /\ (f # e => node(f) # n) /\ (f = e => node(f) = n)
    BY NodeFacts
  <2>. HIDE DEF nx1, pv1, par1, n
  <2>. QED
    BY <2>0, <2>1, <2>2, <2>3, <2>4
<1>5. OwnOK(nx1, par1)
  <2>. SUFFICES ASSUME NEW m \in Node, nx1[m] # NULL
                PROVE  OwnerIn(par1, nx1[m]) = OwnerIn(par1, m)
    BY DEF OwnOK
  <2>1. \A q \in Node : q # n => OwnerIn(par1, q) = OwnerIn(par, q)
    <3>. SUFFICES ASSUME NEW q \in Node, q # n PROVE OwnerIn(par1, q) = OwnerIn(par, q)
      OBVIOUS
    <3>1. q[1] = "node" => q[2] \in Ifs /\ q[2] # e
      BY NodeCases, NodeFacts
    <3>2. \A g \in Ifs : g # e => par1[g] = par[g]
      BY DEF ListOK
    <3>. HIDE DEF par1
    <3>. QED
      BY <3>1, <3>2 DEF OwnerIn
  <2>2. OwnerIn(par1, n) = p /\ OwnerIn(par1, t) = p
    BY NodeFacts DEF OwnerIn, ListOK
  <2>3. OwnerIn(par1, a) = p
    <3>1. OwnerIn(par, nx[a]) = OwnerIn(par, a)
      BY <1>2 DEF ListOK, OwnOK
    <3>. HIDE DEF n, t, a, par1
    <3>. QED
      BY <1>2, <2>1, <2>2, <3>1
  <2>. HIDE DEF n, t, a
  <2>4. CASE m = n
    BY <1>2, <2>2, <2>4
  <2>5. CASE m = a
    BY <1>2, <2>2, <2>3, <2>5
  <2>6. CASE m # n /\ m # a
    <3>1. nx1[m] = nx[m] /\ nx[m] \in Node
      BY <1>2, <2>6
    <3>2. nx[m] # n
      BY <1>2, <2>6, <3>1 DEF ListOK, PointersOK
    <3>3. OwnerIn(par, nx[m]) = OwnerIn(par, m)
      BY <3>1 DEF ListOK, OwnOK
    <3>. QED
      BY <2>1, <2>6, <3>1, <3>2, <3>3
  <2>. QED
    BY <2>4, <2>5, <2>6
<1>6. par1 \in [Ifs -> Ifs \union {NULL}]
  BY DEF ListOK
<1>. HIDE DEF nx1, pv1, par1
<1>7. ListOK(nx1, pv1, par1)
  BY <1>3, <1>4, <1>5, <1>6 DEF ListOK
<1>. QED
  BY <1>1, <1>7 DEF par1

-----------------------------------------------------------------------------
IInv ==
    /\ DOMAIN parent = Kinds /\ DOMAIN next = Kinds /\ DOMAIN prev = Kinds
    /\ parent = [k \in Kinds |-> parent[k]]
    /\ next = [k \in Kinds |-> next[k]]
    /\ prev = [k \in Kinds |-> prev[k]]
    /\ \A k \in Kinds : ListOK(next[k], prev[k], parent[k])

\* No interface has a relation at first.
LEMMA InitIInv == Init => IInv
<1>. SUFFICES ASSUME Init PROVE IInv
  OBVIOUS
<1>1. ASSUME NEW k \in Kinds PROVE ListOK(next[k], prev[k], parent[k])
  <2>1. /\ next[k] = [n \in Node |-> IF n[1] = "head" THEN tail(n[2]) ELSE NULL]
        /\ prev[k] = [n \in Node |-> IF n[1] = "tail" THEN head(n[2]) ELSE NULL]
        /\ parent[k] = [e \in Ifs |-> NULL]
    BY DEF Init
  <2>2. PointersOK(next[k], prev[k])
    BY <2>1, NodeFacts, NodeCases DEF PointersOK
  <2>3. EndsOK(next[k], prev[k], parent[k])
    BY <2>1, NodeFacts DEF EndsOK
  <2>4. OwnOK(next[k], parent[k])
    BY <2>1, NodeFacts, NodeCases DEF OwnOK, OwnerIn
  <2>. QED
    BY <2>1, <2>2, <2>3, <2>4 DEF ListOK
<1>. QED
  BY <1>1 DEF Init, IInv

\* master_set and link_set keep the pointers of their relation consistent and
\* leave the other relation alone.
LEMMA ReparentIInv ==
    ASSUME IInv, NEW k \in Kinds, NEW p \in Ifs \union {NULL}, NEW e \in Ifs, Reparent(k, p, e)
    PROVE  IInv'
<1>. DEFINE par == parent[k]
            l == Removed(k, e)
            parL == [par EXCEPT ![e] = NULL]
            m == IF p # NULL THEN list_append(l, p, node(e)) ELSE l
<1>0. par \in [Ifs -> Ifs \union {NULL}]
  BY DEF IInv, ListOK
<1>1. ListOK(l.next, l.prev, parL) /\ l = [next |-> l.next, prev |-> l.prev]
  <2>1. CASE par[e] # NULL
    <3>1. l = node_remove([next |-> next[k], prev |-> prev[k]], node(e))
      BY <2>1 DEF Removed
    <3>2. ListOK(l.next, l.prev, parL)
      BY <2>1, <3>1, RemoveOK DEF IInv
    <3>. QED
      BY <3>1, <3>2 DEF node_remove
  <2>2. CASE par[e] = NULL
    <3>1. l = [next |-> next[k], prev |-> prev[k]] /\ parL = par
      BY <1>0, <2>2 DEF Removed
    <3>. QED
      BY <3>1 DEF IInv
  <2>. QED
    BY <2>1, <2>2
<1>. HIDE DEF l
<1>2. ListOK(m.next, m.prev, [par EXCEPT ![e] = p])
  <2>1. parL[e] = NULL /\ [parL EXCEPT ![e] = p] = [par EXCEPT ![e] = p]
    BY <1>0
  <2>. HIDE DEF parL
  <2>2. CASE p # NULL
    BY <1>1, <2>1, <2>2, AppendOK
  <2>3. CASE p = NULL
    BY <1>1, <2>3 DEF parL
  <2>. QED
    BY <2>2, <2>3
<1>3. /\ parent' = [parent EXCEPT ![k] = [par EXCEPT ![e] = p]]
      /\ next' = [next EXCEPT ![k] = m.next]
      /\ prev' = [prev EXCEPT ![k] = m.prev]
  BY DEF Reparent, l
<1>. HIDE DEF m, par
<1>. QED
  BY <1>2, <1>3 DEF IInv

\* Every step keeps the invariant.
LEMMA NextIInv == IInv /\ [Next]_vars => IInv'
<1>. SUFFICES ASSUME IInv, [Next]_vars PROVE IInv'
  OBVIOUS
<1>1. CASE Next
  BY <1>1, ReparentIInv DEF Next, master_set, link_set, Kinds
<1>2. CASE UNCHANGED vars
  BY <1>2 DEF vars, IInv
<1>. QED
  BY <1>1, <1>2

\* The invariant holds in every reachable state.
LEMMA Invariance == Spec => []IInv
  BY InitIInv, NextIInv, PTL DEF Spec

\* The lists stay doubly linked between their sentinels, and an entry is in a
\* list exactly when it has a parent (list.h:100-134, master.c:29-33).
THEOREM WellLinkedCorrect == Spec => []WellLinked
<1>1. IInv => WellLinked
  BY DEF IInv, ListOK, PointersOK, EndsOK, WellLinked
<1>. QED
  BY <1>1, Invariance, PTL

\* No list ever holds an entry of another parent (master.c:29-33).
THEOREM OwnListsCorrect == Spec => []OwnLists
<1>1. IInv => OwnLists
  BY DEF IInv, ListOK, OwnOK, OwnLists, Owner, OwnerIn
<1>. QED
  BY <1>1, Invariance, PTL

-----------------------------------------------------------------------------
(* Walks *)

\* A nonempty set of numbers has a least one.
LEMMA LeastNumber ==
    ASSUME NEW S, S \subseteq Nat, S # {} PROVE \E x \in S : \A y \in S : x <= y
<1>1. PICK x \in S : \A y \in S : ~(<<y, x>> \in OpToRel(<, Nat))
  BY NatLessThanWellFounded, WFMin
<1>2. ASSUME NEW y \in S PROVE x <= y
  <2>1. <<y, x>> \in Nat \X Nat /\ <<y, x>>[1] = y /\ <<y, x>>[2] = x
    OBVIOUS
  <2>2. ~(y < x)
    BY <1>1, <2>1 DEF OpToRel
  <2>. QED
    BY <2>2
<1>. QED
  BY <1>2

\* s is the list of p: from the head over its entries to the tail.
ListIn(nx, p, s) ==
    /\ s \in Seq(Ifs)
    /\ IsInjective(s)
    /\ \A i \in DOMAIN s : nx[NodeAt(p, s, i - 1)] = node(s[i])
    /\ nx[NodeAt(p, s, Len(s))] = tail(p)

\* No entry is twice in a list, so a list is not longer than the bound of walks.
LEMMA ListBound ==
    ASSUME NEW nx, NEW p \in Ifs, NEW s, ListIn(nx, p, s)
    PROVE  /\ Cardinality(Ifs) \in Nat
           /\ Len(s) <= Cardinality(Ifs)
           /\ s \in BoundedSeq(Ifs, Cardinality(Ifs))
<1>1. PICK n \in Nat : n = Len(s) /\ DOMAIN s = 1..n /\ s \in [1..n -> Ifs]
  BY LenProperties DEF ListIn
<1>2. Cardinality(Ifs) \in Nat
  BY FiniteAssumption, FS_CardinalityType
<1>3. s \in Injection(1..n, Ifs)
  BY <1>1 DEF ListIn, Injection, IsInjective
<1>4. Cardinality(1..n) <= Cardinality(Ifs)
  BY <1>3, FiniteAssumption, FS_Injection
<1>5. Cardinality(1..n) = n
  BY FS_Interval
<1>6. n \in 0..Cardinality(Ifs)
  BY <1>2, <1>4, <1>5
<1>. QED
  BY <1>1, <1>2, <1>6 DEF BoundedSeq, SeqOf

\* A walk of a list meets its entries and no others.
LEMMA WalkIsList ==
    ASSUME NEW nx, NEW p \in Ifs, NEW s, ListIn(nx, p, s)
    PROVE  Walk(nx, p) = s
<1>. DEFINE B == BoundedSeq(Ifs, Cardinality(Ifs))
<1>1. PICK n \in Nat : n = Len(s) /\ DOMAIN s = 1..n /\ s \in [1..n -> Ifs]
  BY LenProperties DEF ListIn
<1>2. tail(p) \notin {node(e) : e \in Ifs}
  BY NodeFacts
<1>3. s \in B /\ Walks(nx, p, s)
  BY <1>2, ListBound DEF ListIn, Walks
<1>4. ASSUME NEW t \in B, Walks(nx, p, t) PROVE t = s
  <2>1. PICK m \in Nat : m <= Cardinality(Ifs) /\ t \in [1..m -> Ifs]
    BY ListBound DEF BoundedSeq, SeqOf
  <2>2. t \in Seq(Ifs) /\ Len(t) = m /\ DOMAIN t = 1..m
    BY <2>1
  <2>3. \A i \in 1..m : nx[NodeAt(p, t, i - 1)] = node(t[i])
    BY <1>4, <2>2 DEF Walks
  <2>4. \A i \in 1..n : nx[NodeAt(p, s, i - 1)] = node(s[i])
    BY <1>1 DEF ListIn
  <2>5. nx[NodeAt(p, s, n)] = tail(p)
    BY <1>1 DEF ListIn
  <2>6. \A i \in 1..m : i <= n /\ t[i] = s[i]
    <3>. DEFINE D == {i \in 1..m : ~(i <= n /\ t[i] = s[i])}
    <3>. SUFFICES ASSUME D # {} PROVE FALSE
      OBVIOUS
    <3>1. D \subseteq Nat
      OBVIOUS
    <3>2. PICK j \in D : \A i \in D : j <= i
      BY <3>1, LeastNumber
    <3>3. j \in 1..m /\ \A i \in 1..m : i < j => i <= n /\ t[i] = s[i]
      BY <3>2
    <3>4. j - 1 = 0 \/ (j - 1 \in 1..m /\ j - 1 < j)
      BY <3>3
    <3>5. j - 1 <= n /\ NodeAt(p, t, j - 1) = NodeAt(p, s, j - 1)
      BY <3>3, <3>4 DEF NodeAt
    <3>6. nx[NodeAt(p, s, j - 1)] = node(t[j]) /\ t[j] \in Ifs
      BY <2>1, <2>3, <3>3, <3>5
    <3>7. CASE j - 1 = n
      BY <1>2, <2>5, <3>6, <3>7
    <3>8. CASE j - 1 # n
      <4>1. j \in 1..n
        BY <3>3, <3>5, <3>8
      <4>2. s[j] \in Ifs /\ node(t[j]) = node(s[j])
        BY <1>1, <2>4, <3>6, <4>1
      <4>3. t[j] = s[j]
        BY <3>6, <4>2, NodeFacts
      <4>. QED
        BY <3>2, <4>1, <4>3
    <3>. QED
      BY <3>7, <3>8
  <2>7. m = n
    <3>1. m <= n
      BY <2>6
    <3>2. ASSUME m < n PROVE FALSE
      <4>1. NodeAt(p, t, m) = NodeAt(p, s, m)
        BY <2>6 DEF NodeAt
      <4>2. m + 1 \in 1..n /\ (m + 1) - 1 = m
        BY <3>2
      <4>3. nx[NodeAt(p, s, m)] = node(s[m + 1]) /\ s[m + 1] \in Ifs
        BY <1>1, <2>4, <4>2
      <4>4. m # Cardinality(Ifs)
        BY <1>1, <3>2, ListBound
      <4>. QED
        BY <1>4, <2>2, <4>1, <4>3, <4>4 DEF Walks
    <3>. QED
      BY <3>1, <3>2
  <2>. QED
    BY <1>1, <2>2, <2>6, <2>7, SeqEqual DEF ListIn
<1>. QED
  BY <1>3, <1>4 DEF Walk

\* The lists of one relation: each holds the entries with this parent, once.
Indexed(nx, par, L) ==
    /\ L = [p \in Ifs |-> L[p]]
    /\ \A p \in Ifs : ListIn(nx, p, L[p]) /\ ToSet(L[p]) = {e \in Ifs : par[e] = p}

\* The same of one list s of length n
ListOf(nx, par, p, s, n) ==
    /\ n = Len(s) /\ DOMAIN s = 1..n /\ s \in Seq(Ifs)
    /\ \A i \in 1..n : s[i] \in Ifs /\ par[s[i]] = p
    /\ \A i, j \in 1..n : s[i] = s[j] => i = j
    /\ \A i \in 1..n : nx[NodeAt(p, s, i - 1)] = node(s[i])
    /\ nx[NodeAt(p, s, n)] = tail(p)
    /\ \A e \in Ifs : par[e] = p => \E i \in 1..n : s[i] = e

LEMMA ListFacts ==
    ASSUME NEW nx, NEW par, NEW L, Indexed(nx, par, L), NEW p \in Ifs
    PROVE  \E n \in Nat : ListOf(nx, par, p, L[p], n)
<1>1. ListIn(nx, p, L[p]) /\ ToSet(L[p]) = {e \in Ifs : par[e] = p}
  BY DEF Indexed
<1>2. PICK n \in Nat : n = Len(L[p]) /\ DOMAIN L[p] = 1..n /\ L[p] \in [1..n -> Ifs]
  BY <1>1, LenProperties DEF ListIn
<1>3. \A i \in 1..n : L[p][i] \in ToSet(L[p])
  BY <1>2 DEF ToSet
<1>4. \A e \in ToSet(L[p]) : \E i \in 1..n : L[p][i] = e
  BY <1>2 DEF ToSet
<1>5. \A i, j \in 1..n : L[p][i] = L[p][j] => i = j
  BY <1>1, <1>2 DEF ListIn, IsInjective
<1>. QED
  BY <1>1, <1>2, <1>3, <1>4, <1>5 DEF ListIn, ListOf

\* A node is met in one list only, and there once.
LEMMA MetOnce ==
    ASSUME NEW nx, NEW par, NEW L, Indexed(nx, par, L), NEW p \in Ifs, NEW q \in Ifs,
           NEW i \in 0..Len(L[p]), NEW j \in 0..Len(L[q]),
           NodeAt(p, L[p], i) = NodeAt(q, L[q], j)
    PROVE  p = q /\ i = j
<1>1. PICK n \in Nat : ListOf(nx, par, p, L[p], n)
  BY ListFacts
<1>2. PICK m \in Nat : ListOf(nx, par, q, L[q], m)
  BY ListFacts
<1>3. CASE i = 0 \/ j = 0
  <2>1. i = 0 /\ j = 0
    BY <1>1, <1>2, <1>3, NodeFacts DEF NodeAt, ListOf
  <2>. QED
    BY <2>1, NodeFacts DEF NodeAt
<1>4. CASE i # 0 /\ j # 0
  <2>1. i \in 1..n /\ j \in 1..m
    BY <1>1, <1>2, <1>4 DEF ListOf
  <2>2. L[p][i] = L[q][j]
    BY <1>1, <1>2, <1>4, <2>1, NodeFacts DEF NodeAt, ListOf
  <2>3. p = q
    BY <1>1, <1>2, <2>1, <2>2 DEF ListOf
  <2>. QED
    BY <1>1, <1>2, <2>1, <2>2, <2>3 DEF ListOf
<1>. QED
  BY <1>3, <1>4

\* w is s, of length n, without position x.
Skips(w, s, n, x) ==
    Len(w) = n - 1 /\ \A i \in 1..(n - 1) : w[i] = IF i < x THEN s[i] ELSE s[i + 1]

\* The sequence without one of its members, which is in it once.
LEMMA WithoutMember ==
    ASSUME NEW S, NEW s \in Seq(S), IsInjective(s), NEW n \in Nat, n = Len(s), NEW x \in 1..n,
           NEW w, w = Index!Without(s, s[x])
    PROVE  w \in Seq(S) /\ Skips(w, s, n, x)
<1>1. DOMAIN s = 1..n /\ \A i \in 1..n : s[i] \in S
  BY LenProperties
<1>2. (CHOOSE i \in DOMAIN s : s[i] = s[x]) = x
  BY <1>1 DEF IsInjective
<1>3. w = SubSeq(s, 1, x - 1) \o SubSeq(s, x + 1, n)
  BY <1>1, <1>2 DEF Index!Without, Index!RemoveAt
<1>. DEFINE u == SubSeq(s, 1, x - 1)
            v == SubSeq(s, x + 1, n)
<1>4. u \in Seq(S) /\ Len(u) = x - 1 /\ \A i \in 1..(x - 1) : u[i] = s[i]
  <2>1. \A i \in 1..(x - 1) : s[i] \in S
    BY <1>1
  <2>2. 1 \in Int /\ x - 1 \in Int
    OBVIOUS
  <2>3. /\ u \in Seq(S)
        /\ Len(u) = IF 1 <= x - 1 THEN (x - 1) - 1 + 1 ELSE 0
        /\ \A i \in 1..((x - 1) - 1 + 1) : u[i] = s[1 + i - 1]
    BY <2>1, <2>2, SubSeqProperties
  <2>. HIDE DEF u
  <2>. QED
    BY <2>3
<1>5. v \in Seq(S) /\ Len(v) = n - x /\ \A i \in 1..(n - x) : v[i] = s[x + i]
  <2>1. \A i \in (x + 1)..n : s[i] \in S
    BY <1>1
  <2>2. /\ v \in Seq(S)
        /\ Len(v) = IF x + 1 <= n THEN n - (x + 1) + 1 ELSE 0
        /\ \A i \in 1..(n - (x + 1) + 1) : v[i] = s[(x + 1) + i - 1]
    BY <2>1, SubSeqProperties
  <2>. HIDE DEF v
  <2>3. n - (x + 1) + 1 = n - x /\ (x + 1 <= n \/ n - x = 0)
    OBVIOUS
  <2>4. \A i \in 1..(n - x) : (x + 1) + i - 1 = x + i
    OBVIOUS
  <2>5. Len(v) = n - x
    BY <2>2, <2>3
  <2>. QED
    BY <2>2, <2>3, <2>4, <2>5
<1>. HIDE DEF u, v
<1>6. /\ w \in Seq(S) /\ Len(w) = (x - 1) + (n - x)
      /\ \A i \in 1..((x - 1) + (n - x)) : w[i] = IF i <= x - 1 THEN u[i] ELSE v[i - (x - 1)]
  <2>1. w = u \o v
    BY <1>3 DEF u, v
  <2>2. /\ u \o v \in Seq(S) /\ Len(u \o v) = Len(u) + Len(v)
        /\ \A i \in 1..(Len(u) + Len(v)) : (u \o v)[i] = IF i <= Len(u) THEN u[i] ELSE v[i - Len(u)]
    BY <1>4, <1>5, ConcatProperties
  <2>. QED
    BY <1>4, <1>5, <2>1, <2>2
<1>7. ASSUME NEW i \in 1..(n - 1) PROVE w[i] = IF i < x THEN s[i] ELSE s[i + 1]
  <2>1. i \in 1..((x - 1) + (n - x))
    OBVIOUS
  <2>2. CASE i < x
    BY <1>4, <1>6, <2>1, <2>2
  <2>3. CASE ~(i < x)
    <3>1. w[i] = v[i - (x - 1)] /\ i - (x - 1) \in 1..(n - x)
      BY <1>6, <2>1, <2>3
    <3>2. x + (i - (x - 1)) = i + 1
      OBVIOUS
    <3>3. v[i - (x - 1)] = s[x + (i - (x - 1))]
      BY <1>5, <3>1
    <3>. QED
      BY <2>3, <3>1, <3>2, <3>3
  <2>. QED
    BY <2>2, <2>3
<1>8. Len(w) = n - 1
  BY <1>6
<1>. QED
  BY <1>6, <1>7, <1>8 DEF Skips

\* node_remove takes an entry out of the one list it is in.
LEMMA RemoveIndexed ==
    ASSUME NEW nx, NEW pv, NEW par, ListOK(nx, pv, par), NEW L, Indexed(nx, par, L),
           NEW e \in Ifs, par[e] # NULL,
           NEW l, l = node_remove([next |-> nx, prev |-> pv], node(e))
    PROVE  Indexed(l.next, [par EXCEPT ![e] = NULL], [q \in Ifs |-> Index!Without(L[q], e)])
<1>. DEFINE p == par[e]
            par1 == [par EXCEPT ![e] = NULL]
            L1 == [q \in Ifs |-> Index!Without(L[q], e)]
<1>1. p \in Ifs /\ nx \in [Node -> Node \union {NULL}] /\ \A q \in Ifs : par1[q] = IF q = e THEN NULL ELSE par[q]
  BY DEF ListOK, PointersOK
<1>. HIDE DEF p
<1>2. PICK n \in Nat : ListOf(nx, par, p, L[p], n)
  BY <1>1, ListFacts
<1>. DEFINE s == L[p]
<1>3. PICK x \in 1..n : s[x] = e
  BY <1>2 DEF ListOf, p
<1>. DEFINE before == NodeAt(p, s, x - 1)
            after == nx[node(e)]
            w == L1[p]
            nx1 == [nx EXCEPT ![before] = after, ![node(e)] = NULL]
<1>4. l.next = nx1
  <2>1. nx[before] = node(e)
    BY <1>2, <1>3 DEF ListOf
  <2>2. before \in Node
    BY <1>1, <1>2, NodeFacts DEF ListOf, NodeAt
  <2>3. pv[node(e)] = before
    BY <2>1, <2>2, NodeFacts DEF ListOK, PointersOK
  <2>. QED
    BY <2>3 DEF node_remove
<1>5. /\ w \in Seq(Ifs) /\ Len(w) = n - 1 /\ DOMAIN w = 1..(n - 1)
      /\ \A i \in 1..(n - 1) : w[i] = IF i < x THEN s[i] ELSE s[i + 1]
  <2>1. w = Index!Without(s, s[x])
    BY <1>1, <1>3
  <2>2. s \in Seq(Ifs) /\ n = Len(s) /\ IsInjective(s)
    BY <1>1, <1>2 DEF ListOf, Indexed, ListIn
  <2>. HIDE DEF w, s
  <2>3. w \in Seq(Ifs) /\ Skips(w, s, n, x)
    BY <2>1, <2>2, WithoutMember, Zenon
  <2>. QED
    BY <2>3, LenProperties DEF Skips
<1>6. \A q \in Ifs : q # p => L1[q] = L[q]
  <2>. SUFFICES ASSUME NEW q \in Ifs, q # p PROVE L1[q] = L[q]
    OBVIOUS
  <2>1. PICK m \in Nat : ListOf(nx, par, q, L[q], m)
    BY ListFacts
  <2>2. ~ \E i \in DOMAIN L[q] : L[q][i] = e
    BY <2>1 DEF ListOf, p
  <2>. QED
    BY <2>2 DEF Index!Without
\* The nodes of the lists are all different.
<1>7. \A q \in Ifs : \A i \in 0..Len(L[q]) :
         /\ NodeAt(q, L[q], i) \in Node
         /\ NodeAt(q, L[q], i) = before => q = p /\ i = x - 1
         /\ NodeAt(q, L[q], i) = node(e) => q = p /\ i = x
  <2>. SUFFICES ASSUME NEW q \in Ifs, NEW i \in 0..Len(L[q])
                PROVE  /\ NodeAt(q, L[q], i) \in Node
                       /\ NodeAt(q, L[q], i) = before => q = p /\ i = x - 1
                       /\ NodeAt(q, L[q], i) = node(e) => q = p /\ i = x
    OBVIOUS
  <2>1. PICK m \in Nat : ListOf(nx, par, q, L[q], m)
    BY ListFacts
  <2>2. NodeAt(q, L[q], i) \in Node
    BY <2>1, NodeFacts DEF ListOf, NodeAt
  <2>3. x \in 0..Len(L[p]) /\ x - 1 \in 0..Len(L[p]) /\ NodeAt(p, L[p], x) = node(e)
    BY <1>2, <1>3 DEF ListOf, NodeAt
  <2>. QED
    BY <1>1, <2>2, <2>3, MetOnce
<1>8. \A q \in Ifs : \A i \in 0..Len(L[q]) :
         ~(q = p /\ i \in {x - 1, x}) => nx1[NodeAt(q, L[q], i)] = nx[NodeAt(q, L[q], i)]
  BY <1>1, <1>7
<1>9. before # node(e) /\ nx1[before] = after
  <2>1. x - 1 \in 0..Len(L[p]) /\ x - 1 # x
    BY <1>2 DEF ListOf
  <2>. QED
    BY <1>1, <1>7, <2>1
<1>. HIDE DEF nx1, L1, w, par1
<1>10. ListIn(nx1, p, w) /\ ToSet(w) = {f \in Ifs : par1[f] = p}
  <2>1. \A i \in 1..(n - 1) : /\ i < x => w[i] = s[i]
                              /\ ~(i < x) => w[i] = s[i + 1]
    BY <1>5
  <2>2. IsInjective(w)
    <3>. SUFFICES ASSUME NEW i \in 1..(n - 1), NEW j \in 1..(n - 1), w[i] = w[j] PROVE i = j
      BY <1>5 DEF IsInjective
    <3>1. \A y, z \in 1..n : s[y] = s[z] => y = z
      BY <1>2 DEF ListOf
    <3>2. i \in 1..n /\ i + 1 \in 1..n /\ j \in 1..n /\ j + 1 \in 1..n
      OBVIOUS
    <3>. HIDE DEF s
    <3>. QED
      BY <2>1, <3>1, <3>2
  \* Up to the node before e the two walks agree, then w is one ahead.
  <2>3. \A i \in 0..(n - 1) : /\ i < x => NodeAt(p, w, i) = NodeAt(p, s, i)
                              /\ ~(i < x) => NodeAt(p, w, i) = NodeAt(p, s, i + 1)
    BY <2>1 DEF NodeAt
  <2>4. /\ \A i \in 1..n : nx[NodeAt(p, s, i - 1)] = node(s[i])
        /\ nx[NodeAt(p, s, n)] = tail(p) /\ n = Len(L[p])
        /\ NodeAt(p, s, x) = node(e)
    BY <1>2, <1>3 DEF ListOf, NodeAt
  <2>5. \A i \in 0..n : i \notin {x - 1, x} => nx1[NodeAt(p, s, i)] = nx[NodeAt(p, s, i)]
    BY <1>1, <1>8, <2>4
  <2>6. ASSUME NEW i \in 1..(n - 1) PROVE nx1[NodeAt(p, w, i - 1)] = node(w[i])
    <3>1. CASE i < x
      <4>1. i - 1 \in 0..(n - 1) /\ i - 1 < x /\ i - 1 \notin {x - 1, x} /\ i - 1 \in 0..n /\ i \in 1..n
        BY <3>1
      <4>. QED
        BY <2>1, <2>3, <2>4, <2>5, <3>1, <4>1
    <3>2. CASE i = x
      <4>1. NodeAt(p, w, i - 1) = before
        <5>1. i - 1 \in 0..(n - 1) /\ i - 1 < x
          BY <3>2
        <5>. QED
          BY <2>3, <3>2, <5>1
      <4>2. after = node(s[x + 1])
        <5>1. x + 1 \in 1..n /\ (x + 1) - 1 = x
          BY <3>2
        <5>. QED
          BY <2>4, <5>1
      <4>3. w[i] = s[x + 1]
        BY <2>1, <3>2
      <4>. QED
        BY <1>9, <4>1, <4>2, <4>3
    <3>3. CASE i > x
      <4>1. i - 1 \in 0..(n - 1) /\ ~(i - 1 < x) /\ (i - 1) + 1 = i /\ i \notin {x - 1, x} /\ i \in 0..n
        BY <3>3
      <4>2. NodeAt(p, w, i - 1) = NodeAt(p, s, i)
        BY <2>3, <4>1
      <4>3. i + 1 \in 1..n /\ (i + 1) - 1 = i
        OBVIOUS
      <4>4. w[i] = s[i + 1]
        BY <2>1, <3>3
      <4>. QED
        BY <2>4, <2>5, <4>1, <4>2, <4>3, <4>4
    <3>. QED
      BY <3>1, <3>2, <3>3
  <2>7. nx1[NodeAt(p, w, n - 1)] = tail(p)
    <3>0. n - 1 \in 0..(n - 1)
      OBVIOUS
    <3>1. CASE x = n
      <4>1. NodeAt(p, w, n - 1) = before
        BY <2>3, <3>0, <3>1
      <4>. QED
        BY <1>9, <2>4, <3>1, <4>1
    <3>2. CASE x # n
      <4>1. ~(n - 1 < x) /\ (n - 1) + 1 = n /\ n \notin {x - 1, x} /\ n \in 0..n
        BY <3>2
      <4>2. NodeAt(p, w, n - 1) = NodeAt(p, s, n)
        BY <2>3, <3>0, <4>1
      <4>. QED
        BY <2>4, <2>5, <4>1, <4>2
    <3>. QED
      BY <3>1, <3>2
  <2>8. ToSet(w) = {f \in Ifs : par1[f] = p}
    <3>1. ASSUME NEW i \in 1..(n - 1) PROVE w[i] \in Ifs /\ par1[w[i]] = p
      <4>1. PICK y \in 1..n : w[i] = s[y] /\ y # x
        <5>1. i < x => i \in 1..n /\ i # x
          OBVIOUS
        <5>2. ~(i < x) => i + 1 \in 1..n /\ i + 1 # x
          OBVIOUS
        <5>. QED
          BY <2>1, <5>1, <5>2
      <4>2. s[y] \in Ifs /\ par[s[y]] = p /\ s[y] # e
        BY <1>2, <1>3, <4>1 DEF ListOf
      <4>. QED
        BY <1>1, <4>1, <4>2
    <3>2. ASSUME NEW f \in Ifs, par1[f] = p PROVE \E i \in 1..(n - 1) : w[i] = f
      <4>1. f # e /\ par[f] = p
        BY <1>1, <3>2
      <4>2. PICK y \in 1..n : s[y] = f
        BY <1>2, <4>1 DEF ListOf
      <4>3. y # x
        BY <1>3, <4>1, <4>2
      <4>4. CASE y < x
        <5>1. y \in 1..(n - 1)
          BY <4>4
        <5>. QED
          BY <2>1, <4>2, <4>4, <5>1
      <4>5. CASE ~(y < x)
        <5>1. y - 1 \in 1..(n - 1) /\ ~(y - 1 < x) /\ (y - 1) + 1 = y
          BY <4>3, <4>5
        <5>. QED
          BY <2>1, <4>2, <5>1
      <4>. QED
        BY <4>4, <4>5
    <3>. QED
      BY <1>5, <3>1, <3>2 DEF ToSet
  <2>. QED
    BY <1>5, <2>2, <2>6, <2>7, <2>8 DEF ListIn
<1>11. ASSUME NEW q \in Ifs, q # p PROVE ListIn(nx1, q, L1[q]) /\ ToSet(L1[q]) = {f \in Ifs : par1[f] = q}
  <2>1. ListIn(nx, q, L[q]) /\ ToSet(L[q]) = {f \in Ifs : par[f] = q} /\ L1[q] = L[q]
    BY <1>6, <1>11 DEF Indexed
  <2>2. PICK m \in Nat : ListOf(nx, par, q, L[q], m)
    BY ListFacts
  <2>3. \A i \in 0..m : nx1[NodeAt(q, L[q], i)] = nx[NodeAt(q, L[q], i)]
    BY <1>8, <1>11, <2>2 DEF ListOf
  <2>4. ListIn(nx1, q, L[q])
    <3>1. \A i \in 1..m : i - 1 \in 0..m
      OBVIOUS
    <3>2. m \in 0..m /\ DOMAIN L[q] = 1..m /\ Len(L[q]) = m
      BY <2>2 DEF ListOf
    <3>. QED
      BY <2>1, <2>3, <3>1, <3>2 DEF ListIn
  <2>5. {f \in Ifs : par[f] = q} = {f \in Ifs : par1[f] = q}
    BY <1>1, <1>11 DEF p
  <2>. QED
    BY <2>1, <2>4, <2>5
<1>12. Indexed(nx1, par1, L1)
  <2>1. L1 = [q \in Ifs |-> L1[q]]
    BY DEF L1
  <2>2. ASSUME NEW q \in Ifs PROVE ListIn(nx1, q, L1[q]) /\ ToSet(L1[q]) = {f \in Ifs : par1[f] = q}
    BY <1>10, <1>11 DEF w
  <2>. QED
    BY <2>1, <2>2 DEF Indexed
<1>. QED
  BY <1>4, <1>12 DEF L1, par1

\* list_append puts an entry that is in no list behind the others of its parent.
LEMMA AppendIndexed ==
    ASSUME NEW nx, NEW pv, NEW par, ListOK(nx, pv, par), NEW L, Indexed(nx, par, L),
           NEW e \in Ifs, par[e] = NULL, NEW p \in Ifs,
           NEW l, l = list_append([next |-> nx, prev |-> pv], p, node(e))
    PROVE  Indexed(l.next, [par EXCEPT ![e] = p],
                   [q \in Ifs |-> IF q = p THEN Append(L[q], e) ELSE L[q]])
<1>. DEFINE par1 == [par EXCEPT ![e] = p]
            L1 == [q \in Ifs |-> IF q = p THEN Append(L[q], e) ELSE L[q]]
            s == L[p]
<1>1. /\ nx \in [Node -> Node \union {NULL}]
      /\ \A q \in Ifs : par1[q] = IF q = e THEN p ELSE par[q]
      /\ p # NULL
  BY DEF ListOK, PointersOK
<1>2. PICK n \in Nat : ListOf(nx, par, p, s, n)
  BY ListFacts
<1>. DEFINE last == NodeAt(p, s, n)
            w == L1[p]
            nx1 == [nx EXCEPT ![node(e)] = tail(p), ![last] = node(e)]
<1>3. l.next = nx1
  <2>1. nx[last] = tail(p)
    BY <1>2 DEF ListOf
  <2>2. last \in Node
    BY <1>2, NodeFacts DEF ListOf, NodeAt
  <2>3. pv[tail(p)] = last
    BY <2>1, <2>2, NodeFacts DEF ListOK, PointersOK
  <2>. QED
    BY <2>3 DEF list_append, list_insert_before
<1>4. w \in Seq(Ifs) /\ Len(w) = n + 1 /\ DOMAIN w = 1..(n + 1) /\ w[n + 1] = e /\ \A i \in 1..n : w[i] = s[i]
  <2>1. w = Append(s, e) /\ s \in Seq(Ifs) /\ n = Len(s)
    BY <1>2 DEF ListOf
  <2>. HIDE DEF w, s
  <2>2. w \in Seq(Ifs) /\ Len(w) = n + 1 /\ w[n + 1] = e /\ \A i \in 1..n : w[i] = s[i]
    BY <2>1, AppendProperties
  <2>. QED
    BY <2>2, LenProperties
\* e is in no list, and the node in front of it is in that of p.
<1>5. \A q \in Ifs : \A i \in 0..Len(L[q]) :
         /\ NodeAt(q, L[q], i) \in Node
         /\ NodeAt(q, L[q], i) = last => q = p /\ i = n
         /\ NodeAt(q, L[q], i) # node(e)
  <2>. SUFFICES ASSUME NEW q \in Ifs, NEW i \in 0..Len(L[q])
                PROVE  /\ NodeAt(q, L[q], i) \in Node
                       /\ NodeAt(q, L[q], i) = last => q = p /\ i = n
                       /\ NodeAt(q, L[q], i) # node(e)
    OBVIOUS
  <2>1. PICK m \in Nat : ListOf(nx, par, q, L[q], m)
    BY ListFacts
  <2>2. NodeAt(q, L[q], i) \in Node
    BY <2>1, NodeFacts DEF ListOf, NodeAt
  <2>3. n \in 0..Len(L[p])
    BY <1>2 DEF ListOf
  <2>4. NodeAt(q, L[q], i) # node(e)
    <3>1. CASE i = 0
      BY <3>1, NodeFacts DEF NodeAt
    <3>2. CASE i # 0
      <4>1. i \in 1..m
        BY <2>1, <3>2 DEF ListOf
      <4>2. L[q][i] \in Ifs /\ par[L[q][i]] = q /\ q # NULL
        BY <2>1, <4>1 DEF ListOf
      <4>. QED
        BY <3>2, <4>2, NodeFacts DEF NodeAt
    <3>. QED
      BY <3>1, <3>2
  <2>. QED
    BY <2>2, <2>3, <2>4, MetOnce
<1>6. \A q \in Ifs : \A i \in 0..Len(L[q]) :
         ~(q = p /\ i = n) => nx1[NodeAt(q, L[q], i)] = nx[NodeAt(q, L[q], i)]
  BY <1>1, <1>5
<1>7. nx1[last] = node(e) /\ nx1[node(e)] = tail(p)
  <2>1. n \in 0..Len(L[p])
    BY <1>2 DEF ListOf
  <2>. QED
    BY <1>1, <1>5, <2>1, NodeFacts
<1>. HIDE DEF nx1, L1, w, par1
<1>8. ListIn(nx1, p, w) /\ ToSet(w) = {f \in Ifs : par1[f] = p}
  <2>1. /\ \A i \in 1..n : nx[NodeAt(p, s, i - 1)] = node(s[i])
        /\ \A i \in 1..n : s[i] \in Ifs /\ par[s[i]] = p /\ s[i] # e
        /\ \A i, j \in 1..n : s[i] = s[j] => i = j
        /\ n = Len(L[p])
    BY <1>1, <1>2 DEF ListOf
  <2>2. IsInjective(w)
    <3>. SUFFICES ASSUME NEW i \in 1..(n + 1), NEW j \in 1..(n + 1), w[i] = w[j] PROVE i = j
      BY <1>4 DEF IsInjective
    <3>1. (i \in 1..n \/ i = n + 1) /\ (j \in 1..n \/ j = n + 1)
      OBVIOUS
    <3>. HIDE DEF s
    <3>. QED
      BY <1>4, <2>1, <3>1
  <2>3. \A i \in 0..n : NodeAt(p, w, i) = NodeAt(p, s, i)
    BY <1>4 DEF NodeAt
  <2>4. NodeAt(p, w, n + 1) = node(e)
    BY <1>4 DEF NodeAt
  <2>5. ASSUME NEW i \in 1..(n + 1) PROVE nx1[NodeAt(p, w, i - 1)] = node(w[i])
    <3>1. i - 1 \in 0..n /\ NodeAt(p, w, i - 1) = NodeAt(p, s, i - 1)
      BY <2>3
    <3>2. CASE i = n + 1
      BY <1>4, <1>7, <3>1, <3>2
    <3>3. CASE i # n + 1
      <4>1. i \in 1..n /\ i - 1 # n
        BY <3>3
      <4>. QED
        BY <1>4, <1>6, <2>1, <3>1, <4>1
    <3>. QED
      BY <3>2, <3>3
  <2>6. ToSet(w) = {f \in Ifs : par1[f] = p}
    <3>1. ASSUME NEW i \in 1..(n + 1) PROVE w[i] \in Ifs /\ par1[w[i]] = p
      <4>1. i \in 1..n \/ i = n + 1
        OBVIOUS
      <4>. QED
        BY <1>1, <1>4, <2>1, <4>1
    <3>2. ASSUME NEW f \in Ifs, par1[f] = p PROVE \E i \in 1..(n + 1) : w[i] = f
      <4>1. CASE f = e
        BY <1>4, <4>1
      <4>2. CASE f # e
        <5>1. PICK i \in 1..n : s[i] = f
          BY <1>1, <1>2, <3>2, <4>2 DEF ListOf
        <5>. QED
          BY <1>4, <5>1
      <4>. QED
        BY <4>1, <4>2
    <3>. QED
      BY <1>4, <3>1, <3>2 DEF ToSet
  <2>. QED
    BY <1>4, <1>7, <2>2, <2>4, <2>5, <2>6 DEF ListIn
<1>9. ASSUME NEW q \in Ifs, q # p PROVE ListIn(nx1, q, L1[q]) /\ ToSet(L1[q]) = {f \in Ifs : par1[f] = q}
  <2>1. ListIn(nx, q, L[q]) /\ ToSet(L[q]) = {f \in Ifs : par[f] = q} /\ L1[q] = L[q]
    BY <1>9 DEF Indexed, L1
  <2>2. PICK m \in Nat : ListOf(nx, par, q, L[q], m)
    BY ListFacts
  <2>3. \A i \in 0..m : nx1[NodeAt(q, L[q], i)] = nx[NodeAt(q, L[q], i)]
    BY <1>6, <1>9, <2>2 DEF ListOf
  <2>4. ListIn(nx1, q, L[q])
    <3>1. \A i \in 1..m : i - 1 \in 0..m
      OBVIOUS
    <3>2. m \in 0..m /\ DOMAIN L[q] = 1..m /\ Len(L[q]) = m
      BY <2>2 DEF ListOf
    <3>. QED
      BY <2>1, <2>3, <3>1, <3>2 DEF ListIn
  <2>5. {f \in Ifs : par[f] = q} = {f \in Ifs : par1[f] = q}
    BY <1>1, <1>9
  <2>. QED
    BY <2>1, <2>4, <2>5
<1>10. Indexed(nx1, par1, L1)
  <2>1. L1 = [q \in Ifs |-> L1[q]]
    BY DEF L1
  <2>2. ASSUME NEW q \in Ifs PROVE ListIn(nx1, q, L1[q]) /\ ToSet(L1[q]) = {f \in Ifs : par1[f] = q}
    BY <1>8, <1>9 DEF w
  <2>. QED
    BY <2>1, <2>2 DEF Indexed
<1>. QED
  BY <1>3, <1>10 DEF L1, par1

\* What walks see is the lists.
LEMMA WalksAreLists ==
    ASSUME NEW nx, NEW par, NEW L, Indexed(nx, par, L) PROVE L = [p \in Ifs |-> Walk(nx, p)]
<1>1. \A p \in Ifs : L[p] = Walk(nx, p)
  BY WalkIsList DEF Indexed
<1>. QED
  BY <1>1 DEF Indexed

-----------------------------------------------------------------------------
(* The abstract index *)

IndexInv ==
    /\ IInv
    /\ \A k \in Kinds : Indexed(next[k], parent[k], Children[k])

\* All lists are empty at first.
LEMMA InitIndex == Init => IndexInv /\ Index!Init
<1>. SUFFICES ASSUME Init PROVE IndexInv /\ Index!Init
  OBVIOUS
<1>. DEFINE none == [e \in Ifs |-> <<>>]
<1>1. ASSUME NEW k \in Kinds PROVE Indexed(next[k], parent[k], none) /\ Children[k] = none
  <2>1. ASSUME NEW p \in Ifs PROVE next[k][head(p)] = tail(p)
    BY NodeFacts DEF Init
  <2>2. ASSUME NEW p \in Ifs PROVE ListIn(next[k], p, <<>>)
    BY <2>1 DEF ListIn, NodeAt, IsInjective
  <2>3. ASSUME NEW p \in Ifs PROVE ToSet(<<>>) = {e \in Ifs : parent[k][e] = p}
    BY DEF Init, ToSet
  <2>4. Indexed(next[k], parent[k], none)
    BY <2>2, <2>3 DEF Indexed
  <2>. QED
    BY <2>4, WalksAreLists DEF Children
<1>2. Children = [k \in Kinds |-> none]
  BY <1>1 DEF Children
<1>3. IndexInv
  BY <1>1, InitIInv DEF IndexInv
<1>. QED
  BY <1>2, <1>3 DEF Init, Index!Init

\* master_set and link_set move one entry to the end of its new parent's list.
LEMMA ReparentIndex ==
    ASSUME IndexInv, NEW k \in Kinds, NEW p \in Ifs \union {NULL}, NEW e \in Ifs, Reparent(k, p, e)
    PROVE  IndexInv' /\ Index!Attach(k, p, e)
<1>. DEFINE par == parent[k]
            parL == [par EXCEPT ![e] = NULL]
            l == Removed(k, e)
            L == [q \in Ifs |-> Index!Without(Children[k][q], e)]
            M == [q \in Ifs |-> IF q = p THEN Append(L[q], e) ELSE L[q]]
            m == IF p # NULL THEN list_append(l, p, node(e)) ELSE l
<1>0. ListOK(next[k], prev[k], par) /\ Indexed(next[k], par, Children[k])
  BY DEF IndexInv, IInv
<1>1. ListOK(l.next, l.prev, parL) /\ Indexed(l.next, parL, L) /\ l = [next |-> l.next, prev |-> l.prev]
  <2>1. CASE par[e] # NULL
    <3>1. l = node_remove([next |-> next[k], prev |-> prev[k]], node(e))
      BY <2>1 DEF Removed
    <3>2. ListOK(l.next, l.prev, parL)
      BY <1>0, <2>1, <3>1, RemoveOK
    <3>3. Indexed(l.next, parL, L)
      BY <1>0, <2>1, <3>1, RemoveIndexed
    <3>. QED
      BY <3>1, <3>2, <3>3 DEF node_remove
  <2>2. CASE par[e] = NULL
    <3>1. l = [next |-> next[k], prev |-> prev[k]] /\ parL = par
      BY <1>0, <2>2 DEF Removed, ListOK
    <3>2. ASSUME NEW q \in Ifs PROVE Index!Without(Children[k][q], e) = Children[k][q]
      <4>1. PICK n \in Nat : ListOf(next[k], par, q, Children[k][q], n)
        BY <1>0, ListFacts
      <4>2. ~ \E i \in DOMAIN Children[k][q] : Children[k][q][i] = e
        BY <2>2, <4>1 DEF ListOf
      <4>. QED
        BY <4>2 DEF Index!Without
    <3>3. L = Children[k]
      <4>1. Children[k] = [q \in Ifs |-> Children[k][q]]
        BY <1>0 DEF Indexed
      <4>. QED
        BY <3>2, <4>1
    <3>. QED
      BY <1>0, <3>1, <3>3
  <2>. QED
    BY <2>1, <2>2
<1>2. parL[e] = NULL /\ [parL EXCEPT ![e] = p] = [par EXCEPT ![e] = p]
  BY <1>0 DEF ListOK
<1>. HIDE DEF l, L, parL
<1>3. Indexed(m.next, [par EXCEPT ![e] = p], M)
  <2>1. CASE p # NULL
    BY <1>1, <1>2, <2>1, AppendIndexed
  <2>2. CASE p = NULL
    <3>1. M = L /\ m = l
      BY <2>2 DEF L
    <3>2. [par EXCEPT ![e] = p] = parL
      BY <2>2 DEF parL
    <3>. QED
      BY <1>1, <3>1, <3>2
  <2>. QED
    BY <2>1, <2>2
<1>4. /\ parent' = [parent EXCEPT ![k] = [par EXCEPT ![e] = p]]
      /\ next' = [next EXCEPT ![k] = m.next]
  BY DEF Reparent, l
<1>. HIDE DEF m, M, par
<1>5. IInv'
  BY ReparentIInv DEF IndexInv
<1>6. /\ next'[k] = m.next /\ parent'[k] = [par EXCEPT ![e] = p]
      /\ \A j \in Kinds : j # k => next'[j] = next[j] /\ parent'[j] = parent[j]
  BY <1>4 DEF IndexInv, IInv
<1>7. Children'[k] = M /\ \A j \in Kinds : j # k => Children'[j] = Children[j]
  <2>1. M = [q \in Ifs |-> Walk(m.next, q)]
    BY <1>3, WalksAreLists
  <2>. QED
    BY <1>6, <2>1 DEF Children
<1>8. IndexInv'
  BY <1>3, <1>5, <1>6, <1>7 DEF IndexInv
<1>9. Children' = [Children EXCEPT ![k] = M]
  BY <1>7 DEF Children
<1>10. Index!Attach(k, p, e)
  <2>1. L = Index!Detached(k, e)
    BY DEF L, Index!Detached
  <2>. QED
    BY <1>4, <1>9, <2>1 DEF Index!Attach, M, par
<1>. QED
  BY <1>8, <1>10

\* Every step is a step of the index.
LEMMA NextIndex == IndexInv /\ [Next]_vars => IndexInv' /\ [Index!Next]_(Index!vars)
<1>. SUFFICES ASSUME IndexInv, [Next]_vars PROVE IndexInv' /\ [Index!Next]_(Index!vars)
  OBVIOUS
<1>1. CASE Next
  <2>1. PICK k \in Kinds, p \in Ifs \union {NULL}, e \in Ifs : Reparent(k, p, e)
    BY <1>1 DEF Next, master_set, link_set, Kinds
  <2>2. IndexInv' /\ Index!Attach(k, p, e)
    BY <2>1, ReparentIndex
  <2>. QED
    BY <2>2 DEF Index!Next
<1>2. CASE UNCHANGED vars
  <2>1. Children' = Children
    BY <1>2 DEF vars, Children
  <2>2. IInv'
    BY <1>2, NextIInv DEF IndexInv
  <2>. QED
    BY <1>2, <2>1, <2>2 DEF vars, IndexInv, Index!vars
<1>. QED
  BY <1>1, <1>2

LEMMA IndexInvariance == Spec => []IndexInv
  BY InitIndex, NextIndex, PTL DEF Spec

\* A walk of a list meets the entries with this parent, each once
\* (list.h:64-67, bond.c:156, team.c:312).
THEOREM EachChildOnceCorrect == Spec => []EachChildOnce
<1>1. IndexInv => EachChildOnce
  <2>. SUFFICES ASSUME IndexInv, NEW k \in Kinds, NEW p \in Ifs
                PROVE  /\ ToSet(Children[k][p]) = {e \in Ifs : parent[k][e] = p}
                       /\ IsInjective(Children[k][p])
    BY DEF EachChildOnce, Index!OnceUnderParent, Index!ToSet, Index!IsInjective, ToSet, IsInjective
  <2>. QED
    BY DEF IndexInv, Indexed, ListIn
<1>. QED
  BY <1>1, IndexInvariance, PTL

\* The pointer lists implement the abstract index, for any set of interfaces:
\* a step of master_set or link_set is one Attach (master.c:27-50,
\* list.h:100-134).
THEOREM ImplementsIndexCorrect == Spec => ImplementsIndex
  BY InitIndex, NextIndex, IndexInvariance, PTL DEF Spec, ImplementsIndex, Index!Spec
=============================================================================
