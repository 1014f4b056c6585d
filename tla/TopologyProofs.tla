--------------------------- MODULE TopologyProofs ---------------------------
(***************************************************************************)
(* What the passes over the interfaces make of the kernel's answers, and   *)
(* what the outputs show of it, for every number of interfaces, namespaces *)
(* and indices.                                                            *)
(*                                                                         *)
(* IInv: peer_set, applied to a symmetric relation and any two interfaces  *)
(* (or NULL), gives a symmetric relation.  What is paired only has to be   *)
(* an interface; that is where the well-foundedness of Nat comes in, for   *)
(* Min.                                                                    *)
(* Base: the true topology never changes, and which attributes veth_scan   *)
(* has moved so far.                                                       *)
(* Masters, Links, Warned, Pairs: what the passes have done for the        *)
(* interfaces they have visited, each from Base and, for the veths, IInv.  *)
(***************************************************************************)
EXTENDS Diagram, FiniteSetTheorems, WellFoundedInduction, TLAPS

PeerType == peer \in [Ifs -> Ifs \union {NULL}]
CurType == cur \in Nat

IInv == PeerType /\ CurType /\ PeerSymmetric

USE SizeAssumption, NullAssumption

\* Min of a nonempty set of interfaces is one of them.
LEMMA MinIsMember == ASSUME NEW S, S \subseteq Ifs, S # {} PROVE Min(S) \in S /\ Min(S) \in Ifs
<1>1. S \subseteq Nat
  BY DEF Ifs
<1>2. \E x \in S : \A y \in S : ~ (<<y, x>> \in OpToRel(<, Nat))
  BY <1>1, NatLessThanWellFounded, WFMin
<1>3. PICK x \in S : \A y \in S : ~ (<<y, x>> \in OpToRel(<, Nat))
  BY <1>2
<1>4. ASSUME NEW y \in S PROVE ~ (y < x)
  <2>1. <<y, x>> \in Nat \X Nat /\ <<y, x>>[1] = y /\ <<y, x>>[2] = x
    BY <1>1
  <2>. QED
    BY <2>1, <1>3, Zenon DEF OpToRel
<1>5. \A y \in S : x <= y
  BY <1>1, <1>4
<1>. QED
  BY <1>5 DEF Min

\* What the search of netns_list finds is an interface of the list.
LEMMA FoundIsListed ==
    /\ \A w : match_found(w) \in Ifs \union {NULL}
    /\ \A i, id, n : match_if_netnsid(i, id, n) \in Ifs \union {NULL}
<1>1. ASSUME NEW w PROVE match_found(w) \in Ifs \union {NULL}
  BY MinIsMember DEF match_found, Heaviest
<1>2. ASSUME NEW i, NEW id, NEW n PROVE match_if_netnsid(i, id, n) \in Ifs \union {NULL}
  BY MinIsMember DEF match_if_netnsid
<1>. QED
  BY <1>1, <1>2

\* peer_set keeps a symmetric relation symmetric.
LEMMA PeerSetSymmetric ==
    ASSUME IInv, NEW first \in Ifs, NEW second \in Ifs \union {NULL}, peer_set(first, second)
    PROVE  PeerType' /\ PeerSymmetric'
<1>. DEFINE f0 == Unpaired(peer, first)
            f == Pointed(f0, first, second)
            g0 == Unpaired(f, second)
            g == Pointed(g0, second, first)
<1>1. f0 \in [Ifs -> Ifs \union {NULL}] /\ \A e, d \in Ifs : (e # first /\ f0[e] = d) => f0[d] = e
  BY DEF Unpaired, IInv, PeerType, PeerSymmetric
<1>2. \A e \in Ifs : f0[e] # first
  BY DEF Unpaired, IInv, PeerType, PeerSymmetric
<1>3. /\ f \in [Ifs -> Ifs \union {NULL}]
      /\ f[first] = second
      /\ \A e \in Ifs : e # first => f[e] = f0[e]
  BY <1>1 DEF Pointed
<1>. HIDE DEF f0, f
<1>4. CASE second = NULL
  <2>1. peer' = f
    BY <1>4 DEF peer_set, Unpaired, Pointed, f, f0
  <2>. QED
    BY <2>1, <1>1, <1>2, <1>3, <1>4 DEF PeerType, PeerSymmetric
<1>5. CASE second # NULL
  <2>1. /\ g0 \in [Ifs -> Ifs \union {NULL}]
        /\ \A e \in Ifs : g0[e] = f[e] \/ (e = f[second] /\ g0[e] = NULL)
    BY <1>3, <1>5 DEF Unpaired
  <2>2. \A e \in Ifs : e = f[second] => g0[e] = NULL
    BY <1>3, <1>5 DEF Unpaired
  <2>. HIDE DEF g0
  <2>3. /\ g \in [Ifs -> Ifs \union {NULL}]
        /\ g[second] = first
        /\ \A e \in Ifs : e # second => g[e] = g0[e]
    BY <2>1, <1>5 DEF Pointed
  <2>4. peer' = g
    BY DEF peer_set, f, f0, g0
  <2>. HIDE DEF g
  <2>5. ASSUME NEW e \in Ifs, NEW d \in Ifs, g[e] = d PROVE g[d] = e
    <3>1. CASE first = second
      BY <3>1, <1>1, <1>2, <1>3, <1>5, <2>1, <2>2, <2>3, <2>5
    <3>2. CASE first # second
      <4>1. g[first] = second
        BY <3>2, <1>1, <1>2, <1>3, <1>5, <2>1, <2>2, <2>3
      <4>2. CASE e \in {first, second}
        BY <4>1, <4>2, <2>3, <2>5
      <4>3. CASE e \notin {first, second}
        <5>1. f0[e] = d /\ f0[d] = e
          BY <4>3, <1>1, <1>3, <2>1, <2>3, <2>5
        <5>2. d # first
          BY <5>1, <1>2
        <5>3. d # second
          BY <5>1, <5>2, <4>3, <1>3, <2>2, <2>3, <2>5
        <5>4. f[d] = e /\ f[second] = f0[second]
          BY <5>1, <5>2, <3>2, <1>3, <1>5
        <5>5. d # f[second]
          BY <5>1, <5>4, <1>1, <1>5, <3>2, <4>3
        <5>. QED
          BY <5>3, <5>4, <5>5, <2>1, <2>3
      <4>. QED
        BY <4>2, <4>3
    <3>. QED
      BY <3>1, <3>2
  <2>. QED
    BY <2>3, <2>4, <2>5 DEF PeerType, PeerSymmetric
<1>. QED
  BY <1>4, <1>5

\* Every step keeps the peers mutual.
LEMMA PeerStep == IInv /\ [Next]_vars => IInv'
<1>. SUFFICES ASSUME IInv, [Next]_vars PROVE IInv'
  OBVIOUS
<1>1. CASE Scan \/ Process \/ NoPost
  BY <1>1 DEF Scan, Process, NoPost, At, Ifs, IInv, PeerType, CurType, PeerSymmetric
<1>2. CASE MatchNetnsid
  <2>1. cur \in Ifs /\ CurType'
    BY <1>2 DEF MatchNetnsid, At, IInv, CurType
  <2>2. CASE peer' = peer
    BY <2>1, <2>2 DEF IInv, PeerType, PeerSymmetric
  <2>3. CASE peer_set(cur, match_if_netnsid(peerIndex[cur], peerNetnsid[cur], ns[cur]))
    BY <2>1, <2>3, PeerSetSymmetric, FoundIsListed DEF IInv
  <2>. QED
    BY <1>2, <2>2, <2>3 DEF MatchNetnsid
<1>3. CASE VethPost
  <2>1. cur \in Ifs /\ CurType'
    BY <1>3 DEF VethPost, At, IInv, CurType
  <2>2. CASE peer' = peer
    BY <2>1, <2>2 DEF IInv, PeerType, PeerSymmetric
  <2>3. CASE peer_set(cur, match_found(PeerWeight(cur)))
    BY <2>1, <2>3, PeerSetSymmetric, FoundIsListed DEF IInv
  <2>. QED
    BY <1>3, <2>2, <2>3 DEF VethPost
<1>4. CASE NextPhase
  BY <1>4 DEF NextPhase, IInv, PeerType, CurType, PeerSymmetric
<1>5. CASE UNCHANGED vars
  BY <1>5 DEF vars, IInv, PeerType, CurType, PeerSymmetric
<1>. QED
  BY <1>1, <1>2, <1>3, <1>4, <1>5 DEF Next

\* No peer is set at first.
LEMMA IInvInit == Init => IInv
BY DEF Init, IInv, PeerType, CurType, PeerSymmetric

\* peer_set and its two callers, match_all_netnsid and veth_post, never leave
\* an interface pointing to a peer that does not point back, also when the
\* dumps of two namespaces contradict each other.
THEOREM PeersAgree == Spec => []PeerSymmetric
<1>1. IInv => PeerSymmetric
  BY DEF IInv
<1>. QED
  BY <1>1, IInvInit, PeerStep, PTL DEF Spec

-----------------------------------------------------------------------------
(* The passes over the interfaces, and how far they have come *)

Phases == {"scan", "netnsid", "resolve", "post", "done"}

Scanned(e) == phase # "scan" \/ e < cur
Identified(e) == phase \in {"resolve", "post", "done"} \/ (phase = "netnsid" /\ e < cur)
Resolved(e) == phase \in {"post", "done"} \/ (phase = "resolve" /\ e < cur)
Posted(e) == phase = "done" \/ (phase = "post" /\ e < cur)

\* What never changes: the true topology and the masters' indices
World ==
    /\ ns \in [Ifs -> Nss]
    /\ index \in [Ifs -> Indices]
    /\ Placed
    /\ trueMaster \in [Ifs -> Ifs \union {NULL}]
    /\ Mastered
    /\ kind \in [Ifs -> {"plain", "vlan", "veth"}]
    /\ truth \in [Ifs -> Ifs \union Hidden \union {NULL}]
    /\ Connected
    /\ masterIndex = [e \in Ifs |-> ReportedIndex(trueMaster[e])]

\* veth_scan has moved the link of the veths visited to their peer.
Moved(e) == kind[e] = "veth" /\ Scanned(e)

Reports ==
    /\ linkIndex = [e \in Ifs |-> IF Moved(e) THEN 0 ELSE ReportedIndex(truth[e])]
    /\ linkNetnsid = [e \in Ifs |-> IF Moved(e) THEN -1 ELSE ReportedNetnsid(e)]
    /\ peerIndex = [e \in Ifs |-> IF Moved(e) THEN ReportedIndex(truth[e]) ELSE 0]
    /\ peerNetnsid = [e \in Ifs |-> IF Moved(e) THEN ReportedNetnsid(e) ELSE -1]

Place == phase \in Phases /\ cur \in 1..(N + 1)

Base == World /\ Place /\ Reports

\* master_resolve gives every interface its true master.
Masters == master = [e \in Ifs |-> IF Resolved(e) THEN trueMaster[e] ELSE NULL]

\* A link known by its namespace id is set in the second pass, one in the own
\* namespace in the third, and neither is touched again.
LinkKnown(e) == netnsids /\ kind[e] = "vlan" /\ truth[e] \in Ifs
Links ==
    /\ link \in [Ifs -> Ifs \union {NULL}]
    /\ \A e \in Ifs : LinkKnown(e) =>
          /\ link[e] \in {NULL, truth[e]}
          /\ (ns[truth[e]] # ns[e] /\ Identified(e)) => link[e] = truth[e]
          /\ Resolved(e) => link[e] = truth[e]
          /\ e \notin warned

\* What a pass has left without a result it has warned of.
Warned ==
    /\ \A e \in Ifs : (kind[e] = "vlan" /\ Resolved(e) /\ link[e] = NULL) => e \in warned
    /\ \A e \in Ifs : (kind[e] = "veth" /\ Posted(e) /\ peer[e] = NULL) => e \in warned

\* With everything known, only true pairs are ever made.
AllKnown == netnsids /\ stable /\ \A e \in Ifs : kind[e] = "veth" => truth[e] \in Ifs
Pairs ==
    AllKnown => \A e \in Ifs :
        /\ peer[e] # NULL => kind[e] = "veth" /\ peer[e] = truth[e]
        /\ (kind[e] = "veth" /\ ns[truth[e]] # ns[e] /\ Identified(e)) => peer[e] = truth[e]
        /\ (kind[e] = "veth" /\ Posted(e)) => peer[e] = truth[e]
        /\ kind[e] = "veth" => e \notin warned

\* Interfaces are no hidden ones, and indices are not 0.
LEMMA Numbers ==
    ASSUME World
    PROVE  /\ \A e \in Ifs : e \notin Hidden /\ e \in Nat \ {0} /\ e # NULL
           /\ \A e \in Ifs : index[e] \in Nat \ {0} /\ ns[e] \in Nat \ {0}
           /\ \A t \in Ifs \union Hidden : ReportedIndex(t) \in Nat \ {0}
           /\ \A t \in Ifs : ReportedIndex(t) = index[t] /\ NsOf(t) = ns[t]
           /\ \A t \in Hidden : NsOf(t) = 0
           /\ ReportedIndex(NULL) = 0
<1>1. \A t \in Hidden : t \notin Ifs /\ -t \in Nat \ {0} /\ t # NULL
  BY DEF Hidden, Ifs
<1>2. \A e \in Ifs : e \notin Hidden /\ e \in Nat \ {0} /\ e # NULL
  BY <1>1 DEF Ifs
<1>3. \A e \in Ifs : index[e] \in Nat \ {0} /\ ns[e] \in Nat \ {0}
  BY DEF World
<1>. QED
  BY <1>1, <1>2, <1>3 DEF ReportedIndex, IndexOf, NsOf, HiddenNs

\* match_if with one interface heavier than all others
LEMMA OneHeaviest ==
    ASSUME NEW w, NEW t \in Ifs, w[t] > 0, \A i \in Ifs : i # t => w[i] \in Nat /\ w[i] < w[t],
           w[t] \in Nat
    PROVE  match_found(w) = t /\ ~ Doubtful(w)
<1>1. Heaviest(w) = {t}
  BY DEF Heaviest
<1>2. Cardinality({t}) = 1
  BY FS_Singleton
<1>3. Min({t}) = t
  BY DEF Min, Ifs
<1>4. match_found(w) = t /\ ~ match_ambiguous(w)
  BY <1>1, <1>2, <1>3 DEF match_found, match_ambiguous
<1>. QED
  BY <1>4 DEF Doubtful

\* The search by index finds the interface of the own namespace, if there is
\* one with that index.
LEMMA NearestFound ==
    ASSUME World, NEW e \in Ifs, NEW t \in Ifs, t # e, ns[t] = ns[e], NEW S, t \in S,
           \A f \in S \cap Ifs : index[f] = index[t]
    PROVE  match_found(SameNsFirst(e, S)) = t /\ ~ Doubtful(SameNsFirst(e, S))
<1>. DEFINE w == SameNsFirst(e, S)
<1>1. w[t] = 2
  BY DEF SameNsFirst
<1>2. ASSUME NEW i \in Ifs, i # t PROVE w[i] \in {0, 1}
  <2>1. i \in S => ns[i] # ns[e]
    BY <1>2 DEF World, Placed
  <2>. QED
    BY <2>1 DEF SameNsFirst
<1>. HIDE DEF w
<1>3. match_found(w) = t /\ ~ Doubtful(w)
  BY <1>1, <1>2, OneHeaviest
<1>. QED
  BY <1>3 DEF w

\* A namespace id and an index name one interface.
LEMMA IdFound ==
    ASSUME World, NEW t \in Ifs, NEW n PROVE match_if_netnsid(index[t], ns[t], n) = t
<1>1. {f \in Ifs : ns[f] = ns[t] /\ index[f] = index[t]} = {t}
  BY DEF World, Placed
<1>2. Min({t}) = t
  BY DEF Min, Ifs
<1>3. ns[t] \in Nss
  BY DEF World
<1>. QED
  BY <1>1, <1>2, <1>3 DEF match_if_netnsid

-----------------------------------------------------------------------------
(* What every step does to the passes *)

\* A step visits one interface, in the pass the program is in.
LEMMA Visits ==
    ASSUME Place, [Next]_vars
    PROVE  /\ Place'
           /\ \A e \in Ifs : /\ Scanned(e)' <=> Scanned(e) \/ (Scan /\ e = cur)
                             /\ Identified(e)' <=> Identified(e) \/ (MatchNetnsid /\ e = cur)
                             /\ Resolved(e)' <=> Resolved(e) \/ (Process /\ e = cur)
                             /\ Posted(e)' <=> Posted(e) \/ ((VethPost \/ NoPost) /\ e = cur)
<1>. USE DEF Place, Phases, Scanned, Identified, Resolved, Posted, Ifs
<1>1. ASSUME NEW p \in Phases, p # "done", At(p), phase' = phase, cur' = cur + 1
      PROVE  /\ Place'
             /\ \A e \in Ifs : /\ Scanned(e)' <=> Scanned(e) \/ (p = "scan" /\ e = cur)
                               /\ Identified(e)' <=> Identified(e) \/ (p = "netnsid" /\ e = cur)
                               /\ Resolved(e)' <=> Resolved(e) \/ (p = "resolve" /\ e = cur)
                               /\ Posted(e)' <=> Posted(e) \/ (p = "post" /\ e = cur)
  BY <1>1 DEF At
<1>2. /\ Scan => At("scan") /\ phase' = phase /\ cur' = cur + 1
      /\ MatchNetnsid => At("netnsid") /\ phase' = phase /\ cur' = cur + 1
      /\ Process => At("resolve") /\ phase' = phase /\ cur' = cur + 1
      /\ VethPost \/ NoPost => At("post") /\ phase' = phase /\ cur' = cur + 1
  BY DEF Scan, MatchNetnsid, Process, VethPost, NoPost
<1>3. \A p, q : At(p) /\ At(q) => p = q
  BY DEF At
<1>. HIDE DEF Scanned, Identified, Resolved, Posted, Place
<1>4. CASE Scan
  <2>1. ~ MatchNetnsid /\ ~ Process /\ ~ VethPost /\ ~ NoPost
    BY <1>2, <1>3, <1>4
  <2>. QED
    BY <1>1, <1>2, <1>4, <2>1
<1>5. CASE MatchNetnsid
  <2>1. ~ Scan /\ ~ Process /\ ~ VethPost /\ ~ NoPost
    BY <1>2, <1>3, <1>5
  <2>. QED
    BY <1>1, <1>2, <1>5, <2>1
<1>6. CASE Process
  <2>1. ~ Scan /\ ~ MatchNetnsid /\ ~ VethPost /\ ~ NoPost
    BY <1>2, <1>3, <1>6
  <2>. QED
    BY <1>1, <1>2, <1>6, <2>1
<1>7. CASE VethPost \/ NoPost
  <2>1. ~ Scan /\ ~ MatchNetnsid /\ ~ Process
    BY <1>2, <1>3, <1>7
  <2>. QED
    BY <1>1, <1>2, <1>7, <2>1
<1>8. CASE NextPhase \/ UNCHANGED vars
  <2>1. /\ Place'
        /\ \A e \in Ifs : /\ Scanned(e)' <=> Scanned(e)
                          /\ Identified(e)' <=> Identified(e)
                          /\ Resolved(e)' <=> Resolved(e)
                          /\ Posted(e)' <=> Posted(e)
    <3>1. CASE NextPhase
      BY <3>1 DEF NextPhase, Follows, Scanned, Identified, Resolved, Posted, Place
    <3>2. CASE UNCHANGED vars
      BY <3>2 DEF vars, Scanned, Identified, Resolved, Posted, Place
    <3>. QED
      BY <1>8, <3>1, <3>2
  <2>2. ~ Scan /\ ~ MatchNetnsid /\ ~ Process /\ ~ VethPost /\ ~ NoPost
    <3>1. cur' = cur + 1 => cur # cur'
      BY DEF Place
    <3>2. CASE UNCHANGED vars
      BY <3>1, <3>2, <1>2 DEF vars
    <3>3. CASE NextPhase
      BY <3>3, <1>2 DEF NextPhase, At
    <3>. QED
      BY <1>8, <3>2, <3>3
  <2>. QED
    BY <2>1, <2>2
<1>. QED
  BY <1>4, <1>5, <1>6, <1>7, <1>8 DEF Next

-----------------------------------------------------------------------------
(* What the program knows of the kernel's answers *)

\* No step changes the topology.
LEMMA WorldStep == ASSUME World, [Next]_vars PROVE World' /\ UNCHANGED truths
<1>1. UNCHANGED <<truths, masterIndex>>
  BY DEF Next, Scan, MatchNetnsid, Process, VethPost, NoPost, NextPhase, vars, reported
<1>. QED
  BY <1>1 DEF World, Placed, Mastered, Connected, ReportedIndex, IndexOf, truths

\* veth_scan moves the attributes of one interface, the others none.
LEMMA ReportsStep == ASSUME Base, [Next]_vars PROVE Reports'
<1>. DEFINE RI(e) == ReportedIndex(truth[e])
            RN(e) == ReportedNetnsid(e)
<1>1. UNCHANGED truths
  BY WorldStep DEF Base
<1>2. \A e \in Ifs : kind'[e] = kind[e] /\ ReportedIndex(truth[e])' = RI(e) /\ ReportedNetnsid(e)' = RN(e)
  BY <1>1 DEF truths, ReportedIndex, ReportedNetnsid, IndexOf, NsOf
<1>3. \A e \in Ifs : Scanned(e)' <=> Scanned(e) \/ (Scan /\ e = cur)
  BY Visits DEF Base
<1>. HIDE DEF RI, RN
<1>4. /\ linkIndex = [e \in Ifs |-> IF Moved(e) THEN 0 ELSE RI(e)]
      /\ linkNetnsid = [e \in Ifs |-> IF Moved(e) THEN -1 ELSE RN(e)]
      /\ peerIndex = [e \in Ifs |-> IF Moved(e) THEN RI(e) ELSE 0]
      /\ peerNetnsid = [e \in Ifs |-> IF Moved(e) THEN RN(e) ELSE -1]
  BY DEF Base, Reports, RI, RN
<1>5. SUFFICES
      /\ linkIndex' = [e \in Ifs |-> IF Moved(e)' THEN 0 ELSE RI(e)]
      /\ linkNetnsid' = [e \in Ifs |-> IF Moved(e)' THEN -1 ELSE RN(e)]
      /\ peerIndex' = [e \in Ifs |-> IF Moved(e)' THEN RI(e) ELSE 0]
      /\ peerNetnsid' = [e \in Ifs |-> IF Moved(e)' THEN RN(e) ELSE -1]
  BY <1>2 DEF Reports, RI, RN
<1>6. CASE Scan
  <2>1. cur \in Ifs /\ ~ Scanned(cur)
    BY <1>6 DEF Scan, At, Scanned, Base, Place
  <2>2. CASE kind[cur] = "veth"
    <3>1. \A e \in Ifs : Moved(e)' <=> Moved(e) \/ e = cur
      BY <1>2, <1>3, <1>6, <2>2 DEF Moved
    <3>2. ~ Moved(cur)
      BY <2>1 DEF Moved
    <3>3. /\ peerIndex' = [peerIndex EXCEPT ![cur] = linkIndex[cur]]
          /\ peerNetnsid' = [peerNetnsid EXCEPT ![cur] = linkNetnsid[cur]]
          /\ linkIndex' = [linkIndex EXCEPT ![cur] = 0]
          /\ linkNetnsid' = [linkNetnsid EXCEPT ![cur] = -1]
      BY <1>6, <2>2 DEF Scan
    <3>. HIDE DEF Moved
    <3>. QED
      BY <1>4, <2>1, <3>1, <3>2, <3>3
  <2>3. CASE kind[cur] # "veth"
    <3>1. \A e \in Ifs : Moved(e)' <=> Moved(e)
      BY <1>2, <1>3, <2>3 DEF Moved
    <3>2. UNCHANGED <<peerIndex, peerNetnsid, linkIndex, linkNetnsid>>
      BY <1>6, <2>3 DEF Scan
    <3>. QED
      BY <1>4, <3>1, <3>2
  <2>. QED
    BY <2>2, <2>3
<1>7. CASE ~ Scan
  <2>1. \A e \in Ifs : Moved(e)' <=> Moved(e)
    BY <1>2, <1>3, <1>7 DEF Moved
  <2>2. UNCHANGED <<peerIndex, peerNetnsid, linkIndex, linkNetnsid>>
    BY <1>7 DEF Next, MatchNetnsid, Process, VethPost, NoPost, NextPhase, vars, reported
  <2>. QED
    BY <1>4, <2>1, <2>2
<1>. QED
  BY <1>6, <1>7

\* Every step keeps the shape of the entries.
LEMMA BaseStep == Base /\ [Next]_vars => Base'
BY WorldStep, ReportsStep, Visits DEF Base

\* The entries have their shape at first.
LEMMA BaseInit == Init => Base
<1>. SUFFICES ASSUME Init PROVE Base
  OBVIOUS
<1>1. World
  BY DEF Init, World
<1>2. Place
  BY DEF Init, Place, Phases
<1>3. \A e \in Ifs : ~ Moved(e)
  BY DEF Init, Moved, Scanned, Ifs
<1>4. Reports
  BY <1>3 DEF Init, Reports
<1>. QED
  BY <1>1, <1>2, <1>4 DEF Base

-----------------------------------------------------------------------------
(* Masters *)

\* What process of master.c gives an interface: its true master
LEMMA MasterFound ==
    ASSUME Base, NEW e \in Ifs, master[e] = NULL
    PROVE  /\ NeedsMaster(e) <=> trueMaster[e] # NULL
           /\ NeedsMaster(e) => match_found(Weight(e, masterIndex[e])) = trueMaster[e]
           /\ NeedsMaster(e) => ~ Doubtful(Weight(e, masterIndex[e]))
<1>. DEFINE t == trueMaster[e]
            S == {f \in Ifs : index[f] = masterIndex[e]}
<1>1. World /\ t \in Ifs \union {NULL} /\ masterIndex[e] = ReportedIndex(t)
  BY DEF Base, World
<1>2. CASE t = NULL
  BY <1>1, <1>2, Numbers DEF NeedsMaster
<1>3. CASE t \in Ifs
  <2>1. masterIndex[e] = index[t] /\ masterIndex[e] # 0 /\ t # NULL
    BY <1>1, <1>3, Numbers
  <2>2. t # e /\ ns[t] = ns[e]
    BY <1>1, <2>1 DEF World, Mastered
  <2>3. t \in S /\ \A f \in S \cap Ifs : index[f] = index[t]
    BY <1>3, <2>1
  <2>. HIDE DEF t, S
  <2>4. match_found(SameNsFirst(e, S)) = t /\ ~ Doubtful(SameNsFirst(e, S))
    BY <1>1, <1>3, <2>2, <2>3, NearestFound
  <2>5. Weight(e, masterIndex[e]) = SameNsFirst(e, S)
    BY DEF Weight, S
  <2>. QED
    BY <2>1, <2>4, <2>5 DEF NeedsMaster, t
<1>. QED
  BY <1>1, <1>2, <1>3

\* Every step keeps the masters true.
LEMMA MastersStep == ASSUME Base, Masters, [Next]_vars PROVE Masters'
<1>1. \A e \in Ifs : Resolved(e)' <=> Resolved(e) \/ (Process /\ e = cur)
  BY Visits DEF Base
<1>2. trueMaster' = trueMaster
  BY WorldStep DEF Base, truths
<1>3. CASE Process
  <2>1. cur \in Ifs /\ ~ Resolved(cur)
    BY <1>3 DEF Process, At, Resolved, Base, Place
  <2>2. master[cur] = NULL
    BY <2>1 DEF Masters
  <2>3. master' = IF NeedsMaster(cur)
                  THEN [master EXCEPT ![cur] = match_found(Weight(cur, masterIndex[cur]))] ELSE master
    BY <1>3 DEF Process
  <2>4. master' = [master EXCEPT ![cur] = trueMaster[cur]]
    BY <2>1, <2>2, <2>3, MasterFound DEF Masters
  <2>. QED
    BY <1>1, <1>2, <1>3, <2>1, <2>4 DEF Masters
<1>4. CASE ~ Process
  <2>1. master' = master
    BY <1>4 DEF Next, Scan, MatchNetnsid, VethPost, NoPost, NextPhase, vars
  <2>. QED
    BY <1>1, <1>2, <1>4, <2>1 DEF Masters
<1>. QED
  BY <1>3, <1>4

\* master_resolve puts every interface under its true master, although other
\* namespaces have interfaces with the same index: those of the own namespace
\* weigh more, and of them only one has the index.
THEOREM MastersCorrect == Spec => []MasterTrue
<1>1. Init => Base /\ Masters
  <2>1. Init => Masters
    BY DEF Init, Masters, Resolved
  <2>. QED
    BY <2>1, BaseInit
<1>2. Base /\ Masters /\ [Next]_vars => Base' /\ Masters'
  BY BaseStep, MastersStep
<1>3. Base /\ Masters => MasterTrue
  BY DEF Base, World, Masters, MasterTrue, Resolved
<1>. QED
  BY <1>1, <1>2, <1>3, PTL DEF Spec

-----------------------------------------------------------------------------
(* Links *)

\* What a vlan's link is known by after the first pass
LEMMA LinkReported ==
    ASSUME Base, NEW e \in Ifs, kind[e] = "vlan"
    PROVE  /\ linkIndex[e] = ReportedIndex(truth[e]) /\ linkIndex[e] # 0
           /\ linkNetnsid[e] = ReportedNetnsid(e)
           /\ truth[e] # e
<1>1. truth[e] \in Ifs \union Hidden /\ truth[e] # e
  BY DEF Base, World, Connected
<1>2. ~ Moved(e)
  BY DEF Moved
<1>. QED
  BY <1>1, <1>2, Numbers DEF Base, Reports

\* match_all_netnsid finds the link in another namespace ...
LEMMA LinkFoundById ==
    ASSUME Base, NEW e \in Ifs, LinkKnown(e)
    PROVE  /\ linkNetnsid[e] >= 0 <=> ns[truth[e]] # ns[e]
           /\ linkNetnsid[e] >= 0 =>
                match_if_netnsid(linkIndex[e], linkNetnsid[e], ns[e]) = truth[e]
<1>. DEFINE t == truth[e]
<1>1. t \in Ifs /\ netnsids /\ World
  BY DEF LinkKnown, Base
<1>2. t # NULL /\ NsOf(t) = ns[t] /\ ns[t] \in Nat /\ ReportedIndex(t) = index[t]
  BY <1>1, Numbers
<1>3. linkNetnsid[e] = IF ns[t] # ns[e] THEN ns[t] ELSE -1
  BY <1>1, <1>2, LinkReported DEF ReportedNetnsid, LinkKnown
<1>4. linkIndex[e] = index[t]
  BY <1>2, LinkReported DEF LinkKnown
<1>5. match_if_netnsid(index[t], ns[t], ns[e]) = t
  BY <1>1, IdFound
<1>. HIDE DEF t
<1>. QED
  BY <1>2, <1>3, <1>4, <1>5 DEF t

\* ... and process the one in the own.
LEMMA LinkFoundByIndex ==
    ASSUME Base, NEW e \in Ifs, LinkKnown(e), ns[truth[e]] = ns[e]
    PROVE  match_found(Weight(e, linkIndex[e])) = truth[e] /\ ~ Doubtful(Weight(e, linkIndex[e]))
<1>. DEFINE t == truth[e]
            S == {f \in Ifs : index[f] = linkIndex[e]}
<1>1. t \in Ifs /\ World
  BY DEF LinkKnown, Base
<1>2. t # e /\ linkIndex[e] = index[t]
  BY <1>1, Numbers, LinkReported DEF LinkKnown
<1>3. t \in S /\ \A f \in S \cap Ifs : index[f] = index[t]
  BY <1>1, <1>2
<1>4. ns[t] = ns[e]
  OBVIOUS
<1>. HIDE DEF t, S
<1>5. match_found(SameNsFirst(e, S)) = t /\ ~ Doubtful(SameNsFirst(e, S))
  BY <1>1, <1>2, <1>3, <1>4, NearestFound
<1>. QED
  BY <1>5 DEF Weight, S, t

\* What a step may do to the link and the warning of an interface
LEMMA LinkEffect ==
    ASSUME Base, link \in [Ifs -> Ifs \union {NULL}], [Next]_vars
    PROVE  /\ link' \in [Ifs -> Ifs \union {NULL}]
           /\ \A e \in Ifs :
                link'[e] = IF MatchNetnsid /\ e = cur /\ linkNetnsid[e] >= 0
                             THEN match_if_netnsid(linkIndex[e], linkNetnsid[e], ns[e])
                           ELSE IF Process /\ e = cur /\ NeedsLink(e)
                             THEN match_found(Weight(e, linkIndex[e]))
                           ELSE link[e]
           /\ \A e \in Ifs : e \in warned' <=>
                \/ e \in warned
                \/ Process /\ e = cur /\ NeedsLink(e) /\ Doubtful(Weight(e, linkIndex[e]))
                \/ VethPost /\ e = cur /\ Doubtful(PeerWeight(e))
<1>1. /\ \A w : match_found(w) \in Ifs \union {NULL}
      /\ \A i, id, n : match_if_netnsid(i, id, n) \in Ifs \union {NULL}
  BY FoundIsListed
<1>2. CASE MatchNetnsid
  <2>1. ~ Process /\ ~ VethPost
    BY <1>2 DEF MatchNetnsid, Process, VethPost, At
  <2>2. /\ cur \in Ifs /\ warned' = warned
        /\ link' = IF linkNetnsid[cur] >= 0
                   THEN [link EXCEPT ![cur] = match_if_netnsid(linkIndex[cur], linkNetnsid[cur], ns[cur])]
                   ELSE link
    BY <1>2 DEF MatchNetnsid, At
  <2>. QED
    BY <1>1, <1>2, <2>1, <2>2
<1>3. CASE Process
  <2>1. ~ MatchNetnsid /\ ~ VethPost
    BY <1>3 DEF MatchNetnsid, Process, VethPost, At
  <2>2. /\ cur \in Ifs
        /\ link' = IF NeedsLink(cur)
                   THEN [link EXCEPT ![cur] = match_found(Weight(cur, linkIndex[cur]))] ELSE link
        /\ warned' = warned \union
             {e \in {cur} : \/ NeedsMaster(e) /\ Doubtful(Weight(cur, masterIndex[cur]))
                            \/ NeedsLink(e) /\ Doubtful(Weight(cur, linkIndex[cur]))}
    BY <1>3 DEF Process, At
  <2>3. ~ (NeedsMaster(cur) /\ Doubtful(Weight(cur, masterIndex[cur])))
    BY <2>2, MasterFound DEF NeedsMaster
  <2>. QED
    BY <1>1, <1>3, <2>1, <2>2, <2>3
<1>4. CASE VethPost
  <2>1. ~ MatchNetnsid /\ ~ Process
    BY <1>4 DEF MatchNetnsid, Process, VethPost, At
  <2>2. /\ cur \in Ifs /\ link' = link
        /\ IF Doubtful(PeerWeight(cur)) THEN warned' = warned \union {cur} ELSE warned' = warned
    BY <1>4 DEF VethPost, At
  <2>. QED
    BY <1>4, <2>1, <2>2
<1>5. CASE ~ MatchNetnsid /\ ~ Process /\ ~ VethPost
  <2>1. UNCHANGED <<link, warned>>
    BY <1>5 DEF Next, Scan, NoPost, NextPhase, vars
  <2>. QED
    BY <1>5, <2>1
<1>. QED
  BY <1>2, <1>3, <1>4, <1>5

\* Every step keeps the links true.
LEMMA LinksStep == ASSUME Base, Links, [Next]_vars PROVE Links'
<1>1. UNCHANGED truths
  BY WorldStep DEF Base
<1>2. \A e \in Ifs : /\ Identified(e)' <=> Identified(e) \/ (MatchNetnsid /\ e = cur)
                     /\ Resolved(e)' <=> Resolved(e) \/ (Process /\ e = cur)
  BY Visits DEF Base
<1>. SUFFICES ASSUME NEW e \in Ifs, LinkKnown(e)
               PROVE  /\ link'[e] \in {NULL, truth[e]}
                      /\ (ns[truth[e]] # ns[e] /\ Identified(e)') => link'[e] = truth[e]
                      /\ Resolved(e)' => link'[e] = truth[e]
                      /\ e \notin warned'
  BY <1>1, LinkEffect DEF Links, LinkKnown, truths
<1>4. /\ link[e] \in {NULL, truth[e]}
      /\ (ns[truth[e]] # ns[e] /\ Identified(e)) => link[e] = truth[e]
      /\ Resolved(e) => link[e] = truth[e]
      /\ e \notin warned
  BY DEF Links
<1>5. truth[e] # NULL
  BY DEF LinkKnown
<1>6. CASE MatchNetnsid /\ e = cur
  <2>1. ~ Process /\ ~ VethPost
    BY <1>6 DEF MatchNetnsid, Process, VethPost, At
  <2>2. link'[e] = IF ns[truth[e]] # ns[e] THEN truth[e] ELSE link[e]
    BY <1>6, <2>1, LinkEffect, LinkFoundById DEF Links
  <2>3. e \notin warned'
    BY <1>4, <2>1, LinkEffect DEF Links
  <2>. QED
    BY <1>2, <1>4, <1>6, <2>1, <2>2, <2>3
<1>7. CASE Process /\ e = cur
  <2>1. ~ MatchNetnsid /\ ~ VethPost /\ Identified(e)
    BY <1>7 DEF MatchNetnsid, Process, VethPost, At, Identified
  <2>2. CASE ns[truth[e]] # ns[e]
    <3>1. ~ NeedsLink(e)
      BY <1>4, <1>5, <2>1, <2>2 DEF NeedsLink
    <3>2. link'[e] = link[e] /\ e \notin warned'
      BY <1>4, <2>1, <3>1, LinkEffect DEF Links
    <3>. QED
      BY <1>4, <2>1, <2>2, <3>2
  <2>3. CASE ns[truth[e]] = ns[e]
    <3>1. /\ match_found(Weight(e, linkIndex[e])) = truth[e]
          /\ ~ Doubtful(Weight(e, linkIndex[e]))
      BY <2>3, LinkFoundByIndex
    <3>2. e \notin warned'
      BY <1>4, <2>1, <3>1, LinkEffect DEF Links
    <3>3. CASE NeedsLink(e)
      BY <1>7, <2>1, <2>3, <3>1, <3>2, <3>3, LinkEffect DEF Links
    <3>4. CASE ~ NeedsLink(e)
      <4>1. link[e] # NULL
        BY <3>4, LinkReported DEF NeedsLink, LinkKnown
      <4>2. link'[e] = link[e]
        BY <2>1, <3>4, LinkEffect DEF Links
      <4>. QED
        BY <1>4, <4>1, <4>2, <3>2
    <3>. QED
      BY <3>3, <3>4
  <2>. QED
    BY <2>2, <2>3
<1>8. CASE ~ (MatchNetnsid /\ e = cur) /\ ~ (Process /\ e = cur)
  <2>1. ~ (VethPost /\ e = cur)
    BY DEF VethPost, LinkKnown
  <2>2. link'[e] = link[e] /\ e \notin warned'
    BY <1>4, <1>8, <2>1, LinkEffect DEF Links
  <2>. QED
    BY <1>2, <1>4, <1>8, <2>2
<1>. QED
  BY <1>6, <1>7, <1>8

\* With namespace ids, a vlan ends up on the link it has, in whatever
\* namespace: one in another namespace is set by match_all_netnsid and
\* skipped by process, one in its own wins the search by index; neither
\* is warned of.
THEOREM LinksCorrect == Spec => []LinkTrue
<1>1. Init => Base /\ Links
  <2>1. Init => Links
    BY DEF Init, Links, Identified, Resolved
  <2>. QED
    BY <2>1, BaseInit
<1>2. Base /\ Links /\ [Next]_vars => Base' /\ Links'
  BY BaseStep, LinksStep
<1>3. Links => LinkTrue
  BY DEF Links, LinkKnown, LinkTrue, Resolved
<1>. QED
  BY <1>1, <1>2, <1>3, PTL DEF Spec

-----------------------------------------------------------------------------
(* Peers *)

\* peer_set of two interfaces that have no other peer takes nobody's peer.
LEMMA PeerSetFree ==
    ASSUME IInv, NEW a \in Ifs, NEW b \in Ifs, a # b, peer[a] \in {NULL, b}, peer[b] \in {NULL, a},
           peer_set(a, b)
    PROVE  /\ peer'[a] = b /\ peer'[b] = a
           /\ \A e \in Ifs \ {a, b} : peer'[e] = peer[e]
<1>. DEFINE f0 == Unpaired(peer, a)
            f == Pointed(f0, a, b)
            g0 == Unpaired(f, b)
            g == Pointed(g0, b, a)
<1>1. peer \in [Ifs -> Ifs \union {NULL}] /\ a # NULL /\ b # NULL
  BY DEF IInv, PeerType
<1>2. f0 \in [Ifs -> Ifs \union {NULL}] /\ \A e \in Ifs \ {b} : f0[e] = peer[e]
  BY <1>1 DEF Unpaired
<1>3. f0[b] \in {NULL, a}
  BY <1>1 DEF Unpaired
<1>. HIDE DEF f0
<1>4. f \in [Ifs -> Ifs \union {NULL}] /\ f[a] = b /\ \A e \in Ifs \ {a} : f[e] = f0[e]
  BY <1>1, <1>2 DEF Pointed
<1>. HIDE DEF f
<1>5. f[b] = NULL
  <2>1. CASE peer[a] = NULL
    BY <1>1, <1>4, <2>1 DEF f0, Unpaired, IInv, PeerSymmetric
  <2>2. CASE peer[a] = b
    BY <1>1, <1>4, <2>2 DEF f0, Unpaired
  <2>. QED
    BY <2>1, <2>2
<1>6. g0 = f
  BY <1>5 DEF Unpaired
<1>7. g[b] = a /\ \A e \in Ifs \ {b} : g[e] = f[e]
  BY <1>1, <1>4, <1>6 DEF Pointed
<1>8. peer' = g
  BY DEF peer_set, f0, f
<1>. HIDE DEF g
<1>. QED
  BY <1>2, <1>4, <1>7, <1>8

\* What match_peer offers veth_post for an interface without a peer
LEMMA PeerFree ==
    ASSUME IInv, NEW e \in Ifs, peer[e] = NULL, ~ Doubtful(PeerWeight(e))
    PROVE  /\ match_found(PeerWeight(e)) \in Ifs
           /\ match_found(PeerWeight(e)) # e
           /\ peer[match_found(PeerWeight(e))] = NULL
<1>. DEFINE w == PeerWeight(e)
            t == match_found(w)
<1>1. t # NULL
  BY DEF Doubtful
<1>2. t \in Heaviest(w) /\ t \in Ifs
  BY <1>1, MinIsMember DEF match_found, Heaviest
<1>3. w[t] > 0
  BY <1>2 DEF Heaviest
<1>4. t # e /\ peer[t] \in {NULL, e}
  BY <1>2, <1>3 DEF PeerWeight, SameNsFirst
<1>5. peer[t] # e
  BY <1>1, <1>2 DEF IInv, PeerSymmetric
<1>. QED
  BY <1>2, <1>4, <1>5

\* veth_post pairs two interfaces that have no peer, or warns.
LEMMA PostEffect ==
    ASSUME IInv, VethPost
    PROVE  \/ /\ cur \in warned' /\ peer' = peer
           \/ /\ peer[cur] = NULL
              /\ \E t \in Ifs : /\ t # cur /\ peer[t] = NULL
                                /\ peer'[cur] = t /\ peer'[t] = cur
                                /\ \A e \in Ifs \ {cur, t} : peer'[e] = peer[e]
<1>1. cur \in Ifs /\ peer[cur] = NULL
  BY DEF VethPost, At
<1>2. CASE Doubtful(PeerWeight(cur))
  BY <1>2 DEF VethPost
<1>3. CASE ~ Doubtful(PeerWeight(cur))
  <2>. DEFINE t == match_found(PeerWeight(cur))
  <2>1. peer_set(cur, t)
    BY <1>3 DEF VethPost
  <2>2. t \in Ifs /\ t # cur /\ peer[t] = NULL
    BY <1>1, <1>3, PeerFree
  <2>. HIDE DEF t
  <2>3. peer'[cur] = t /\ peer'[t] = cur /\ \A e \in Ifs \ {cur, t} : peer'[e] = peer[e]
    BY <1>1, <2>1, <2>2, PeerSetFree
  <2>. QED
    BY <1>1, <2>2, <2>3
<1>. QED
  BY <1>2, <1>3

\* Every step keeps the warnings complete.
LEMMA WarnedStep == ASSUME IInv, Base, Links, Warned, [Next]_vars PROVE Warned'
<1>1. kind' = kind
  BY WorldStep DEF Base, truths
<1>2. \A e \in Ifs : /\ Resolved(e)' <=> Resolved(e) \/ (Process /\ e = cur)
                     /\ Posted(e)' <=> Posted(e) \/ ((VethPost \/ NoPost) /\ e = cur)
  BY Visits DEF Base
<1>3. \A e \in Ifs : e \in warned => e \in warned'
  BY LinkEffect DEF Links
<1>4. ASSUME NEW e \in Ifs, kind[e] = "vlan", Resolved(e)', link'[e] = NULL PROVE e \in warned'
  <2>1. CASE Process /\ e = cur
    <3>1. ~ MatchNetnsid
      BY <2>1 DEF MatchNetnsid, Process, At
    <3>2. CASE NeedsLink(e)
      <4>1. match_found(Weight(e, linkIndex[e])) = NULL
        BY <1>4, <2>1, <3>1, <3>2, LinkEffect DEF Links
      <4>2. Doubtful(Weight(e, linkIndex[e]))
        BY <4>1 DEF Doubtful
      <4>. QED
        BY <2>1, <3>2, <4>2, LinkEffect DEF Links
    <3>3. CASE ~ NeedsLink(e)
      <4>1. link[e] # NULL
        BY <1>4, <3>3, LinkReported DEF NeedsLink
      <4>2. link'[e] = link[e]
        BY <3>1, <3>3, LinkEffect DEF Links
      <4>. QED
        BY <1>4, <4>1, <4>2
    <3>. QED
      BY <3>2, <3>3
  <2>2. CASE ~ (Process /\ e = cur)
    <3>1. Resolved(e)
      BY <1>2, <1>4, <2>2
    <3>2. ~ MatchNetnsid
      BY <3>1 DEF Resolved, MatchNetnsid, At
    <3>3. link'[e] = link[e]
      BY <2>2, <3>2, LinkEffect DEF Links
    <3>. QED
      BY <1>3, <1>4, <3>1, <3>3 DEF Warned
  <2>. QED
    BY <2>1, <2>2
<1>5. ASSUME NEW e \in Ifs, kind[e] = "veth", Posted(e)', peer'[e] = NULL PROVE e \in warned'
  <2>1. CASE VethPost
    <3>1. CASE cur \in warned' /\ peer' = peer
      BY <1>2, <1>3, <1>5, <3>1 DEF Warned
    <3>2. CASE cur \notin warned' \/ peer' # peer
      <4>1. PICK t \in Ifs : /\ t # cur /\ peer[t] = NULL
                             /\ peer'[cur] = t /\ peer'[t] = cur
                             /\ \A d \in Ifs \ {cur, t} : peer'[d] = peer[d]
        BY <2>1, <3>2, PostEffect
      <4>2. cur \in Ifs /\ cur # NULL /\ t # NULL
        BY <2>1 DEF VethPost, At
      <4>3. e # cur /\ e # t
        BY <1>5, <4>1, <4>2
      <4>. QED
        BY <1>2, <1>3, <1>5, <4>1, <4>3 DEF Warned
    <3>. QED
      BY <3>1, <3>2
  <2>2. CASE ~ VethPost
    <3>1. ~ MatchNetnsid
      <4>1. Posted(e) \/ NoPost
        BY <1>2, <1>5, <2>2
      <4>. QED
        BY <4>1 DEF Posted, NoPost, MatchNetnsid, At
    <3>2. peer' = peer
      BY <2>2, <3>1 DEF Next, Scan, Process, NoPost, NextPhase, vars
    <3>3. ~ (NoPost /\ e = cur)
      BY <1>5, <3>2 DEF NoPost
    <3>. QED
      BY <1>2, <1>3, <1>5, <2>2, <3>2, <3>3 DEF Warned
  <2>. QED
    BY <2>1, <2>2
<1>. QED
  BY <1>1, <1>4, <1>5 DEF Warned

\* A vlan without link and a veth without peer carry a warning, whatever the
\* kernel reported: process warns of what it cannot set, and veth_post never
\* takes the peer of an interface that has been visited already.
THEOREM NothingLostSilently == Spec => []NoSilentLoss
<1>1. Init => IInv /\ Base /\ Links /\ Warned
  <2>1. Init => Links
    BY DEF Init, Links, Identified, Resolved
  <2>2. Init => Warned
    BY DEF Init, Warned, Resolved, Posted
  <2>. QED
    BY <2>1, <2>2, BaseInit, IInvInit
<1>2. IInv /\ Base /\ Links /\ Warned /\ [Next]_vars => IInv' /\ Base' /\ Links' /\ Warned'
  BY PeerStep, BaseStep, LinksStep, WarnedStep
<1>3. Warned => NoSilentLoss
  BY DEF Warned, NoSilentLoss, Resolved, Posted
<1>. QED
  BY <1>1, <1>2, <1>3, PTL DEF Spec

\* What a veth's peer is known by after the first pass, with everything known
LEMMA PeerReported ==
    ASSUME Base, AllKnown, phase # "scan", NEW e \in Ifs, kind[e] = "veth"
    PROVE  /\ truth[e] \in Ifs /\ truth[e] # e /\ kind[truth[e]] = "veth" /\ truth[truth[e]] = e
           /\ peerIndex[e] = index[truth[e]]
           /\ peerNetnsid[e] = IF ns[truth[e]] # ns[e] THEN ns[truth[e]] ELSE -1
           /\ linkIndex[e] = 0
<1>. DEFINE t == truth[e]
<1>1. t \in Ifs /\ t # e /\ kind[t] = "veth" /\ truth[t] = e
  BY DEF AllKnown, Base, World, Connected
<1>2. Moved(e)
  BY DEF Moved, Scanned
<1>3. t # NULL /\ NsOf(t) = ns[t] /\ ReportedIndex(t) = index[t]
  BY <1>1, Numbers DEF Base
<1>4. peerIndex[e] = index[t] /\ linkIndex[e] = 0 /\ peerNetnsid[e] = ReportedNetnsid(e)
  BY <1>2, <1>3 DEF Base, Reports
<1>. QED
  BY <1>1, <1>3, <1>4 DEF ReportedNetnsid, AllKnown

\* Only a veth has a namespace id for a peer.
LEMMA NoPeerReported ==
    ASSUME Base, NEW e \in Ifs, kind[e] # "veth" PROVE peerNetnsid[e] = -1
BY DEF Base, Reports, Moved

\* The true peer in the own namespace is the only best match of match_peer.
LEMMA PeerFound ==
    ASSUME IInv, Base, AllKnown, Pairs, phase = "post", NEW e \in Ifs, kind[e] = "veth", peer[e] = NULL
    PROVE  match_found(PeerWeight(e)) = truth[e] /\ ~ Doubtful(PeerWeight(e))
<1>. DEFINE t == truth[e]
            S == {f \in Ifs : /\ kind[f] = "veth"
                              /\ index[f] = peerIndex[e]
                              /\ peerIndex[f] = index[e]
                              /\ peer[f] \in {NULL, e}}
<1>1. t \in Ifs /\ t # e /\ kind[t] = "veth" /\ truth[t] = e /\ peerIndex[e] = index[t]
  BY PeerReported
<1>2. ns[t] = ns[e]
  BY <1>1 DEF Pairs, Identified
<1>3. peerIndex[t] = index[e]
  BY <1>1, PeerReported
<1>4. peer[t] \in {NULL, e}
  BY <1>1 DEF Pairs
<1>5. t \in S /\ \A f \in S \cap Ifs : index[f] = index[t]
  BY <1>1, <1>3, <1>4
<1>. HIDE DEF t, S
<1>6. match_found(SameNsFirst(e, S)) = t /\ ~ Doubtful(SameNsFirst(e, S))
  BY <1>1, <1>2, <1>5, NearestFound DEF Base
<1>. QED
  BY <1>6 DEF PeerWeight, S, t

\* Steps change the relation only by pairing an interface with its true peer.
LEMMA PairEffect ==
    ASSUME IInv, Base, AllKnown, Pairs, [Next]_vars
    PROVE  \/ /\ peer' = peer
              /\ MatchNetnsid /\ kind[cur] = "veth" => ns[truth[cur]] = ns[cur]
              /\ ~ VethPost
           \/ /\ cur \in Ifs /\ kind[cur] = "veth"
              /\ peer'[cur] = truth[cur] /\ peer'[truth[cur]] = cur
              /\ \A e \in Ifs \ {cur, truth[cur]} : peer'[e] = peer[e]
<1>. DEFINE t == truth[cur]
<1>1. ASSUME cur \in Ifs, kind[cur] = "veth", phase # "scan", peer_set(cur, t)
      PROVE  /\ peer'[cur] = t /\ peer'[t] = cur
             /\ \A e \in Ifs \ {cur, t} : peer'[e] = peer[e]
  <2>1. t \in Ifs /\ t # cur /\ kind[t] = "veth" /\ truth[t] = cur
    BY <1>1, PeerReported
  <2>2. peer[cur] \in {NULL, t} /\ peer[t] \in {NULL, cur}
    BY <1>1, <2>1 DEF Pairs
  <2>. QED
    BY <1>1, <2>1, <2>2, PeerSetFree
<1>2. CASE MatchNetnsid
  <2>1. cur \in Ifs /\ phase # "scan"
    BY <1>2 DEF MatchNetnsid, At
  <2>2. ~ VethPost
    BY <1>2 DEF MatchNetnsid, VethPost, At
  <2>3. CASE kind[cur] = "veth" /\ ns[t] # ns[cur]
    <3>1. peerIndex[cur] = index[t] /\ peerNetnsid[cur] = ns[t] /\ t \in Ifs
      BY <2>1, <2>3, PeerReported
    <3>2. match_if_netnsid(peerIndex[cur], peerNetnsid[cur], ns[cur]) = t
      BY <3>1, IdFound DEF Base
    <3>3. peerNetnsid[cur] >= 0
      BY <3>1, Numbers DEF Base
    <3>4. peer_set(cur, t)
      BY <1>2, <3>2, <3>3 DEF MatchNetnsid
    <3>. QED
      BY <1>1, <2>1, <2>3, <3>4
  <2>4. CASE ~ (kind[cur] = "veth" /\ ns[t] # ns[cur])
    <3>1. peerNetnsid[cur] = -1
      BY <2>1, <2>4, PeerReported, NoPeerReported
    <3>2. peer' = peer
      BY <1>2, <3>1 DEF MatchNetnsid
    <3>. QED
      BY <2>2, <2>4, <3>2
  <2>. QED
    BY <2>3, <2>4
<1>3. CASE VethPost
  <2>1. cur \in Ifs /\ phase = "post" /\ kind[cur] = "veth" /\ peer[cur] = NULL
    BY <1>3 DEF VethPost, At
  <2>2. match_found(PeerWeight(cur)) = t /\ ~ Doubtful(PeerWeight(cur))
    BY <2>1, PeerFound
  <2>3. peer_set(cur, t)
    BY <1>3, <2>2 DEF VethPost
  <2>. QED
    BY <1>1, <2>1, <2>3
<1>4. CASE ~ MatchNetnsid /\ ~ VethPost
  BY <1>4 DEF Next, Scan, Process, NoPost, NextPhase, vars
<1>. QED
  BY <1>2, <1>3, <1>4

\* Every step keeps the peers true.
LEMMA PairsStep == ASSUME IInv, Base, Links, Pairs, [Next]_vars PROVE Pairs'
<1>1. UNCHANGED truths
  BY WorldStep DEF Base
<1>2. \A e \in Ifs : /\ Identified(e)' <=> Identified(e) \/ (MatchNetnsid /\ e = cur)
                     /\ Posted(e)' <=> Posted(e) \/ ((VethPost \/ NoPost) /\ e = cur)
  BY Visits DEF Base
<1>. SUFFICES ASSUME AllKnown, NEW e \in Ifs
     PROVE  /\ peer'[e] # NULL => kind[e] = "veth" /\ peer'[e] = truth[e]
            /\ (kind[e] = "veth" /\ ns[truth[e]] # ns[e] /\ Identified(e)') => peer'[e] = truth[e]
            /\ (kind[e] = "veth" /\ Posted(e)') => peer'[e] = truth[e]
            /\ kind[e] = "veth" => e \notin warned'
  BY <1>1 DEF Pairs, AllKnown, truths
<1>3. /\ peer[e] # NULL => kind[e] = "veth" /\ peer[e] = truth[e]
      /\ (kind[e] = "veth" /\ ns[truth[e]] # ns[e] /\ Identified(e)) => peer[e] = truth[e]
      /\ (kind[e] = "veth" /\ Posted(e)) => peer[e] = truth[e]
      /\ kind[e] = "veth" => e \notin warned
  BY DEF Pairs
<1>4. ASSUME kind[e] = "veth" PROVE e \notin warned'
  <2>1. ~ (Process /\ e = cur /\ NeedsLink(e))
    <3>1. Process => phase # "scan"
      BY DEF Process, At
    <3>. QED
      BY <1>4, <3>1, PeerReported DEF NeedsLink
  <2>2. ~ (VethPost /\ e = cur /\ Doubtful(PeerWeight(e)))
    <3>1. VethPost => phase = "post" /\ peer[cur] = NULL
      BY DEF VethPost, At
    <3>. QED
      BY <1>4, <3>1, PeerFound
  <2>. QED
    BY <1>3, <1>4, <2>1, <2>2, LinkEffect DEF Links
<1>5. CASE /\ cur \in Ifs /\ kind[cur] = "veth"
           /\ peer'[cur] = truth[cur] /\ peer'[truth[cur]] = cur
           /\ \A d \in Ifs \ {cur, truth[cur]} : peer'[d] = peer[d]
  <2>1. truth[cur] \in Ifs /\ kind[truth[cur]] = "veth" /\ truth[truth[cur]] = cur
    BY <1>5 DEF AllKnown, Base, World, Connected
  <2>2. CASE e \in {cur, truth[cur]}
    BY <1>4, <1>5, <2>1, <2>2
  <2>3. CASE e \notin {cur, truth[cur]}
    BY <1>2, <1>3, <1>4, <1>5, <2>3
  <2>. QED
    BY <2>2, <2>3
<1>6. CASE /\ peer' = peer
           /\ MatchNetnsid /\ kind[cur] = "veth" => ns[truth[cur]] = ns[cur]
           /\ ~ VethPost
  <2>1. NoPost => kind[cur] # "veth" \/ peer[cur] # NULL
    BY DEF NoPost
  <2>. QED
    BY <1>2, <1>3, <1>4, <1>6, <2>1
<1>. QED
  BY <1>5, <1>6, PairEffect

\* With namespace ids and a stable configuration in which every veth leads to
\* an interface that was found, every veth ends up with its true peer and no
\* warning: the pairs are made from either end, by id or by match_peer, and
\* no pairing ever takes an interface from its true peer.
THEOREM PeersCorrect == Spec => []PeerTrue
<1>1. Init => IInv /\ Base /\ Links /\ Pairs
  <2>1. Init => Links
    BY DEF Init, Links, Identified, Resolved
  <2>2. Init => Pairs
    BY DEF Init, Pairs, Identified, Posted
  <2>. QED
    BY <2>1, <2>2, BaseInit, IInvInit
<1>2. IInv /\ Base /\ Links /\ Pairs /\ [Next]_vars => IInv' /\ Base' /\ Links' /\ Pairs'
  BY PeerStep, BaseStep, LinksStep, PairsStep
<1>3. Pairs => PeerTrue
  BY DEF Pairs, AllKnown, PeerTrue, Posted
<1>. QED
  BY <1>1, <1>2, <1>3, PTL DEF Spec

-----------------------------------------------------------------------------
(* What dot and JSON show *)

\* The label of a connection to the master
MasterLabel(x, e) == x[e].label /\ x[e].link = NULL

\* The connections as dot draws them
LEMMA DotShape ==
    ASSUME NEW x
    PROVE  Out!DotPairs(x) =
               {<<e, x[e].master, MasterLabel(x, e)>> : e \in {f \in DOMAIN x : x[f].master # NULL}}
               \union {<<x[e].link, e, x[e].label>> : e \in {f \in DOMAIN x : x[f].link # NULL}}
<1>1. \A e : LET a == Out!Arrow("master", e, e, x[e].master, MasterLabel(x, e))
             IN  <<a.from, a.to, a.label>> = <<e, x[e].master, MasterLabel(x, e)>>
  BY DEF Out!Arrow
<1>2. \A e : LET a == Out!Arrow("link", e, x[e].link, e, x[e].label)
             IN  <<a.from, a.to, a.label>> = <<x[e].link, e, x[e].label>>
  BY DEF Out!Arrow
<1>3. /\ Out!With(x, "master") = {f \in DOMAIN x : x[f].master # NULL}
      /\ Out!With(x, "link") = {f \in DOMAIN x : x[f].link # NULL}
  BY DEF Out!With
<1>4. /\ Out!MasterArrows(x) = {Out!Arrow("master", e, e, x[e].master, MasterLabel(x, e)) :
                                    e \in Out!With(x, "master")}
      /\ Out!LinkArrows(x) = {Out!Arrow("link", e, x[e].link, e, x[e].label) : e \in Out!With(x, "link")}
  BY Zenon DEF Out!MasterArrows, Out!LinkArrows, MasterLabel
<1> QED BY <1>1, <1>2, <1>3, <1>4 DEF Out!DotPairs

\* The connection objects of the two directions
LEMMA ConnectionShape ==
    ASSUME NEW target, NEW label
    PROVE  Out!connection(target, label).target = target /\ Out!connection(target, label).label = label
BY DEF Out!connection

\* What is drawn above an interface: its master, or what is linked to it
LEMMA ParentShape ==
    ASSUME NEW x, NEW e
    PROVE  Out!parents(x, e) =
               IF x[e].master # NULL THEN {Out!connection(x[e].master, MasterLabel(x, e))}
               ELSE {Out!connection(f, x[f].label) : f \in {g \in DOMAIN x : x[g].link = e}}
BY Zenon DEF Out!parents, MasterLabel

\* What is drawn below it: its link, or its ports
LEMMA ChildShape ==
    ASSUME NEW x, NEW e
    PROVE  Out!children(x, e) =
               IF x[e].link # NULL THEN {Out!connection(x[e].link, x[e].label)}
               ELSE {Out!connection(f, MasterLabel(x, f)) : f \in {g \in DOMAIN x : x[g].master = e}}
BY Zenon DEF Out!children, MasterLabel

\* The connections as JSON writes them
LEMMA JsonShape ==
    ASSUME NEW x, NEW t
    PROVE  t \in Out!JsonPairs(x) <=>
               \E e \in DOMAIN x : \/ \E c \in Out!parents(x, e) : t = <<e, c.target, c.label>>
                                   \/ \E c \in Out!children(x, e) : t = <<c.target, e, c.label>>
<1> DEFINE Up(e) == {<<e, c.target, c.label>> : c \in Out!parents(x, e)}
           Down(e) == {<<c.target, e, c.label>> : c \in Out!children(x, e)}
<1>1. t \in Out!JsonPairs(x) <=> \E e \in DOMAIN x : t \in Up(e) \/ t \in Down(e)
  <2> DEFINE Ups == {Up(e) : e \in DOMAIN x}
             Downs == {Down(e) : e \in DOMAIN x}
  <2>1. Out!JsonPairs(x) = (UNION Ups) \union (UNION Downs)
    BY DEF Out!JsonPairs
  <2>2. t \in UNION Ups <=> \E e \in DOMAIN x : t \in Up(e)
    <3>1. \A e \in DOMAIN x : Up(e) \in Ups
      BY Zenon
    <3>2. \A s \in Ups : \E e \in DOMAIN x : s = Up(e)
      BY Zenon
    <3> HIDE DEF Up, Ups
    <3> QED BY <3>1, <3>2
  <2>3. t \in UNION Downs <=> \E e \in DOMAIN x : t \in Down(e)
    <3>1. \A e \in DOMAIN x : Down(e) \in Downs
      BY Zenon
    <3>2. \A s \in Downs : \E e \in DOMAIN x : s = Down(e)
      BY Zenon
    <3> HIDE DEF Down, Downs
    <3> QED BY <3>1, <3>2
  <2> HIDE DEF Up, Down, Ups, Downs
  <2> QED BY <2>1, <2>2, <2>3
<1> QED BY <1>1

\* What JSON writes, on whichever side of a relation, dot draws.
LEMMA JsonInDot ==
    ASSUME NEW x, NULL \notin DOMAIN x
    PROVE  Out!JsonPairs(x) \subseteq Out!DotPairs(x)
<1>1. ASSUME NEW e \in DOMAIN x, NEW c \in Out!parents(x, e)
      PROVE  <<e, c.target, c.label>> \in Out!DotPairs(x)
  <2>1. CASE x[e].master # NULL
    BY <2>1, ParentShape, ConnectionShape, DotShape
  <2>2. CASE x[e].master = NULL
    <3>1. PICK f \in DOMAIN x : x[f].link = e /\ c = Out!connection(f, x[f].label)
      BY <2>2, ParentShape
    <3> QED BY <3>1, ConnectionShape, DotShape
  <2> QED BY <2>1, <2>2
<1>2. ASSUME NEW e \in DOMAIN x, NEW c \in Out!children(x, e)
      PROVE  <<c.target, e, c.label>> \in Out!DotPairs(x)
  <2>1. CASE x[e].link # NULL
    BY <2>1, ChildShape, ConnectionShape, DotShape
  <2>2. CASE x[e].link = NULL
    <3>1. PICK f \in DOMAIN x : x[f].master = e /\ c = Out!connection(f, MasterLabel(x, f))
      BY <2>2, ChildShape
    <3> QED BY <3>1, ConnectionShape, DotShape
  <2> QED BY <2>1, <2>2
<1> QED BY <1>1, <1>2, JsonShape

\* What dot draws, JSON has at the interface below a master or above a link.
LEMMA DotInJson ==
    ASSUME NEW x
    PROVE  Out!DotPairs(x) \subseteq Out!JsonPairs(x)
<1>1. ASSUME NEW e \in DOMAIN x, x[e].master # NULL
      PROVE  <<e, x[e].master, MasterLabel(x, e)>> \in Out!JsonPairs(x)
  <2>1. Out!connection(x[e].master, MasterLabel(x, e)) \in Out!parents(x, e)
    BY <1>1, ParentShape
  <2>2. PICK c \in Out!parents(x, e) : c.target = x[e].master /\ c.label = MasterLabel(x, e)
    BY <2>1, ConnectionShape
  <2> QED BY <2>2, JsonShape
<1>2. ASSUME NEW e \in DOMAIN x, x[e].link # NULL
      PROVE  <<x[e].link, e, x[e].label>> \in Out!JsonPairs(x)
  <2>1. Out!connection(x[e].link, x[e].label) \in Out!children(x, e)
    BY <1>2, ChildShape
  <2>2. PICK c \in Out!children(x, e) : c.target = x[e].link /\ c.label = x[e].label
    BY <2>1, ConnectionShape
  <2> QED BY <2>2, JsonShape
<1> QED BY <1>1, <1>2, DotShape

\* dot and JSON show the same connections with the same labels, for every
\* number of interfaces and every topology.
THEOREM SameDiagramCorrect == Spec => []SameDiagram
<1>1. NULL \notin DOMAIN Shown
  BY NullAssumption DEF Shown
<1>2. Out!JsonPairs(Shown) \subseteq Out!DotPairs(Shown)
  BY <1>1, JsonInDot
<1>3. Out!DotPairs(Shown) \subseteq Out!JsonPairs(Shown)
  BY DotInJson
<1>4. SameDiagram
  BY <1>2, <1>3 DEF SameDiagram
<1> QED BY <1>4, PTL

\* No interface is its own peer.
NoSelf == \A e \in Ifs : peer[e] # e

\* What a namespace id leads to is in another namespace.
LEMMA OtherFound ==
    ASSUME Base, NEW e \in Ifs, peerNetnsid[e] >= 0
    PROVE  match_if_netnsid(peerIndex[e], peerNetnsid[e], ns[e]) # e
<1>1. peerNetnsid[e] # ns[e]
  BY DEF Base, Reports, ReportedNetnsid
<1>2. e # NULL
  OBVIOUS
<1>. DEFINE found == {f \in Ifs : ns[f] = peerNetnsid[e] /\ index[f] = peerIndex[e]}
<1>3. found # {} => Min(found) \in found
  BY MinIsMember
<1>. QED
  BY <1>1, <1>2, <1>3 DEF match_if_netnsid

\* peer_set of two different interfaces makes none its own peer.
LEMMA PeerSetOther ==
    ASSUME PeerType, NoSelf, NEW a \in Ifs, NEW b \in Ifs \union {NULL}, a # b, peer_set(a, b)
    PROVE  NoSelf'
<1>. DEFINE f0 == Unpaired(peer, a)
            f == Pointed(f0, a, b)
            g0 == Unpaired(f, b)
            g == Pointed(g0, b, a)
<1>1. f0 \in [Ifs -> Ifs \union {NULL}] /\ \A e \in Ifs : f0[e] # e
  BY DEF PeerType, NoSelf, Unpaired
<1>. HIDE DEF f0
<1>2. f \in [Ifs -> Ifs \union {NULL}] /\ \A e \in Ifs : f[e] # e
  BY <1>1 DEF Pointed
<1>. HIDE DEF f
<1>3. g0 \in [Ifs -> Ifs \union {NULL}] /\ \A e \in Ifs : g0[e] # e
  BY <1>2 DEF Unpaired
<1>. HIDE DEF g0
<1>4. \A e \in Ifs : g[e] # e
  BY <1>3 DEF Pointed
<1>5. peer' = g
  BY DEF peer_set, f0, f, g0
<1>. HIDE DEF g
<1>. QED
  BY <1>4, <1>5 DEF NoSelf

\* No step relates an interface to itself.
LEMMA NoSelfStep == ASSUME IInv, Base, NoSelf, [Next]_vars PROVE NoSelf'
<1>1. CASE peer' = peer
  BY <1>1 DEF NoSelf
<1>2. CASE MatchNetnsid /\ peer' # peer
  <2>1. cur \in Ifs /\ peerNetnsid[cur] >= 0
        /\ peer_set(cur, match_if_netnsid(peerIndex[cur], peerNetnsid[cur], ns[cur]))
    BY <1>2 DEF MatchNetnsid, At
  <2>. QED
    BY <2>1, OtherFound, FoundIsListed, PeerSetOther DEF IInv
<1>3. CASE VethPost /\ peer' # peer
  <2>1. cur \in Ifs /\ peer[cur] = NULL /\ ~ Doubtful(PeerWeight(cur))
        /\ peer_set(cur, match_found(PeerWeight(cur)))
    BY <1>3 DEF VethPost, At
  <2>. QED
    BY <2>1, PeerFree, PeerSetOther DEF IInv
<1>. QED
  BY <1>1, <1>2, <1>3 DEF Next, Scan, Process, NoPost, NextPhase, vars

\* The arrows between peers, and that no other arrow is of their kind
LEMMA PeerArrowShape ==
    ASSUME NEW addr, NEW a
    PROVE  (a \in Out!output_ifaces_pass2(Shown, addr) /\ a.kind = "peer") <=>
               \E d \in Ifs : /\ peer[d] # NULL /\ addr[d] > addr[peer[d]]
                             /\ a = Out!Arrow("peer", d, d, peer[d], FALSE)
<1>1. \A k, o, from, to, l : Out!Arrow(k, o, from, to, l).kind = k
  BY DEF Out!Arrow
<1>2. a \in Out!MasterArrows(Shown) => a.kind = "master"
  <2>1. a \in Out!MasterArrows(Shown) => \E o, from, to, l : a = Out!Arrow("master", o, from, to, l)
    BY Zenon DEF Out!MasterArrows
  <2>. QED
    BY <1>1, <2>1
<1>3. a \in Out!PhysfnArrows(Shown) => a.kind = "physfn"
  <2>1. a \in Out!PhysfnArrows(Shown) => \E o, from, to, l : a = Out!Arrow("physfn", o, from, to, l)
    BY Zenon DEF Out!PhysfnArrows
  <2>. QED
    BY <1>1, <2>1
<1>4. a \in Out!LinkArrows(Shown) => a.kind = "link"
  <2>1. a \in Out!LinkArrows(Shown) => \E o, from, to, l : a = Out!Arrow("link", o, from, to, l)
    BY Zenon DEF Out!LinkArrows
  <2>. QED
    BY <1>1, <2>1
<1>5. a \in Out!NetArrows(Shown) => a.kind = "netns"
  <2>1. a \in Out!NetArrows(Shown) => \E o, from, to, l : a = Out!Arrow("netns", o, from, to, l)
    BY Zenon DEF Out!NetArrows
  <2>. QED
    BY <1>1, <2>1
<1>6. Out!With(Shown, "peer") = {d \in Ifs : peer[d] # NULL} /\ \A d \in Ifs : Shown[d].peer = peer[d]
  BY DEF Out!With, Shown
<1>7. a \in Out!PeerArrows(Shown, addr) <=>
         \E d \in Ifs : /\ peer[d] # NULL /\ addr[d] > addr[peer[d]]
                       /\ a = Out!Arrow("peer", d, d, peer[d], FALSE)
  BY <1>6 DEF Out!PeerArrows
<1>8. a \in Out!PeerArrows(Shown, addr) => a.kind = "peer"
  <2>1. a \in Out!PeerArrows(Shown, addr) => \E o, from, to, l : a = Out!Arrow("peer", o, from, to, l)
    BY Zenon DEF Out!PeerArrows
  <2>. QED
    BY <1>1, <2>1
<1>9. (a \in Out!output_ifaces_pass2(Shown, addr) /\ a.kind = "peer") <=>
         a \in Out!PeerArrows(Shown, addr)
  BY <1>2, <1>3, <1>4, <1>5, <1>8 DEF Out!output_ifaces_pass2
<1>. QED
  BY <1>7, <1>9

\* One of the two ends of a pair has the higher address.
LEMMA OneArrow ==
    ASSUME PeerType, PeerSymmetric, NoSelf, NEW addr \in Places, NEW e \in Ifs, peer[e] # NULL
    PROVE  Cardinality({a \in Out!output_ifaces_pass2(Shown, addr) :
                            a.kind = "peer" /\ {a.from, a.to} = {e, peer[e]}}) = 1
<1>. DEFINE f == peer[e]
            A == Out!output_ifaces_pass2(Shown, addr)
            S == {a \in A : a.kind = "peer" /\ {a.from, a.to} = {e, f}}
<1>1. f \in Ifs /\ f # e /\ peer[f] = e
  BY DEF PeerType, PeerSymmetric, NoSelf
<1>2. addr[e] # addr[f] /\ addr[e] \in Int /\ addr[f] \in Int
  BY <1>1 DEF Places, Ifs
<1>3. PICK h \in {e, f} : addr[h] > addr[peer[h]] /\ ~ (addr[peer[h]] > addr[h])
  BY <1>1, <1>2
<1>4. h \in Ifs /\ peer[h] \in Ifs /\ peer[h] # NULL /\ {h, peer[h]} = {e, f} /\ peer[peer[h]] = h
  BY <1>1
<1>. DEFINE top == Out!Arrow("peer", h, h, peer[h], FALSE)
<1>5. \A d : LET a == Out!Arrow("peer", d, d, peer[d], FALSE)
             IN  a.kind = "peer" /\ a.from = d /\ a.to = peer[d]
  BY DEF Out!Arrow
<1>. HIDE DEF A, f
<1>6. top \in S
  <2>1. top \in A
    BY <1>3, <1>4, PeerArrowShape DEF A
  <2>2. top.kind = "peer" /\ top.from = h /\ top.to = peer[h]
    BY <1>5
  <2>. HIDE DEF top
  <2>. QED
    BY <1>4, <2>1, <2>2
<1>7. ASSUME NEW a \in S PROVE a = top
  <2>1. PICK d \in Ifs : /\ addr[d] > addr[peer[d]]
                         /\ a = Out!Arrow("peer", d, d, peer[d], FALSE)
    BY PeerArrowShape DEF A
  <2>2. {d, peer[d]} = {e, f}
    BY <1>5, <2>1
  <2>3. d = h \/ d = peer[h]
    BY <1>4, <2>2
  <2>4. d = h
    BY <1>3, <1>4, <2>1, <2>3
  <2>. QED
    BY <2>1, <2>4
<1>. HIDE DEF top, S
<1>8. S = {top}
  BY <1>6, <1>7
<1>9. Cardinality(S) = 1
  BY <1>8, FS_Singleton
<1>. QED
  BY <1>9 DEF S, A, f

\* dot draws each pair of peers once, for every number of interfaces, every
\* order of them in memory and whatever the kernel reported: the pointers of
\* the two agree, and no interface is its own peer, for which the comparison
\* of dot.c:147 would draw nothing.
THEOREM PeersDrawnOnceCorrect == Spec => []PeersDrawnOnce
<1>1. Init => IInv /\ Base /\ NoSelf
  <2>1. Init => NoSelf
    BY DEF Init, NoSelf
  <2>. QED
    BY <2>1, BaseInit, IInvInit
<1>2. IInv /\ Base /\ NoSelf /\ [Next]_vars => IInv' /\ Base' /\ NoSelf'
  BY PeerStep, BaseStep, NoSelfStep
<1>3. IInv /\ NoSelf => PeersDrawnOnce
  BY OneArrow DEF IInv, PeersDrawnOnce
<1>. QED
  BY <1>1, <1>2, <1>3, PTL DEF Spec
=============================================================================
