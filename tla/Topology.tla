------------------------------ MODULE Topology ------------------------------
(***************************************************************************)
(* From the indices and namespace ids the kernel reports to pointers       *)
(* between interfaces: veth_scan, match_all_netnsid, master_resolve and    *)
(* veth_post, which netns_fill_list runs one after the other over all      *)
(* interfaces (netns.c:373-394).                                           *)
(*                                                                         *)
(* The inputs are derived from a true topology, which the program does not *)
(* see: every interface may have a master, and is "plain", a "vlan" (it    *)
(* has a link) or a "veth" (it has a peer).  A link or peer is a listed    *)
(* interface or -i, the one with index i of a namespace that was not       *)
(* found.  The kernel reports the index and, for another namespace, its    *)
(* id, if it knows about ids at all.                                       *)
(*                                                                         *)
(* match_if is used through what module Match shows it computes.  Of       *)
(* master_set and link_set only the pointer is kept here; the lists they   *)
(* also maintain are the subject of module Relations.                      *)
(***************************************************************************)
EXTENDS Integers, FiniteSets, FiniteSetsExt

CONSTANTS
    N,              \* interfaces
    Nss,            \* namespaces, in the order of the list
    Indices,        \* interface indices
    NULL

ASSUME SizeAssumption == N \in Nat /\ Nss \subseteq Nat \ {0} /\ Indices \subseteq Nat \ {0}

Ifs == 1..N         \* in the order of netns_list and of the ifaces lists
HiddenNs == 0       \* the id of a namespace that is not in the list
Hidden == {-i : i \in Indices}

ASSUME NullAssumption == NULL \notin Ifs /\ NULL \notin Hidden

VARIABLES
    \* the true topology
    ns, index,          \* namespace and index of each interface
    kind,               \* "plain", "vlan" or "veth"
    trueMaster,
    truth,              \* the link or peer of each interface
    netnsids,           \* the kernel knows namespace ids
    stable,             \* nothing was changed while the namespaces were read
    \* struct if_entry
    masterIndex, linkIndex, linkNetnsid, peerIndex, peerNetnsid,
    master, link, peer,
    warned,             \* the interfaces with a warning about a relation
    \* the program's position
    phase, cur

truths == <<ns, index, kind, trueMaster, truth, netnsids, stable>>
reported == <<masterIndex, linkIndex, linkNetnsid, peerIndex, peerNetnsid>>
vars == <<truths, reported, master, link, peer, warned, phase, cur>>

-----------------------------------------------------------------------------
(* What the kernel reports (external) *)

IndexOf(t) == IF t \in Hidden THEN -t ELSE index[t]
NsOf(t) == IF t \in Hidden THEN HiddenNs ELSE ns[t]

\* Indices are unique in a namespace.
Placed ==
    /\ \A e, f \in Ifs : e < f => ns[e] <= ns[f]
    /\ \A e, f \in Ifs : (ns[e] = ns[f] /\ index[e] = index[f]) => e = f

\* A master is in the namespace of its port.
Mastered ==
    \A e \in Ifs : trueMaster[e] # NULL =>
        /\ ns[trueMaster[e]] = ns[e]
        /\ trueMaster[e] # e
        /\ trueMaster[trueMaster[e]] = NULL

\* The two ends of a listed veth pair name each other, unless pairs were
\* removed and made between the dumps of their two namespaces.
Connected ==
    \A e \in Ifs :
        /\ truth[e] # e
        /\ (kind[e] = "plain") <=> (truth[e] = NULL)
        /\ (stable /\ kind[e] = "veth" /\ truth[e] \in Ifs) =>
              kind[truth[e]] = "veth" /\ truth[truth[e]] = e

\* IFLA_MASTER, IFLA_LINK and IFLA_LINK_NETNSID; 0 and -1 stand for absent
ReportedIndex(t) == IF t = NULL THEN 0 ELSE IndexOf(t)
ReportedNetnsid(e) ==
    IF truth[e] # NULL /\ netnsids /\ NsOf(truth[e]) # ns[e] THEN NsOf(truth[e]) ELSE -1

Init ==
    /\ ns \in [Ifs -> Nss]
    /\ index \in [Ifs -> Indices]
    /\ Placed
    /\ trueMaster \in [Ifs -> Ifs \union {NULL}]
    /\ Mastered
    /\ kind \in [Ifs -> {"plain", "vlan", "veth"}]
    /\ truth \in [Ifs -> Ifs \union Hidden \union {NULL}]
    /\ stable \in BOOLEAN
    /\ Connected
    /\ netnsids \in BOOLEAN
    /\ masterIndex = [e \in Ifs |-> ReportedIndex(trueMaster[e])]
    /\ linkIndex = [e \in Ifs |-> ReportedIndex(truth[e])]
    /\ linkNetnsid = [e \in Ifs |-> ReportedNetnsid(e)]
    /\ peerIndex = [e \in Ifs |-> 0]
    /\ peerNetnsid = [e \in Ifs |-> -1]
    /\ master = [e \in Ifs |-> NULL]
    /\ link = [e \in Ifs |-> NULL]
    /\ peer = [e \in Ifs |-> NULL]
    /\ warned = {}
    /\ phase = "scan"
    /\ cur = 1

-----------------------------------------------------------------------------
(* match_if, for weights w: what module Match proves of it *)

Heaviest(w) == {i \in Ifs : w[i] > 0 /\ \A j \in Ifs : w[j] <= w[i]}
match_found(w) == IF Heaviest(w) = {} THEN NULL ELSE Min(Heaviest(w))
match_ambiguous(w) == Cardinality(Heaviest(w)) > 1

SameNsFirst(e, matches) ==
    [i \in Ifs |-> IF i = e \/ i \notin matches THEN 0 ELSE IF ns[i] = ns[e] THEN 2 ELSE 1]

-----------------------------------------------------------------------------
(* peer_set *)

\* first->peer->peer = NULL; first->peer = second; then the same for second,
\* whose peer may be gone by then.
Unpaired(f, e) == IF e # NULL /\ f[e] # NULL THEN [f EXCEPT ![f[e]] = NULL] ELSE f
Pointed(f, e, to) == IF e # NULL THEN [f EXCEPT ![e] = to] ELSE f

\* Mutant: the former peer of the second interface keeps pointing to it.
peer_setMutant(first, second) ==
    peer' = Pointed(Pointed(Unpaired(peer, first), first, second), second, first)

peer_set(first, second) ==
    LET f == Pointed(Unpaired(peer, first), first, second)
    IN  peer' = Pointed(Unpaired(f, second), second, first)

-----------------------------------------------------------------------------
(* One step per interface and phase *)

At(p) == phase = p /\ cur \in Ifs

\* veth_scan: the link of a veth is its peer
Scan ==
    /\ At("scan")
    /\ IF kind[cur] = "veth"
          THEN /\ peerIndex' = [peerIndex EXCEPT ![cur] = linkIndex[cur]]
               /\ peerNetnsid' = [peerNetnsid EXCEPT ![cur] = linkNetnsid[cur]]
               /\ linkIndex' = [linkIndex EXCEPT ![cur] = 0]
               /\ linkNetnsid' = [linkNetnsid EXCEPT ![cur] = -1]
          ELSE UNCHANGED <<peerIndex, peerNetnsid, linkIndex, linkNetnsid>>
    /\ cur' = cur + 1
    /\ UNCHANGED <<truths, masterIndex, master, link, peer, warned, phase>>

\* Mutant: the namespace id is looked up, but the index in the own namespace.
match_if_netnsidMutant(i, id, n) ==
    LET found == {f \in Ifs : ns[f] = n /\ index[f] = i}
    IN  IF id \notin Nss \/ found = {} THEN NULL ELSE Min(found)

\* match_if_netnsid and match_netnsid: ids of listed namespaces are those
\* netns_get_all_ids collected
match_if_netnsid(i, id, n) ==
    LET found == {f \in Ifs : ns[f] = id /\ index[f] = i}
    IN  IF id \notin Nss \/ found = {} THEN NULL ELSE Min(found)

\* match_all_netnsid
MatchNetnsid ==
    /\ At("netnsid")
    /\ IF linkNetnsid[cur] >= 0
          THEN link' = [link EXCEPT ![cur] =
                           match_if_netnsid(linkIndex[cur], linkNetnsid[cur], ns[cur])]
          ELSE UNCHANGED link
    /\ IF peerNetnsid[cur] >= 0
          THEN peer_set(cur, match_if_netnsid(peerIndex[cur], peerNetnsid[cur], ns[cur]))
          ELSE UNCHANGED peer
    /\ cur' = cur + 1
    /\ UNCHANGED <<truths, reported, master, warned, phase>>

\* Mutant: interfaces of other namespaces weigh the same.
WeightMutant(e, i) == [f \in Ifs |-> IF f # e /\ index[f] = i THEN 1 ELSE 0]

\* match_master and match_link, with entry excluded
Weight(e, i) == SameNsFirst(e, {f \in Ifs : index[f] = i})

NeedsMaster(e) == master[e] = NULL /\ masterIndex[e] # 0

\* Mutant: a link found by its namespace id is searched again.
NeedsLinkMutant(e) == linkIndex[e] # 0
NeedsLink(e) == link[e] = NULL /\ linkIndex[e] # 0

\* err_msg: a warning unless exactly one interface is the best match
Doubtful(w) == match_ambiguous(w) \/ match_found(w) = NULL

\* process of master.c
Process ==
    /\ At("resolve")
    /\ LET m == Weight(cur, masterIndex[cur])
           l == Weight(cur, linkIndex[cur])
       IN  /\ master' = IF NeedsMaster(cur) THEN [master EXCEPT ![cur] = match_found(m)] ELSE master
           /\ link' = IF NeedsLink(cur) THEN [link EXCEPT ![cur] = match_found(l)] ELSE link
           /\ warned' = warned \union
                  {e \in {cur} : (NeedsMaster(e) /\ Doubtful(m)) \/ (NeedsLink(e) /\ Doubtful(l))}
    /\ cur' = cur + 1
    /\ UNCHANGED <<truths, reported, peer, phase>>

\* Mutant: an interface that has a peer already is taken from it.
PeerWeightMutant(e) ==
    SameNsFirst(e, {f \in Ifs : /\ kind[f] = "veth"
                                /\ index[f] = peerIndex[e]
                                /\ peerIndex[f] = index[e]})

\* match_peer
PeerWeight(e) ==
    SameNsFirst(e, {f \in Ifs : /\ kind[f] = "veth"
                                /\ index[f] = peerIndex[e]
                                /\ peerIndex[f] = index[e]
                                /\ peer[f] \in {NULL, e}})

\* veth_post; a veth without a peer index cannot occur here
VethPost ==
    /\ At("post")
    /\ kind[cur] = "veth"
    /\ peer[cur] = NULL
    /\ LET w == PeerWeight(cur)
       IN  IF Doubtful(w)
           THEN warned' = warned \union {cur} /\ UNCHANGED peer
           ELSE peer_set(cur, match_found(w)) /\ UNCHANGED warned
    /\ cur' = cur + 1
    /\ UNCHANGED <<truths, reported, master, link, phase>>

NoPost ==
    /\ At("post")
    /\ kind[cur] # "veth" \/ peer[cur] # NULL
    /\ cur' = cur + 1
    /\ UNCHANGED <<truths, reported, master, link, peer, warned, phase>>

Follows == [scan |-> "netnsid", netnsid |-> "resolve", resolve |-> "post", post |-> "done"]

NextPhase ==
    /\ phase # "done"
    /\ cur = N + 1
    /\ phase' = Follows[phase]
    /\ cur' = 1
    /\ UNCHANGED <<truths, reported, master, link, peer, warned>>

Next == Scan \/ MatchNetnsid \/ Process \/ VethPost \/ NoPost \/ NextPhase

Spec == Init /\ [][Next]_vars

-----------------------------------------------------------------------------
\* Peers always point at each other, in every intermediate state, whichever
\* end is paired first and again, and also when the dumps of two namespaces
\* contradict each other (master.c:52-66).
PeerSymmetric == \A e, f \in Ifs : peer[e] = f => peer[f] = e

\* Every interface ends up under its true master, although other namespaces
\* have interfaces with the same index (master.c:68-77).
MasterTrue == phase = "done" => master = trueMaster

\* With namespace ids, an interface whose link was found by the scan ends up
\* linked to it, in whatever namespace it is, and no warning is given
\* (match.c:93-114, master.c:116).
LinkTrue ==
    (phase = "done" /\ netnsids) =>
        \A e \in Ifs : (kind[e] = "vlan" /\ truth[e] \in Ifs) =>
            link[e] = truth[e] /\ e \notin warned

\* With namespace ids and a stable configuration, when no veth leads to an
\* unknown namespace, every veth ends up with its true peer (match.c:108-111,
\* veth.c:54-91).
PeerTrue ==
    (phase = "done" /\ netnsids /\ stable /\ \A e \in Ifs : kind[e] = "veth" => truth[e] \in Ifs) =>
        \A e \in Ifs : kind[e] = "veth" => peer[e] = truth[e] /\ e \notin warned

\* No relation is lost silently: a veth without peer and a vlan without link
\* carry a warning, also when another interface has claimed its end
\* (veth.c:62-63, 85-88, master.c:92-95).
NoSilentLoss ==
    phase = "done" =>
        \A e \in Ifs :
            /\ (kind[e] = "veth" /\ peer[e] = NULL) => e \in warned
            /\ (kind[e] = "vlan" /\ link[e] = NULL) => e \in warned
=============================================================================
