------------------------------- MODULE Output -------------------------------
(***************************************************************************)
(* Which connections between interfaces the two output formats show        *)
(* (frontends/dot.c and frontends/json.c).  Text, colours and styles are   *)
(* left out.                                                               *)
(*                                                                         *)
(* x is what the frontends read: for every interface a record with the     *)
(* fields master, physfn, link, peer, linkNet and label (whether there is  *)
(* an edge_label).  addr gives the interfaces' addresses in memory.  The   *)
(* reverse lists are taken from the pointers, as RelationsProofs allows.   *)
(***************************************************************************)
EXTENDS Integers

CONSTANT NULL

With(x, field) == {e \in DOMAIN x : x[e][field] # NULL}

-----------------------------------------------------------------------------
(* dot: a set of arrows, each on behalf of one interface *)

Arrow(kind, of, from, to, label) ==
    [kind |-> kind, of |-> of, from |-> from, to |-> to, label |-> label]

MasterArrows(x) ==
    {Arrow("master", e, e, x[e].master, x[e].label /\ x[e].link = NULL) : e \in With(x, "master")}

PhysfnArrows(x) == {Arrow("physfn", e, e, x[e].physfn, FALSE) : e \in With(x, "physfn")}

LinkArrows(x) == {Arrow("link", e, x[e].link, e, x[e].label) : e \in With(x, "link")}

NetArrows(x) ==
    {Arrow("netns", e, e, x[e].linkNet, FALSE) : e \in With(x, "linkNet") \ With(x, "link")}

\* Mutant: a pair is drawn from either end.
PeerArrowsMutant(x, addr) ==
    {Arrow("peer", e, e, x[e].peer, FALSE) : e \in {f \in With(x, "peer") : addr[f] # addr[x[f].peer]}}

\* A pair is drawn from the end with the higher address.
PeerArrows(x, addr) ==
    {Arrow("peer", e, e, x[e].peer, FALSE) : e \in {f \in With(x, "peer") : addr[f] > addr[x[f].peer]}}

output_ifaces_pass2(x, addr) ==
    MasterArrows(x) \union PhysfnArrows(x) \union LinkArrows(x) \union NetArrows(x)
    \union PeerArrows(x, addr)

-----------------------------------------------------------------------------
(* json: the connection objects of each interface *)

connection(target, label) == [target |-> target, label |-> label]

\* Mutant: a label is shown at the master also when it belongs to the link.
parentsMutant(x, e) ==
    IF x[e].master # NULL
    THEN {connection(x[e].master, x[e].label)}
    ELSE {connection(f, x[f].label) : f \in {g \in DOMAIN x : x[g].link = e}}

parents(x, e) ==
    IF x[e].master # NULL
    THEN {connection(x[e].master, x[e].label /\ x[e].link = NULL)}
    ELSE {connection(f, x[f].label) : f \in {g \in DOMAIN x : x[g].link = e}}

children(x, e) ==
    IF x[e].link # NULL
    THEN {connection(x[e].link, x[e].label)}
    ELSE {connection(f, x[f].label /\ x[f].link = NULL) : f \in {g \in DOMAIN x : x[g].master = e}}

-----------------------------------------------------------------------------
(* The two formats as relations from the lower to the upper interface *)

DotPairs(x) == {<<a.from, a.to, a.label>> : a \in MasterArrows(x) \union LinkArrows(x)}

JsonPairs(x) ==
    (UNION {{<<e, c.target, c.label>> : c \in parents(x, e)} : e \in DOMAIN x})
    \union (UNION {{<<c.target, e, c.label>> : c \in children(x, e)} : e \in DOMAIN x})
=============================================================================
