-------------------------------- MODULE Ovs --------------------------------
(***************************************************************************)
(* The Open vSwitch handler (handlers/openvswitch.c): it reads the         *)
(* database's bridges, ports and interfaces, finds for each of them the    *)
(* interface of the kernel by heuristics, creates the ones the kernel does *)
(* not have, and connects them.                                            *)
(*                                                                         *)
(* The database is a sequence of bridges, a bridge a sequence of ports, a  *)
(* port a sequence of interfaces: db[b].ports[p].ifaces[i].  A pointer to  *)
(* an interface is its place in ents, and 0 is NULL.  Of the JSON texts    *)
(* only their being complete and well-formed is kept.                      *)
(***************************************************************************)
EXTENDS Integers, Sequences, SequencesExt, FiniteSets, FiniteSetsExt

CONSTANTS
    Databases,      \* what ovsdb may hold
    Kernels         \* sequences of interfaces the scan may have found

Root == 1           \* the first namespace of the list; datapaths are here or in others
OvsSystem == -1     \* a master named ovs-system
OtherMaster == -2   \* any other master

Iface0 == [name : STRING, type : STRING, peer : STRING, local : BOOLEAN]
Port0 == [name : STRING, ifaces : Seq(Iface0), trunks : BOOLEAN]
Bridge0 == [name : STRING, dp : STRING, ports : Seq(Port0), broken : Int]

\* The drivers the handler asks for; only a created interface has none.
Drivers == {"openvswitch", "tun", "other", ""}

Entry == [name : STRING, ns : Nat, driver : Drivers, master : Int, peer : Nat, link : Nat,
          sub : BOOLEAN, host : BOOLEAN, internal : BOOLEAN, bridge : Nat,
          attached : {"slave", "vport", "foreign", "no"}]

PlacesOf(d) ==
    UNION {UNION {{<<b, p, i>> : i \in DOMAIN d[b].ports[p].ifaces} : p \in DOMAIN d[b].ports} :
              b \in DOMAIN d}

IfaceOf(d, at) == d[at[1]].ports[at[2]].ifaces[at[3]]

\* The schema of the database (external) makes names unique in each table, and
\* vswitchd has no interface named like a port it is not in.  Of the types of
\* datapaths parse_bridge takes two.
ASSUME DatabaseAssumption ==
    \A d \in Databases :
        /\ d \in Seq(Bridge0)
        /\ \A b \in DOMAIN d : d[b].broken = 0 => d[b].dp \in {"system", "netdev"}
        /\ \A at, bt \in PlacesOf(d) : IfaceOf(d, at).name = IfaceOf(d, bt).name => at = bt
        /\ \A at \in PlacesOf(d) : \A b \in DOMAIN d : \A p \in DOMAIN d[b].ports :
              d[b].ports[p].name = IfaceOf(d, at).name => at[1] = b /\ at[2] = p
        /\ \A b \in DOMAIN d : \A p, q \in DOMAIN d[b].ports :
              d[b].ports[p].name = d[b].ports[q].name => p = q

Attached(x) == x.attached \in {"slave", "vport"}

\* What the scan found, the state of the kernel (external).  The field attached
\* says what an interface is to the datapath of the root namespace: "slave" is a
\* port whose master is ovs-system, "vport" one without master; "foreign" is a
\* slave of the ovs-system of another namespace, "no" are the others.  Names are
\* unique in a namespace and among the ports of a datapath, and Topology shows
\* that peers are symmetric.
ASSUME KernelAssumption ==
    \A k \in Kernels :
        /\ k.ifs \in Seq(Entry)
        /\ \A e \in DOMAIN k.ifs :
              LET x == k.ifs[e]
              IN  /\ ~ x.internal /\ x.driver # ""
                  /\ x.master \in {0, OvsSystem, OtherMaster}
                  /\ x.master = OvsSystem <=> x.attached \in {"slave", "foreign"}
                  /\ x.attached = "vport" => x.master = 0
                  /\ Attached(x) => <<Root, x.name>> \in k.vports
                  /\ x.peer # 0 => x.peer \in DOMAIN k.ifs /\ k.ifs[x.peer].peer = e
        /\ \A e, f \in DOMAIN k.ifs :
              (/\ k.ifs[e].name = k.ifs[f].name
               /\ k.ifs[e].ns = k.ifs[f].ns \/ (Attached(k.ifs[e]) /\ Attached(k.ifs[f]))) => e = f

\* vswitchd keeps the datapath as the database says (external): an internal
\* interface is a port of the kernel's own driver.
ASSUME DatapathAssumption ==
    \A d \in Databases, k \in Kernels : \A at \in PlacesOf(d) : \A e \in DOMAIN k.ifs :
        (/\ IfaceOf(d, at).type = "internal" /\ d[at[1]].dp = "system"
         /\ Attached(k.ifs[e]) /\ k.ifs[e].name = IfaceOf(d, at).name) => k.ifs[e].driver = "openvswitch"

VARIABLES
    db,             \* the database
    vports,         \* pairs of namespace and name: the kernel datapaths' ports
    answered,       \* the interfaces the kernel can be asked about
    ents,           \* struct if_entry, in the order of creation
    br_list,        \* the bridges parsed so far
    found,          \* link of struct ovs_if
    master,         \* the local of link_ifaces
    asked,          \* the query was sent
    warned,         \* warnings of the root namespace
    out,            \* the output on stdout: "none", "buffered", "flushed"
    pos,            \* the bridge, port and interface that is linked next
    phase

vars == <<db, vports, answered, ents, br_list, found, master, asked, warned, out, pos, phase>>

Places == PlacesOf(db)

Iface(at) == IfaceOf(db, at)

\* br->system: the port with the name of the bridge
System(b) == {p \in DOMAIN db[b].ports : db[b].ports[p].name = db[b].name}
SystemIface(b) == <<b, Min(System(b)), 1>>

-----------------------------------------------------------------------------
(* The exchange with ovsdb *)

\* construct_query, connect_ovs, write: errors other than ENOMEM are swallowed.
connect_ovs ==
    /\ phase = "connect"
    /\ phase' \in {"read", "output", "failed"}
    /\ asked' = (phase' = "read")
    /\ UNCHANGED <<db, vports, answered, ents, br_list, found, master, warned, out, pos>>

\* The answer is complete, an error or cut after a short read, or the read
\* fails, which is taken for ENOMEM.  Nothing bounds the wait for it.
read_all ==
    /\ phase = "read"
    /\ \/ phase' = "parse" /\ UNCHANGED warned
       \/ phase' = "output" /\ warned' = TRUE
       \/ phase' = "failed" /\ UNCHANGED warned
    /\ UNCHANGED <<db, vports, answered, ents, br_list, found, master, asked, out, pos>>

\* destruct_port frees trunks twice.
FreedTwice(port) == port.trunks

\* parse_bridge, parse_port, parse_iface: broken is the port that is malformed,
\* or negative if the bridge itself is
parse_bridge(b) ==
    /\ db[b].broken = 0
    /\ br_list' = Append(br_list, b)
    /\ phase' = IF b = Len(db) THEN "link" ELSE "parse"
    /\ UNCHANGED warned

\* Something malformed gives a warning, or it is a missing or mistyped member
\* that is dereferenced (is_uuid, is_set, is_map, strdup), or it crashes when
\* the ports before it are released with it.
parse_error(b) ==
    /\ db[b].broken # 0
    /\ warned' = TRUE
    /\ phase' \in {"output", "crashed"}
    /\ UNCHANGED br_list

parse ==
    /\ phase = "parse"
    /\ LET b == Len(br_list) + 1
       IN  \/ b \in DOMAIN db /\ (parse_bridge(b) \/ parse_error(b))
           \/ b \notin DOMAIN db /\ phase' = "output" /\ UNCHANGED <<br_list, warned>>
    /\ UNCHANGED <<db, vports, answered, ents, found, master, asked, out, pos>>

-----------------------------------------------------------------------------
(* Finding the kernel's interface *)

\* A vport of the name of e in the datapath of the namespace.  Any failure, of
\* the switch, the socket or the exchange, counts as a no; answered are the
\* entries for which nothing fails, none if vport_genl_id is not known.  No
\* entry is asked about twice, as only one interface has its name.
check_vport(ns, e) == e \in answered /\ <<ns, ents[e].name>> \in vports

\* Mutant: an interface without master is taken for a port.
ConnectedMutant(b, e) == ents[e].master \in {0, OvsSystem}

\* An interface that may be connected to the kernel datapath of bridge b
Connected(b, e) ==
    LET sys == found[SystemIface(b)]
    IN  ents[e].master = OvsSystem \/ (ents[e].master = 0 /\ check_vport(ents[sys].ns, e))

\* The entries that match the interface f of bridge b, which may be the
\* bridge's own
Candidates(b, f) ==
    {e \in DOMAIN ents :
        LET x == ents[e]
        IN  /\ x.name = f.name
            /\ CASE db[b].dp = "system" ->
                       /\ f.type = "internal" => x.driver = "openvswitch"
                       /\ found[SystemIface(b)] # 0 => Connected(b, e)
                 [] db[b].dp = "netdev" ->
                       f.type = "internal" /\ x.driver = "tun" /\ ~ x.sub}

\* Mutant: all namespaces weigh the same.
link_iface_searchMutant(b, e) == 1

\* The weight of a candidate
link_iface_search(b, e) ==
    LET sys == found[SystemIface(b)]
        home == IF sys = 0 THEN Root ELSE ents[sys].ns
    IN  IF ents[e].ns = home THEN 2 ELSE 1

\* match_if: the heaviest candidates
link_iface(b, f) ==
    {e \in Candidates(b, f) :
        \A c \in Candidates(b, f) : link_iface_search(b, c) <= link_iface_search(b, e)}

\* Every candidate of a netdev bridge is marked, whichever is chosen.
Marked(b, f) ==
    [e \in DOMAIN ents |->
        IF db[b].dp = "netdev" /\ e \in Candidates(b, f) THEN [ents[e] EXCEPT !.sub = TRUE] ELSE ents[e]]

create_iface(name, b) ==
    [name |-> name, ns |-> Root, driver |-> "", master |-> 0, peer |-> 0, link |-> 0,
     sub |-> FALSE, host |-> FALSE, internal |-> TRUE, bridge |-> b, attached |-> "no"]

\* The driver of a created interface is NULL, and link_iface_search compares it
\* if an internal interface of a netdev bridge has the name of its bond.
NoDriver(b, f) ==
    /\ db[b].dp = "netdev" /\ f.type = "internal"
    /\ \E e \in DOMAIN ents : ents[e].name = f.name /\ ents[e].driver = ""

-----------------------------------------------------------------------------
(* Tunnels and patch ports: from all entries to all entries *)

\* tunnel_find_str in the namespace of the entry
link_tunnel(en, e) ==
    LET hosts == {x \in DOMAIN en : en[x].ns = en[e].ns /\ en[x].host}
    IN  [en EXCEPT ![e].link = IF Cardinality(hosts) = 1 THEN Min(hosts) ELSE 0]

Unpaired(en, e) == IF en[e].peer = 0 THEN en ELSE [en EXCEPT ![en[e].peer].peer = 0]

\* Mutant: the second interface is not connected back.
peer_setMutant(en, e, f) == [Unpaired(en, e) EXCEPT ![e].peer = f]

peer_set(en, e, f) ==
    LET half == [Unpaired(en, e) EXCEPT ![e].peer = f]
    IN  [Unpaired(half, f) EXCEPT ![f].peer = e]

link_patch_search(en, f) == {x \in DOMAIN en : en[x].internal /\ en[x].name = f.peer}

link_patch(en, e, f) ==
    LET peers == link_patch_search(en, f)
    IN  IF Cardinality(peers) = 1 THEN peer_set(en, e, Min(peers)) ELSE en

-----------------------------------------------------------------------------
(* link_ifaces: one step per bridge, port and interface *)

NextPort(b, p) ==
    LET rest == {q \in DOMAIN db[b].ports : q > p /\ q \notin System(b)}
    IN  IF rest = {} THEN <<b + 1, 0, 0>> ELSE <<b, Min(rest), 0>>

\* Mutant: the last interface of a port is passed over.
AfterMutant(b, p, i) == IF i + 1 < Len(db[b].ports[p].ifaces) THEN <<b, p, i + 1>> ELSE NextPort(b, p)

After(b, p, i) == IF i < Len(db[b].ports[p].ifaces) THEN <<b, p, i + 1>> ELSE NextPort(b, p)

LinkVars == <<db, vports, answered, br_list, asked, out>>

Linking(b, p, i) == phase = "link" /\ pos = <<b, p, i>> /\ b \in DOMAIN db

\* A bridge without exactly one main interface is left out with a warning.
SkipBridge(b) ==
    /\ Linking(b, 0, 0)
    /\ \A p \in System(b) : Len(db[b].ports[p].ifaces) # 1
    /\ warned' = TRUE
    /\ pos' = <<b + 1, 0, 0>>
    /\ UNCHANGED <<LinkVars, ents, found, master, phase>>

\* The bridge's own interface is required, and must be found reliably.
LinkBridge(b) ==
    /\ Linking(b, 0, 0)
    /\ \E p \in System(b) : Len(db[b].ports[p].ifaces) = 1
    /\ LET at == SystemIface(b)
           best == link_iface(b, Iface(at))
       IN  /\ ents' = Marked(b, Iface(at))
           /\ found' = [found EXCEPT ![at] = IF best = {} THEN 0 ELSE Min(best)]
           /\ IF Cardinality(best) = 1
              THEN pos' = NextPort(b, 0) /\ UNCHANGED warned
              ELSE pos' = <<b + 1, 0, 0>> /\ warned' = TRUE
    /\ UNCHANGED <<LinkVars, master, phase>>

\* A port of several interfaces gets an interface of its own.
LinkPort(b, p) ==
    /\ p # 0 /\ Linking(b, p, 0)
    /\ LET sys == found[SystemIface(b)]
       IN  IF Len(db[b].ports[p].ifaces) <= 1
           THEN master' = sys /\ UNCHANGED ents
           ELSE /\ ents' = Append(ents, [create_iface(db[b].ports[p].name, b) EXCEPT !.master = sys])
                /\ master' = Len(ents) + 1
    /\ pos' = After(b, p, 0)
    /\ UNCHANGED <<LinkVars, found, warned, phase>>

\* One interface that cannot be told from another ends all linking.
LinkAmbiguous(b, p, i) ==
    /\ i # 0 /\ Linking(b, p, i)
    /\ LET f == Iface(pos)
       IN  /\ ~ NoDriver(b, f)
           /\ Cardinality(link_iface(b, f)) > 1
           /\ ents' = Marked(b, f)
           /\ found' = [found EXCEPT ![pos] = Min(link_iface(b, f))]
    /\ warned' = TRUE
    /\ phase' = "output"
    /\ UNCHANGED <<LinkVars, master, pos>>

LinkIface(b, p, i) ==
    /\ i # 0 /\ Linking(b, p, i)
    /\ LET f == Iface(pos)
           best == link_iface(b, f)
           e == IF best = {} THEN Len(ents) + 1 ELSE Min(best)
           all == IF best = {} THEN Append(Marked(b, f), create_iface(f.name, b)) ELSE Marked(b, f)
           joined == [all EXCEPT ![e].master = master]
       IN  /\ ~ NoDriver(b, f)
           /\ Cardinality(best) <= 1
           /\ found' = [found EXCEPT ![pos] = e]
           /\ ents' = CASE f.type = "vxlan" /\ f.local -> link_tunnel(joined, e)
                        [] f.type = "patch" -> link_patch(joined, e, f)
                        [] OTHER -> joined
           /\ warned' = (warned \/ (f.type = "patch" /\ Cardinality(link_patch_search(joined, f)) > 1))
    /\ pos' = After(b, p, i)
    /\ UNCHANGED <<LinkVars, master, phase>>

LinkFault(b, p, i) ==
    /\ i # 0 /\ Linking(b, p, i)
    /\ NoDriver(b, Iface(pos))
    /\ phase' = "crashed"
    /\ UNCHANGED <<LinkVars, ents, found, master, warned, pos>>

LinkEnd ==
    /\ phase = "link" /\ pos[1] > Len(db)
    /\ phase' = "output"
    /\ UNCHANGED <<LinkVars, ents, found, master, warned, pos>>

-----------------------------------------------------------------------------
(* The rest of main *)

frontend_output ==
    /\ phase = "output"
    /\ out' = "buffered"
    /\ phase' = "cleanup"
    /\ UNCHANGED <<db, vports, answered, ents, br_list, found, master, asked, warned, pos>>

\* ovs_global_cleanup, then the normal exit, which flushes stdout
ovs_global_cleanup ==
    /\ phase = "cleanup"
    /\ out' = "flushed"
    /\ phase' = "exit"
    /\ UNCHANGED <<db, vports, answered, ents, br_list, found, master, asked, warned, pos>>

\* The allocator notices that a block is freed twice.
CleanupFault ==
    /\ phase = "cleanup"
    /\ \E b \in ToSet(br_list) : \E p \in DOMAIN db[b].ports :
          p \notin System(b) /\ FreedTwice(db[b].ports[p])
    /\ phase' = "crashed"
    /\ UNCHANGED <<db, vports, answered, ents, br_list, found, master, asked, warned, out, pos>>

-----------------------------------------------------------------------------
\* The interfaces check_vport may be called for
AskedAbout(x) ==
    /\ x.master = 0
    /\ \E at \in Places : /\ db[at[1]].dp = "system" /\ at[2] \notin System(at[1])
                          /\ Iface(at).name = x.name

Init ==
    /\ db \in Databases
    /\ \E kernel \in Kernels :
          /\ ents = kernel.ifs
          /\ vports = kernel.vports
    /\ answered \in SUBSET {e \in DOMAIN ents : AskedAbout(ents[e])}
    /\ br_list = <<>>
    /\ found = [at \in Places |-> 0]
    /\ master = 0
    /\ asked = FALSE
    /\ warned = FALSE
    /\ out = "none"
    /\ pos = <<1, 0, 0>>
    /\ phase = "connect"

link_ifaces ==
    \/ \E b \in DOMAIN db : SkipBridge(b) \/ LinkBridge(b)
    \/ \E b \in DOMAIN db : \E p \in DOMAIN db[b].ports : LinkPort(b, p)
    \/ \E at \in Places : \/ LinkAmbiguous(at[1], at[2], at[3]) \/ LinkIface(at[1], at[2], at[3])
                           \/ LinkFault(at[1], at[2], at[3])
    \/ LinkEnd

Next ==
    \/ connect_ovs \/ read_all \/ parse \/ link_ifaces
    \/ frontend_output \/ ovs_global_cleanup \/ CleanupFault

Spec == Init /\ [][Next]_vars

-----------------------------------------------------------------------------
Shown == phase \in {"exit", "cleanup"}

IsPort(e) == Attached(ents[e])
Joined(e) == ents[e].master > 0

\* The interfaces in ports of a kernel datapath's bridge that was found in the
\* datapath's own namespace
Placed(b) == \A p \in System(b) : Len(db[b].ports[p].ifaces) = 1
AtHome(at) ==
    LET b == at[1]
    IN  /\ db[b].dp = "system" /\ System(b) # {} /\ Placed(b)
        /\ at[2] \notin System(b)
        /\ found[SystemIface(b)] # 0 /\ ents[found[SystemIface(b)]].ns = Root

TruePorts(at) == {e \in DOMAIN ents : IsPort(e) /\ ents[e].name = Iface(at).name}

\* The code cannot tell e from a port: it is a slave of another ovs-system, or
\* the datapath has a port of its name that is in no namespace that was found,
\* or has left the root namespace, where e took its name.
Mistakable(at, e) ==
    \/ ents[e].attached = "foreign"
    \/ /\ <<Root, Iface(at).name>> \in vports
       /\ \A t \in TruePorts(at) : ents[t].ns # Root /\ ents[e].ns = Root

\* The kernel could not be asked about the port itself, which leaves interfaces
\* of its name elsewhere, in spite of "If anything goes wrong, assume the
\* interace is not a vport" (openvswitch.c:571-574).
QueryFailed(at) == \E t \in TruePorts(at) : ents[t].attached = "vport" /\ t \notin answered

\* The bridge is shown with an interface of the kernel that is no port of it.
FalsePort(at) ==
    LET e == found[at]
    IN  AtHome(at) /\ e # 0 /\ Joined(e) /\ ~ ents[e].internal /\ ~ IsPort(e)

\* An interface of the kernel is shown at a bridge only if it is a port of the
\* datapath, although interfaces of other namespaces have the same name and any
\* of the queries may fail, unless it is one the code cannot tell from a port
\* or the query about the port itself failed (openvswitch.c:564-660).
NoFalsePort ==
    Shown => \A at \in Places : FalsePort(at) => Mistakable(at, found[at]) \/ QueryFailed(at)

\* When all ports are in the namespace of their datapath, each is found, as
\* long as the kernel tells it is one: by its master or, on older kernels, when
\* it can be asked for a vport of that name (openvswitch.c:564-660).  A failing
\* query about another port takes this one along only if two namesakes of that
\* one cannot be told from each other, which ends the linking with a warning.
PortsAtHome ==
    /\ \A v \in vports : v[1] = Root =>
          \E e \in DOMAIN ents : IsPort(e) /\ ents[e].name = v[2] /\ ents[e].ns = Root
    /\ \A e \in DOMAIN ents : ents[e].attached # "foreign"

CutShort == pos \in Places /\ QueryFailed(pos)

PortFound ==
    (Shown /\ asked /\ PortsAtHome) =>
        \A at \in Places : AtHome(at) =>
            \A e \in TruePorts(at) : (ents[e].attached = "slave" \/ e \in answered) =>
                \/ found[at] = e /\ Joined(e)
                \/ CutShort /\ warned /\ found[at] = 0

\* "Ignore case when the peer is not found, it will be found from the other
\* side" (openvswitch.c:789-790): two patch ports that name each other, and that
\* no other names, are peers in the end, in whatever order and in whatever
\* bridges they come, unless the kernel has an interface of such a name.
Names(at, bt) == Iface(at).type = "patch" /\ Iface(at).peer = Iface(bt).name

PatchPeers ==
    (Shown /\ asked /\ ~ warned) => \A at, bt \in Places :
        (/\ Names(at, bt) /\ Names(bt, at)
         /\ \A ct \in Places \ {at, bt} : ~ Names(ct, at) /\ ~ Names(ct, bt)
         /\ \A e \in DOMAIN ents : ents[e].name \in {Iface(at).name, Iface(bt).name} => ents[e].internal) =>
            ents[found[at]].peer = found[bt]

\* Once the database was asked, either every interface of it is shown, below
\* its bridge or below its port that is below the bridge, or there is a warning:
\* also when the answer is cut, a port is malformed or an interface cannot be
\* told from another (openvswitch.c:145-440, 537-562, 794-861).
Under(e, m) == ents[e].master = m \/ (ents[e].master > 0 /\ ents[ents[e].master].master = m)

NothingDropped ==
    (Shown /\ asked /\ ~ warned) => \A at \in Places :
        /\ found[at] # 0
        /\ at[2] \notin System(at[1]) => Under(found[at], found[SystemIface(at[1])])

\* "When no file is given, send output to standard output" (plotnetcfg.8:62-63):
\* what was written to stdout has reached it when the program has ended.
OutputDelivered == (phase \in {"exit", "crashed"} /\ out # "none") => out = "flushed"
=============================================================================
