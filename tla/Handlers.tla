------------------------------ MODULE Handlers ------------------------------
(***************************************************************************)
(* What the interface handlers do with one interface after the other:      *)
(* init and netlink while the dump is read, scan while sysfs is mounted,   *)
(* post once all interfaces are known, cleanup at the end (handler.h).     *)
(*                                                                         *)
(* The handlers modelled are those of tunnels (vxlan, geneve, gre, ipip,   *)
(* vti), bond, team, bridge, iov, vlan, macsec and xfrm; veth is the       *)
(* subject of Topology.  The kernel's configuration is k; ports change     *)
(* roles, interfaces vanish and teamd answers while the program reads.     *)
(* Configuration properties, which are only printed, are left out.         *)
(***************************************************************************)
EXTENDS Integers, FiniteSets, FiniteSetsExt

CONSTANTS
    N,              \* interfaces
    Ns, Index,      \* of each interface
    Configurations, \* what the kernel may be configured to
    MaxEvents,      \* changes while the program runs
    NULL

Ifs == 1..N         \* in the order of netns_list and of the ifaces lists
HiddenNs == 0       \* the id of a namespace that is not in the list
NotAName == -1      \* an active_port of teamd's that is no string
ENOENT == 2         \* stands for every errno but 0

Listed == {Ns[e] : e \in Ifs}
In(ns, i) == {e \in Ifs : Ns[e] = ns /\ Index[e] = i}

\* The drivers of the tunnels, and those that have a private_size.
Tunnels == {"vxlan", "gre", "ipip", "vti"}
Sized == {"bonding", "geneve", "gre", "ipip", "team", "vlan", "vxlan"}

ASSUME PlaceAssumption ==
    /\ N \in Nat \ {0}
    /\ Ns \in [Ifs -> Nat \ {0}]
    /\ Index \in [Ifs -> Nat \ {0}]
    /\ \A e, f \in Ifs : Ns[e] = Ns[f] /\ Index[e] = Index[f] => e = f
    /\ MaxEvents \in Nat
    /\ NULL \notin Int \union {"init", "own", "freed"}

\* What the kernel sees to (external): a master is another interface of the
\* same namespace, no function is its own physical function.
Possible(c) ==
    /\ DOMAIN c = Ifs
    /\ \A e \in Ifs :
          LET f == c[e]
          IN  /\ DOMAIN f = {"driver", "info", "up", "addrs", "local", "dev", "under", "master",
                             "brport", "active", "pci", "physfn"}
              /\ NULL \notin f.addrs
              /\ f.dev \in Nat
              /\ f.under \in Listed \union {HiddenNs}
              /\ f.master # NULL => f.master \in Ifs \ {e} /\ Ns[f.master] = Ns[e]
              /\ f.active \in Nat \/ (f.active = NULL /\ f.driver # "bonding")
              /\ f.physfn # NULL => f.pci # f.physfn

ASSUME ConfigAssumption == \A c \in Configurations : Possible(c)

VARIABLES
    k,          \* the kernel's configuration: a record for each interface
    actives,    \* the active ports each bond or team has had so far
    gone,       \* the interfaces removed so far
    ent,        \* struct if_entry with handler_private
    teamd,      \* teamd's answer to the current request
    errno,      \* what the last failing call left, or jansson
    phase, cur  \* the program's position

vars == <<k, actives, gone, ent, teamd, errno, phase, cur>>

-----------------------------------------------------------------------------
(* fill_if_link *)

\* IFLA_MASTER; old kernels tell the ports of a bridge in sysfs only
MasterIndex(f) == IF f.master = NULL \/ f.brport THEN 0 ELSE Index[f.master]

\* IFLA_LINK_NETNSID; -1 stands for absent
Netnsid(f, ns) == IF f.under = ns THEN -1 ELSE f.under

\* if_create and what fill_if_link takes from the message; f is the kernel's
\* record of interface e.  if_handler_init allocates the private data.
if_handler_init(f) == IF f.driver \in Sized THEN "init" ELSE NULL

\* The addresses of a namespace come in one dump.
fill_if_addr(e) == UNION {k[g].addrs : g \in In(Ns[e], Index[e])}

entry(e, f) ==
    [private |-> if_handler_init(f), local |-> NULL, activeIndex |-> 0, activeName |-> NULL,
     up |-> f.up, addrs |-> fill_if_addr(e), masterIndex |-> MasterIndex(f),
     linkIndex |-> f.dev, linkNetnsid |-> Netnsid(f, Ns[e]), label |-> FALSE,
     pciPath |-> NULL, physfnPath |-> NULL,
     master |-> NULL, link |-> NULL, linkNet |-> NULL, weak |-> FALSE,
     activeSlave |-> NULL, passive |-> FALSE, physfn |-> NULL, warned |-> FALSE]

-----------------------------------------------------------------------------
(* The netlink callbacks: from the kernel's record f and the entry x to the *)
(* entry.  "own" is the block a callback allocates itself, "freed" a freed  *)
(* block the entry still points to.  ENOENT is ignored by fill_if_link.     *)

vxlan_netlink(f, x) ==
    IF f.info THEN [x EXCEPT !.private = "own", !.local = f.local] ELSE [x EXCEPT !.private = "freed"]

geneve_netlink(f, x) == [x EXCEPT !.private = IF f.info THEN "own" ELSE "freed"]

U8 == 256           \* IFLA_GRE_LINK and IFLA_IPTUN_LINK are read as one byte

\* Mutant: the data is allocated before the attributes are looked for.
gre_common_netlinkMutant(f, x) ==
    IF f.info
    THEN [x EXCEPT !.private = "own", !.local = f.local, !.linkIndex = f.dev % U8]
    ELSE [x EXCEPT !.private = "freed"]

gre_common_netlink(f, x) ==
    IF f.info THEN [x EXCEPT !.private = "own", !.local = f.local, !.linkIndex = f.dev % U8] ELSE x

ipxipy_netlink(f, x) ==
    IF f.info THEN [x EXCEPT !.private = "own", !.local = f.local, !.linkIndex = f.dev % U8] ELSE x

vti_netlink(f, x) == IF f.info THEN [x EXCEPT !.private = "own", !.local = f.local] ELSE x

bond_netlink(f, x) == IF f.info THEN [x EXCEPT !.activeIndex = f.active] ELSE x

vlan_netlink(f, x) == [x EXCEPT !.label = f.info]
macsec_netlink(f, x) == [x EXCEPT !.label = f.info]
xfrm_netlink(f, x) == x         \* a configuration property only

if_handler_netlink(f, x) ==
    CASE f.driver = "vxlan" -> vxlan_netlink(f, x)
      [] f.driver = "geneve" -> geneve_netlink(f, x)
      [] f.driver = "gre" -> gre_common_netlink(f, x)
      [] f.driver = "ipip" -> ipxipy_netlink(f, x)
      [] f.driver = "vti" -> vti_netlink(f, x)
      [] f.driver = "bonding" -> bond_netlink(f, x)
      [] f.driver = "vlan" -> vlan_netlink(f, x)
      [] f.driver = "macsec" -> macsec_netlink(f, x)
      [] f.driver = "xfrm" -> xfrm_netlink(f, x)
      [] OTHER -> x

\* sysfs_mount, which unmounts in vain before the first interface of a
\* namespace, and ethtool_driver may fail.
fill_if_link ==
    /\ phase = "link"
    /\ ent' = [ent EXCEPT ![cur] = if_handler_netlink(k[cur], entry(cur, k[cur]))]
    /\ errno' \in IF cur > 1 /\ Ns[cur] = Ns[cur - 1] THEN {errno, ENOENT} ELSE {ENOENT}
    /\ phase' = "scan"
    /\ UNCHANGED <<k, actives, gone, teamd, cur>>

-----------------------------------------------------------------------------
(* The scan callbacks *)

\* The loop of if_list, over all namespaces
NextInterface ==
    /\ phase' = IF cur = N THEN "resolve" ELSE "link"
    /\ cur' = IF cur = N THEN 1 ELSE cur + 1

\* sysfs_readfile and sysfs_realpath: a file of interface e, absent with it
sysfs(e, value) == IF e \in gone THEN NULL ELSE value

\* Mutant: the name is read although the index is known.
bond_scanMutant(e, x) ==
    IF k[e].driver # "bonding" \/ k[e].active = 0
    THEN x ELSE [x EXCEPT !.activeName = sysfs(e, k[e].active)]

\* An active_slave without name leaves NULL, unless FreesField.
bond_scan(e, x) ==
    IF k[e].driver # "bonding" \/ x.activeIndex # 0 \/ k[e].active = 0
    THEN x ELSE [x EXCEPT !.activeName = sysfs(e, k[e].active)]

bridge_scan(e, x) ==
    LET port == k[e].master # NULL /\ k[e].brport /\ {e, k[e].master} \cap gone = {}
    IN  IF x.masterIndex = 0 /\ port THEN [x EXCEPT !.masterIndex = Index[k[e].master]] ELSE x

iov_scan(e, x) ==
    [x EXCEPT !.pciPath = sysfs(e, k[e].pci), !.physfnPath = sysfs(e, k[e].physfn)]

\* A sysfs_readfile that reads nothing returns errno; when that is 0, bond_scan
\* frees the field of handler_private it was to fill, and the allocator aborts.
FreesField(e) ==
    /\ k[e].driver = "bonding" /\ ent[e].activeIndex = 0
    /\ sysfs(e, k[e].active) = 0
    /\ errno = 0

\* bridge_scan and iov_scan fail to find a file, whatever the driver is, but
\* for the port of a bridge or of another master that is a virtual function.
AllFound(x) == x.masterIndex # 0 /\ x.pciPath # NULL /\ x.physfnPath # NULL

\* The loop over the handlers, in the order they were registered
if_handler_scan ==
    /\ phase = "scan" /\ ~ FreesField(cur)
    /\ ent' = [ent EXCEPT ![cur] = iov_scan(cur, bridge_scan(cur, bond_scan(cur, @)))]
    /\ errno' \in IF AllFound(ent'[cur]) THEN {errno, ENOENT} ELSE {ENOENT}
    /\ IF k[cur].driver = "team" THEN phase' = "connect" /\ UNCHANGED cur ELSE NextInterface
    /\ teamd' = NULL
    /\ UNCHANGED <<k, actives, gone>>

ScanFault ==
    /\ phase = "scan" /\ FreesField(cur)
    /\ phase' = "crashed"
    /\ UNCHANGED <<k, actives, gone, ent, teamd, errno, cur>>

Warned(e) == ent' = [ent EXCEPT ![e].warned = TRUE]

\* team_connect and the write of the request
team_connect ==
    /\ phase = "connect"
    /\ \/ phase' = "wait" /\ UNCHANGED <<ent, errno, cur>>
       \/ Warned(cur) /\ errno' = ENOENT /\ NextInterface
    /\ UNCHANGED <<k, actives, gone, teamd>>

\* Mutant: select waits without a timeout.
team_waitMutant ==
    /\ phase = "wait" /\ teamd # NULL
    /\ phase' = "recv" /\ UNCHANGED <<ent, cur>>
    /\ UNCHANGED <<k, actives, gone, teamd, errno>>

\* select returns with the answer or after TEAMD_REPLY_TIMEOUT
team_wait ==
    /\ phase = "wait"
    /\ \/ teamd # NULL /\ phase' = "recv" /\ UNCHANGED <<ent, cur>>
       \/ teamd = NULL /\ Warned(cur) /\ NextInterface
    /\ UNCHANGED <<k, actives, gone, teamd, errno>>

\* An answer that is not the state of this team: an error reply, the state of
\* another device, malformed text, or a packet that fills the buffer, whose
\* second read finds nothing (team_recv, team_parse_reply, team_check_if)
team_recv_bad ==
    /\ phase = "recv" /\ ~ teamd.state
    /\ Warned(cur)
    /\ errno' \in {0, ENOENT}
    /\ NextInterface
    /\ UNCHANGED <<k, actives, gone, teamd>>

\* json_unpack_ex is given four keys in the format and three arguments: it may
\* take what it finds for an absent key, complain, or read wild memory.  The
\* parser sets errno to 0 for each number.
team_parse_json ==
    /\ phase = "recv" /\ teamd.state
    /\ errno' = 0
    /\ \/ ent' = [ent EXCEPT ![cur].activeName = teamd.port] /\ NextInterface
       \/ Warned(cur) /\ NextInterface
       \/ phase' = "wild" /\ UNCHANGED <<ent, cur>>
    /\ UNCHANGED <<k, actives, gone, teamd>>

-----------------------------------------------------------------------------
(* match_all_netnsid and master_resolve *)

First(set) == IF set = {} THEN NULL ELSE Min(set)

\* match_if with match_master or match_link: own namespace first, e excluded
Nearest(e, i) ==
    LET near == In(Ns[e], i) \ {e}
    IN  IF near # {} THEN near ELSE {f \in Ifs : Index[f] = i} \ {e}

link_by_id(x) ==
    IF x.linkNetnsid >= 0 /\ x.linkIndex # 0 THEN First(In(x.linkNetnsid, x.linkIndex)) ELSE NULL

link_net(x) == IF x.linkNetnsid \in Listed /\ x.linkIndex = 0 THEN x.linkNetnsid ELSE NULL

process(e, x) ==
    LET masters == IF x.masterIndex = 0 THEN {} ELSE Nearest(e, x.masterIndex)
        search == link_by_id(x) = NULL /\ x.linkIndex # 0
        links == IF search THEN Nearest(e, x.linkIndex) ELSE {}
    IN  [x EXCEPT !.master = First(masters),
                  !.linkNet = link_net(x),
                  !.link = IF search THEN First(links) ELSE link_by_id(x),
                  !.warned = @ \/ (x.masterIndex # 0 /\ Cardinality(masters) # 1)
                               \/ (search /\ Cardinality(links) # 1)]

master_resolve ==
    /\ phase = "resolve"
    /\ ent' = [e \in Ifs |-> process(e, ent[e])]
    /\ phase' = "post"
    /\ UNCHANGED <<k, actives, gone, teamd, errno, cur>>

-----------------------------------------------------------------------------
(* The post callbacks: from all entries to all entries *)

\* Mutant: interfaces that are down count as well.
match_tunnelMutant(en, ns, addr) == {f \in Ifs : Ns[f] = ns /\ addr \in en[f].addrs}

match_tunnel(en, ns, addr) == {f \in Ifs : Ns[f] = ns /\ en[f].up /\ addr \in en[f].addrs}

tunnel_find_addr(en, ns, addr) ==
    LET found == match_tunnel(en, ns, addr)
    IN  IF Cardinality(found) = 1 THEN First(found) ELSE NULL

\* vxlan_post, gre_post, ipxipy_post and vti_post
tunnel_post(en, e) ==
    LET ns == IF en[e].linkNet # NULL THEN en[e].linkNet ELSE Ns[e]
        ife == tunnel_find_addr(en, ns, en[e].local)
    IN  IF en[e].local = NULL \/ ife = NULL
        THEN en ELSE [en EXCEPT ![e].link = ife, ![e].weak = TRUE]

\* The ports of m and their roles, when i is the index of the active one
Elected(en, m, i) ==
    LET ports == {e \in Ifs : en[e].master = m}
    IN  [e \in Ifs |->
            IF e = m THEN [en[e] EXCEPT !.activeSlave = First({p \in ports : Index[p] = i})]
            ELSE IF e \in ports /\ Index[e] # i THEN [en[e] EXCEPT !.passive = TRUE] ELSE en[e]]

\* Index and name of a port stand for each other; when both are known, both
\* must match (match_active_slave), and 0 matches none.
bond_post(en, m) ==
    LET i == en[m].activeIndex
        n == en[m].activeName
    IN  IF i = 0 /\ n = NULL THEN en
        ELSE Elected(en, m, IF i = 0 THEN n ELSE IF n \in {NULL, i} THEN i ELSE 0)

team_post(en, m) == IF en[m].activeName = NULL THEN en ELSE Elected(en, m, en[m].activeName)

\* Mutant: the physical function is searched in the own namespace.
match_physfnMutant(en, e) ==
    {f \in Ifs \ {e} : Ns[f] = Ns[e] /\ en[f].pciPath # NULL /\ en[f].pciPath = en[e].physfnPath}

match_physfn(en, e) == {f \in Ifs \ {e} : en[f].pciPath # NULL /\ en[f].pciPath = en[e].physfnPath}

iov_post(en, e) ==
    IF en[e].physfnPath = NULL THEN en
    ELSE [en EXCEPT ![e].physfn = First(match_physfn(en, e)), ![e].warned = @ \/ match_physfn(en, e) = {}]

driver_post(en, e) ==
    CASE k[e].driver \in Tunnels -> tunnel_post(en, e)
      [] k[e].driver = "bonding" -> bond_post(en, e)
      [] k[e].driver = "team" -> team_post(en, e)
      [] OTHER -> en

\* The handlers whose post uses the private data
PostReads(e) == k[e].driver \in Tunnels \union {"bonding", "team"}

\* team_post compares the name of each port with json_string_value.
ComparesNull(m) == k[m].driver = "team" /\ ent[m].activeName = NotAName /\ \E e \in Ifs : ent[e].master = m

if_handler_post ==
    /\ phase = "post"
    /\ PostReads(cur) => ent[cur].private # NULL
    /\ ~ ComparesNull(cur)
    /\ ent' = iov_post(driver_post(ent, cur), cur)
    /\ phase' = IF cur = N THEN "output" ELSE phase
    /\ cur' = IF cur = N THEN 1 ELSE cur + 1
    /\ UNCHANGED <<k, actives, gone, teamd, errno>>

\* What a NULL pointer always and a freed block possibly leads to
PostFault ==
    /\ phase = "post"
    /\ \/ PostReads(cur) /\ ent[cur].private \in {NULL, "freed"}
       \/ ComparesNull(cur)
    /\ phase' = "crashed"
    /\ UNCHANGED <<k, actives, gone, ent, teamd, errno, cur>>

frontend_output ==
    /\ phase = "output"
    /\ phase' = "cleanup"
    /\ UNCHANGED <<k, actives, gone, ent, teamd, errno, cur>>

\* if_list_destruct: the handlers' cleanup, then handler_private itself
if_handler_cleanup ==
    /\ phase = "cleanup"
    /\ phase' = IF cur = N THEN "exit" ELSE phase
    /\ cur' = IF cur = N THEN 1 ELSE cur + 1
    /\ UNCHANGED <<k, actives, gone, ent, teamd, errno>>

\* A block freed for the second time
CleanupFault ==
    /\ phase = "cleanup"
    /\ ent[cur].private = "freed"
    /\ phase' = "crashed"
    /\ UNCHANGED <<k, actives, gone, ent, teamd, errno, cur>>

\* Out of memory, or a bridge port that vanishes between open and read of its
\* sysfs file (ENODEV): if_list fails, and with it the program.
if_list_error ==
    /\ phase \in {"link", "scan"}
    /\ phase' = "failed"
    /\ UNCHANGED <<k, actives, gone, ent, teamd, errno, cur>>

-----------------------------------------------------------------------------
(* The kernel and teamd (external) *)

Reading == phase \in {"link", "scan", "connect", "wait", "recv"}

\* An interface is removed; its entry may have been or will be in the dump.
Vanish(e) ==
    /\ Reading /\ e \notin gone /\ Cardinality(gone) < MaxEvents
    /\ gone' = gone \union {e}
    /\ UNCHANGED <<k, actives, ent, teamd, errno, phase, cur>>

\* Another port becomes active.
Failover(m) ==
    /\ Reading /\ Cardinality(actives[m]) <= MaxEvents
    /\ k[m].driver \in {"bonding", "team"} /\ k[m].active # NULL
    /\ \E e \in Ifs : /\ k[e].master = m /\ Index[e] \notin actives[m]
                      /\ k' = [k EXCEPT ![m].active = Index[e]]
                      /\ actives' = [actives EXCEPT ![m] = @ \union {Index[e]}]
    /\ UNCHANGED <<gone, ent, teamd, errno, phase, cur>>

\* teamd may answer or not; a runner without active port names none.
TeamdAnswers ==
    /\ phase = "wait" /\ teamd = NULL
    /\ teamd' \in {[state |-> FALSE, port |-> NULL]}
                    \union {[state |-> TRUE, port |-> p] : p \in {k[cur].active, NotAName}}
    /\ UNCHANGED <<k, actives, gone, ent, errno, phase, cur>>

-----------------------------------------------------------------------------
Init ==
    /\ k \in Configurations
    /\ actives = [m \in Ifs |-> {k[m].active}]
    /\ gone = {}
    /\ ent = [e \in Ifs |-> NULL]
    /\ teamd = NULL
    /\ errno = ENOENT
    /\ phase = "link"
    /\ cur = 1

Team == team_connect \/ team_wait \/ team_recv_bad \/ team_parse_json
Post == if_handler_post \/ PostFault
Cleanup == if_handler_cleanup \/ CleanupFault

Program ==
    \/ fill_if_link \/ if_handler_scan \/ ScanFault \/ if_list_error \/ Team
    \/ master_resolve \/ Post \/ frontend_output \/ Cleanup

Environment == (\E e \in Ifs : Vanish(e) \/ Failover(e)) \/ TeamdAnswers

Next == Program \/ Environment

\* Nothing is assumed of the kernel and of teamd.
Spec == Init /\ [][Next]_vars /\ WF_vars(Program)

-----------------------------------------------------------------------------
Done == phase = "exit"

\* Only these make the program fault in its private data, whatever vanishes,
\* fails over or answers meanwhile: a tunnel the kernel sends no attributes of,
\* whose block is freed or was never allocated (vxlan.c:88, geneve.c:64,
\* vti.c:67); a team whose daemon names a port by something that is no string
\* (team.c:311-313); and a bond without active port right behind a team, with
\* at most virtual functions that are ports in between (sysfs.c:109-112,
\* bond.c:109-110).
BehindTeam(e) ==
    \E t \in 1..(e - 1) : /\ k[t].driver = "team" /\ Ns[t] = Ns[e]
                          /\ \A f \in (t + 1)..(e - 1) : AllFound(ent[f])

PrivateValid ==
    phase = "crashed" =>
        CASE k[cur].driver = "bonding" -> k[cur].active = 0 /\ cur \notin gone /\ BehindTeam(cur)
          [] k[cur].driver = "team" -> ent[cur].activeName = NotAName /\ \E e \in Ifs : ent[e].master = cur
          [] OTHER -> k[cur].driver \in {"vxlan", "geneve", "vti"} /\ ~ k[cur].info

\* A bond or team without a warning shows the roles of its ports as they were
\* at one moment of the run, although the index comes from netlink and the
\* name from sysfs or teamd later (bond.c:81-82, 142-143, 157-162, team.c:311-319).
\* A team whose daemon names no active port shows all its ports as passive, a
\* bond none.
Roles(m, a) ==
    LET ports == {e \in Ifs : ent[e].master = m}
        none == a = NULL \/ (a = 0 /\ k[m].driver = "bonding")
    IN  /\ {e \in ports : ent[e].passive} = IF none THEN {} ELSE {e \in ports : Index[e] # a}
        /\ ent[m].activeSlave = IF none THEN NULL ELSE First({e \in ports : Index[e] = a})

PassiveExact ==
    Done => \A m \in {e \in Ifs : k[e].driver \in {"bonding", "team"}} :
        \/ ent[m].warned
        \/ m \in gone /\ Roles(m, NULL)
        \/ \E a \in actives[m] : Roles(m, a)

\* A tunnel is linked to the one interface of the namespace it sends from that
\* is up and has its local address, else to the device it is bound to
\* (tunnel.c:23-67, match.c:101-107).  Left out are tunnels whose namespace
\* was not found, bound ones in another namespace, whose address is searched
\* in the wrong one, devices that do not exist any more or whose index does
\* not fit a byte, and tunnels that carry their own local address.
Holders(e) == {f \in Ifs : Ns[f] = k[e].under /\ k[f].up /\ k[e].local \in k[f].addrs}

Regular(e) ==
    /\ k[e].driver \in Tunnels /\ k[e].info
    /\ k[e].under # HiddenNs
    /\ k[e].dev = 0 \/ (k[e].under = Ns[e] /\ In(Ns[e], k[e].dev) \ {e} # {})
    /\ k[e].dev < U8
    /\ Holders(e) # {e}

TunnelTrue ==
    Done => \A e \in Ifs : Regular(e) =>
        IF Cardinality(Holders(e)) = 1
        THEN ent[e].link = First(Holders(e)) /\ ent[e].weak
        ELSE ent[e].link = First(In(Ns[e], k[e].dev)) /\ ~ ent[e].weak

\* What vanishes while the namespaces are read takes only its own facts with
\* it: every other interface has its master, a virtual function its physical
\* function, in whatever namespace that is, and no warning.  Interfaces on top
\* of a device are left out, they may have a warning about that device
\* (bridge.c:48-52, iov.c:58-74, 92-109).
PhysicalFunctions(path) == {f \in Ifs : path # NULL /\ k[f].pci = path}
Involved(e) == {e, k[e].master} \union PhysicalFunctions(k[e].physfn)

VanishedAlone ==
    Done => \A e \in Ifs : (k[e].driver = "other" /\ k[e].dev = 0 /\ Involved(e) \cap gone = {}) =>
        /\ ent[e].master = k[e].master
        /\ ent[e].physfn = First(PhysicalFunctions(k[e].physfn))
        /\ ent[e].warned = (k[e].physfn # NULL /\ ent[e].physfn = NULL)

\* The program ends whatever teamd does: select is given a timeout
\* (team.c:100-110).
Finishes == <>(phase \in {"exit", "failed", "crashed", "wild"})
=============================================================================
