# plotnetcfg in TLA+

plotnetcfg looks at all network namespaces of a Linux host, reads their
interfaces, addresses and routes over netlink, asks Open vSwitch and teamd about
theirs, works out which interface is connected to which, and writes the result
as a dot graph or as JSON. It is one process with one thread that runs once. What
makes it hard to test is what it talks to: a kernel that answers late or flags
an answer as inconsistent, processes that come and go while /proc is walked,
namespaces whose interface indices collide, and a configuration that changes
between two dumps. The modules here are about these.

## 1. Inventory

| part | state | operations | interacts with |
|---|---|---|---|
| netlink (`netlink.c`) | socket, port id, sequence number, list of received messages | `nl_open`, `nl_exchange` = `nl_send` + `nl_recv` + retry; message building and attribute parsing | kernel; all scanners |
| namespace scan (`netns.c`, `sysfs.c`, `main.c`) | `netns_list`, the namespace the process is in, the sysfs mount | enumerate by name and by process, switch, mount, read, collect ids, resolve, exit handler | other processes, file system |
| interface listing (`if.c`, `addr.c`, `ethtool.c`) | `struct if_entry` | `if_list`, `fill_if_link`, `fill_if_addr` | netlink, handlers |
| handler dispatch (`handler.c`) | registered handlers, `handler_private` | init, netlink, scan, post, cleanup callbacks in this order | all handlers |
| search (`match.c`) | `struct match_desc` | `match_if` over one or all namespaces, `match_all_netnsid` | handlers, `master.c` |
| relations (`master.c`, `list.h`) | `master`, `link`, `peer`, `rev_master`, `rev_link` | `master_set`, `link_set`, `peer_set`, `master_resolve` | handlers, output |
| veth | peer index and namespace id | `veth_scan`, `veth_post` | search, relations |
| tunnels (vxlan, geneve, gre, ipxipy, vti), iov | local and remote address, PCI paths | link to the interface with the local address; physical function | search, relations |
| bond, team, bridge | active slave, port state | mark passive slaves; teamd socket with timeout | relations |
| routes (`handlers/route.c`, `route.c`) | 256 tables, `ns->rtables` | `route_scan` | netlink |
| Open vSwitch (`handlers/openvswitch.c`) | bridges, ports, interfaces of the database | query, parse, link to kernel interfaces | database socket, relations |
| options and outputs (`args.c`, `frontend.c`) | options, outputs list | -f, -o, -C; `frontend_output` | frontends |
| output formats (`frontends/*.c`) | none | write a graph, write JSON | all of the above |
| helpers (`utils.c`, `label.c`) | none or lists of strings | formatting | |

Hard behaviour, and what correctness means there:

* netlink: late answers after a retry, interrupted dumps, messages of others. An
  exchange must return the complete answer to its own last request, or an error,
  and must return.
* namespace scan: process-wide state (current namespace, mount) that every read
  depends on; processes exiting and moving between two system calls; every error
  path ends the program, or is ignored in silence. Each namespace must be listed
  once, be read in itself, and be missed only where looking at it failed.
* resolution: several sources for one relation (namespace ids, indices,
  heuristics, handlers), applied one after the other and overwriting each other.
  Relations must be symmetric, must be the true ones where the data determines
  them, and must not be lost without a warning.
* lists: intrusive lists whose nodes move between lists for the whole run.
* options: any order and number.

`PROJECT.json` lists the hazards by line, with the properties that cover them.

## 2. Modules

| module | models | runs | proofs |
|---|---|---|---|
| `Netlink` | one socket: `nl_send`, `nl_recv`, `nl_exchange`; the kernel and other senders as environment | `netlink` | `NetlinkProofs` |
| `Match` | `match_if` with its two modes and the error path | `match` | `MatchRelationsProofs` |
| `RelationIndex` | abstract: one parent per relation, ordered children | | |
| `Relations` | the pointer lists and `master_set`, `link_set` | `relations` | `MatchRelationsProofs` |
| `NetnsScan` | `netns_switch_root` to the end of `netns_fill_list`, sysfs mount, exit | `netns_scan`, `netns_root` | `NetnsScanProofs` |
| `Topology` | `veth_scan`, `match_all_netnsid`, `master_resolve`, `veth_post` over true topologies | `topology` | `TopologyProofs` |
| `Output` | the connections `dot.c` and `json.c` show, as operators | `topology` | |
| `Diagram` | composes `Topology` with `Output` | `topology` | `TopologyProofs` |
| `Handlers` | `if_list` and the callbacks of all interface handlers but veth, sysfs, teamd | `handlers` | `HandlersProofs` |
| `Ovs` | `handlers/openvswitch.c`: exchange, parsing, linking, cleanup | `ovs`, `ovs_trunks` | `OvsProofs` |
| `Frontend` | the option callbacks and `frontend_output` | `frontend` | `FrontendProofs` |
| `RouteTables` | `route_scan` | `routes`, `routes_exist` | `RouteTablesProofs` |

Each has an `MC` module with the values of its constants. How they fit: the scan
(`NetnsScan`) reads a namespace by exchanges (`Netlink`), the result is resolved
(`Topology`), for which `Topology` takes from `Match` that a search finds the first
heaviest interface and keeps, of `master_set` and `link_set`, the pointer whose
list side is in `Relations`. `Handlers` covers the same stretch of the program as
`Topology` for the other handlers: there the topology is fixed and simple, and
the handlers' own data, files and daemons are in the foreground. `Ovs` starts from
the interfaces the scan has found, and `Diagram` shows what the frontends make of the
result.

### Netlink

`pc` is the position in `nl_exchange`/`nl_recv`: idle, send, recv (in `poll`),
parse (in the loop over a datagram), check. `rx` is the socket's queue of
datagrams, each with the sender and its messages. A message carries the fields
the code looks at (port id, number, type, error, interrupted flag) and two
ghosts: the request it answers and its place in the answer. The kernel
answers requests one after the other, in parts, possibly long after the
program stopped waiting; dumps may be interrupted; other processes may write to
the port and even copy the number. `NoMixing`: a list never holds answers to two
requests. `AnswerComplete`: a dump that is returned has all parts of one answer in
order, none flagged. `EndsOnOwnAnswer`: only the answer to the last request, an
error or a timeout ends the wait. `ExchangeReturns`: every exchange comes back.

Fairness: weak fairness of the program's own steps (a running process is
scheduled, and `poll` has a timeout), none of the kernel: it may stay silent, and
the exchange returns all the same.

Bounds: `NL_RETRY_COUNT` 2 (16 in the code; one retry is enough for two
answers to overlap), 3 requests in all, 2 parts, queue of 2, one foreign datagram,
numbers modulo 4. `SeqAssumption` has fewer requests than numbers (2^32 in the
code, more than any run of the program sends), so a number is not used twice. A stream
of foreign datagrams that never ends would keep `poll` from timing out; `MaxForeign`
excludes it, and the hazard is listed.

### Match

Interfaces are numbered in the order the two loops visit them. One action per
branch of the loop body. `FindsFirstHeaviest` compares the result with a reference
definition over the whole set, for all callbacks with weights -1 to 2 on four
interfaces; `FirstOfItsNamespace` is about mode MM_FIRST, which ends the
namespace, not the search. The comment in `match.h:53-54` says that the heaviest
interface is returned "if exactly one" is. Of several, the search returns the first
and flags the result as ambiguous; in mode MM_FIRST it does not even see the others of
the same namespace. Its callers look at the flag or, as `iov_post`, take the first.

### Relations and RelationIndex

`next` and `prev` are the pointers of all nodes, with the assignments of
`list_insert_before` and `node_remove` in their order. `WellLinked` says that no
pointer dangles and that a node is in a list exactly when its entry has a parent,
which is what keeps `node_remove` from dereferencing NULL; `OwnLists` that no walk
leaves the list of its owner. `Walk` is what `list_for_each_member` sees: the
sequence of entries a walk meets from the head on, cut off if it is longer than there
are interfaces, as in a corrupted list. `EachChildOnce`: it meets exactly the
interfaces with this parent, each once. `ImplementsIndex` is the refinement: with
the walks as `children`, every step is one `Attach` of the abstract index, which moves
an interface to the end of its new parent's children and keeps all other orders.
Three interfaces make lists with a first, a middle and a last entry.

### NetnsScan

`cur` is the namespace of the process, `mounted` the namespace whose sysfs is
mounted. Names in /var/run/netns and processes are taken in any order
(readdir). A process's link is read and opened in two steps, between which it
may exit or move. Every call may fail, for whatever reason, and what follows is what
the code does: an error that is passed up leads to `exit`; a name that cannot be
opened or switched to gets a warning (`warned`, `netns.c:106-117`); a process whose
link cannot be read or opened, as without CAP_SYS_PTRACE or without a free
descriptor, and a directory that cannot be opened are ignored in silence (`failed`,
`netns.c:171-175`, `192-196`, `230-232`, `259-261`). `readFrom` and `sysFrom` are
ghosts: where each entry was really read.

`UniqueIds`, `ReadInOwnNs`, `NothingMissed` and `LowestPid` are checked for
three namespaces, two names, two processes, one move and one exit. `NothingMissed`:
every name that is neither in `warned` nor in `failed`, and every process that is not
in `failed`, leads to its namespace being read, whatever failed for the others of the
same namespace. So a namespace is missed in silence only if no process in it and
no directory entry for it could be looked at, and the program really does that. `LowestPid` is about the processes
that could be looked at in the same way. Both
are stated for processes that do not move: one that moves between
the two calls gives an entry with the id of one namespace and the descriptor of
another, and `UniqueIds` is about ids only. On `exit` and return from `main` the
handler of `sysfs_init` removes the mount; a signal or an abort skips it, and no
property is made of that.

`netns_root` is a violation run. `netns_get_var_entry` switches to a namespace to
learn its id and, if the namespace is listed already, returns without switching
back (`netns.c:121-125`); the root entry is the only one that is read without a
switch, on the ground that "we're already there" (`netns.c:364-365`).

### Topology

The initial states are true topologies, which the program does not see, and the
attributes the kernel reports for them: masters in the same namespace, links and
peers anywhere, also in a namespace that was not found (`-i`: the interface with
index `i` there). `netnsids` says whether the kernel reports namespace ids,
`stable` whether pairs were left alone between the dumps. The phases are those of
`netns_fill_list`, one step per interface.

With three interfaces in two namespaces and two indices, every index occurs
twice. `MasterTrue`, `LinkTrue` and `PeerTrue`: the relation found is the true one
wherever the data determines it. A link or peer in a namespace that was not found
is outside them: by its index the code may take an unrelated interface for it, and
shows that without a warning (`master.c:116`, `veth.c:62`). `PeerSymmetric` holds even for dumps that
contradict each other. `NoSilentLoss`: what is not found carries a warning.
Left out: the ethtool fallback of `veth_scan`, the ENOENT of a veth without any
peer index, tunnels' `link_net`, and single namespace ids that cannot be read.

### Output and Diagram

`Output` has the two formats as operators on what they read of each interface:
`output_ifaces_pass2` as a set of arrows, `parents` and `children` as sets of
connection objects. `Diagram` applies them to the resolved topologies. JSON writes
a relation at one end only where an interface has both a master and interfaces on
top of it, and puts a label to the master or to the link; `SameDiagram` says that
both formats show the same connections with the same labels all the same.
`PeersDrawnOnce`: dot draws each pair of peers once, for every order of the
interfaces in memory, also after contradicting dumps. `linkNet` and `physfn` are
NULL in these topologies; dot draws them, JSON shows no physical function.

### Handlers

`k` is the kernel's configuration, `ent` the entries with what the handlers keep;
`private` is the state of `handler_private`: "init" (allocated by
`if_handler_init`), "own" (allocated by the callback), "freed". A step is one call for
one interface: `fill_if_link` with the netlink callback, `if_handler_scan` with all
scan callbacks (teamd's exchange in steps of its own), `master_resolve`, and
`if_handler_post` and `if_handler_cleanup`. While interfaces are read, the environment
removes interfaces (`Vanish`), changes active ports (`Failover`) and lets teamd answer,
err, name no port or be silent. `errno` is what the last call that failed, or
jansson, has left in it: a read of an empty file returns it as if it were an error
(`sysfs.c:109-112`). It is "some error" at the start of every namespace, where
`sysfs_mount` unmounts in vain, and jansson sets it to 0 when it parses a number.
`json_unpack_ex` in `team_parse_json` gets one argument too few
(`team.c:221`): undefined, so a choice with "wild" as one outcome.

`PrivateValid` names all interfaces whose private data makes the program fault. A
vxlan, geneve or vti interface without attributes does (`vxlan.c:88`, `geneve.c:64`,
`vti.c:67`). So does a bond without an active port that is read with `errno` 0:
`bond_get_sysfs` then frees the address of its field (`bond.c:109-110`, `ScanFault`);
that takes a team of the same namespace before it, and in between nothing but ports
that are virtual functions, as any other interface lacks some file of sysfs and sets
`errno` again (`BehindTeam`). And a team with a port whose daemon names the active
port by something that is no string (`team.c:311-313`, `NotAName`).
`PassiveExact`: a bond or team without a warning shows its ports as they were at
one moment. `TunnelTrue`: a tunnel is linked to the one interface that is up and
has its local address, else to its device, which must still exist: an index that
belongs to no interface any more is searched in the other namespaces.
`VanishedAlone`: what vanishes takes only its own facts with it; interfaces on top of
a device are left out, they may carry a warning about that device. `Finishes`: the program ends whatever teamd does, under weak
fairness of the program's own steps; nothing is assumed of the kernel and teamd, and
`select` has a timeout.

Bounds: four interfaces, three in one namespace, one in another with an index that
occurs in the first; one index does not fit a byte; every tunnel driver with every
distribution of an address; bonds and teams with up to two ports; a bond right behind a team,
behind one of its ports or in the next namespace; a bridge port
that may be a virtual function; one removal and one failover. Drivers that
share code (gre and gre6, ipip and sit) are one.

### Ovs

`db` is the database, `ents` the interfaces the scan has found and the ones created,
`vports` what the kernel datapaths answer to `check_vport`, and `answered` the
interfaces for which it gets an answer: any choice of them, as the switch, the socket
and the exchange may fail at each call (`openvswitch.c:577-590`). `check_vport`
counts a failure as a no. A position `pos` goes
through bridges, ports and interfaces as `link_ifaces` does, and `master` is that
function's local: what the interfaces of the port in hand are put below. Of the
answer only completeness and the place of the first malformed port (`broken`) is
kept, of the drivers those the handler asks for. A malformed row gives a warning or
crashes the program, which dereferences members that are missing or of another type
(`openvswitch.c:96-109`, `235`); so does an internal interface of a netdev bridge that has the name of
its bond (`LinkFault`).
`attached` is a ghost: whether an interface is really a port of the root
namespace's datapath, with ovs-system as its master ("slave") or without a master
("vport", older kernels), or is a port of another namespace's datapath ("foreign").

Three assumptions say what the code relies on outside itself. `DatabaseAssumption`:
the schema makes names unique in each table, and vswitchd has no interface named
like a port it is not in. `KernelAssumption`: names are unique in a namespace and
among the ports of a datapath, peers are symmetric when the handler starts, and
the datapath of the root namespace has a vport for each of its ports.
`DatapathAssumption`: an internal interface that is a port is driven by the kernel's
openvswitch driver.

`NoFalsePort`: an interface is not shown at a bridge unless it is a port of the
datapath. It is stated for bridges in the datapath's own namespace, and except for
what the code cannot tell from a port (`Mistakable`): a port of another namespace's
datapath, whose master is called ovs-system too, and an interface that has the
name of a port that is in an unknown namespace or has left the root namespace. The
last exception is `QueryFailed`: the query about the port itself got no answer. A
query that fails for another interface does no harm.
That exception is needed: without it TLC finds the query
failing for the true port and succeeding for an interface of the same name in another
namespace, as only the name is asked about, so that this one is drawn at the bridge
without a warning. The comment at `openvswitch.c:571-574` promises that failures lead
to ports that are left out only.
`PortFound` is the converse where all ports are at home (`PortsAtHome`): each port
that is a slave or that the kernel could be asked about is found. A failing query about an
earlier port does not change that unless it leaves two namesakes of that one with
equal weights, which ends the linking with a warning (`CutShort`).
`PatchPeers`: two patch ports that name each other end up as peers in any
order, if the kernel has no interface of these names. `NothingDropped`: without a warning all of the database is shown, under its
bridges. No fairness is stated: `read_all` may wait forever.

`ovs_trunks` is a violation run: `destruct_port` frees `trunks` twice
(`openvswitch.c:944, 946`), after the diagram went to stdout's buffer and before it is
flushed; glibc's allocator aborts the program on such a free. Bounds: two bridges
of up to three ports, three namespaces that share names, kernels that report
ovs-system as master and kernels that do not, every subset of failing queries.

ENOMEM is kept coarse: it may end the exchange (`connect_ovs`, `read_all`), and is left
out where rows are parsed and interfaces are created. The order of the
handlers is simplified: `Ovs` allows any symmetric peers at its start, while the program
calls this handler before `veth_post`, when no interface has one yet.

### Frontend

The outputs list as `list_prepend` builds it, one action per option callback, then
the two loops of `frontend_output`. The properties compare what was written with
the option sequence, as the manual page describes it, for all command lines of up
to six options with two known formats and an unknown one. `ConfigScoped` says nothing of a
-C before the first -o or with a -f between it and its file. Running out of memory is
left out; `frontend_output` ignores that of `require_format` (`frontend.c:159`) and
then succeeds without any output.

### RouteTables

`tables` is the array of 256 pointers with its used slots only; `TableId` keeps
the 8 bits of `table_id`. `EveryRouteOnce` and `TablesInOrder` hold;
`routes_exist` is a violation run: the routes of a table with an id above 255 are
shown in the table of its low byte (510 as 254, the main table).

## 3. Proofs

All theorems hold for every value of the constants under the named assumptions
of the modules (the bounds are natural numbers, the interfaces of `Relations` are
finitely many, NULL is no value of the other sets, the default format is
registered, and so on).

* `NetlinkProofs`: type correctness, `NoMixing`, `EndsOnOwnAnswer`, `AnswerComplete`.
  `NoMixing` is not inductive: the invariant adds that every message in the queue
  carries the number of the request it answers, that requests are not from the
  future, that `dest` and the datagram in hand hold messages the number test has let
  through, and that numbers do not repeat within the sends considered (`SeqMod`
  exceeds `MaxSends`), so that equal numbers mean equal requests. For `AnswerComplete`
  the invariant `Exchange` follows the answer to the last request on its whole way
  (`Flow`): what `dest` holds, what is in hand and what is queued are consecutive
  parts, no part is behind the one that ends the answer, and none was lost. A lost
  part (a read that fails) ends the exchange, so a result of 0 means that all arrived.
* `MatchRelationsProofs`, on `Match`: the loop invariant is the result for the
  interfaces visited so far; ties are a cardinality. While the best weight is 0
  the count is meaningless, and the invariant says nothing of it.
* `MatchRelationsProofs`, on `Relations`: `WellLinked` and `OwnLists` together are
  inductive; the lemmas are about `list_insert_before` and `node_remove` on arbitrary
  pointer maps. `EachChildOnce` and the refinement `ImplementsIndex` rest on `IndexInv`: for
  every list there is a sequence without repetitions that leads from its head to
  its tail and holds exactly the children (`Indexed`). By induction on the position this
  sequence is the one a walk sees (`WalkIsList`), and no node is in two of them
  (`MetOnce`), so removal and appending change one list each, by dropping a position
  and by `Append`, as `Attach` does.
* `NetnsScanProofs`: types, `UniqueIds` (with the id in hand not being in the list
  while its link is opened), `ReadInOwnNs` (with `cur` and `mounted` following the
  entry through switch, mount and read). `NothingMissed`
  and `LowestPid` follow from `Found`: every name and process the two walks have
  passed is listed or in `warned` or `failed`, and an entry that has only a pid has one not
  above that of any process passed so far that did not fail.
* `TopologyProofs`: all properties of `Topology` and `Diagram`. `PeerSymmetric` comes
  from `peer_set` alone. The truth properties need what each pass has done for the
  interfaces it has visited (`Masters`, `Links`, `Pairs`, `Warned`) on top of
  `Base`, which says what the entries contain before and after each pass. Because an
  index is unique in a namespace, a search in the right namespace has one result.
  For `SameDiagram` the two formats are brought to one shape (`DotShape`,
  `JsonShape`), then each connection of one is found in the other; `PeersDrawnOnce`
  adds that no veth is its own peer.
* `HandlersProofs`: `PrivateValid`, `PassiveExact`, `TunnelTrue`, `VanishedAlone`. For the
  first, `KeptInv` adds, for every entry read so far, which block its driver's
  netlink callback leaves behind (`Holds`), and that no later callback changes it;
  and `ErrnoOK`, that `errno` is 0 only when the entries since the last team of the
  namespace in hand have found all their files, with `BehindNext` for the step from
  one interface to the next.
  For the others an entry is followed through its stages: `Linked` (netlink), `Scanned`
  (sysfs), `Named` (teamd), `Resolved`, and the results after `post`. What an entry says
  of active ports is stated of the ports that have been active (`actives`) and of the
  interfaces that are gone by now; both only grow (`Moved`), so the facts
  survive any failover or removal that comes later. `Touched` says what the post
  callbacks of one interface may change in the entries of others: only the role of
  its own ports. That keeps the results of interfaces done before and the
  preparations for those to come.
* `OvsProofs`: all four invariants of `Ovs`. The linking passes the places of the
  database in an order (`PassedAt`), and `IInv` says of the places passed what the
  properties say of all places in the end. What keeps it true are the names:
  a created entry has the name of its port or of an interface in it (`OwnersOK`),
  so no search for another place finds it, and an entry with a master was found
  for the one place of its name. Every step is a `LinkStep`: entries are only added,
  keep their names, and only the one in hand gets a master; `LinkKeeps` carries
  over what was said of the places before. What a search finds at home follows
  from the weights: with all ports at home the port is the one best candidate
  (`HomeBest`) unless the query about it failed, and a single best candidate is a port,
  cannot be told from one, or has taken the place of a port that could not be
  asked about (`HomePort`). No query about one name bears on a search for another.
* `RouteTablesProofs`: `EveryRouteOnce` and `TablesInOrder`: a route read is in exactly one
  table, behind those read before it (`Filed`), the array has the tables at
  their ids (`Sorted`), and the list is built from the array in descending order
  (`Attached`, with the lemma `DescendingLists`).
* `FrontendProofs`: `AllOrNothing`, because no list operation loses a format and
  nothing is written before all formats were looked up. `FilesWritten`, `FormatsWritten` and
  `ConfigScoped` rest on `Built`, which says for any prefix of the command line what the list
  contains: the newest output in front (`Headed`), every file named so far at
  exactly one output (`Filed`, `FiledOnce`), and as many outputs without a file, per
  format, as -f asked for (`Counted`).

Assumptions on the constants beyond their types: fewer requests than sequence numbers
(`SeqAssumption`), unique interface indices in a namespace, in `Handlers`, configurations
the kernel admits (`Possible`: a master is another interface of the same namespace, no
function is its own physical function, a bond's active port has an index or there is
none), and the three of `Ovs` that are described above. TLC evaluates all of them on
the runs.

Only model-checked: `ExchangeReturns` of `Netlink` and `Finishes` of `Handlers`. They are
liveness properties under fairness, which the prover cannot handle. Every other
property of a passing run is a theorem. The three violation runs are TLC's alone.

## 4. Observed on the way

Besides the three violation runs, reading the code for the models showed the
following. They are in the models where the code is, and the properties are stated
around them.

* `veth.c:62`: a veth whose peer is in a namespace that was not found matches, by
  mirrored indices, one end of a veth pair elsewhere and claims it before the
  other end is visited, although its `peer_netnsid` says that its peer is elsewhere.
* `vxlan.c:145`, `match.c:103-106`: a tunnel that is bound to a device of another
  namespace has no `link_net`, so its local address is searched in its own
  namespace.
* `gre.c:128`, `ipxipy.c:105`: a 32-bit index is read as one byte.
* `bridge.c:51`: a port that vanishes between open and read gives ENODEV, which ends
  the program; all other races of this kind are survived.
* `bond.c:109-110`: `free(dest)` is given the address of the field in `handler_private`,
  not the block, when `active_slave` is empty and `errno` is 0.
* `team.c:311-313`: an `active_port` that is no JSON string is compared as NULL.
* `netns.c:171-175`, `192-196`, `230-232`, `259-261`: a namespace is missed in silence if
  its processes cannot be looked at for lack of a privilege or a descriptor.
* `team.c:126`: a reply of exactly the buffer's size leads to a second read of a
  packet socket that finds nothing.
* A team without active port shows all its ports as passive, a bond none.
* `openvswitch.c:885-888`: a failing read ends the program, although "Errors from
  OVS handler are not fatal" (907).
* `openvswitch.c:835`: one ambiguous interface leaves all later bridges unlinked.
* `openvswitch.c:571-574`: "Be paranoid. If anything goes wrong, assume the interace is not
  a vport" does not keep an interface from being drawn at a bridge it is not in, when
  the query about the true port is the one that fails (see `QueryFailed` above).
* Linking ends with an ambiguity, too, when that query fails and two interfaces of other
  namespaces have its name and no master.
* `openvswitch.c:640`: the driver of a created interface is NULL and is compared when
  an internal interface of a netdev bridge has the name of its bond.
* `openvswitch.c:96-109`, `235`: JSON members that are missing or of another type are
  dereferenced.
* `openvswitch.c:642`: every candidate tun device is marked, not only the one
  chosen, so that a later port cannot find it.
* `json.c:148` shows `link-netns` when there is no link index, `dot.c:134` when there is
  no link; a tunnel linked by its address has both in JSON.
* JSON keys interfaces by `ifid`, which two created Open vSwitch interfaces of one
  bridge may share when a bond has the name of one of its interfaces.

## 5. Not modelled, and the plan

1. Netlink messages: growth and alignment of the buffer, nested attributes.
2. `veth_scan`'s ethtool fallback for kernels that report no peer index.

Not planned: formatting (`label.c`, `utils.c`, `route.c`, the text of `dot.c` and
`json.c`), configuration properties that handlers only print, MAC addresses and XDP
programs, `ethtool.c`, constants of kernel headers (`compat.h`): they keep no state
and have no order to get wrong.
