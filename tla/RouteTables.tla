---------------------------- MODULE RouteTables ----------------------------
(***************************************************************************)
(* The routes of a namespace sorted into its routing tables: route_scan    *)
(* and route_create_netlink (handlers/route.c).                            *)
(*                                                                         *)
(* The kernel's dump is a sequence of messages.  A route has the id of its *)
(* table, which the kernel reports in full in the attribute RTA_TABLE, if  *)
(* it knows it, and in the 8 bits of rtm_table.  Other message types do    *)
(* not belong into the answer and end the scan.                            *)
(***************************************************************************)
EXTENDS Integers, Sequences, FiniteSets

CONSTANTS
    TableIds,           \* ids of the tables of the kernel
    MaxRoutes           \* bound: messages of a dump

Width == 256            \* of table_id, an unsigned char, and of tables[]
RT_TABLE_COMPAT == 252

ASSUME IdAssumption == TableIds \subseteq Nat \ {0}
ASSUME BoundAssumption == MaxRoutes \in Nat

VARIABLES
    dump,               \* what nl_exchange returned: table ids, 0 for a message of another type
    attr,               \* the kernel sends RTA_TABLE
    next,               \* the next message
    tables,             \* tables[id]: positions in dump of the table's routes
    rtables,            \* ns->rtables: the ids of the tables shown, with their routes
    status              \* "scan", "done" or "error"

vars == <<dump, attr, next, tables, rtables, status>>

NoTables == [i \in {} |-> <<>>]

\* A kernel without RTA_TABLE has no table ids beyond rtm_table's (external).
Dumps ==
    {d \in UNION {[1..n -> TableIds \union {0}] : n \in 0..MaxRoutes} :
        attr \/ \A i \in DOMAIN d : d[i] < Width}

Init ==
    /\ attr \in BOOLEAN
    /\ dump \in Dumps
    /\ next = 1
    /\ tables = NoTables
    /\ rtables = <<>>
    /\ status = "scan"

\* rtm_table of a route of table t (external)
rtm_table(t) == IF t < Width THEN t ELSE RT_TABLE_COMPAT

\* r->table_id: assigned from an int, it keeps 8 bits
TableId(t) == (IF attr THEN t ELSE rtm_table(t)) % Width

\* Mutant: the route is put before the others (list_prepend).
WithRouteMutant(i) ==
    [k \in DOMAIN tables \union {TableId(dump[i])} |->
        LET old == IF k \in DOMAIN tables THEN tables[k] ELSE <<>>
        IN  IF k = TableId(dump[i]) THEN <<i>> \o old ELSE old]

\* tables[] with the i-th message's route at the end of its table, which
\* rtable_create makes for its first route
WithRoute(i) ==
    [k \in DOMAIN tables \union {TableId(dump[i])} |->
        LET old == IF k \in DOMAIN tables THEN tables[k] ELSE <<>>
        IN  IF k = TableId(dump[i]) THEN Append(old, i) ELSE old]

AddRoute ==
    /\ status = "scan"
    /\ next <= Len(dump)
    /\ dump[next] # 0
    /\ tables' = WithRoute(next)
    /\ next' = next + 1
    /\ UNCHANGED <<dump, attr, rtables, status>>

\* no memory, or a message of another type: the tables made so far are not
\* attached to the namespace
ScanFails ==
    /\ status = "scan"
    /\ next <= Len(dump)
    /\ status' = "error"
    /\ UNCHANGED <<dump, attr, next, tables, rtables>>

\* The loop over tables[] goes from the highest id to the lowest.
Descending(ids) ==
    CHOOSE s \in [1..Cardinality(ids) -> ids] : \A m, n \in DOMAIN s : m < n => s[m] > s[n]

\* Mutant: the loop leaves out the highest id.
ShownMutant == Descending(DOMAIN tables \ {Width - 1})
Shown == Descending(DOMAIN tables)

AttachTables ==
    /\ status = "scan"
    /\ next = Len(dump) + 1
    /\ rtables' = [n \in DOMAIN Shown |-> [id |-> Shown[n], routes |-> tables[Shown[n]]]]
    /\ status' = "done"
    /\ UNCHANGED <<dump, attr, next, tables>>

Next == AddRoute \/ ScanFails \/ AttachTables

Spec == Init /\ [][Next]_vars

-----------------------------------------------------------------------------
\* The places at which the i-th route is shown
Places(i) ==
    UNION {{<<n, j>> : j \in {k \in DOMAIN rtables[n].routes : rtables[n].routes[k] = i}} :
              n \in DOMAIN rtables}

\* Every route of the dump is shown exactly once when the scan succeeds
\* (handlers/route.c:195-213).
EveryRouteOnce == status = "done" => \A i \in DOMAIN dump : Cardinality(Places(i)) = 1

\* Tables are shown in descending order of their ids, none is empty, and the
\* routes of one kernel table stay together and in the kernel's order
\* (handlers/route.c:206-213).
TablesInOrder ==
    /\ \A m, n \in DOMAIN rtables : m < n => rtables[m].id > rtables[n].id
    /\ \A n \in DOMAIN rtables :
          LET r == rtables[n].routes
          IN  r # <<>> /\ \A j, k \in DOMAIN r : j < k => r[j] < r[k]
    /\ \A m, n \in DOMAIN rtables :
          \A j \in DOMAIN rtables[m].routes, k \in DOMAIN rtables[n].routes :
              dump[rtables[m].routes[j]] = dump[rtables[n].routes[k]] => m = n

\* "routes: An array of existing routing tables" (plotnetcfg-json.5:64-66):
\* every table with a route is shown, and what is shown under its id are its
\* own routes.
TablesExist ==
    status = "done" =>
        \A i \in DOMAIN dump : \E p \in Places(i) : rtables[p[1]].id = dump[i]
=============================================================================
