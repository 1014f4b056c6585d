------------------------- MODULE RouteTablesProofs -------------------------
(***************************************************************************)
(* Every route of the dump is shown exactly once, and the tables are in    *)
(* order, for every dump and every set of table ids.                       *)
(*                                                                         *)
(* The tables' ids are bytes, whatever the kernel's are, so the last loop  *)
(* finds every table; that a route is in one table and at one place of it  *)
(* is Sorted: the positions in a table ascend and belong to its id.        *)
(***************************************************************************)
EXTENDS RouteTables, FiniteSetTheorems, TLAPS

TypeInv ==
    /\ dump \in Seq(TableIds \union {0})
    /\ attr \in BOOLEAN
    /\ next \in Nat /\ next >= 1
    /\ DOMAIN tables \subseteq 0..(Width - 1)
    /\ \A k \in DOMAIN tables : tables[k] \in Seq(Nat) /\ tables[k] # <<>>
    /\ status \in {"scan", "done", "error"}

\* Every message before next is in the table of its id.
Filed ==
    \A i \in DOMAIN dump : i < next =>
        /\ TableId(dump[i]) \in DOMAIN tables
        /\ \E j \in DOMAIN tables[TableId(dump[i])] : tables[TableId(dump[i])][j] = i

\* A table has routes of its id only, in the order of the dump.
Sorted ==
    \A k \in DOMAIN tables :
        /\ \A j \in DOMAIN tables[k] : /\ tables[k][j] \in DOMAIN dump /\ tables[k][j] < next
                                       /\ TableId(dump[tables[k][j]]) = k
        /\ \A j, l \in DOMAIN tables[k] : j < l => tables[k][j] < tables[k][l]

Attached ==
    IF status = "done"
    THEN /\ next = Len(dump) + 1
         /\ rtables = [n \in DOMAIN Shown |-> [id |-> Shown[n], routes |-> tables[Shown[n]]]]
    ELSE rtables = <<>>

IInv == TypeInv /\ Filed /\ Sorted /\ Attached

USE IdAssumption, BoundAssumption

\* The last loop visits every id once, from the highest to the lowest.
LEMMA DescendingLists ==
    ASSUME NEW ids \in SUBSET Nat, IsFiniteSet(ids)
    PROVE  /\ Descending(ids) \in [1..Cardinality(ids) -> ids]
           /\ \A m, n \in 1..Cardinality(ids) : m < n => Descending(ids)[m] > Descending(ids)[n]
           /\ \A x \in ids : \E n \in 1..Cardinality(ids) : Descending(ids)[n] = x
<1>. DEFINE c == Cardinality(ids)
            Above(x) == {y \in ids : y >= x}
            rank == [x \in ids |-> Cardinality(Above(x))]
            inv == [n \in 1..c |-> CHOOSE x \in ids : rank[x] = n]
            Down(s) == \A m, n \in DOMAIN s : m < n => s[m] > s[n]
<1>1. c \in Nat /\ IsFiniteSet(1..c) /\ Cardinality(1..c) = c
  BY FS_CardinalityType, FS_Interval
<1>2. ASSUME NEW x \in ids PROVE rank[x] \in 1..c /\ IsFiniteSet(Above(x))
  <2>1. Above(x) \in SUBSET ids /\ x \in Above(x)
    OBVIOUS
  <2>2. IsFiniteSet(Above(x)) /\ Cardinality(Above(x)) <= c
    BY <2>1, FS_Subset
  <2>3. Cardinality(Above(x)) \in Nat /\ Cardinality(Above(x)) # 0
    <3>. HIDE DEF Above
    <3>. QED
      BY <2>1, <2>2, FS_CardinalityType, FS_EmptySet
  <2>4. rank[x] = Cardinality(Above(x))
    OBVIOUS
  <2>. QED
    BY <1>1, <2>2, <2>3, <2>4
<1>3. ASSUME NEW x \in ids, NEW y \in ids, x < y PROVE rank[y] < rank[x]
  <2>1. Above(y) \in SUBSET Above(x) /\ Above(y) # Above(x)
    <3>1. x \in Above(x) /\ x \notin Above(y)
      BY <1>3
    <3>2. \A z \in Above(y) : z \in Above(x)
      BY <1>3
    <3>. QED
      BY <3>1, <3>2
  <2>2. Cardinality(Above(y)) <= Cardinality(Above(x)) /\ Cardinality(Above(x)) # Cardinality(Above(y))
    <3>. HIDE DEF Above
    <3>. QED
      BY <1>2, <2>1, FS_Subset
  <2>3. rank[x] = Cardinality(Above(x)) /\ rank[y] = Cardinality(Above(y))
    OBVIOUS
  <2>4. rank[x] \in Nat /\ rank[y] \in Nat
    BY <1>1, <1>2
  <2>. HIDE DEF rank, Above
  <2>. QED
    BY <2>2, <2>3, <2>4
<1>4. rank \in [ids -> 1..c]
  BY <1>2
<1>. HIDE DEF rank, c, Above
<1>5. rank \in Injection(ids, 1..c)
  <2>1. \A x, y \in ids : rank[x] = rank[y] => x = y
    BY <1>1, <1>3, <1>4
  <2>. QED
    BY <1>4, <2>1 DEF Injection, IsInjective
<1>6. rank \in Surjection(ids, 1..c)
  BY <1>1, <1>5, FS_Injection DEF c
<1>7. \A n \in 1..c : inv[n] \in ids /\ rank[inv[n]] = n
  BY <1>6 DEF Surjection
<1>8. inv \in [1..c -> ids] /\ Down(inv)
  <2>1. inv \in [1..c -> ids] /\ DOMAIN inv = 1..c
    BY <1>7
  <2>. HIDE DEF inv
  <2>. SUFFICES ASSUME NEW m \in 1..c, NEW n \in 1..c, m < n PROVE inv[m] > inv[n]
    BY <2>1
  <2>2. /\ inv[m] \in Nat /\ inv[n] \in Nat /\ inv[m] \in ids /\ inv[n] \in ids
        /\ rank[inv[m]] = m /\ rank[inv[n]] = n
    BY <1>7
  <2>3. ~ (inv[m] < inv[n])
    BY <1>1, <1>3, <2>2
  <2>. QED
    BY <2>2, <2>3
<1>9. Descending(ids) \in [1..c -> ids] /\ Down(Descending(ids))
  <2>1. Descending(ids) = CHOOSE s \in [1..c -> ids] : Down(s)
    BY DEF Descending, c
  <2>. HIDE DEF Down, inv
  <2>. QED
    BY <1>8, <2>1
<1>10. Descending(ids) \in Injection(1..c, ids)
  <2>1. \A m, n \in 1..c : Descending(ids)[m] = Descending(ids)[n] => m = n
    <3>1. DOMAIN Descending(ids) = 1..c /\ \A n \in 1..c : Descending(ids)[n] \in Nat
      BY <1>9
    <3>2. \A m, n \in 1..c : m < n => Descending(ids)[m] > Descending(ids)[n]
      BY <1>9, <3>1
    <3>. QED
      BY <1>1, <3>1, <3>2
  <2>. QED
    BY <1>9, <2>1 DEF Injection, IsInjective
<1>11. Descending(ids) \in Surjection(1..c, ids)
  BY <1>1, <1>10, FS_Injection DEF c
<1>. QED
  BY <1>9, <1>11 DEF Surjection, c

\* An id of a table is a byte.
LEMMA TableIdByte ==
    ASSUME NEW t \in TableIds \union {0}, attr \in BOOLEAN PROVE TableId(t) \in 0..(Width - 1)
<1>1. t \in Nat
  OBVIOUS
<1>2. (IF attr THEN t ELSE rtm_table(t)) \in Nat
  BY <1>1 DEF rtm_table, RT_TABLE_COMPAT
<1>. QED
  BY <1>2 DEF TableId, Width

\* There are no tables at first.
LEMMA InitIInv == Init => IInv
<1>. SUFFICES ASSUME Init PROVE IInv
  OBVIOUS
<1>1. PICK n \in 0..MaxRoutes : dump \in [1..n -> TableIds \union {0}]
  BY DEF Init, Dumps
<1>2. dump \in Seq(TableIds \union {0})
  BY <1>1
<1>3. DOMAIN tables = {}
  BY DEF Init, NoTables
<1>4. DOMAIN dump = 1..n
  BY <1>1
<1>. QED
  BY <1>2, <1>3, <1>4 DEF Init, IInv, TypeInv, Filed, Sorted, Attached

\* A route goes to the end of its table and moves no other.
LEMMA AddIInv == ASSUME IInv, AddRoute PROVE IInv'
<1>. DEFINE k0 == TableId(dump[next])
            Old(k) == IF k \in DOMAIN tables THEN tables[k] ELSE <<>>
<1>1. /\ status = "scan" /\ status' = "scan" /\ next \in DOMAIN dump /\ next' = next + 1
      /\ UNCHANGED <<dump, attr, rtables>> /\ tables' = WithRoute(next) /\ rtables = <<>>
      /\ dump \in Seq(TableIds \union {0}) /\ next \in Nat /\ next >= 1
  BY DEF AddRoute, IInv, TypeInv, Attached
<1>2. dump[next] \in TableIds \union {0} /\ k0 \in 0..(Width - 1)
  <2>1. dump[next] \in TableIds \union {0}
    BY <1>1
  <2>. QED
    BY <2>1, TableIdByte DEF IInv, TypeInv
<1>3. /\ DOMAIN tables' = DOMAIN tables \union {k0}
      /\ \A k \in DOMAIN tables' : tables'[k] = IF k = k0 THEN Append(Old(k), next) ELSE Old(k)
  BY <1>1 DEF WithRoute
<1>4. \A k : Old(k) \in Seq(Nat)
  BY DEF IInv, TypeInv
<1>. HIDE DEF k0
<1>5. /\ tables'[k0] \in Seq(Nat) /\ DOMAIN tables'[k0] = 1..(Len(Old(k0)) + 1)
      /\ tables'[k0][Len(Old(k0)) + 1] = next /\ Len(Old(k0)) \in Nat
      /\ \A j \in 1..Len(Old(k0)) : tables'[k0][j] = Old(k0)[j]
      /\ DOMAIN Old(k0) = 1..Len(Old(k0))
  <2>1. Old(k0) \in Seq(Nat) /\ tables'[k0] = Append(Old(k0), next)
    BY <1>3, <1>4
  <2>. HIDE DEF Old
  <2>. QED
    BY <1>1, <2>1
<1>6. \A k \in DOMAIN tables : k # k0 => tables'[k] = tables[k]
  BY <1>3
<1>7. \A t : TableId(t)' = TableId(t)
  BY <1>1 DEF TableId
<1>8. TypeInv'
  <2>1. DOMAIN tables' \subseteq 0..(Width - 1)
    BY <1>2, <1>3 DEF IInv, TypeInv
  <2>2. ASSUME NEW k \in DOMAIN tables' PROVE tables'[k] \in Seq(Nat) /\ tables'[k] # <<>>
    <3>1. CASE k = k0
      <4>1. 1 \in 1..(Len(Old(k0)) + 1)
        BY <1>5
      <4>2. DOMAIN tables'[k0] # {}
        BY <1>5, <4>1
      <4>. QED
        BY <1>5, <3>1, <4>2
    <3>2. CASE k # k0
      BY <1>3, <1>6, <3>2 DEF IInv, TypeInv
    <3>. QED
      BY <3>1, <3>2
  <2>. QED
    BY <1>1, <2>1, <2>2 DEF IInv, TypeInv
<1>9. Old(k0) # <<>> => k0 \in DOMAIN tables /\ Old(k0) = tables[k0]
  OBVIOUS
<1>10. \A j \in DOMAIN Old(k0) : k0 \in DOMAIN tables /\ Old(k0) = tables[k0]
  BY <1>5, <1>9
<1>. HIDE DEF Old
<1>11. Filed'
  <2>. SUFFICES ASSUME NEW i \in DOMAIN dump, i < next + 1
                PROVE  /\ TableId(dump[i]) \in DOMAIN tables'
                       /\ \E j \in DOMAIN tables'[TableId(dump[i])] : tables'[TableId(dump[i])][j] = i
    BY <1>1, <1>7 DEF Filed
  <2>1. CASE i = next
    <3>1. Len(Old(k0)) + 1 \in DOMAIN tables'[k0] /\ TableId(dump[i]) = k0
      BY <1>5, <2>1 DEF k0
    <3>. QED
      BY <1>3, <1>5, <2>1, <3>1
  <2>2. CASE i < next
    <3>1. PICK j \in DOMAIN tables[TableId(dump[i])] : tables[TableId(dump[i])][j] = i
      BY <2>2 DEF IInv, Filed
    <3>2. TableId(dump[i]) \in DOMAIN tables
      BY <2>2 DEF IInv, Filed
    <3>3. CASE TableId(dump[i]) # k0
      BY <1>3, <1>6, <3>1, <3>2, <3>3
    <3>4. CASE TableId(dump[i]) = k0
      <4>1. Old(k0) = tables[k0]
        BY <3>2, <3>4 DEF Old
      <4>2. j \in 1..Len(Old(k0))
        BY <1>5, <3>1, <3>4, <4>1
      <4>3. j \in DOMAIN tables'[k0] /\ tables'[k0][j] = i
        <5>1. tables'[k0][j] = tables[k0][j] /\ tables[k0][j] = i
          BY <1>5, <3>1, <3>4, <4>1, <4>2
        <5>2. j \in 1..(Len(Old(k0)) + 1)
          BY <1>5, <4>2
        <5>. QED
          BY <1>5, <5>1, <5>2
      <4>. QED
        BY <1>3, <3>4, <4>3
    <3>. QED
      BY <3>3, <3>4
  <2>. QED
    BY <1>1, <2>1, <2>2
<1>12. Sorted'
  <2>. SUFFICES ASSUME NEW k \in DOMAIN tables'
                PROVE  /\ \A j \in DOMAIN tables'[k] :
                             /\ tables'[k][j] \in DOMAIN dump /\ tables'[k][j] < next + 1
                             /\ TableId(dump[tables'[k][j]]) = k
                       /\ \A j, l \in DOMAIN tables'[k] : j < l => tables'[k][j] < tables'[k][l]
    BY <1>1, <1>7 DEF Sorted
  <2>1. \A h \in DOMAIN tables : \A j \in DOMAIN tables[h] : tables[h][j] \in Nat
    BY DEF IInv, TypeInv
  <2>2. CASE k # k0
    <3>1. k \in DOMAIN tables /\ tables'[k] = tables[k]
      BY <1>3, <1>6, <2>2
    <3>. QED
      BY <1>1, <2>1, <3>1 DEF IInv, Sorted
  <2>3. CASE k = k0
    <3>1. ASSUME NEW j \in 1..Len(Old(k0))
          PROVE  /\ tables'[k0][j] \in DOMAIN dump /\ tables'[k0][j] < next /\ tables'[k0][j] \in Nat
                 /\ TableId(dump[tables'[k0][j]]) = k0
      <4>1. k0 \in DOMAIN tables /\ tables'[k0][j] = tables[k0][j] /\ j \in DOMAIN tables[k0]
        BY <1>5, <1>10
      <4>. QED
        BY <2>1, <4>1 DEF IInv, Sorted
    <3>2. ASSUME NEW j \in 1..Len(Old(k0)), NEW l \in 1..Len(Old(k0)), j < l
          PROVE  tables'[k0][j] < tables'[k0][l]
      <4>1. /\ k0 \in DOMAIN tables /\ tables'[k0][j] = tables[k0][j] /\ j \in DOMAIN tables[k0]
            /\ tables'[k0][l] = tables[k0][l] /\ l \in DOMAIN tables[k0]
        BY <1>5, <1>10
      <4>. QED
        BY <3>2, <4>1 DEF IInv, Sorted
    <3>3. TableId(dump[next]) = k0
      BY DEF k0
    <3>. DEFINE last == Len(Old(k0)) + 1
    <3>4. /\ DOMAIN tables'[k0] = 1..last /\ tables'[k0][last] = next /\ last \in Nat
          /\ \A j \in 1..last : j = last \/ j \in 1..Len(Old(k0))
      BY <1>5
    <3>5. \A j \in 1..last : /\ tables'[k0][j] \in DOMAIN dump /\ tables'[k0][j] < next + 1
                             /\ TableId(dump[tables'[k0][j]]) = k0
      <4>. SUFFICES ASSUME NEW j \in 1..last
                    PROVE  /\ tables'[k0][j] \in DOMAIN dump /\ tables'[k0][j] < next + 1
                           /\ TableId(dump[tables'[k0][j]]) = k0
        OBVIOUS
      <4>1. CASE j = last
        BY <1>1, <3>3, <3>4, <4>1
      <4>2. CASE j \in 1..Len(Old(k0))
        BY <1>1, <3>1, <4>2
      <4>. QED
        BY <3>4, <4>1, <4>2
    <3>6. \A j, l \in 1..last : j < l => tables'[k0][j] < tables'[k0][l]
      <4>. SUFFICES ASSUME NEW j \in 1..last, NEW l \in 1..last, j < l
                    PROVE  tables'[k0][j] < tables'[k0][l]
        OBVIOUS
      <4>1. j \in 1..Len(Old(k0))
        BY <1>5
      <4>. QED
        BY <3>1, <3>2, <3>4, <4>1
    <3>. QED
      BY <2>3, <3>4, <3>5, <3>6
  <2>. QED
    BY <2>2, <2>3
<1>13. Attached'
  BY <1>1 DEF Attached
<1>. QED
  BY <1>8, <1>11, <1>12, <1>13 DEF IInv

\* The other steps leave the tables alone.
LEMMA NextIInv == IInv /\ [Next]_vars => IInv'
<1>. SUFFICES ASSUME IInv, [Next]_vars PROVE IInv'
  OBVIOUS
<1>1. ASSUME UNCHANGED <<dump, attr, next, tables>>, status' \in {"scan", "done", "error"}
      PROVE  TypeInv' /\ Filed' /\ Sorted' /\ Shown' = Shown
  <2>1. \A t : TableId(t)' = TableId(t)
    BY <1>1 DEF TableId
  <2>2. Shown' = Shown
    BY <1>1 DEF Shown
  <2>3. Filed' /\ Sorted'
    BY <1>1, <2>1 DEF IInv, Filed, Sorted
  <2>. QED
    BY <1>1, <2>2, <2>3 DEF IInv, TypeInv
<1>2. CASE ScanFails
  BY <1>1, <1>2 DEF ScanFails, IInv, Attached
<1>3. CASE AttachTables
  BY <1>1, <1>3 DEF AttachTables, IInv, Attached
<1>4. CASE UNCHANGED vars
  <2>1. status \in {"scan", "done", "error"}
    BY DEF IInv, TypeInv
  <2>. QED
    BY <1>1, <1>4, <2>1 DEF vars, IInv, Attached
<1>. QED
  BY <1>2, <1>3, <1>4, AddIInv DEF Next

\* The invariant holds throughout.
LEMMA Invariance == Spec => []IInv
  BY InitIInv, NextIInv, PTL DEF Spec

\* What the namespace shows: the tables by descending ids, none left out
LEMMA ShownTables ==
    ASSUME IInv, status = "done"
    PROVE  /\ \A m, n \in DOMAIN rtables : m < n => rtables[m].id > rtables[n].id
           /\ \A m, n \in DOMAIN rtables : rtables[m].id = rtables[n].id => m = n
           /\ \A n \in DOMAIN rtables : /\ rtables[n].id \in DOMAIN tables
                                        /\ rtables[n].routes = tables[rtables[n].id]
           /\ \A k \in DOMAIN tables : \E n \in DOMAIN rtables : rtables[n].id = k
<1>. DEFINE ids == DOMAIN tables
            c == Cardinality(ids)
<1>1. ids \in SUBSET Nat /\ IsFiniteSet(ids)
  <2>1. ids \in SUBSET (0..255)
    <3>1. ids \subseteq 0..(Width - 1)
      BY DEF IInv, TypeInv
    <3>. QED
      BY <3>1 DEF Width
  <2>2. IsFiniteSet(0..255)
    <3>1. 0 \in Int /\ 255 \in Int
      OBVIOUS
    <3>. QED
      BY <3>1, FS_Interval
  <2>. QED
    BY <2>1, <2>2, FS_Subset
<1>2. /\ Shown \in [1..c -> ids]
      /\ \A m, n \in 1..c : m < n => Shown[m] > Shown[n]
      /\ \A x \in ids : \E n \in 1..c : Shown[n] = x
  BY <1>1, DescendingLists DEF Shown
<1>3. rtables = [n \in DOMAIN Shown |-> [id |-> Shown[n], routes |-> tables[Shown[n]]]]
  BY DEF IInv, Attached
<1>4. c \in Nat
  BY <1>1, FS_CardinalityType
<1>. HIDE DEF c
<1>5. DOMAIN rtables = 1..c /\ \A n \in 1..c : /\ rtables[n].id = Shown[n] /\ Shown[n] \in Nat
                                               /\ rtables[n].routes = tables[Shown[n]]
  BY <1>1, <1>2, <1>3
<1>6. \A m, n \in 1..c : Shown[m] = Shown[n] => m = n
  BY <1>2, <1>4, <1>5
<1>. QED
  BY <1>2, <1>5, <1>6

\* Every route of a successful scan is shown once, for every dump and every id
\* a table may have (handlers/route.c:195-213).
THEOREM RoutesShownOnce == Spec => []EveryRouteOnce
<1>1. IInv => EveryRouteOnce
  <2>. SUFFICES ASSUME IInv, status = "done", NEW i \in DOMAIN dump
                PROVE  Cardinality(Places(i)) = 1
    BY DEF EveryRouteOnce
  <2>1. i < next /\ i \in Nat
    BY DEF IInv, TypeInv, Attached
  <2>. DEFINE k == TableId(dump[i])
  <2>2. PICK j \in DOMAIN tables[k] : tables[k][j] = i
    BY <2>1 DEF IInv, Filed
  <2>3. k \in DOMAIN tables
    BY <2>1 DEF IInv, Filed
  <2>. HIDE DEF k
  <2>4. PICK n \in DOMAIN rtables : rtables[n].id = k
    BY <2>3, ShownTables
  <2>5. rtables[n].routes = tables[k]
    BY <2>4, ShownTables
  <2>6. <<n, j>> \in Places(i)
    BY <2>2, <2>4, <2>5 DEF Places
  <2>7. ASSUME NEW p \in Places(i) PROVE p = <<n, j>>
    <3>0. PICK m \in DOMAIN rtables :
             \E l \in DOMAIN rtables[m].routes : p = <<m, l>> /\ rtables[m].routes[l] = i
      BY <2>7 DEF Places
    <3>1. PICK l \in DOMAIN rtables[m].routes : p = <<m, l>> /\ rtables[m].routes[l] = i
      BY <3>0
    <3>2. rtables[m].id \in DOMAIN tables /\ rtables[m].routes = tables[rtables[m].id]
      BY ShownTables
    <3>3. rtables[m].id = k
      BY <3>1, <3>2 DEF IInv, Sorted, k
    <3>4. m = n
      BY <2>4, <3>3, ShownTables
    <3>5. l \in DOMAIN tables[k] /\ tables[k][l] = i
      BY <3>1, <3>2, <3>3
    <3>6. l = j
      <4>1. tables[k] \in Seq(Nat)
        BY <2>3 DEF IInv, TypeInv
      <4>2. l \in Nat /\ j \in Nat
        BY <2>2, <3>5, <4>1
      <4>3. ~ (l < j) /\ ~ (j < l)
        BY <2>1, <2>2, <2>3, <3>5 DEF IInv, Sorted
      <4>. QED
        BY <4>2, <4>3
    <3>. QED
      BY <3>1, <3>4, <3>6
  <2>8. Places(i) = {<<n, j>>}
    BY <2>6, <2>7
  <2>. QED
    BY <2>8, FS_Singleton
<1>. QED
  BY <1>1, Invariance, PTL

\* The tables are shown in descending order of their ids, none is empty, and
\* the routes of one kernel table stay together, in the kernel's order, for
\* every dump and every id (handlers/route.c:206-213).
THEOREM TablesSorted == Spec => []TablesInOrder
<1>1. IInv => TablesInOrder
  <2>1. ASSUME IInv, status # "done" PROVE TablesInOrder
    <3>1. DOMAIN rtables = {}
      BY <2>1 DEF IInv, Attached
    <3>. QED
      BY <3>1 DEF TablesInOrder
  <2>2. ASSUME IInv, status = "done" PROVE TablesInOrder
    <3>. USE <2>2
    <3>1. ASSUME NEW n \in DOMAIN rtables
          PROVE  LET r == rtables[n].routes
                 IN  r # <<>> /\ \A j, k \in DOMAIN r : j < k => r[j] < r[k]
      <4>1. rtables[n].id \in DOMAIN tables /\ rtables[n].routes = tables[rtables[n].id]
        BY ShownTables
      <4>. QED
        BY <4>1 DEF IInv, TypeInv, Sorted
    <3>2. ASSUME NEW m \in DOMAIN rtables, NEW n \in DOMAIN rtables,
                 NEW j \in DOMAIN rtables[m].routes, NEW k \in DOMAIN rtables[n].routes,
                 dump[rtables[m].routes[j]] = dump[rtables[n].routes[k]]
          PROVE  m = n
      <4>1. /\ rtables[n].id \in DOMAIN tables /\ rtables[n].routes = tables[rtables[n].id]
            /\ rtables[m].id \in DOMAIN tables /\ rtables[m].routes = tables[rtables[m].id]
        BY ShownTables
      <4>2. /\ TableId(dump[rtables[m].routes[j]]) = rtables[m].id
            /\ TableId(dump[rtables[n].routes[k]]) = rtables[n].id
        BY <4>1 DEF IInv, Sorted
      <4>. QED
        BY <3>2, <4>2, ShownTables
    <3>3. \A m, n \in DOMAIN rtables : m < n => rtables[m].id > rtables[n].id
      BY ShownTables
    <3>. QED
      BY <3>1, <3>2, <3>3 DEF TablesInOrder
  <2>. QED
    BY <2>1, <2>2
<1>. QED
  BY <1>1, Invariance, PTL
=============================================================================
