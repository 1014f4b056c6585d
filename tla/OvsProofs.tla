----------------------------- MODULE OvsProofs -----------------------------
(***************************************************************************)
(* What the Open vSwitch handler shows of bridges and ports: the four      *)
(* invariants of Ovs, for all databases and kernels.                       *)
(*                                                                         *)
(* The linking goes through the places of the database in an order (see    *)
(* PassedAt).  IInv says of the places that are passed what the properties *)
(* say of all of them in the end: NotDropped, Recognised and, for pairs of *)
(* patch ports, their being peers.  That this stays true is due to the     *)
(* names: a created entry has the name of a port or of an interface in one *)
(* (OwnersOK), so no later search of the kernel's interfaces takes it, and *)
(* an entry that has a master was found for the one interface of its name. *)
(* Every step of the linking is a LinkStep: entries are added, none loses  *)
(* its name, and only what is passed now gets a master.  LinkKeeps then    *)
(* leaves to each action what is said of the places it passes.             *)
(*                                                                         *)
(* What is found of a bridge that is at home follows from the weights:     *)
(* HomeBest (with all ports at home, the port is the one best candidate),  *)
(* HomePort (the only best candidate is a port, or cannot be told from     *)
(* one) and MainBest (the bridge's own interface is not ambiguous there).  *)
(***************************************************************************)
EXTENDS Ovs, FiniteSetTheorems, WellFoundedInduction, TLAPS

-----------------------------------------------------------------------------
(* Sets of numbers *)

\* Min of FiniteSetsExt is the least member.
LEMMA MinIsLeast ==
    ASSUME NEW S, S \subseteq Nat, S # {} PROVE Min(S) \in S /\ \A x \in S : Min(S) <= x
<1>1. \E x \in S : \A y \in S : ~(<<y, x>> \in OpToRel(<, Nat))
  BY NatLessThanWellFounded, WFMin
<1>2. PICK x \in S : \A y \in S : ~(<<y, x>> \in OpToRel(<, Nat))
  BY <1>1
<1>3. ASSUME NEW y \in S PROVE x <= y
  <2>1. <<y, x>> \in Nat \X Nat /\ <<y, x>>[1] = y /\ <<y, x>>[2] = x
    OBVIOUS
  <2>2. ~(y < x)
    BY <1>2, <2>1 DEF OpToRel
  <2>. QED
    BY <2>2
<1>. QED
  BY <1>3 DEF Min

\* A set of numbers up to n with one member or none
LEMMA SmallSet ==
    ASSUME NEW n \in Nat, NEW S, S \subseteq 1..n
    PROVE  /\ Cardinality(S) \in Nat
           /\ Cardinality(S) = 0 <=> S = {}
           /\ Cardinality(S) = 1 => S = {Min(S)} /\ Min(S) \in 1..n
           /\ (\A x, y \in S : x = y) => Cardinality(S) <= 1
<1>1. IsFiniteSet(S)
  <2>1. IsFiniteSet(1..n)
    BY FS_Interval
  <2>. QED
    BY <2>1, FS_Subset
<1>2. Cardinality(S) \in Nat /\ (Cardinality(S) = 0 <=> S = {})
  BY <1>1, FS_CardinalityType, FS_EmptySet
<1>3. ASSUME Cardinality(S) = 1 PROVE S = {Min(S)} /\ Min(S) \in 1..n
  <2>1. PICK x : S = {x}
    BY <1>1, <1>3, FS_Singleton
  <2>2. S \subseteq Nat /\ S # {}
    BY <2>1
  <2>3. Min(S) \in S
    BY <2>2, MinIsLeast
  <2>. QED
    BY <2>1, <2>3
<1>4. ASSUME \A x, y \in S : x = y PROVE Cardinality(S) <= 1
  <2>1. CASE S = {}
    BY <1>2, <2>1
  <2>2. CASE S # {}
    <3>1. PICK x : x \in S
      BY <2>2
    <3>2. S = {x}
      BY <1>4, <3>1
    <3>3. Cardinality(S) = 1
      BY <3>2, FS_Singleton
    <3>. QED
      BY <3>3
  <2>. QED
    BY <2>1, <2>2
<1>. QED
  BY <1>2, <1>3, <1>4

-----------------------------------------------------------------------------
(* The database *)

\* Bridges, ports and interfaces are numbered from 1.
LEMMA DbFacts ==
    ASSUME db \in Databases
    PROVE  /\ Len(db) \in Nat /\ DOMAIN db = 1..Len(db)
           /\ \A b \in DOMAIN db :
                 /\ Len(db[b].ports) \in Nat /\ DOMAIN db[b].ports = 1..Len(db[b].ports)
                 /\ \A p \in DOMAIN db[b].ports :
                       /\ db[b].ports[p].name \in STRING
                       /\ Len(db[b].ports[p].ifaces) \in Nat
                       /\ DOMAIN db[b].ports[p].ifaces = 1..Len(db[b].ports[p].ifaces)
                       /\ \A i \in DOMAIN db[b].ports[p].ifaces : db[b].ports[p].ifaces[i] \in Iface0
<1>1. db \in Seq(Bridge0)
  BY DatabaseAssumption
<1>2. ASSUME NEW b \in DOMAIN db PROVE db[b].ports \in Seq(Port0)
  <2>1. db[b] \in Bridge0
    BY <1>1
  <2>. QED
    BY <2>1 DEF Bridge0
<1>3. ASSUME NEW b \in DOMAIN db, NEW p \in DOMAIN db[b].ports
      PROVE  db[b].ports[p].name \in STRING /\ db[b].ports[p].ifaces \in Seq(Iface0)
  <2>1. db[b].ports[p] \in Port0
    BY <1>2
  <2>. QED
    BY <2>1 DEF Port0
<1>4. ASSUME NEW b \in DOMAIN db, NEW p \in DOMAIN db[b].ports, NEW i \in DOMAIN db[b].ports[p].ifaces
      PROVE  db[b].ports[p].ifaces[i] \in Iface0
  BY <1>3
<1>. QED
  BY <1>1, <1>2, <1>3, <1>4

\* A place is a bridge of the database, a port of it and an interface of that.
LEMMA PlaceFacts ==
    ASSUME db \in Databases
    PROVE  /\ \A at \in Places :
                 /\ at = <<at[1], at[2], at[3]>> /\ at[1] \in DOMAIN db
                 /\ at[2] \in DOMAIN db[at[1]].ports /\ at[3] \in DOMAIN db[at[1]].ports[at[2]].ifaces
                 /\ at[1] \in Nat /\ at[2] \in Nat /\ at[3] \in Nat
                 /\ at[1] >= 1 /\ at[2] >= 1 /\ at[3] >= 1
                 /\ Iface(at) \in Iface0
           /\ \A b \in DOMAIN db : \A p \in DOMAIN db[b].ports :
                 \A i \in DOMAIN db[b].ports[p].ifaces : <<b, p, i>> \in Places
<1>1. ASSUME NEW at \in Places
      PROVE  \E b \in DOMAIN db : \E p \in DOMAIN db[b].ports : \E i \in DOMAIN db[b].ports[p].ifaces :
                at = <<b, p, i>>
  BY DEF Places, PlacesOf
<1>2. ASSUME NEW b \in DOMAIN db, NEW p \in DOMAIN db[b].ports, NEW i \in DOMAIN db[b].ports[p].ifaces
      PROVE  <<b, p, i>> \in Places
  BY DEF Places, PlacesOf
<1>3. ASSUME NEW at \in Places
      PROVE  /\ at = <<at[1], at[2], at[3]>> /\ at[1] \in DOMAIN db
             /\ at[2] \in DOMAIN db[at[1]].ports /\ at[3] \in DOMAIN db[at[1]].ports[at[2]].ifaces
  BY <1>1
<1>4. ASSUME NEW at \in Places
      PROVE  /\ at[1] \in Nat /\ at[2] \in Nat /\ at[3] \in Nat
             /\ at[1] >= 1 /\ at[2] >= 1 /\ at[3] >= 1
             /\ Iface(at) \in Iface0
  BY <1>3, DbFacts DEF Iface, IfaceOf
<1>. QED
  BY <1>2, <1>3, <1>4

\* No two interfaces have the same name, and none has that of a port of
\* several interfaces elsewhere.
LEMMA UniqueNames ==
    ASSUME db \in Databases
    PROVE  /\ \A at, bt \in Places : Iface(at).name = Iface(bt).name => at = bt
           /\ \A at \in Places : \A b \in DOMAIN db : \A p \in DOMAIN db[b].ports :
                 db[b].ports[p].name = Iface(at).name => at[1] = b /\ at[2] = p
  BY DatabaseAssumption DEF Places, Iface

\* At most one port has the name of its bridge.
LEMMA OneSystem ==
    ASSUME db \in Databases, NEW b \in DOMAIN db
    PROVE  /\ System(b) \subseteq DOMAIN db[b].ports
           /\ \A p \in System(b) : System(b) = {p} /\ Min(System(b)) = p
<1>1. \A p, q \in DOMAIN db[b].ports : db[b].ports[p].name = db[b].ports[q].name => p = q
  BY DatabaseAssumption
<1>2. System(b) \subseteq DOMAIN db[b].ports
  BY DEF System
<1>3. ASSUME NEW p \in System(b) PROVE System(b) = {p} /\ Min(System(b)) = p
  <2>1. System(b) = {p}
    BY <1>1 DEF System
  <2>2. System(b) \subseteq Nat /\ System(b) # {}
    BY <1>2, <2>1, DbFacts
  <2>. QED
    BY <2>1, <2>2, MinIsLeast
<1>. QED
  BY <1>2, <1>3

-----------------------------------------------------------------------------
(* The entries *)

\* What no step changes of an entry
Same(x, y) ==
    /\ y.name = x.name /\ y.ns = x.ns /\ y.driver = x.driver
    /\ y.internal = x.internal /\ y.attached = x.attached

Alike(en, fn) ==
    /\ fn \in Seq(Entry) /\ Len(fn) = Len(en)
    /\ \A x \in 1..Len(en) : Same(en[x], fn[x])

Masters(en, fn) == \A x \in 1..Len(en) : fn[x].master = en[x].master
Peers(en, fn) == \A x \in 1..Len(en) : fn[x].peer = en[x].peer

Symmetric(en) ==
    \A x \in 1..Len(en) : en[x].peer # 0 => en[x].peer \in 1..Len(en) /\ en[en[x].peer].peer = x

WithMaster(en, e, m) == [en EXCEPT ![e].master = m]
WithPeer(en, e, m) == [en EXCEPT ![e].peer = m]
WithLink(en, e, m) == [en EXCEPT ![e].link = m]

\* Every entry has the fields of struct if_entry.
LEMMA EntryTypes ==
    ASSUME NEW en \in Seq(Entry)
    PROVE  /\ Len(en) \in Nat /\ DOMAIN en = 1..Len(en)
           /\ \A x \in 1..Len(en) :
                 /\ en[x] \in Entry /\ en[x].ns \in Nat /\ en[x].master \in Int /\ en[x].peer \in Nat
                 /\ en[x].internal \in BOOLEAN /\ en[x].name \in STRING
                 /\ en[x].attached \in {"slave", "vport", "foreign", "no"}
<1>1. Len(en) \in Nat /\ DOMAIN en = 1..Len(en)
  OBVIOUS
<1>2. \A x \in 1..Len(en) : en[x] \in Entry
  OBVIOUS
<1>. QED
  BY <1>1, <1>2 DEF Entry

\* The master of one entry set
LEMMA SetMaster ==
    ASSUME NEW en \in Seq(Entry), NEW e \in 1..Len(en), NEW m \in Int, NEW fn, fn = WithMaster(en, e, m)
    PROVE  /\ Alike(en, fn) /\ Peers(en, fn) /\ fn[e].master = m
           /\ \A y \in 1..Len(en) : y # e => fn[y].master = en[y].master
<1>. DEFINE x == [en[e] EXCEPT !.master = m]
<1>1. en[e] \in Entry
  BY EntryTypes
<1>2. x \in Entry
  BY <1>1 DEF Entry
<1>3. /\ x.name = en[e].name /\ x.ns = en[e].ns /\ x.driver = en[e].driver /\ x.internal = en[e].internal
      /\ x.attached = en[e].attached /\ x.peer = en[e].peer /\ x.master = m
  BY <1>1 DEF Entry
<1>4. fn = [en EXCEPT ![e] = x]
  BY DEF WithMaster
<1>. HIDE DEF x
<1>5. /\ fn \in Seq(Entry) /\ Len(fn) = Len(en)
      /\ fn[e] = x /\ \A y \in 1..Len(en) : y # e => fn[y] = en[y]
  <2>1. en \in [1..Len(en) -> Entry] /\ Len(en) \in Nat
    OBVIOUS
  <2>2. fn \in [1..Len(en) -> Entry] /\ fn[e] = x /\ \A y \in 1..Len(en) : y # e => fn[y] = en[y]
    BY <1>2, <1>4, <2>1
  <2>. QED
    BY <2>1, <2>2
<1>. QED
  BY <1>3, <1>5 DEF Alike, Same, Peers

\* The peer of one entry set
LEMMA SetPeer ==
    ASSUME NEW en \in Seq(Entry), NEW e \in 1..Len(en), NEW m \in Nat, NEW fn, fn = WithPeer(en, e, m)
    PROVE  /\ Alike(en, fn) /\ Masters(en, fn) /\ fn[e].peer = m
           /\ \A y \in 1..Len(en) : y # e => fn[y].peer = en[y].peer
<1>. DEFINE x == [en[e] EXCEPT !.peer = m]
<1>1. en[e] \in Entry
  BY EntryTypes
<1>2. x \in Entry
  BY <1>1 DEF Entry
<1>3. /\ x.name = en[e].name /\ x.ns = en[e].ns /\ x.driver = en[e].driver /\ x.internal = en[e].internal
      /\ x.attached = en[e].attached /\ x.master = en[e].master /\ x.peer = m
  BY <1>1 DEF Entry
<1>4. fn = [en EXCEPT ![e] = x]
  BY DEF WithPeer
<1>. HIDE DEF x
<1>5. /\ fn \in Seq(Entry) /\ Len(fn) = Len(en)
      /\ fn[e] = x /\ \A y \in 1..Len(en) : y # e => fn[y] = en[y]
  <2>1. en \in [1..Len(en) -> Entry] /\ Len(en) \in Nat
    OBVIOUS
  <2>2. fn \in [1..Len(en) -> Entry] /\ fn[e] = x /\ \A y \in 1..Len(en) : y # e => fn[y] = en[y]
    BY <1>2, <1>4, <2>1
  <2>. QED
    BY <2>1, <2>2
<1>. QED
  BY <1>3, <1>5 DEF Alike, Same, Masters

\* The link of one entry set
LEMMA SetLink ==
    ASSUME NEW en \in Seq(Entry), NEW e \in 1..Len(en), NEW m \in Nat, NEW fn, fn = WithLink(en, e, m)
    PROVE  Alike(en, fn) /\ Masters(en, fn) /\ Peers(en, fn)
<1>. DEFINE x == [en[e] EXCEPT !.link = m]
<1>1. en[e] \in Entry
  BY EntryTypes
<1>2. x \in Entry
  BY <1>1 DEF Entry
<1>3. /\ x.name = en[e].name /\ x.ns = en[e].ns /\ x.driver = en[e].driver /\ x.internal = en[e].internal
      /\ x.attached = en[e].attached /\ x.master = en[e].master /\ x.peer = en[e].peer
  BY <1>1 DEF Entry
<1>4. fn = [en EXCEPT ![e] = x]
  BY DEF WithLink
<1>. HIDE DEF x
<1>5. /\ fn \in Seq(Entry) /\ Len(fn) = Len(en)
      /\ fn[e] = x /\ \A y \in 1..Len(en) : y # e => fn[y] = en[y]
  <2>1. en \in [1..Len(en) -> Entry] /\ Len(en) \in Nat
    OBVIOUS
  <2>2. fn \in [1..Len(en) -> Entry] /\ fn[e] = x /\ \A y \in 1..Len(en) : y # e => fn[y] = en[y]
    BY <1>2, <1>4, <2>1
  <2>. QED
    BY <2>1, <2>2
<1>. QED
  BY <1>3, <1>5 DEF Alike, Same, Masters, Peers

\* Likeness passes on.
LEMMA AlikeTrans ==
    ASSUME NEW en, NEW fn, NEW gn, Alike(en, fn), Alike(fn, gn) PROVE Alike(en, gn)
  BY DEF Alike, Same

\* Marking candidates of a netdev bridge changes no field but sub.
LEMMA MarkedFacts ==
    ASSUME ents \in Seq(Entry), NEW b, NEW f
    PROVE  Alike(ents, Marked(b, f)) /\ Masters(ents, Marked(b, f)) /\ Peers(ents, Marked(b, f))
<1>1. Len(ents) \in Nat /\ DOMAIN ents = 1..Len(ents)
  BY EntryTypes
<1>2. ASSUME NEW e \in 1..Len(ents)
      PROVE  /\ Marked(b, f)[e] \in Entry /\ Same(ents[e], Marked(b, f)[e])
             /\ Marked(b, f)[e].master = ents[e].master /\ Marked(b, f)[e].peer = ents[e].peer
  <2>. DEFINE x == [ents[e] EXCEPT !.sub = TRUE]
  <2>1. ents[e] \in Entry
    BY EntryTypes
  <2>2. x \in Entry
    BY <2>1 DEF Entry
  <2>3. Same(ents[e], x) /\ x.master = ents[e].master /\ x.peer = ents[e].peer
    BY <2>1 DEF Entry, Same
  <2>4. Same(ents[e], ents[e])
    BY DEF Same
  <2>5. Marked(b, f)[e] = x \/ Marked(b, f)[e] = ents[e]
    BY <1>1 DEF Marked
  <2>. HIDE DEF x
  <2>. QED
    BY <2>1, <2>2, <2>3, <2>4, <2>5
<1>3. DOMAIN Marked(b, f) = 1..Len(ents) /\ Marked(b, f) = [e \in 1..Len(ents) |-> Marked(b, f)[e]]
  BY <1>1 DEF Marked
<1>4. Marked(b, f) \in [1..Len(ents) -> Entry]
  BY <1>2, <1>3
<1>5. Marked(b, f) \in Seq(Entry) /\ Len(Marked(b, f)) = Len(ents)
  BY <1>1, <1>4
<1>. QED
  BY <1>2, <1>5 DEF Alike, Masters, Peers

\* Nothing changes by itself.
LEMMA AlikeSelf ==
    ASSUME NEW en \in Seq(Entry) PROVE Alike(en, en) /\ Masters(en, en) /\ Peers(en, en)
  BY DEF Alike, Same, Masters, Peers

\* The old peer of an entry loses it.
LEMMA UnpairedFacts ==
    ASSUME NEW en \in Seq(Entry), NEW e \in 1..Len(en), en[e].peer # 0 => en[e].peer \in 1..Len(en),
           NEW fn, fn = Unpaired(en, e)
    PROVE  /\ Alike(en, fn) /\ Masters(en, fn)
           /\ \A y \in 1..Len(en) : fn[y].peer = IF y = en[e].peer THEN 0 ELSE en[y].peer
<1>0. Len(en) \in Nat
  OBVIOUS
<1>1. CASE en[e].peer = 0
  <2>1. fn = en
    BY <1>1 DEF Unpaired
  <2>2. \A y \in 1..Len(en) : y # en[e].peer
    BY <1>0, <1>1
  <2>. QED
    BY <2>1, <2>2, AlikeSelf
<1>2. CASE en[e].peer # 0
  <2>. DEFINE q == en[e].peer
  <2>1. fn = WithPeer(en, q, 0)
    BY <1>2 DEF Unpaired, WithPeer
  <2>2. q \in 1..Len(en) /\ 0 \in Nat
    BY <1>2
  <2>3. /\ Alike(en, fn) /\ Masters(en, fn) /\ fn[q].peer = 0
        /\ \A y \in 1..Len(en) : y # q => fn[y].peer = en[y].peer
    <3>. HIDE DEF q
    <3>. QED
      BY <2>1, <2>2, SetPeer
  <2>. QED
    BY <2>3
<1>. QED
  BY <1>1, <1>2

\* peer_set leaves a symmetric relation with the two as peers, and touches
\* only them and their old peers.
LEMMA PeerSet ==
    ASSUME NEW en \in Seq(Entry), Symmetric(en), NEW e \in 1..Len(en), NEW f \in 1..Len(en),
           NEW fn, fn = peer_set(en, e, f)
    PROVE  /\ Alike(en, fn) /\ Masters(en, fn) /\ Symmetric(fn)
           /\ fn[e].peer = f /\ fn[f].peer = e
           /\ \A g \in 1..Len(en) : g \notin {e, f} /\ en[g].peer \notin {e, f} => fn[g].peer = en[g].peer
<1>. DEFINE u == Unpaired(en, e)
            h == [u EXCEPT ![e].peer = f]
            v == Unpaired(h, f)
<1>0. /\ Len(en) \in Nat /\ e \in Nat /\ f \in Nat /\ e # 0 /\ f # 0
      /\ \A y \in 1..Len(en) : en[y].peer # 0 => en[y].peer \in 1..Len(en) /\ en[en[y].peer].peer = y
  BY DEF Symmetric
<1>1. fn = WithPeer(v, f, e)
  BY DEF peer_set, WithPeer
<1>. HIDE DEF v
<1>2. /\ Alike(en, u) /\ Masters(en, u)
      /\ \A y \in 1..Len(en) : u[y].peer = IF y = en[e].peer THEN 0 ELSE en[y].peer
  <2>1. en[e].peer # 0 => en[e].peer \in 1..Len(en)
    BY <1>0
  <2>. HIDE DEF h
  <2>. QED
    BY <2>1, UnpairedFacts
<1>. HIDE DEF u
<1>3. u \in Seq(Entry) /\ Len(u) = Len(en)
  BY <1>2 DEF Alike
<1>4. /\ Alike(u, h) /\ Masters(u, h) /\ h[e].peer = f
      /\ \A y \in 1..Len(en) : y # e => h[y].peer = u[y].peer
  <2>1. h = WithPeer(u, e, f)
    BY DEF WithPeer
  <2>2. e \in 1..Len(u)
    BY <1>3
  <2>. HIDE DEF h
  <2>. QED
    BY <1>0, <1>3, <2>1, <2>2, SetPeer
<1>. HIDE DEF h
<1>5. h \in Seq(Entry) /\ Len(h) = Len(en)
  BY <1>3, <1>4 DEF Alike
<1>6. \A y \in 1..Len(en) : h[y].peer = IF y = e THEN f ELSE IF y = en[e].peer THEN 0 ELSE en[y].peer
  BY <1>2, <1>4
<1>7. /\ Alike(h, v) /\ Masters(h, v)
      /\ \A y \in 1..Len(en) : v[y].peer = IF y = h[f].peer THEN 0 ELSE h[y].peer
  <2>1. h[f].peer # 0 => h[f].peer \in 1..Len(h)
    BY <1>0, <1>5, <1>6
  <2>2. f \in 1..Len(h) /\ v = Unpaired(h, f)
    BY <1>5 DEF v
  <2>. QED
    BY <1>5, <2>1, <2>2, UnpairedFacts
<1>8. v \in Seq(Entry) /\ Len(v) = Len(en)
  BY <1>5, <1>7 DEF Alike
<1>9. /\ Alike(v, fn) /\ Masters(v, fn) /\ fn[f].peer = e
      /\ \A y \in 1..Len(en) : y # f => fn[y].peer = v[y].peer
  BY <1>0, <1>1, <1>8, SetPeer
<1>10. \A y \in 1..Len(en) :
          fn[y].peer = IF y = f THEN e ELSE IF y = h[f].peer THEN 0 ELSE h[y].peer
  BY <1>7, <1>9
<1>11. Alike(en, fn)
  BY <1>2, <1>4, <1>7, <1>9, AlikeTrans
<1>12. Masters(en, fn)
  BY <1>2, <1>3, <1>4, <1>5, <1>7, <1>8, <1>9 DEF Masters
<1>13. e # f => h[f].peer # e
  <2>. SUFFICES ASSUME e # f, h[f].peer = e PROVE FALSE
    OBVIOUS
  <2>1. f # en[e].peer /\ en[f].peer = e
    BY <1>0, <1>6
  <2>. QED
    BY <1>0, <2>1
<1>14. fn[e].peer = f
  BY <1>6, <1>10, <1>13
<1>15. \A g \in 1..Len(en) : g \notin {e, f} /\ en[g].peer \notin {e, f} => fn[g].peer = en[g].peer
  <2>. SUFFICES ASSUME NEW g \in 1..Len(en), g \notin {e, f}, en[g].peer \notin {e, f}
                PROVE  fn[g].peer = en[g].peer
    OBVIOUS
  <2>1. g # en[e].peer /\ g # en[f].peer
    BY <1>0
  <2>2. h[g].peer = en[g].peer
    BY <1>6, <2>1
  <2>3. g # h[f].peer
    BY <1>0, <1>6, <2>1
  <2>. QED
    BY <1>10, <2>2, <2>3
<1>16. ASSUME NEW y \in 1..Len(en), fn[y].peer # 0
       PROVE  fn[y].peer \in 1..Len(en) /\ fn[fn[y].peer].peer = y
  <2>1. CASE y \in {e, f}
    BY <1>9, <1>14, <2>1
  <2>2. CASE y \notin {e, f}
    <3>1. y # h[f].peer /\ fn[y].peer = h[y].peer /\ y # en[e].peer /\ h[y].peer = en[y].peer
      BY <1>6, <1>10, <1>16, <2>2
    <3>2. en[y].peer \in 1..Len(en) /\ en[en[y].peer].peer = y
      BY <1>0, <1>16, <3>1
    <3>3. en[y].peer # e
      BY <1>0, <3>1, <3>2
    <3>4. en[y].peer # f
      BY <1>0, <1>6, <2>2, <3>1, <3>2
    <3>5. fn[en[y].peer].peer = en[en[y].peer].peer
      <4>1. en[en[y].peer].peer \notin {e, f}
        BY <2>2, <3>2
      <4>. QED
        BY <1>15, <3>2, <3>3, <3>4, <4>1
    <3>. QED
      BY <3>1, <3>2, <3>5
  <2>. QED
    BY <2>1, <2>2
<1>17. Symmetric(fn)
  BY <1>11, <1>16 DEF Symmetric, Alike
<1>. QED
  BY <1>9, <1>11, <1>12, <1>14, <1>15, <1>17

\* What link_patch does, the search giving one interface or not
LEMMA LinkPatchFacts ==
    ASSUME NEW en \in Seq(Entry), Symmetric(en), NEW e \in 1..Len(en), NEW f,
           NEW S, S = link_patch_search(en, f), NEW fn, fn = link_patch(en, e, f)
    PROVE  /\ Alike(en, fn) /\ Masters(en, fn) /\ Symmetric(fn)
           /\ ~(Cardinality(S) > 1) => \A x \in S : fn[e].peer = x /\ fn[x].peer = e
           /\ \A g \in 1..Len(en) : g \notin {e} \union S /\ en[g].peer \notin {e} \union S => fn[g].peer = en[g].peer
<1>1. Len(en) \in Nat /\ DOMAIN en = 1..Len(en)
  BY EntryTypes
<1>2. S \subseteq 1..Len(en)
  BY <1>1 DEF link_patch_search
<1>3. Cardinality(S) \in Nat /\ (Cardinality(S) = 0 => S = {})
  BY <1>1, <1>2, SmallSet
<1>4. CASE Cardinality(S) = 1
  <2>1. S = {Min(S)} /\ Min(S) \in 1..Len(en)
    BY <1>1, <1>2, <1>4, SmallSet
  <2>2. fn = peer_set(en, e, Min(S))
    BY <1>4 DEF link_patch
  <2>3. /\ Alike(en, fn) /\ Masters(en, fn) /\ Symmetric(fn)
        /\ fn[e].peer = Min(S) /\ fn[Min(S)].peer = e
        /\ \A g \in 1..Len(en) : g \notin {e, Min(S)} /\ en[g].peer \notin {e, Min(S)} => fn[g].peer = en[g].peer
    BY <2>1, <2>2, PeerSet
  <2>. QED
    BY <2>1, <2>3
<1>5. CASE Cardinality(S) # 1
  <2>1. fn = en
    BY <1>5 DEF link_patch
  <2>. QED
    BY <1>3, <1>5, <2>1, AlikeSelf
<1>. QED
  BY <1>4, <1>5
-----------------------------------------------------------------------------
(* Places and their order *)

\* The places whose interfaces were linked, or left out, before ps: the main
\* interface of a bridge comes before its other ports
PassedAt(ps, at) ==
    \/ at[1] < ps[1]
    \/ /\ at[1] = ps[1]
       /\ IF at[2] \in System(at[1])
          THEN ps[2] # 0
          ELSE at[2] < ps[2] \/ (at[2] = ps[2] /\ at[3] < ps[3])

Passed(at) == PassedAt(pos, at)

Before == {"connect", "read", "parse"}
Done == {"output", "cleanup", "exit"}

-----------------------------------------------------------------------------
(* The inductive invariant, in parts *)

\* What is true of the entries whatever the order of the steps
EntriesOK ==
    /\ ents \in Seq(Entry)
    /\ \A e \in DOMAIN ents :
          /\ Attached(ents[e]) => <<Root, ents[e].name>> \in vports
          /\ ents[e].internal => ents[e].attached = "no" /\ ents[e].driver = ""
    /\ \A e, f \in DOMAIN ents :
          (/\ ~ ents[e].internal /\ ~ ents[f].internal /\ ents[e].name = ents[f].name
           /\ ents[e].ns = ents[f].ns \/ (Attached(ents[e]) /\ Attached(ents[f]))) => e = f
    /\ \A at \in Places : \A e \in DOMAIN ents :
          (/\ Iface(at).type = "internal" /\ db[at[1]].dp = "system"
           /\ Attached(ents[e]) /\ ents[e].name = Iface(at).name) => ents[e].driver = "openvswitch"

\* A created entry has the name of a port or of an interface in one, and only
\* an entry that was found for such an interface was joined.
OwnersOK ==
    \A e \in DOMAIN ents :
        /\ ents[e].internal =>
              /\ ents[e].master > 0
              /\ \/ \E at \in Places : at[2] \notin System(at[1]) /\ ents[e].name = Iface(at).name
                 \/ \E b \in DOMAIN db : \E p \in DOMAIN db[b].ports \ System(b) :
                       ents[e].name = db[b].ports[p].name
        /\ (ents[e].master > 0 /\ ~ ents[e].internal) =>
              \E at \in Places : Passed(at) /\ at[2] \notin System(at[1]) /\ ents[e].name = Iface(at).name
        /\ ents[e].master <= 0 =>
              /\ ents[e].master = OvsSystem <=> ents[e].attached \in {"slave", "foreign"}
              /\ ents[e].attached = "vport" => ents[e].master = 0

FoundOK ==
    /\ found \in [Places -> Nat]
    /\ \A at \in Places : found[at] # 0 =>
          /\ found[at] \in DOMAIN ents
          /\ ents[found[at]].name = Iface(at).name
          /\ at[2] \in System(at[1]) => ~ ents[found[at]].internal
          /\ Passed(at) \/ (at = pos /\ phase \notin Before \union {"link"})

\* The entry below which the interfaces of the port at pos come
MasterOK(b) ==
    /\ master \in DOMAIN ents
    /\ LET sys == found[SystemIface(b)]
       IN  master = sys \/ (ents[master].internal /\ ents[master].master = sys)

Inside(b) ==
    System(b) # {} /\ Placed(b) /\ found[SystemIface(b)] # 0

PosOK ==
    /\ pos \in Nat \X Nat \X Nat
    /\ pos[1] >= 1
    /\ phase \in Before => pos = <<1, 0, 0>>
    /\ pos[2] = 0 => pos[3] = 0
    /\ pos[2] # 0 =>
          /\ pos[1] \in DOMAIN db /\ pos[2] \in DOMAIN db[pos[1]].ports \ System(pos[1])
          /\ Inside(pos[1])
          /\ pos[3] # 0 => pos \in Places /\ MasterOK(pos[1])

\* All bridges were parsed before the first is linked.
PhaseOK ==
    /\ phase \in Before \union Done \union {"link", "failed", "crashed"}
    /\ br_list \in Seq(Nat)
    /\ phase = "link" => \A b \in DOMAIN db : db[b].broken = 0
    /\ phase \in Before =>
          /\ \A b \in DOMAIN db : b <= Len(br_list) => db[b].broken = 0
          /\ Len(br_list) < Len(db) \/ Len(db) = 0
    /\ (phase \in Done /\ asked /\ ~ warned) => pos[1] > Len(db)

\* NothingDropped, of what was passed
Below(at) ==
    LET e == found[at]
        sys == found[SystemIface(at[1])]
    IN  \/ ents[e].master = sys
        \/ ents[e].master \in DOMAIN ents /\ ents[ents[e].master].internal /\ ents[ents[e].master].master = sys

NotDropped(at) == found[at] # 0 /\ (at[2] \notin System(at[1]) => Inside(at[1]) /\ Below(at))

DroppedOK == ~ warned => \A at \in Places : Passed(at) => NotDropped(at)

\* NoFalsePort, at any time
NotFalse(at) ==
    LET e == found[at]
    IN  (AtHome(at) /\ e # 0 /\ Joined(e) /\ ~ Mistakable(at, e) /\ ~ QueryFailed(at)) =>
           ents[e].internal \/ IsPort(e)

FalsePortOK == \A at \in Places : NotFalse(at)

\* PortFound, of what was passed; and in the end all was.
Recognised(at) ==
    \A e \in TruePorts(at) : (ents[e].attached = "slave" \/ e \in answered) => found[at] = e /\ Joined(e)

CutOff(at) == CutShort /\ warned /\ (at = pos \/ found[at] = 0)

PortsOK ==
    PortsAtHome => \A at \in Places : AtHome(at) =>
        (Passed(at) => Recognised(at)) /\ (phase \in Done => Passed(at) \/ CutOff(at))

\* PatchPeers, of what was passed
Pair(at, bt) ==
    /\ Names(at, bt) /\ Names(bt, at)
    /\ \A ct \in Places \ {at, bt} : ~ Names(ct, at) /\ ~ Names(ct, bt)

Created(name) == \A e \in DOMAIN ents : ents[e].name = name => ents[e].internal

PeersOK ==
    /\ Symmetric(ents)
    /\ ~ warned => \A at, bt \in Places :
          (/\ Pair(at, bt) /\ Passed(at) /\ Passed(bt)
           /\ Created(Iface(at).name) /\ Created(Iface(bt).name)) =>
              ents[found[at]].peer = found[bt] /\ ents[found[bt]].peer = found[at]

IInv ==
    /\ db \in Databases
    /\ warned \in BOOLEAN /\ asked \in BOOLEAN
    /\ EntriesOK /\ OwnersOK /\ FoundOK /\ PosOK /\ PhaseOK
    /\ DroppedOK /\ FalsePortOK /\ PortsOK /\ PeersOK

-----------------------------------------------------------------------------
(* The order of the places *)

\* NextPort is the next port of the bridge that is not the main one, or the
\* next bridge.
LEMMA NextPortFacts ==
    ASSUME db \in Databases, NEW b \in DOMAIN db, NEW p \in Nat
    PROVE  \/ /\ NextPort(b, p) = <<b + 1, 0, 0>>
              /\ \A q \in DOMAIN db[b].ports : q <= p \/ q \in System(b)
           \/ \E r \in DOMAIN db[b].ports \ System(b) :
                 /\ NextPort(b, p) = <<b, r, 0>> /\ r > p
                 /\ \A q \in DOMAIN db[b].ports : q <= p \/ q \in System(b) \/ r <= q
<1>. DEFINE rest == {q \in DOMAIN db[b].ports : q > p /\ q \notin System(b)}
<1>1. DOMAIN db[b].ports \subseteq Nat
  BY DbFacts
<1>2. CASE rest = {}
  <2>1. NextPort(b, p) = <<b + 1, 0, 0>>
    BY <1>2 DEF NextPort
  <2>2. \A q \in DOMAIN db[b].ports : q <= p \/ q \in System(b)
    BY <1>1, <1>2
  <2>. QED
    BY <2>1, <2>2
<1>3. CASE rest # {}
  <2>1. NextPort(b, p) = <<b, Min(rest), 0>>
    BY <1>3 DEF NextPort
  <2>2. rest \subseteq Nat
    BY <1>1
  <2>3. Min(rest) \in rest /\ \A q \in rest : Min(rest) <= q
    <3>. HIDE DEF rest
    <3>. QED
      BY <1>3, <2>2, MinIsLeast
  <2>4. PICK r : r = Min(rest)
    OBVIOUS
  <2>5. r \in rest /\ \A q \in rest : r <= q
    BY <2>3, <2>4
  <2>6. \A q \in DOMAIN db[b].ports : q <= p \/ q \in System(b) \/ r <= q
    BY <1>1, <2>5
  <2>. QED
    BY <2>1, <2>4, <2>5, <2>6
<1>. QED
  BY <1>2, <1>3

\* What is passed when the linking comes to the next port: the bridges before,
\* the main interface and the ports up to this one.
LEMMA PassedNext ==
    ASSUME db \in Databases, NEW b \in DOMAIN db, NEW p \in Nat
    PROVE  \A at \in Places :
              PassedAt(NextPort(b, p), at) <=>
                  at[1] < b \/ (at[1] = b /\ (at[2] \in System(b) \/ at[2] <= p))
<1>. SUFFICES ASSUME NEW at \in Places
              PROVE  PassedAt(NextPort(b, p), at) <=>
                        at[1] < b \/ (at[1] = b /\ (at[2] \in System(b) \/ at[2] <= p))
  OBVIOUS
<1>1. at[1] \in Nat /\ at[2] \in Nat /\ at[3] \in Nat /\ at[2] >= 1 /\ at[2] \in DOMAIN db[at[1]].ports
  BY PlaceFacts
<1>2. b \in Nat /\ DOMAIN db[b].ports \subseteq Nat
  BY DbFacts
<1>3. ASSUME NextPort(b, p) = <<b + 1, 0, 0>>, \A q \in DOMAIN db[b].ports : q <= p \/ q \in System(b)
      PROVE  PassedAt(NextPort(b, p), at) <=>
                at[1] < b \/ (at[1] = b /\ (at[2] \in System(b) \/ at[2] <= p))
  <2>1. PassedAt(NextPort(b, p), at) <=> at[1] <= b
    BY <1>1, <1>2, <1>3 DEF PassedAt
  <2>. QED
    BY <1>1, <1>2, <1>3, <2>1
<1>4. ASSUME NEW r \in DOMAIN db[b].ports \ System(b), NextPort(b, p) = <<b, r, 0>>, r > p,
             \A q \in DOMAIN db[b].ports : q <= p \/ q \in System(b) \/ r <= q
      PROVE  PassedAt(NextPort(b, p), at) <=>
                at[1] < b \/ (at[1] = b /\ (at[2] \in System(b) \/ at[2] <= p))
  <2>1. r \in Nat /\ r # 0
    BY <1>2, <1>4
  <2>2. PassedAt(NextPort(b, p), at) <=>
           at[1] < b \/ (at[1] = b /\ (at[2] \in System(b) \/ at[2] < r))
    BY <1>1, <1>2, <1>4, <2>1 DEF PassedAt
  <2>. QED
    BY <1>1, <1>2, <1>4, <2>1, <2>2
<1>. QED
  BY <1>3, <1>4, NextPortFacts

\* The step behind an interface passes that one.
LEMMA PassedAfter ==
    ASSUME db \in Databases, NEW b \in DOMAIN db, NEW p \in DOMAIN db[b].ports \ System(b), NEW i \in Nat
    PROVE  \A at \in Places :
              PassedAt(After(b, p, i), at) <=> PassedAt(<<b, p, i>>, at) \/ (at[1] = b /\ at[2] = p /\ at[3] <= i)
                 \/ (at[1] = b /\ at[2] \in System(b))
<1>. SUFFICES ASSUME NEW at \in Places
              PROVE  PassedAt(After(b, p, i), at) <=> PassedAt(<<b, p, i>>, at)
                        \/ (at[1] = b /\ at[2] = p /\ at[3] <= i) \/ (at[1] = b /\ at[2] \in System(b))
  OBVIOUS
<1>1. /\ at[1] \in Nat /\ at[2] \in Nat /\ at[3] \in Nat /\ at[2] >= 1 /\ at[2] \in DOMAIN db[at[1]].ports
      /\ at[1] \in DOMAIN db /\ at[3] \in DOMAIN db[at[1]].ports[at[2]].ifaces
  BY PlaceFacts
<1>2. b \in Nat /\ p \in Nat /\ p # 0
  BY DbFacts
<1>3. Len(db[b].ports[p].ifaces) \in Nat /\ DOMAIN db[b].ports[p].ifaces = 1..Len(db[b].ports[p].ifaces)
  BY DbFacts
<1>4. PassedAt(<<b, p, i>>, at) <=>
         at[1] < b \/ (at[1] = b /\ (at[2] \in System(b) \/ at[2] < p \/ (at[2] = p /\ at[3] < i)))
  BY <1>1, <1>2 DEF PassedAt
<1>5. CASE i < Len(db[b].ports[p].ifaces)
  <2>1. After(b, p, i) = <<b, p, i + 1>>
    BY <1>5 DEF After
  <2>2. PassedAt(<<b, p, i + 1>>, at) <=>
           at[1] < b \/ (at[1] = b /\ (at[2] \in System(b) \/ at[2] < p \/ (at[2] = p /\ at[3] < i + 1)))
    BY <1>1, <1>2 DEF PassedAt
  <2>. QED
    BY <1>1, <1>2, <1>4, <2>1, <2>2
<1>6. CASE ~(i < Len(db[b].ports[p].ifaces))
  <2>1. After(b, p, i) = NextPort(b, p)
    BY <1>6 DEF After
  <2>2. PassedAt(NextPort(b, p), at) <=> at[1] < b \/ (at[1] = b /\ (at[2] \in System(b) \/ at[2] <= p))
    BY <1>2, PassedNext
  <2>3. at[1] = b /\ at[2] = p => at[3] <= i
    BY <1>1, <1>3, <1>6
  <2>. QED
    BY <1>1, <1>2, <1>4, <2>1, <2>2, <2>3
<1>. QED
  BY <1>5, <1>6

-----------------------------------------------------------------------------
(* What all steps of the linking have in common *)

\* Entries are added at the end, by the handler, and the old ones stay alike.
Grown(en, fn) ==
    /\ fn \in Seq(Entry) /\ Len(en) <= Len(fn)
    /\ \A x \in 1..Len(en) : Same(en[x], fn[x])
    /\ \A x \in 1..Len(fn) : x > Len(en) => fn[x].internal /\ fn[x].attached = "no" /\ fn[x].driver = ""

\* The name is that of an interface of a port, not of a main interface, that
\* the step passes
JoinedNow(name) ==
    \E at \in Places : ~ Passed(at) /\ Passed(at)' /\ at[2] \notin System(at[1]) /\ name = Iface(at).name

OwnName(name) ==
    \/ \E at \in Places : at[2] \notin System(at[1]) /\ name = Iface(at).name
    \/ \E b \in DOMAIN db : \E p \in DOMAIN db[b].ports \ System(b) : name = db[b].ports[p].name

LinkStep ==
    /\ UNCHANGED <<db, vports, answered, asked>>
    /\ Grown(ents, ents')
    /\ \A x \in 1..Len(ents) :
          \/ ents'[x].master = ents[x].master
          \/ /\ ~ ents[x].internal /\ ents[x].master <= 0 /\ ents'[x].master > 0
             /\ JoinedNow(ents[x].name)
    /\ \A x \in 1..Len(ents') : x > Len(ents) => ents'[x].master > 0 /\ OwnName(ents'[x].name)
    /\ \A at \in Places : Passed(at) => Passed(at)' /\ found'[at] = found[at]
    /\ warned => warned'

\* The database's part of the model does not change.
LEMMA SameDb ==
    ASSUME db' = db
    PROVE  /\ Places' = Places
           /\ \A b : System(b)' = System(b) /\ SystemIface(b)' = SystemIface(b)
           /\ \A at : Iface(at)' = Iface(at)
           /\ \A at, bt : Names(at, bt)' = Names(at, bt)
           /\ \A at : Passed(at)' = PassedAt(pos', at)
<1>1. Places' = Places
  BY DEF Places
<1>2. \A b : System(b)' = System(b)
  BY DEF System
<1>3. \A at : Iface(at)' = Iface(at)
  BY DEF Iface
<1>4. \A b : SystemIface(b)' = SystemIface(b)
  BY <1>2 DEF SystemIface
<1>5. \A at, bt : Names(at, bt)' = Names(at, bt)
  BY <1>3 DEF Names
<1>6. \A at : Passed(at)' = PassedAt(pos', at)
  BY <1>2 DEF Passed, PassedAt
<1>. QED
  BY <1>1, <1>2, <1>3, <1>4, <1>5, <1>6

\* An entry that a step leaves alike
LEMMA GrownFacts ==
    ASSUME ents \in Seq(Entry), Grown(ents, ents')
    PROVE  /\ Len(ents) \in Nat /\ Len(ents') \in Nat /\ Len(ents) <= Len(ents')
           /\ DOMAIN ents = 1..Len(ents) /\ DOMAIN ents' = 1..Len(ents') /\ DOMAIN ents \subseteq DOMAIN ents'
           /\ \A e \in DOMAIN ents :
                 /\ ents'[e].name = ents[e].name /\ ents'[e].ns = ents[e].ns /\ ents'[e].driver = ents[e].driver
                 /\ ents'[e].internal = ents[e].internal /\ ents'[e].attached = ents[e].attached
                 /\ Attached(ents'[e]) = Attached(ents[e])
           /\ \A e \in DOMAIN ents' : e \notin DOMAIN ents =>
                 ents'[e].internal /\ ents'[e].attached = "no" /\ ents'[e].driver = "" /\ ~ Attached(ents'[e])
<1>1. /\ Len(ents) \in Nat /\ Len(ents') \in Nat /\ Len(ents) <= Len(ents')
      /\ DOMAIN ents = 1..Len(ents) /\ DOMAIN ents' = 1..Len(ents')
  BY EntryTypes DEF Grown
<1>2. DOMAIN ents \subseteq DOMAIN ents' /\ \A e \in DOMAIN ents' : e \notin DOMAIN ents => e > Len(ents)
  BY <1>1
<1>. QED
  BY <1>1, <1>2 DEF Grown, Same, Attached

\* The entries stay in order.
LEMMA EntriesKept ==
    ASSUME EntriesOK, LinkStep PROVE EntriesOK'
<1>1. ents \in Seq(Entry) /\ Grown(ents, ents') /\ ents' \in Seq(Entry)
  BY DEF EntriesOK, LinkStep, Grown
<1>2. db' = db /\ vports' = vports /\ Places' = Places /\ \A at : Iface(at)' = Iface(at)
  BY SameDb DEF LinkStep
<1>. DEFINE G == /\ DOMAIN ents \subseteq DOMAIN ents'
                 /\ \A e \in DOMAIN ents :
                       /\ ents'[e].name = ents[e].name /\ ents'[e].ns = ents[e].ns /\ ents'[e].driver = ents[e].driver
                       /\ ents'[e].internal = ents[e].internal /\ ents'[e].attached = ents[e].attached
                       /\ Attached(ents'[e]) = Attached(ents[e])
                 /\ \A e \in DOMAIN ents' : e \notin DOMAIN ents =>
                       ents'[e].internal /\ ents'[e].attached = "no" /\ ents'[e].driver = "" /\ ~ Attached(ents'[e])
<1>3. G
  BY <1>1, GrownFacts
<1>4. \A e \in DOMAIN ents' :
         /\ Attached(ents'[e]) => <<Root, ents'[e].name>> \in vports
         /\ ents'[e].internal => ents'[e].attached = "no" /\ ents'[e].driver = ""
  <2>. SUFFICES ASSUME NEW e \in DOMAIN ents'
                PROVE  /\ Attached(ents'[e]) => <<Root, ents'[e].name>> \in vports
                       /\ ents'[e].internal => ents'[e].attached = "no" /\ ents'[e].driver = ""
    OBVIOUS
  <2>1. CASE e \in DOMAIN ents
    BY <1>3, <2>1 DEF EntriesOK
  <2>2. CASE e \notin DOMAIN ents
    BY <1>3, <2>2
  <2>. QED
    BY <2>1, <2>2
<1>5. \A e, f \in DOMAIN ents' :
         (/\ ~ ents'[e].internal /\ ~ ents'[f].internal /\ ents'[e].name = ents'[f].name
          /\ ents'[e].ns = ents'[f].ns \/ (Attached(ents'[e]) /\ Attached(ents'[f]))) => e = f
  <2>. SUFFICES ASSUME NEW e \in DOMAIN ents', NEW f \in DOMAIN ents',
                       ~ ents'[e].internal, ~ ents'[f].internal, ents'[e].name = ents'[f].name,
                       ents'[e].ns = ents'[f].ns \/ (Attached(ents'[e]) /\ Attached(ents'[f]))
                PROVE  e = f
    OBVIOUS
  <2>1. e \in DOMAIN ents /\ f \in DOMAIN ents
    BY <1>3
  <2>2. /\ ~ ents[e].internal /\ ~ ents[f].internal /\ ents[e].name = ents[f].name
        /\ ents[e].ns = ents[f].ns \/ (Attached(ents[e]) /\ Attached(ents[f]))
    BY <1>3, <2>1
  <2>. QED
    BY <2>1, <2>2 DEF EntriesOK
<1>6. \A at \in Places : \A e \in DOMAIN ents' :
         (/\ Iface(at).type = "internal" /\ db[at[1]].dp = "system"
          /\ Attached(ents'[e]) /\ ents'[e].name = Iface(at).name) => ents'[e].driver = "openvswitch"
  <2>. SUFFICES ASSUME NEW at \in Places, NEW e \in DOMAIN ents',
                       Iface(at).type = "internal", db[at[1]].dp = "system",
                       Attached(ents'[e]), ents'[e].name = Iface(at).name
                PROVE  ents'[e].driver = "openvswitch"
    OBVIOUS
  <2>1. e \in DOMAIN ents /\ Attached(ents[e]) /\ ents[e].name = Iface(at).name
    BY <1>3
  <2>2. ents[e].driver = "openvswitch"
    BY <2>1, Zenon DEF EntriesOK
  <2>. QED
    BY <1>3, <2>1, <2>2
<1>. HIDE DEF G
<1>7. \A e : Attached(ents[e])' = Attached(ents'[e])
  BY DEF Attached
<1>. QED
  BY <1>1, <1>2, <1>4, <1>5, <1>6, <1>7 DEF EntriesOK

\* Created entries have an owner's name, and so have the ones that were joined.
LEMMA OwnersKept ==
    ASSUME EntriesOK, OwnersOK, LinkStep PROVE OwnersOK'
<1>1. ents \in Seq(Entry) /\ Grown(ents, ents')
  BY DEF EntriesOK, LinkStep
<1>2. /\ db' = db /\ Places' = Places /\ \A b : System(b)' = System(b)
      /\ \A at : Iface(at)' = Iface(at)
  BY SameDb DEF LinkStep
<1>3. \A at \in Places : Passed(at) => Passed(at)'
  BY DEF LinkStep
<1>. SUFFICES ASSUME NEW e \in DOMAIN ents'
     PROVE  /\ ents'[e].internal => ents'[e].master > 0 /\ OwnName(ents'[e].name)
            /\ (ents'[e].master > 0 /\ ~ ents'[e].internal) =>
                  \E at \in Places : Passed(at)' /\ at[2] \notin System(at[1]) /\ ents'[e].name = Iface(at).name
            /\ ents'[e].master <= 0 =>
                  /\ ents'[e].master = OvsSystem <=> ents'[e].attached \in {"slave", "foreign"}
                  /\ ents'[e].attached = "vport" => ents'[e].master = 0
  BY <1>2 DEF OwnersOK, OwnName
<1>4. CASE e \in DOMAIN ents
  <2>1. /\ ents'[e].name = ents[e].name /\ ents'[e].internal = ents[e].internal
        /\ ents'[e].attached = ents[e].attached
    BY <1>1, <1>4, GrownFacts
  <2>2. /\ ents[e].internal => ents[e].master > 0 /\ OwnName(ents[e].name)
        /\ (ents[e].master > 0 /\ ~ ents[e].internal) =>
              \E at \in Places : Passed(at) /\ at[2] \notin System(at[1]) /\ ents[e].name = Iface(at).name
        /\ ents[e].master <= 0 =>
              /\ ents[e].master = OvsSystem <=> ents[e].attached \in {"slave", "foreign"}
              /\ ents[e].attached = "vport" => ents[e].master = 0
    BY <1>4 DEF OwnersOK, OwnName
  <2>3. CASE ents'[e].master = ents[e].master
    BY <1>3, <2>1, <2>2, <2>3
  <2>4. CASE ~ ents[e].internal /\ ents[e].master <= 0 /\ ents'[e].master > 0 /\ JoinedNow(ents[e].name)
    <3>1. ~(ents'[e].master <= 0)
      <4>1. ents'[e].master \in Int
        BY <1>1, EntryTypes DEF Grown
      <4>. QED
        BY <2>4, <4>1
    <3>. QED
      BY <2>1, <2>4, <3>1 DEF JoinedNow
  <2>5. \/ ents'[e].master = ents[e].master
        \/ ~ ents[e].internal /\ ents[e].master <= 0 /\ ents'[e].master > 0 /\ JoinedNow(ents[e].name)
    <3>1. e \in 1..Len(ents)
      BY <1>1, <1>4, EntryTypes
    <3>2. \A x \in 1..Len(ents) :
             \/ ents'[x].master = ents[x].master
             \/ ~ ents[x].internal /\ ents[x].master <= 0 /\ ents'[x].master > 0 /\ JoinedNow(ents[x].name)
      BY DEF LinkStep
    <3>. QED
      BY <3>1, <3>2
  <2>. QED
    BY <2>3, <2>4, <2>5
<1>5. CASE e \notin DOMAIN ents
  <2>0. ents'[e].internal /\ Len(ents) \in Nat /\ DOMAIN ents = 1..Len(ents) /\ DOMAIN ents' = 1..Len(ents')
    BY <1>1, <1>5, GrownFacts
  <2>1. e \in 1..Len(ents') /\ e > Len(ents) /\ ents'[e].internal
    BY <1>5, <2>0
  <2>2. ents'[e].master > 0 /\ OwnName(ents'[e].name)
    BY <2>1 DEF LinkStep
  <2>3. ~(ents'[e].master <= 0)
    <3>1. ents'[e].master \in Int
      BY <1>1, EntryTypes DEF Grown
    <3>. QED
      BY <2>2, <3>1
  <2>. QED
    BY <2>1, <2>2, <2>3
<1>. QED
  BY <1>4, <1>5

\* The main interface of a bridge with one is a place.
LEMMA SystemPlace ==
    ASSUME db \in Databases, NEW b \in DOMAIN db, System(b) # {}, Placed(b)
    PROVE  /\ SystemIface(b) \in Places /\ SystemIface(b)[1] = b /\ SystemIface(b)[2] \in System(b)
           /\ \A at \in Places : at[1] = b /\ at[2] \in System(b) => at = SystemIface(b)
<1>1. PICK p : p \in System(b)
  OBVIOUS
<1>2. System(b) = {p} /\ Min(System(b)) = p /\ p \in DOMAIN db[b].ports
  BY <1>1, OneSystem
<1>3. SystemIface(b) = <<b, p, 1>>
  BY <1>2 DEF SystemIface
<1>4. Len(db[b].ports[p].ifaces) = 1
  BY <1>1 DEF Placed
<1>5. DOMAIN db[b].ports[p].ifaces = 1..1
  BY <1>2, <1>4, DbFacts
<1>6. <<b, p, 1>> \in Places
  BY <1>2, <1>5, PlaceFacts
<1>7. ASSUME NEW at \in Places, at[1] = b, at[2] \in System(b) PROVE at = SystemIface(b)
  <2>1. at = <<at[1], at[2], at[3]>> /\ at[2] = p /\ at[3] \in DOMAIN db[at[1]].ports[at[2]].ifaces
    BY <1>2, <1>7, PlaceFacts
  <2>2. at[3] = 1
    BY <1>5, <1>7, <2>1
  <2>. QED
    BY <1>3, <1>7, <2>1, <2>2
<1>. QED
  BY <1>1, <1>2, <1>3, <1>6, <1>7

\* The linking has passed the place or is within its bridge.
Reached(at) == Passed(at) \/ (at[1] = pos[1] /\ pos[2] # 0)

\* The main interface is passed before the others of the bridge.
LEMMA SystemPassed ==
    ASSUME db \in Databases, PosOK, NEW at \in Places, Reached(at), System(at[1]) # {}, Placed(at[1])
    PROVE  Passed(SystemIface(at[1]))
<1>1. PICK b : b = at[1]
  OBVIOUS
<1>2. b \in DOMAIN db /\ at[1] \in Nat /\ at[2] \in Nat /\ at[3] \in Nat /\ at[2] >= 1
  BY <1>1, PlaceFacts
<1>3. SystemIface(b)[1] = b /\ SystemIface(b)[2] \in System(b)
  BY <1>1, <1>2, SystemPlace
<1>4. pos[1] \in Nat /\ pos[2] \in Nat /\ pos[3] \in Nat
  BY DEF PosOK
<1>5. CASE b < pos[1]
  BY <1>1, <1>3, <1>5 DEF Passed, PassedAt
<1>6. CASE b = pos[1] /\ pos[2] # 0
  BY <1>1, <1>3, <1>6 DEF Passed, PassedAt
<1>7. b < pos[1] \/ (b = pos[1] /\ pos[2] # 0)
  BY <1>1, <1>2, <1>4 DEF Passed, PassedAt, Reached
<1>. QED
  BY <1>5, <1>6, <1>7

\* What was found for a place that is passed stays found.
LEMMA PastFound ==
    ASSUME IInv, LinkStep, NEW at \in Places, Passed(at)
    PROVE  /\ found'[at] = found[at] /\ Passed(at)'
           /\ found[at] # 0 => found[at] \in DOMAIN ents /\ ents[found[at]].name = Iface(at).name
           /\ (found[at] # 0 /\ Joined(found[at])') => Joined(found[at])
           /\ (found[at] # 0 /\ Joined(found[at])) =>
                 Joined(found[at])' /\ ents'[found[at]].master = ents[found[at]].master
<1>1. found'[at] = found[at] /\ Passed(at)'
  BY DEF LinkStep
<1>2. found[at] # 0 => found[at] \in DOMAIN ents /\ ents[found[at]].name = Iface(at).name
  BY DEF IInv, FoundOK
<1>. SUFFICES ASSUME found[at] # 0
              PROVE  /\ ents'[found[at]].master > 0 => ents[found[at]].master > 0
                     /\ ents[found[at]].master > 0 => ents'[found[at]].master = ents[found[at]].master
  BY <1>1, <1>2 DEF Joined
<1>3. PICK e : e = found[at]
  OBVIOUS
<1>4. e \in 1..Len(ents) /\ ents[e].master \in Int
  BY <1>2, <1>3, EntryTypes DEF IInv, EntriesOK
<1>5. \/ ents'[e].master = ents[e].master
      \/ ents[e].master <= 0 /\ JoinedNow(ents[e].name)
  <2>1. \A x \in 1..Len(ents) :
           \/ ents'[x].master = ents[x].master
           \/ ~ ents[x].internal /\ ents[x].master <= 0 /\ ents'[x].master > 0 /\ JoinedNow(ents[x].name)
    BY DEF LinkStep
  <2>. QED
    BY <1>4, <2>1
<1>6. ~ JoinedNow(ents[e].name)
  <2>1. \A bt \in Places : Iface(bt).name = ents[e].name => bt = at
    BY <1>2, <1>3, UniqueNames DEF IInv
  <2>. QED
    BY <2>1 DEF JoinedNow
<1>. QED
  BY <1>3, <1>4, <1>5, <1>6

\* The home of a bridge that is reached does not change.
LEMMA PastHome ==
    ASSUME IInv, LinkStep, NEW at \in Places, Reached(at)
    PROVE  /\ AtHome(at)' <=> AtHome(at)
           /\ Inside(at[1])' <=> Inside(at[1])
           /\ Inside(at[1]) => found'[SystemIface(at[1])] = found[SystemIface(at[1])]
<1>1. PICK b : b = at[1] /\ b \in DOMAIN db
  BY PlaceFacts DEF IInv
<1>2. db' = db /\ System(b)' = System(b) /\ SystemIface(b)' = SystemIface(b)
  BY SameDb DEF LinkStep
<1>3. Placed(b)' = Placed(b)
  BY <1>2 DEF Placed
<1>4. ASSUME System(b) # {}, Placed(b)
      PROVE  /\ found'[SystemIface(b)] = found[SystemIface(b)]
             /\ found[SystemIface(b)] # 0 => ents'[found[SystemIface(b)]].ns = ents[found[SystemIface(b)]].ns
  <2>1. SystemIface(b) \in Places
    BY <1>1, <1>4, SystemPlace DEF IInv
  <2>2. Passed(SystemIface(b))
    BY <1>1, <1>4, SystemPassed DEF IInv
  <2>3. /\ found'[SystemIface(b)] = found[SystemIface(b)]
        /\ found[SystemIface(b)] # 0 => found[SystemIface(b)] \in DOMAIN ents
    BY <2>1, <2>2, PastFound
  <2>. QED
    BY <2>3, GrownFacts DEF LinkStep, IInv, EntriesOK
<1>5. AtHome(at)' <=> AtHome(at)
  BY <1>1, <1>2, <1>3, <1>4 DEF AtHome
<1>6. Inside(b)' <=> Inside(b)
  BY <1>2, <1>3, <1>4 DEF Inside
<1>. QED
  BY <1>1, <1>4, <1>5, <1>6 DEF Inside

\* The ports of the datapath are known from the start.
LEMMA PortsKept ==
    ASSUME IInv, LinkStep
    PROVE  /\ PortsAtHome' <=> PortsAtHome
           /\ \A at : TruePorts(at)' = TruePorts(at) /\ TruePorts(at) \subseteq DOMAIN ents
           /\ \A at : \A e \in DOMAIN ents : Mistakable(at, e)' <=> Mistakable(at, e)
           /\ \A at : QueryFailed(at)' <=> QueryFailed(at)
           /\ \A e \in DOMAIN ents : IsPort(e)' <=> IsPort(e)
<1>1. /\ ents \in Seq(Entry) /\ Grown(ents, ents') /\ vports' = vports /\ answered' = answered
      /\ \A at : Iface(at)' = Iface(at)
  BY SameDb DEF IInv, EntriesOK, LinkStep
<1>. DEFINE G == /\ DOMAIN ents \subseteq DOMAIN ents'
                 /\ \A e \in DOMAIN ents :
                       /\ ents'[e].name = ents[e].name /\ ents'[e].ns = ents[e].ns
                       /\ ents'[e].attached = ents[e].attached
                       /\ Attached(ents'[e]) = Attached(ents[e])
                 /\ \A e \in DOMAIN ents' : e \notin DOMAIN ents =>
                       ents'[e].attached = "no" /\ ~ Attached(ents'[e])
<1>2. G
  BY <1>1, GrownFacts
<1>3. \A e : IsPort(e)' = Attached(ents'[e])
  BY DEF IsPort, Attached
<1>4. ASSUME NEW at PROVE TruePorts(at)' = TruePorts(at) /\ TruePorts(at) \subseteq DOMAIN ents
  <2>1. TruePorts(at)' = {e \in DOMAIN ents' : Attached(ents'[e]) /\ ents'[e].name = Iface(at).name}
    BY <1>1, <1>3 DEF TruePorts
  <2>2. TruePorts(at) = {e \in DOMAIN ents : Attached(ents[e]) /\ ents[e].name = Iface(at).name}
    BY DEF TruePorts, IsPort
  <2>. QED
    BY <1>2, <2>1, <2>2
<1>5. ASSUME NEW at, NEW e \in DOMAIN ents PROVE Mistakable(at, e)' <=> Mistakable(at, e)
  <2>1. \A t \in TruePorts(at) : ents'[t].ns = ents[t].ns
    BY <1>2, <1>4
  <2>2. ents'[e].attached = ents[e].attached /\ ents'[e].ns = ents[e].ns
    BY <1>2
  <2>3. TruePorts(at)' = TruePorts(at)
    BY <1>4
  <2>. HIDE DEF G
  <2>. QED
    BY <1>1, <2>1, <2>2, <2>3 DEF Mistakable
<1>6. \A e \in DOMAIN ents : IsPort(e)' <=> IsPort(e)
  BY <1>2, <1>3 DEF IsPort
<1>7. PortsAtHome' <=>
         /\ \A v \in vports : v[1] = Root =>
               \E e \in DOMAIN ents' : Attached(ents'[e]) /\ ents'[e].name = v[2] /\ ents'[e].ns = Root
         /\ \A e \in DOMAIN ents' : ents'[e].attached # "foreign"
  <2>. HIDE DEF G
  <2>. QED
    BY <1>1, <1>3 DEF PortsAtHome
<1>8. PortsAtHome <=>
         /\ \A v \in vports : v[1] = Root =>
               \E e \in DOMAIN ents : Attached(ents[e]) /\ ents[e].name = v[2] /\ ents[e].ns = Root
         /\ \A e \in DOMAIN ents : ents[e].attached # "foreign"
  BY DEF PortsAtHome, IsPort
<1>9. (\A e \in DOMAIN ents' : ents'[e].attached # "foreign")
         <=> (\A e \in DOMAIN ents : ents[e].attached # "foreign")
  <2>1. ASSUME \A e \in DOMAIN ents : ents[e].attached # "foreign", NEW e \in DOMAIN ents'
        PROVE  ents'[e].attached # "foreign"
    BY <1>2, <2>1
  <2>2. ASSUME \A e \in DOMAIN ents' : ents'[e].attached # "foreign", NEW e \in DOMAIN ents
        PROVE  ents[e].attached # "foreign"
    BY <1>2, <2>2
  <2>. QED
    BY <2>1, <2>2
<1>10. ASSUME NEW v
       PROVE  (\E e \in DOMAIN ents' : Attached(ents'[e]) /\ ents'[e].name = v[2] /\ ents'[e].ns = Root)
                 <=> (\E e \in DOMAIN ents : Attached(ents[e]) /\ ents[e].name = v[2] /\ ents[e].ns = Root)
  BY <1>2
<1>11. PortsAtHome' <=> PortsAtHome
  <2>. HIDE DEF G
  <2>. QED
    BY <1>7, <1>8, <1>9, <1>10
<1>12. ASSUME NEW at PROVE QueryFailed(at)' <=> QueryFailed(at)
  <2>1. \A t \in TruePorts(at) : ents'[t].attached = ents[t].attached
    BY <1>2, <1>4
  <2>2. TruePorts(at)' = TruePorts(at)
    BY <1>4
  <2>. HIDE DEF G
  <2>. QED
    BY <1>1, <2>1, <2>2 DEF QueryFailed
<1>. QED
  BY <1>4, <1>5, <1>6, <1>11, <1>12

\* What the invariant says of a place that is passed stays true.
LEMMA PastKept ==
    ASSUME IInv, LinkStep, NEW at \in Places, Passed(at)
    PROVE  /\ NotDropped(at) => NotDropped(at)'
           /\ NotFalse(at)'
           /\ Recognised(at) => Recognised(at)'
<1>1. PICK e : e = found[at]
  OBVIOUS
<1>2. /\ found'[at] = e
      /\ e # 0 => e \in DOMAIN ents /\ ents[e].name = Iface(at).name
      /\ (e # 0 /\ Joined(e)') => Joined(e)
      /\ (e # 0 /\ Joined(e)) => Joined(e)' /\ ents'[e].master = ents[e].master
  BY <1>1, PastFound
<1>3. /\ AtHome(at)' <=> AtHome(at)
      /\ Inside(at[1])' <=> Inside(at[1])
      /\ Inside(at[1]) => found'[SystemIface(at[1])] = found[SystemIface(at[1])]
  BY PastHome DEF Reached
<1>4. ents \in Seq(Entry) /\ Grown(ents, ents') /\ db' = db /\ answered' = answered
  BY DEF IInv, EntriesOK, LinkStep
<1>5. /\ DOMAIN ents \subseteq DOMAIN ents' /\ DOMAIN ents = 1..Len(ents) /\ Len(ents) \in Nat
      /\ \A x \in DOMAIN ents : ents'[x].internal = ents[x].internal /\ ents'[x].attached = ents[x].attached
  BY <1>4, GrownFacts
<1>6. System(at[1])' = System(at[1]) /\ SystemIface(at[1])' = SystemIface(at[1])
  BY <1>4, SameDb
<1>7. NotFalse(at)'
  <2>1. NotFalse(at)
    BY DEF IInv, FalsePortOK
  <2>2. e # 0 => (Mistakable(at, e)' <=> Mistakable(at, e)) /\ (IsPort(e)' <=> IsPort(e))
    BY <1>2, PortsKept
  <2>3. e # 0 => ents'[e].internal = ents[e].internal
    BY <1>2, <1>5
  <2>4. NotFalse(at)' <=>
           ((AtHome(at)' /\ e # 0 /\ Joined(e)' /\ ~ Mistakable(at, e)' /\ ~ QueryFailed(at)') =>
              ents'[e].internal \/ IsPort(e)')
    BY <1>2 DEF NotFalse, Joined, Mistakable, IsPort
  <2>5. NotFalse(at) <=>
           ((AtHome(at) /\ e # 0 /\ Joined(e) /\ ~ Mistakable(at, e) /\ ~ QueryFailed(at)) =>
              ents[e].internal \/ IsPort(e))
    BY <1>1 DEF NotFalse
  <2>6. QueryFailed(at)' <=> QueryFailed(at)
    BY PortsKept
  <2>. QED
    BY <1>2, <1>3, <2>1, <2>2, <2>3, <2>4, <2>5, <2>6
<1>8. ASSUME NotDropped(at) PROVE NotDropped(at)'
  <2>1. e # 0
    BY <1>1, <1>8 DEF NotDropped
  <2>2. CASE at[2] \in System(at[1])
    BY <1>2, <1>6, <2>1, <2>2 DEF NotDropped
  <2>3. CASE at[2] \notin System(at[1])
    <3>1. PICK s : s = found[SystemIface(at[1])]
      OBVIOUS
    <3>2. Inside(at[1]) /\ Below(at) /\ s # 0
      BY <1>8, <2>3, <3>1 DEF NotDropped, Inside
    <3>3. s \in Nat /\ s > 0
      <4>1. SystemIface(at[1]) \in Places
        BY <3>2, SystemPlace, PlaceFacts DEF IInv, Inside
      <4>. QED
        BY <3>1, <3>2, <4>1 DEF IInv, FoundOK
    <3>4. /\ ents[e].master > 0
          /\ \/ ents[e].master = s
             \/ /\ ents[e].master \in DOMAIN ents /\ ents[ents[e].master].internal
                /\ ents[ents[e].master].master = s
      BY <1>1, <1>5, <3>1, <3>2, <3>3 DEF Below
    <3>5. ents'[e].master = ents[e].master
      BY <1>2, <2>1, <3>4 DEF Joined
    <3>6. PICK m : m = ents[e].master
      OBVIOUS
    <3>7. m = s \/ (m \in DOMAIN ents' /\ ents'[m].internal /\ ents'[m].master = s)
      <4>1. CASE m = s
        BY <4>1
      <4>2. CASE m \in DOMAIN ents /\ ents[m].internal /\ ents[m].master = s
        <5>1. \A x \in 1..Len(ents) :
                 \/ ents'[x].master = ents[x].master
                 \/ ~ ents[x].internal /\ ents[x].master <= 0 /\ ents'[x].master > 0 /\ JoinedNow(ents[x].name)
          BY DEF LinkStep
        <5>2. ents'[m].master = ents[m].master
          BY <1>5, <4>2, <5>1
        <5>. QED
          BY <1>5, <4>2, <5>2
      <4>. QED
        BY <3>4, <3>6, <4>1, <4>2
    <3>8. Below(at)'
      BY <1>2, <1>3, <1>6, <3>1, <3>2, <3>5, <3>6, <3>7 DEF Below
    <3>. QED
      BY <1>2, <1>3, <2>1, <3>2, <3>8 DEF NotDropped
  <2>. QED
    BY <2>2, <2>3
<1>9. ASSUME Recognised(at) PROVE Recognised(at)'
  <2>1. TruePorts(at)' = TruePorts(at) /\ TruePorts(at) \subseteq DOMAIN ents
    BY PortsKept
  <2>2. ASSUME NEW t \in TruePorts(at), ents'[t].attached = "slave" \/ t \in answered
        PROVE  found'[at] = t /\ Joined(t)'
    <3>1. ents[t].attached = "slave" \/ t \in answered
      BY <1>5, <2>1, <2>2
    <3>2. e = t /\ Joined(t)
      BY <1>1, <1>9, <3>1 DEF Recognised
    <3>3. e # 0
      BY <1>5, <2>1, <3>2
    <3>. QED
      BY <1>2, <3>2, <3>3
  <2>. QED
    BY <1>4, <2>1, <2>2 DEF Recognised, Joined
<1>. QED
  BY <1>7, <1>8, <1>9

\* It is left to show what a step does for the places that it passes, and that
\* no port is shown wrongly at one that is not passed.
LEMMA LinkKeeps ==
    ASSUME IInv, LinkStep,
           \A at \in Places : (~ Passed(at) /\ Passed(at)') =>
              (~ warned' => NotDropped(at)') /\ ((PortsAtHome /\ AtHome(at)') => Recognised(at)'),
           \A at \in Places : ~ Passed(at) => NotFalse(at)',
           phase' \in Done => \A at \in Places : (PortsAtHome /\ AtHome(at)') => Passed(at)' \/ CutOff(at)'
    PROVE  EntriesOK' /\ OwnersOK' /\ DroppedOK' /\ FalsePortOK' /\ PortsOK'
<1>1. Places' = Places
  BY SameDb DEF LinkStep
<1>2. EntriesOK' /\ OwnersOK'
  BY EntriesKept, OwnersKept DEF IInv
<1>3. DroppedOK'
  <2>. SUFFICES ASSUME ~ warned', NEW at \in Places, Passed(at)' PROVE NotDropped(at)'
    BY <1>1 DEF DroppedOK
  <2>1. CASE Passed(at)
    <3>1. ~ warned
      BY DEF LinkStep
    <3>2. NotDropped(at)
      BY <2>1, <3>1 DEF IInv, DroppedOK
    <3>. QED
      BY <2>1, <3>2, PastKept
  <2>2. CASE ~ Passed(at)
    BY <2>2
  <2>. QED
    BY <2>1, <2>2
<1>4. FalsePortOK'
  <2>. SUFFICES ASSUME NEW at \in Places PROVE NotFalse(at)'
    BY <1>1 DEF FalsePortOK
  <2>. QED
    BY PastKept
<1>5. PortsOK'
  <2>. SUFFICES ASSUME PortsAtHome', NEW at \in Places, AtHome(at)'
                PROVE  (Passed(at)' => Recognised(at)') /\ (phase' \in Done => Passed(at)' \/ CutOff(at)')
    BY <1>1 DEF PortsOK
  <2>1. PortsAtHome
    BY PortsKept
  <2>2. ASSUME Passed(at) PROVE Recognised(at)'
    <3>1. AtHome(at)
      BY <2>2, PastHome DEF Reached
    <3>2. Recognised(at)
      BY <2>1, <2>2, <3>1 DEF IInv, PortsOK
    <3>. QED
      BY <2>2, <3>2, PastKept
  <2>. QED
    BY <2>1, <2>2
<1>. QED
  BY <1>2, <1>3, <1>4, <1>5

-----------------------------------------------------------------------------
(* Candidates *)

\* A candidate for a place that is not passed is an interface of the kernel
\* that has no master that was found here.
LEMMA CandidateFacts ==
    ASSUME IInv, phase = "link", NEW at \in Places, ~ Passed(at),
           at[2] \notin System(at[1]) => Inside(at[1]),
           NEW c \in Candidates(at[1], Iface(at))
    PROVE  /\ c \in 1..Len(ents) /\ ents[c].name = Iface(at).name
           /\ ~ ents[c].internal /\ ents[c].master <= 0
<1>1. PICK b : b = at[1] /\ b \in DOMAIN db
  BY PlaceFacts DEF IInv
<1>2. PICK f : f = Iface(at)
  OBVIOUS
<1>3. db[b].dp \in {"system", "netdev"}
  BY <1>1, DatabaseAssumption DEF IInv, PhaseOK
<1>4. c \in 1..Len(ents) /\ ents[c].master \in Int /\ ents[c].internal \in BOOLEAN
  <2>1. c \in DOMAIN ents
    BY DEF Candidates
  <2>. QED
    BY <2>1, EntryTypes DEF IInv, EntriesOK
<1>5. ents[c].name = f.name
  BY <1>2 DEF Candidates
<1>6. \A bt \in Places : Iface(bt).name = ents[c].name => bt = at
  BY <1>2, <1>5, UniqueNames DEF IInv
<1>7. DOMAIN ents = 1..Len(ents)
  BY EntryTypes DEF IInv, EntriesOK
<1>8. ~ ents[c].internal
  <2>. SUFFICES ASSUME ents[c].internal PROVE FALSE
    BY <1>4
  <2>1. /\ ents[c].master > 0 /\ ents[c].driver = ""
        /\ \/ \E bt \in Places : bt[2] \notin System(bt[1]) /\ ents[c].name = Iface(bt).name
           \/ \E d \in DOMAIN db : \E p \in DOMAIN db[d].ports \ System(d) : ents[c].name = db[d].ports[p].name
    BY <1>4, <1>7 DEF IInv, EntriesOK, OwnersOK
  <2>2. CASE at[2] \in System(b)
    <3>1. \A d \in DOMAIN db : \A p \in DOMAIN db[d].ports :
             db[d].ports[p].name = Iface(at).name => at[1] = d /\ at[2] = p
      BY UniqueNames DEF IInv
    <3>. QED
      BY <1>1, <1>2, <1>5, <1>6, <2>1, <2>2, <3>1
  <2>3. CASE at[2] \notin System(b) /\ db[b].dp = "system"
    <3>1. found[SystemIface(b)] # 0
      BY <1>1, <2>3 DEF Inside
    <3>2. Connected(b, c)
      BY <1>1, <2>3, <3>1 DEF Candidates
    <3>3. ents[c].master <= 0
      BY <1>4, <3>2 DEF Connected, OvsSystem
    <3>4. PICK m \in Int : m = ents[c].master
      BY <1>4
    <3>5. m > 0
      BY <2>1, <3>4
    <3>6. m <= 0
      BY <3>3, <3>4
    <3>. QED
      BY <3>5, <3>6
  <2>4. CASE db[b].dp = "netdev"
    <3>1. ents[c].driver = "tun"
      BY <1>1, <2>4 DEF Candidates
    <3>. QED
      BY <2>1, <3>1
  <2>. QED
    BY <1>3, <2>2, <2>3, <2>4
<1>9. ents[c].master <= 0
  <2>. SUFFICES ASSUME ents[c].master > 0 PROVE FALSE
    BY <1>4
  <2>1. \E bt \in Places : Passed(bt) /\ ents[c].name = Iface(bt).name
    BY <1>4, <1>7, <1>8 DEF IInv, OwnersOK
  <2>. QED
    BY <1>6, <2>1
<1>. QED
  BY <1>2, <1>4, <1>5, <1>8, <1>9

\* The heaviest candidates: there is one if there are candidates at all.
LEMMA BestFacts ==
    ASSUME ents \in Seq(Entry), NEW b, NEW f
    PROVE  /\ link_iface(b, f) \subseteq Candidates(b, f) /\ Candidates(b, f) \subseteq 1..Len(ents)
           /\ Candidates(b, f) # {} => link_iface(b, f) # {}
           /\ Cardinality(link_iface(b, f)) \in Nat
           /\ Cardinality(link_iface(b, f)) = 0 <=> link_iface(b, f) = {}
           /\ Cardinality(link_iface(b, f)) = 1 =>
                 link_iface(b, f) = {Min(link_iface(b, f))} /\ Min(link_iface(b, f)) \in 1..Len(ents)
           /\ link_iface(b, f) # {} =>
                 Min(link_iface(b, f)) \in link_iface(b, f) /\ Min(link_iface(b, f)) \in 1..Len(ents)
           /\ (\A x, y \in link_iface(b, f) : x = y) => Cardinality(link_iface(b, f)) <= 1
<1>1. DOMAIN ents = 1..Len(ents) /\ Len(ents) \in Nat
  BY EntryTypes
<1>2. link_iface(b, f) \subseteq Candidates(b, f) /\ Candidates(b, f) \subseteq 1..Len(ents)
  BY <1>1 DEF link_iface, Candidates
<1>3. ASSUME Candidates(b, f) # {} PROVE link_iface(b, f) # {}
  <2>1. \A e : link_iface_search(b, e) \in {1, 2}
    BY DEF link_iface_search
  <2>2. CASE \E e \in Candidates(b, f) : link_iface_search(b, e) = 2
    <3>1. PICK e \in Candidates(b, f) : link_iface_search(b, e) = 2
      BY <2>2
    <3>2. \A c \in Candidates(b, f) : link_iface_search(b, c) <= link_iface_search(b, e)
      BY <2>1, <3>1
    <3>. QED
      BY <3>1, <3>2 DEF link_iface
  <2>3. CASE \A e \in Candidates(b, f) : link_iface_search(b, e) # 2
    <3>1. PICK e \in Candidates(b, f) : TRUE
      BY <1>3
    <3>2. \A c \in Candidates(b, f) : link_iface_search(b, c) <= link_iface_search(b, e)
      BY <2>1, <2>3, <3>1
    <3>. QED
      BY <3>1, <3>2 DEF link_iface
  <2>. QED
    BY <2>2, <2>3
<1>4. PICK S : S = link_iface(b, f)
  OBVIOUS
<1>5. S \subseteq 1..Len(ents) /\ S \subseteq Nat
  BY <1>1, <1>2, <1>4
<1>6. /\ Cardinality(S) \in Nat
      /\ Cardinality(S) = 0 <=> S = {}
      /\ Cardinality(S) = 1 => S = {Min(S)} /\ Min(S) \in 1..Len(ents)
      /\ (\A x, y \in S : x = y) => Cardinality(S) <= 1
  BY <1>1, <1>5, SmallSet
<1>7. S # {} => Min(S) \in S
  BY <1>5, MinIsLeast
<1>. QED
  BY <1>2, <1>3, <1>4, <1>5, <1>6, <1>7

-----------------------------------------------------------------------------
(* Entries that the handler creates *)

\* Only the master of an entry set
Owned(z, m) == [z EXCEPT !.master = m]

\* The other fields stay.
LEMMA EntryMaster ==
    ASSUME NEW z \in Entry, NEW m \in Int, NEW w, w = Owned(z, m)
    PROVE  /\ w \in Entry /\ w.name = z.name /\ w.driver = z.driver /\ w.internal = z.internal
           /\ w.attached = z.attached /\ w.master = m /\ w.peer = z.peer
<1>1. w \in Entry
  BY DEF Entry, Owned
<1>2. w.name = z.name /\ w.driver = z.driver /\ w.internal = z.internal
  BY DEF Entry, Owned
<1>3. w.attached = z.attached /\ w.master = m /\ w.peer = z.peer
  BY DEF Entry, Owned
<1>. QED
  BY <1>1, <1>2, <1>3

\* What create_iface makes is an entry,
LEMMA CreatePlain ==
    ASSUME NEW name \in STRING, NEW b \in Nat
    PROVE  LET x == create_iface(name, b)
           IN  /\ x \in Entry /\ x.name = name /\ x.driver = "" /\ x.internal /\ x.attached = "no"
               /\ x.master = 0 /\ x.peer = 0
<1>. DEFINE x == create_iface(name, b)
<1>1. /\ x.name = name /\ x.driver = "" /\ x.internal = TRUE /\ x.attached = "no"
      /\ x.master = 0 /\ x.peer = 0 /\ x.link = 0
  BY DEF create_iface
<1>2. x.ns \in Nat /\ x.sub \in BOOLEAN /\ x.host \in BOOLEAN /\ x.bridge \in Nat
  BY DEF create_iface, Root
<1>3. /\ x.name \in STRING /\ x.driver \in Drivers /\ x.internal \in BOOLEAN
      /\ x.attached \in {"slave", "vport", "foreign", "no"}
  BY <1>1 DEF Drivers
<1>4. x.master \in Int /\ x.peer \in Nat /\ x.link \in Nat
  <2>1. 0 \in Int /\ 0 \in Nat
    OBVIOUS
  <2>. QED
    BY <1>1, <2>1, Zenon
<1>5. x = [name |-> x.name, ns |-> x.ns, driver |-> x.driver, master |-> x.master, peer |-> x.peer,
           link |-> x.link, sub |-> x.sub, host |-> x.host, internal |-> x.internal,
           bridge |-> x.bridge, attached |-> x.attached]
  BY DEF create_iface
<1>6. x \in Entry
  BY <1>2, <1>3, <1>4, <1>5, Zenon DEF Entry
<1>. QED
  BY <1>1, <1>6

\* and still is when its master is set.
LEMMA CreateFacts ==
    ASSUME NEW name \in STRING, NEW b \in Nat, NEW m \in Int, NEW x, x = Owned(create_iface(name, b), m)
    PROVE  /\ x \in Entry /\ x.name = name /\ x.driver = "" /\ x.internal /\ x.attached = "no"
           /\ x.master = m /\ x.peer = 0
<1>1. PICK y : y = create_iface(name, b)
  OBVIOUS
<1>2. y \in Entry
  BY <1>1, CreatePlain
<1>3. /\ y.name = name /\ y.driver = "" /\ y.internal /\ y.attached = "no" /\ y.peer = 0
  BY <1>1, CreatePlain
<1>4. x = Owned(y, m)
  BY <1>1
<1>5. /\ x \in Entry /\ x.name = y.name /\ x.driver = y.driver /\ x.internal = y.internal
      /\ x.attached = y.attached /\ x.master = m /\ x.peer = y.peer
  <2>1. \A z \in Entry : x = Owned(z, m) =>
           /\ x \in Entry /\ x.name = z.name /\ x.driver = z.driver /\ x.internal = z.internal
           /\ x.attached = z.attached /\ x.master = m /\ x.peer = z.peer
    BY EntryMaster
  <2>. QED
    BY <1>2, <1>4, <2>1
<1>6. x.internal
  BY <1>3, <1>5, Zenon
<1>. QED
  BY <1>3, <1>5, <1>6, Zenon

\* An entry that the handler creates for a port, below m
PortEntry(x, name, m) ==
    /\ x \in Entry /\ x.name = name /\ x.driver = "" /\ x.internal /\ x.attached = "no"
    /\ x.master = m /\ x.peer = 0

\* That is what create_iface makes.
LEMMA PortCreated ==
    \A name \in STRING, b \in Nat, m \in Int : \A x :
        x = Owned(create_iface(name, b), m) => PortEntry(x, name, m)
  BY CreateFacts, Zenon DEF PortEntry

\* One more entry, which does not touch the others
Longer(en, fn) ==
    /\ fn \in Seq(Entry) /\ Len(fn) = Len(en) + 1
    /\ \A y \in 1..Len(en) : fn[y] = en[y]

ByHandler(x) == x.internal /\ x.attached = "no" /\ x.driver = ""

\* Append gives that.
LEMMA AppendFacts ==
    ASSUME NEW en \in Seq(Entry), NEW x \in Entry, NEW fn, fn = Append(en, x)
    PROVE  Longer(en, fn) /\ fn[Len(fn)] = x
  BY DEF Longer

-----------------------------------------------------------------------------
(* What the steps do to the entries *)

\* A step that leaves the entries alike
LEMMA AlikeGrown ==
    ASSUME NEW en \in Seq(Entry), NEW fn, Alike(en, fn) PROVE Grown(en, fn)
<1>1. Len(en) \in Nat /\ Len(fn) = Len(en) /\ fn \in Seq(Entry)
  BY EntryTypes DEF Alike
<1>2. \A x \in 1..Len(fn) : ~(x > Len(en))
  BY <1>1
<1>3. Len(en) <= Len(fn)
  BY <1>1
<1>. QED
  BY <1>1, <1>2, <1>3 DEF Alike, Grown

\* One more entry, made by the handler
LEMMA AppendGrown ==
    ASSUME NEW en \in Seq(Entry), NEW fn, Longer(en, fn), ByHandler(fn[Len(fn)])
    PROVE  Grown(en, fn)
<1>1. PICK n \in Nat : n = Len(en)
  BY EntryTypes
<1>2. \A y \in 1..Len(en) : Same(en[y], fn[y])
  BY DEF Same, Longer
<1>3. Len(fn) = n + 1 /\ fn \in Seq(Entry)
  BY <1>1 DEF Longer
<1>4. ASSUME NEW y \in 1..Len(fn), y > Len(en) PROVE y = Len(fn)
  BY <1>1, <1>3, <1>4
<1>5. Len(en) <= Len(fn)
  BY <1>1, <1>3
<1>6. \A y \in 1..Len(fn) : y > Len(en) => ByHandler(fn[y])
  BY <1>4
<1>. QED
  BY <1>2, <1>3, <1>5, <1>6 DEF Grown, ByHandler

\* An entry grown, then left alike
LEMMA GrownAlike ==
    ASSUME NEW en \in Seq(Entry), NEW fn, NEW gn, Grown(en, fn), Alike(fn, gn) PROVE Grown(en, gn)
<1>1. Len(en) \in Nat /\ Len(fn) \in Nat /\ Len(gn) = Len(fn) /\ gn \in Seq(Entry) /\ Len(en) <= Len(fn)
  BY EntryTypes DEF Grown, Alike
<1>2. ASSUME NEW x \in 1..Len(en) PROVE Same(en[x], gn[x])
  <2>1. x \in 1..Len(fn)
    BY <1>1
  <2>. QED
    BY <2>1 DEF Grown, Alike, Same
<1>3. ASSUME NEW x \in 1..Len(gn), x > Len(en)
      PROVE  gn[x].internal /\ gn[x].attached = "no" /\ gn[x].driver = ""
  <2>1. x \in 1..Len(fn) /\ Same(fn[x], gn[x])
    BY <1>1 DEF Alike
  <2>2. fn[x].internal /\ fn[x].attached = "no" /\ fn[x].driver = ""
    BY <1>3, <2>1 DEF Grown
  <2>. QED
    BY <2>1, <2>2 DEF Same
<1>. QED
  BY <1>1, <1>2, <1>3 DEF Grown

\* Peers stay symmetric when entries without peer are added.
LEMMA GrownSymmetric ==
    ASSUME NEW en \in Seq(Entry), Symmetric(en), NEW fn, Grown(en, fn), Peers(en, fn),
           \A x \in 1..Len(fn) : x > Len(en) => fn[x].peer = 0
    PROVE  Symmetric(fn)
<1>1. Len(en) \in Nat /\ Len(fn) \in Nat /\ Len(en) <= Len(fn)
  BY EntryTypes DEF Grown
<1>. SUFFICES ASSUME NEW x \in 1..Len(fn), fn[x].peer # 0
              PROVE  fn[x].peer \in 1..Len(fn) /\ fn[fn[x].peer].peer = x
  BY DEF Symmetric
<1>2. x \in 1..Len(en)
  BY <1>1
<1>3. fn[x].peer = en[x].peer
  BY <1>2 DEF Peers
<1>4. en[x].peer \in 1..Len(en) /\ en[en[x].peer].peer = x
  BY <1>2, <1>3 DEF Symmetric
<1>. QED
  BY <1>1, <1>3, <1>4 DEF Peers

\* A patch port's peers: the created entries of the name it gives
PeersOf(en, f) == {x \in 1..Len(en) : f.type = "patch" /\ en[x].internal /\ en[x].name = f.peer}

\* The parts of LinkIface: the entry that is found or made for f, the entries
\* then, those after f's tunnel or peer was searched, and whether two peers match
Chosen(best) == IF best = {} THEN Len(ents) + 1 ELSE Min(best)

AfterSearch(b, f, best) ==
    IF best = {} THEN Append(Marked(b, f), create_iface(f.name, b)) ELSE Marked(b, f)

AfterJoin(joined, e, f) ==
    CASE f.type = "vxlan" /\ f.local -> link_tunnel(joined, e)
      [] f.type = "patch" -> link_patch(joined, e, f)
      [] OTHER -> joined

SeveralPeers(joined, f) == f.type = "patch" /\ Cardinality(link_patch_search(joined, f)) > 1

\* The entries after the interface f was joined to its master, and to its
\* peer: the last case of LinkIface.
LEMMA JoinEffect ==
    ASSUME NEW all \in Seq(Entry), Symmetric(all), NEW e \in 1..Len(all), NEW m \in Int, NEW f,
           NEW joined, joined = WithMaster(all, e, m), NEW fn, fn = AfterJoin(joined, e, f)
    PROVE  /\ Alike(all, fn) /\ Symmetric(fn) /\ fn[e].master = m
           /\ \A y \in 1..Len(all) : y # e => fn[y].master = all[y].master
           /\ ~ SeveralPeers(joined, f) => \A x \in PeersOf(fn, f) : fn[e].peer = x /\ fn[x].peer = e
           /\ \A g \in 1..Len(all) :
                 (g \notin {e} \union PeersOf(fn, f) /\ all[g].peer \notin {e} \union PeersOf(fn, f)) =>
                    fn[g].peer = all[g].peer
<1>1. /\ Alike(all, joined) /\ Peers(all, joined) /\ joined[e].master = m
      /\ \A y \in 1..Len(all) : y # e => joined[y].master = all[y].master
  BY SetMaster
<1>2. joined \in Seq(Entry) /\ Len(joined) = Len(all) /\ Len(all) \in Nat
  BY <1>1, EntryTypes DEF Alike
<1>3. Symmetric(joined)
  <2>1. Grown(all, joined)
    BY <1>1, AlikeGrown
  <2>2. \A x \in 1..Len(joined) : x > Len(all) => joined[x].peer = 0
    BY <1>2
  <2>. QED
    BY <1>1, <2>1, <2>2, GrownSymmetric
<1>4. ASSUME Alike(joined, fn), Masters(joined, fn), Symmetric(fn),
             ~ SeveralPeers(joined, f) => \A x \in PeersOf(fn, f) : fn[e].peer = x /\ fn[x].peer = e,
             \A g \in 1..Len(all) :
                (g \notin {e} \union PeersOf(fn, f) /\ joined[g].peer \notin {e} \union PeersOf(fn, f)) =>
                   fn[g].peer = joined[g].peer
      PROVE  /\ Alike(all, fn) /\ Symmetric(fn) /\ fn[e].master = m
             /\ \A y \in 1..Len(all) : y # e => fn[y].master = all[y].master
             /\ ~ SeveralPeers(joined, f) => \A x \in PeersOf(fn, f) : fn[e].peer = x /\ fn[x].peer = e
             /\ \A g \in 1..Len(all) :
                   (g \notin {e} \union PeersOf(fn, f) /\ all[g].peer \notin {e} \union PeersOf(fn, f)) =>
                      fn[g].peer = all[g].peer
  <2>1. Alike(all, fn)
    BY <1>1, <1>4, AlikeTrans
  <2>2. \A y \in 1..Len(all) : fn[y].master = joined[y].master
    BY <1>2, <1>4 DEF Masters
  <2>3. \A g \in 1..Len(all) : joined[g].peer = all[g].peer
    BY <1>1 DEF Peers
  <2>. QED
    BY <1>1, <1>4, <2>1, <2>2, <2>3
<1>5. CASE f.type = "patch"
  <2>1. fn = link_patch(joined, e, f)
    <3>1. ~(f.type = "vxlan")
      BY <1>5
    <3>. QED
      BY <1>5, <3>1 DEF AfterJoin
  <2>2. PICK S : S = link_patch_search(joined, f)
    OBVIOUS
  <2>3. /\ Alike(joined, fn) /\ Masters(joined, fn) /\ Symmetric(fn)
        /\ ~(Cardinality(S) > 1) => \A x \in S : fn[e].peer = x /\ fn[x].peer = e
        /\ \A g \in 1..Len(joined) :
              g \notin {e} \union S /\ joined[g].peer \notin {e} \union S => fn[g].peer = joined[g].peer
    BY <1>2, <1>3, <2>1, <2>2, LinkPatchFacts
  <2>4. S = PeersOf(fn, f)
    <3>1. DOMAIN joined = 1..Len(joined)
      BY <1>2, EntryTypes
    <3>2. Len(fn) = Len(joined) /\ \A x \in 1..Len(joined) :
             fn[x].internal = joined[x].internal /\ fn[x].name = joined[x].name
      BY <2>3 DEF Alike, Same
    <3>. QED
      BY <1>5, <2>2, <3>1, <3>2 DEF link_patch_search, PeersOf
  <2>5. SeveralPeers(joined, f) <=> Cardinality(S) > 1
    BY <1>5, <2>2 DEF SeveralPeers
  <2>. QED
    BY <1>2, <1>4, <2>3, <2>4, <2>5
<1>6. CASE f.type # "patch"
  <2>1. PeersOf(fn, f) = {}
    BY <1>6 DEF PeersOf
  <2>2. Alike(joined, fn) /\ Masters(joined, fn) /\ Peers(joined, fn)
    <3>1. CASE f.type = "vxlan" /\ f.local
      <4>1. fn = link_tunnel(joined, e)
        BY <1>6, <3>1 DEF AfterJoin
      <4>. DEFINE hosts == {x \in DOMAIN joined : joined[x].ns = joined[e].ns /\ joined[x].host}
                  l == IF Cardinality(hosts) = 1 THEN Min(hosts) ELSE 0
      <4>2. fn = WithLink(joined, e, l)
        BY <4>1 DEF link_tunnel, WithLink
      <4>3. l \in Nat
        <5>1. hosts \subseteq 1..Len(joined)
          BY <1>2, EntryTypes
        <5>2. Cardinality(hosts) = 1 => Min(hosts) \in 1..Len(joined)
          <6>. HIDE DEF hosts
          <6>. QED
            BY <1>2, <5>1, SmallSet
        <5>. HIDE DEF hosts
        <5>. QED
          BY <1>2, <5>2
      <4>. HIDE DEF l
      <4>. QED
        BY <1>2, <4>2, <4>3, SetLink
    <3>2. CASE ~(f.type = "vxlan" /\ f.local)
      <4>1. fn = joined
        BY <1>6, <3>2 DEF AfterJoin
      <4>. QED
        BY <1>2, <4>1, AlikeSelf
    <3>. QED
      BY <3>1, <3>2
  <2>3. \A g \in 1..Len(all) : fn[g].peer = joined[g].peer
    BY <1>2, <2>2 DEF Peers
  <2>4. Symmetric(fn)
    <3>1. Grown(joined, fn)
      BY <1>2, <2>2, AlikeGrown
    <3>2. \A x \in 1..Len(fn) : x > Len(joined) => fn[x].peer = 0
      BY <1>2, <2>2 DEF Alike
    <3>. QED
      BY <1>2, <1>3, <2>2, <3>1, <3>2, GrownSymmetric
  <2>. QED
    BY <1>4, <2>1, <2>2, <2>3, <2>4
<1>. QED
  BY <1>5, <1>6

\* The entries after the search for the interface f, which found e or made it
LEMMA SearchEffect ==
    ASSUME ents \in Seq(Entry), Symmetric(ents), NEW b \in Nat, NEW f, f.name \in STRING,
           NEW best, best = link_iface(b, f), Cardinality(best) <= 1,
           NEW e, e = Chosen(best), NEW all, all = AfterSearch(b, f, best)
    PROVE  /\ all \in Seq(Entry) /\ Symmetric(all) /\ e \in 1..Len(all) /\ all[e].name = f.name
           /\ Grown(ents, all) /\ Masters(ents, all) /\ Peers(ents, all)
           /\ \/ best = {e} /\ Len(all) = Len(ents)
              \/ best = {} /\ e = Len(ents) + 1 /\ Len(all) = e
<1>. DEFINE marked == Marked(b, f)
<1>1. Alike(ents, marked) /\ Masters(ents, marked) /\ Peers(ents, marked)
  BY MarkedFacts
<1>2. Grown(ents, marked) /\ marked \in Seq(Entry) /\ Len(marked) = Len(ents) /\ Len(ents) \in Nat
  BY <1>1, AlikeGrown, EntryTypes DEF Alike
<1>3. Symmetric(marked)
  <2>1. \A x \in 1..Len(marked) : x > Len(ents) => marked[x].peer = 0
    BY <1>2
  <2>. HIDE DEF marked
  <2>. QED
    BY <1>1, <1>2, <2>1, GrownSymmetric
<1>4. CASE best # {}
  <2>1. all = marked /\ e = Min(best)
    BY <1>4 DEF Chosen, AfterSearch
  <2>2. best = {e} /\ e \in 1..Len(ents)
    <3>1. /\ Cardinality(best) \in Nat
          /\ Cardinality(best) = 0 <=> best = {}
          /\ Cardinality(best) = 1 => best = {Min(best)} /\ Min(best) \in 1..Len(ents)
      BY BestFacts
    <3>2. Cardinality(best) = 1
      BY <1>4, <3>1
    <3>. QED
      BY <2>1, <3>1, <3>2
  <2>3. all[e].name = f.name
    <3>1. e \in Candidates(b, f)
      BY <2>2, BestFacts
    <3>2. ents[e].name = f.name
      BY <3>1 DEF Candidates
    <3>. QED
      BY <1>1, <2>1, <2>2, <3>2 DEF Alike, Same
  <2>. HIDE DEF marked
  <2>. QED
    BY <1>1, <1>2, <1>3, <2>1, <2>2, <2>3
<1>5. CASE best = {}
  <2>. DEFINE x == create_iface(f.name, b)
  <2>1. all = Append(marked, x) /\ e = Len(ents) + 1
    BY <1>5 DEF Chosen, AfterSearch
  <2>2. x \in Entry /\ x.name = f.name /\ ByHandler(x) /\ x.peer = 0
    BY CreatePlain DEF ByHandler
  <2>. HIDE DEF marked, x
  <2>3. Longer(marked, all) /\ all[Len(all)] = x
    BY <1>2, <2>1, <2>2, AppendFacts
  <2>4. e = Len(all) /\ all \in Seq(Entry) /\ \A y \in 1..Len(ents) : all[y] = marked[y]
    BY <1>2, <2>1, <2>3 DEF Longer
  <2>5. Grown(marked, all)
    BY <1>2, <2>2, <2>3, AppendGrown DEF Longer
  <2>6. Grown(ents, all)
    <3>1. \A y \in 1..Len(ents) : Same(ents[y], all[y])
      BY <1>1, <2>4 DEF Alike
    <3>2. /\ Len(marked) <= Len(all)
          /\ \A y \in 1..Len(all) :
                y > Len(marked) => all[y].internal /\ all[y].attached = "no" /\ all[y].driver = ""
      BY <2>5 DEF Grown
    <3>. QED
      BY <1>2, <2>4, <3>1, <3>2 DEF Grown
  <2>7. Masters(ents, all) /\ Peers(ents, all)
    BY <1>1, <2>4 DEF Masters, Peers
  <2>8. Symmetric(all)
    <3>1. ASSUME NEW y \in 1..Len(all), y > Len(ents) PROVE all[y].peer = 0
      <4>1. y = Len(all)
        BY <1>2, <2>1, <2>4, <3>1
      <4>. QED
        BY <2>2, <2>3, <4>1
    <3>. QED
      BY <2>6, <2>7, <3>1, GrownSymmetric
  <2>9. e \in 1..Len(all) /\ all[e].name = f.name
    BY <1>2, <2>1, <2>2, <2>3, <2>4
  <2>. QED
    BY <1>5, <2>1, <2>4, <2>6, <2>7, <2>8, <2>9
<1>. QED
  BY <1>4, <1>5

\* What LinkIface does: e is the interface that was found, or made, for the
\* place at, and the peers are those of the created entries of its name.
IfaceEffect(at, e) ==
    LET f == Iface(at)
        S == PeersOf(ents', f)
        best == link_iface(at[1], f)
    IN  /\ Grown(ents, ents') /\ Symmetric(ents')
        /\ found' = [found EXCEPT ![at] = e]
        /\ e \in 1..Len(ents') /\ ents'[e].name = f.name /\ ents'[e].master = master
        /\ \A y \in 1..Len(ents) : y # e => ents'[y].master = ents[y].master
        /\ \/ best = {e} /\ Len(ents') = Len(ents)
           \/ best = {} /\ e = Len(ents) + 1 /\ Len(ents') = e
        /\ ~ warned' => ~ warned /\ \A x \in S : ents'[e].peer = x /\ ents'[x].peer = e
        /\ \A g \in 1..Len(ents) :
              (g \notin {e} \union S /\ ents[g].peer \notin {e} \union S) => ents'[g].peer = ents[g].peer

\* The step does that.
LEMMA LinkIfaceEffect ==
    ASSUME IInv, NEW at \in Places, LinkIface(at[1], at[2], at[3]) PROVE \E e : IfaceEffect(at, e)
<1>1. PICK b : b = at[1]
  OBVIOUS
<1>2. PICK f : f = Iface(at)
  OBVIOUS
<1>3. PICK best : best = link_iface(b, f)
  OBVIOUS
<1>4. PICK e : e = Chosen(best)
  OBVIOUS
<1>5. PICK all : all = AfterSearch(b, f, best)
  OBVIOUS
<1>6. PICK joined : joined = WithMaster(all, e, master)
  OBVIOUS
<1>7. /\ pos = at /\ b \in Nat /\ f \in Iface0 /\ f.name \in STRING
      /\ ents \in Seq(Entry) /\ Symmetric(ents) /\ warned \in BOOLEAN /\ master \in Int
  <2>1. pos = at
    BY PlaceFacts DEF LinkIface, Linking, IInv
  <2>2. b \in Nat /\ f \in Iface0
    BY <1>1, <1>2, PlaceFacts DEF IInv
  <2>3. f.name \in STRING
    BY <2>2 DEF Iface0
  <2>4. ents \in Seq(Entry) /\ Symmetric(ents) /\ warned \in BOOLEAN
    BY DEF IInv, EntriesOK, PeersOK
  <2>5. pos[2] # 0 /\ pos[3] # 0
    <3>1. at[2] >= 1 /\ at[3] >= 1 /\ at[2] \in Nat /\ at[3] \in Nat
      BY PlaceFacts DEF IInv
    <3>. QED
      BY <2>1, <3>1
  <2>6. master \in DOMAIN ents
    BY <2>5 DEF IInv, PosOK, MasterOK
  <2>. QED
    BY <2>1, <2>2, <2>3, <2>4, <2>6, EntryTypes
<1>8. /\ Cardinality(best) <= 1
       /\ found' = [found EXCEPT ![at] = e]
       /\ ents' = AfterJoin(joined, e, f)
       /\ warned' = (warned \/ SeveralPeers(joined, f))
  <2>1. /\ Cardinality(best) <= 1
        /\ found' = [found EXCEPT ![at] = e]
    BY <1>1, <1>2, <1>3, <1>4, <1>7 DEF LinkIface, Chosen
  <2>2. joined = [all EXCEPT ![e].master = master]
    BY <1>6 DEF WithMaster
  <2>3. ents' = AfterJoin(joined, e, f)
    BY <1>1, <1>2, <1>3, <1>4, <1>5, <1>7, <2>2, Zenon DEF LinkIface, Chosen, AfterSearch, AfterJoin
  <2>4. warned' = (warned \/ SeveralPeers(joined, f))
    BY <1>1, <1>2, <1>3, <1>4, <1>5, <1>7, <2>2, Zenon DEF LinkIface, Chosen, AfterSearch, SeveralPeers
  <2>. QED
    BY <2>1, <2>3, <2>4
<1>9. /\ all \in Seq(Entry) /\ Symmetric(all) /\ e \in 1..Len(all) /\ all[e].name = f.name
       /\ Grown(ents, all) /\ Masters(ents, all) /\ Peers(ents, all)
       /\ \/ best = {e} /\ Len(all) = Len(ents)
          \/ best = {} /\ e = Len(ents) + 1 /\ Len(all) = e
  BY <1>3, <1>4, <1>5, <1>7, <1>8, SearchEffect
<1>10. /\ Alike(all, ents') /\ Symmetric(ents') /\ ents'[e].master = master
       /\ \A y \in 1..Len(all) : y # e => ents'[y].master = all[y].master
       /\ ~ SeveralPeers(joined, f) => \A x \in PeersOf(ents', f) : ents'[e].peer = x /\ ents'[x].peer = e
       /\ \A g \in 1..Len(all) :
             (g \notin {e} \union PeersOf(ents', f) /\ all[g].peer \notin {e} \union PeersOf(ents', f)) =>
                ents'[g].peer = all[g].peer
  BY <1>6, <1>7, <1>8, <1>9, JoinEffect
<1>11. Grown(ents, ents') /\ Len(ents') = Len(all) /\ Len(ents) \in Nat /\ Len(ents) <= Len(all) /\ Len(all) \in Nat
  BY <1>7, <1>9, <1>10, GrownAlike, EntryTypes DEF Alike, Grown
<1>12. ents'[e].name = f.name
  BY <1>9, <1>10 DEF Alike, Same
<1>13. \A y \in 1..Len(ents) : y # e => ents'[y].master = ents[y].master
  <2>1. \A y \in 1..Len(ents) : y \in 1..Len(all)
    BY <1>11
  <2>. QED
    BY <1>9, <1>10, <2>1 DEF Masters
<1>14. \A g \in 1..Len(ents) :
          (g \notin {e} \union PeersOf(ents', f) /\ ents[g].peer \notin {e} \union PeersOf(ents', f)) =>
             ents'[g].peer = ents[g].peer
  <2>1. \A y \in 1..Len(ents) : y \in 1..Len(all) /\ all[y].peer = ents[y].peer
    BY <1>9, <1>11 DEF Peers
  <2>. QED
    BY <1>10, <2>1
<1>15. ~ warned' => ~ warned /\ \A x \in PeersOf(ents', f) : ents'[e].peer = x /\ ents'[x].peer = e
  BY <1>7, <1>8, <1>10
<1>16. e \in 1..Len(ents')
  BY <1>9, <1>11
<1>17. \/ best = {e} /\ Len(ents') = Len(ents)
       \/ best = {} /\ e = Len(ents) + 1 /\ Len(ents') = e
  BY <1>9, <1>11
<1>18. IfaceEffect(at, e)
  BY <1>1, <1>2, <1>3, <1>8, <1>10, <1>11, <1>12, <1>13, <1>14, <1>15, <1>16, <1>17 DEF IfaceEffect
<1>. QED
  BY <1>18

-----------------------------------------------------------------------------
(* Finding the interfaces of a bridge that is at home *)

\* The weight of an entry for such a bridge
LEMMA HomeWeight ==
    ASSUME IInv, NEW at \in Places, AtHome(at)
    PROVE  \A c : link_iface_search(at[1], c) = IF ents[c].ns = Root THEN 2 ELSE 1
  BY DEF AtHome, link_iface_search

\* A port of the datapath that the kernel tells to be one is a candidate.
LEMMA TruePortCandidate ==
    ASSUME IInv, NEW at \in Places, ~ Passed(at), AtHome(at),
           NEW t \in TruePorts(at), ents[t].attached = "slave" \/ t \in answered
    PROVE  t \in Candidates(at[1], Iface(at)) /\ ~ ents[t].internal
<1>1. t \in DOMAIN ents /\ Attached(ents[t]) /\ ents[t].name = Iface(at).name
  BY DEF TruePorts, IsPort
<1>2. /\ db[at[1]].dp = "system" /\ found[SystemIface(at[1])] # 0
      /\ ents[found[SystemIface(at[1])]].ns = Root
  BY DEF AtHome
<1>3. ents[t].attached \in {"slave", "vport"}
  BY <1>1 DEF Attached
<1>4. ~ ents[t].internal
  <2>1. ents[t].internal => ents[t].attached = "no"
    BY <1>1 DEF IInv, EntriesOK
  <2>. QED
    BY <1>3, <2>1
<1>5. ents[t].master <= 0
  <2>1. ents[t].master \in Int
    BY <1>1, EntryTypes DEF IInv, EntriesOK
  <2>2. ents[t].master > 0 => \E bt \in Places : Passed(bt) /\ ents[t].name = Iface(bt).name
    BY <1>1, <1>4 DEF IInv, OwnersOK
  <2>3. \A bt \in Places : Iface(bt).name = Iface(at).name => bt = at
    BY UniqueNames DEF IInv
  <2>4. ~(ents[t].master > 0)
    BY <1>1, <2>2, <2>3
  <2>. QED
    BY <2>1, <2>4
<1>6. ents[t].master = OvsSystem \/ (ents[t].master = 0 /\ t \in answered /\ <<Root, ents[t].name>> \in vports)
  <2>1. /\ ents[t].master = OvsSystem <=> ents[t].attached \in {"slave", "foreign"}
        /\ ents[t].attached = "vport" => ents[t].master = 0
    BY <1>1, <1>5, Zenon DEF IInv, OwnersOK
  <2>2. <<Root, ents[t].name>> \in vports
    BY <1>1, Zenon DEF IInv, EntriesOK
  <2>. QED
    BY <1>3, <2>1, <2>2
<1>7. Iface(at).type = "internal" => ents[t].driver = "openvswitch"
  BY <1>1, <1>2, Zenon DEF IInv, EntriesOK
<1>8. Connected(at[1], t)
  BY <1>2, <1>6 DEF Connected, check_vport
<1>9. t \in Candidates(at[1], Iface(at))
  BY <1>1, <1>2, <1>7, <1>8 DEF Candidates
<1>. QED
  BY <1>4, <1>9

\* When all ports are at home, no interface of such a bridge is ambiguous, and
\* the port is the one that is found.
LEMMA HomeBest ==
    ASSUME IInv, phase = "link", NEW at \in Places, ~ Passed(at), AtHome(at), PortsAtHome
    PROVE  /\ QueryFailed(at) \/ \A x, y \in link_iface(at[1], Iface(at)) : x = y
           /\ \A t \in TruePorts(at) :
                 ents[t].attached = "slave" \/ t \in answered => t \in link_iface(at[1], Iface(at))
<1>. DEFINE C == Candidates(at[1], Iface(at))
<1>1. /\ db[at[1]].dp = "system" /\ found[SystemIface(at[1])] # 0 /\ at[2] \notin System(at[1])
      /\ ents[found[SystemIface(at[1])]].ns = Root /\ Inside(at[1])
  BY DEF AtHome, Inside
<1>2. \A c \in C : c \in DOMAIN ents /\ ents[c].name = Iface(at).name /\ ~ ents[c].internal
  <2>1. \A c \in C : c \in DOMAIN ents
    BY DEF Candidates
  <2>. QED
    BY <1>1, <2>1, CandidateFacts
<1>3. \A c : link_iface_search(at[1], c) = IF ents[c].ns = Root THEN 2 ELSE 1
  BY HomeWeight
<1>4. ASSUME NEW t \in TruePorts(at) PROVE ents[t].ns = Root
  <2>1. t \in DOMAIN ents /\ Attached(ents[t]) /\ ~ ents[t].internal
    <3>1. t \in DOMAIN ents /\ Attached(ents[t])
      BY DEF TruePorts, IsPort
    <3>2. ents[t].internal => ents[t].attached = "no"
      BY <3>1 DEF IInv, EntriesOK
    <3>. QED
      BY <3>1, <3>2 DEF Attached
  <2>2. <<Root, ents[t].name>> \in vports
    BY <2>1, Zenon DEF IInv, EntriesOK
  <2>3. PICK x \in DOMAIN ents : Attached(ents[x]) /\ ents[x].name = ents[t].name /\ ents[x].ns = Root
    BY <2>2 DEF PortsAtHome, IsPort
  <2>4. ~ ents[x].internal
    <3>1. ents[x].internal => ents[x].attached = "no"
      BY <2>3 DEF IInv, EntriesOK
    <3>. QED
      BY <2>3, <3>1 DEF Attached
  <2>5. x = t
    BY <2>1, <2>3, <2>4, Zenon DEF IInv, EntriesOK
  <2>. QED
    BY <2>3, <2>5
<1>5. ASSUME ~ QueryFailed(at), NEW c \in C PROVE \E t \in C : ents[t].ns = Root
  <2>1. Connected(at[1], c)
    BY <1>1 DEF Candidates
  <2>2. CASE ents[c].master = OvsSystem
    <3>1. ents[c].attached = "slave"
      <4>1. ents[c].attached \in {"slave", "foreign"}
        BY <1>2, <2>2 DEF IInv, OwnersOK, OvsSystem
      <4>2. ents[c].attached # "foreign"
        BY <1>2 DEF PortsAtHome
      <4>. QED
        BY <4>1, <4>2
    <3>2. c \in TruePorts(at)
      BY <1>2, <3>1 DEF TruePorts, IsPort, Attached
    <3>. QED
      BY <1>4, <3>2
  <2>3. CASE ents[c].master = 0 /\ check_vport(Root, c)
    <3>1. <<Root, Iface(at).name>> \in vports
      BY <1>2, <2>3 DEF check_vport
    <3>2. PICK t \in DOMAIN ents : IsPort(t) /\ ents[t].name = Iface(at).name /\ ents[t].ns = Root
      BY <3>1 DEF PortsAtHome
    <3>3. t \in TruePorts(at)
      BY <3>2 DEF TruePorts
    <3>4. ents[t].attached = "slave" \/ t \in answered
      BY <1>5, <3>2, <3>3 DEF IsPort, Attached, QueryFailed
    <3>5. t \in C
      BY <3>3, <3>4, TruePortCandidate
    <3>. QED
      BY <3>2, <3>5
  <2>. QED
    BY <1>1, <2>1, <2>2, <2>3 DEF Connected
<1>6. ASSUME ~ QueryFailed(at), NEW x \in link_iface(at[1], Iface(at)), NEW y \in link_iface(at[1], Iface(at)) PROVE x = y
  <2>1. x \in C /\ y \in C
    BY DEF link_iface
  <2>2. PICK t \in C : ents[t].ns = Root
    BY <1>5, <1>6, <2>1
  <2>3. /\ link_iface_search(at[1], t) <= link_iface_search(at[1], x)
        /\ link_iface_search(at[1], t) <= link_iface_search(at[1], y)
    BY DEF link_iface
  <2>4. ents[x].ns = Root /\ ents[y].ns = Root
    BY <1>3, <2>2, <2>3
  <2>5. /\ x \in DOMAIN ents /\ ents[x].name = Iface(at).name /\ ~ ents[x].internal
        /\ y \in DOMAIN ents /\ ents[y].name = Iface(at).name /\ ~ ents[y].internal
    BY <1>2, <2>1
  <2>6. ents[x].name = ents[y].name /\ ents[x].ns = ents[y].ns
    BY <2>4, <2>5
  <2>. QED
    BY <2>5, <2>6, Zenon DEF IInv, EntriesOK
<1>7. ASSUME NEW t \in TruePorts(at), ents[t].attached = "slave" \/ t \in answered
      PROVE  t \in link_iface(at[1], Iface(at))
  <2>1. t \in C
    BY <1>7, TruePortCandidate
  <2>2. \A c \in C : link_iface_search(at[1], c) <= link_iface_search(at[1], t)
    BY <1>3, <1>4
  <2>. QED
    BY <2>1, <2>2 DEF link_iface
<1>. QED
  BY <1>6, <1>7

\* An interface that is the only best candidate is a port, or the code could
\* not know better.
LEMMA HomePort ==
    ASSUME IInv, phase = "link", NEW at \in Places, ~ Passed(at), AtHome(at),
           NEW e, link_iface(at[1], Iface(at)) = {e}, ~ Mistakable(at, e), ~ QueryFailed(at)
    PROVE  IsPort(e)
<1>. SUFFICES ASSUME ~ IsPort(e) PROVE FALSE
  OBVIOUS
<1>1. /\ db[at[1]].dp = "system" /\ found[SystemIface(at[1])] # 0 /\ at[2] \notin System(at[1])
      /\ ents[found[SystemIface(at[1])]].ns = Root /\ Inside(at[1])
  BY DEF AtHome, Inside
<1>2. e \in Candidates(at[1], Iface(at)) /\ e \in DOMAIN ents
  BY DEF link_iface, Candidates
<1>3. ents[e].name = Iface(at).name /\ ~ ents[e].internal /\ Connected(at[1], e)
  <2>1. Connected(at[1], e)
    BY <1>1, <1>2 DEF Candidates
  <2>. QED
    BY <1>1, <1>2, <2>1, CandidateFacts
<1>4. \A c : link_iface_search(at[1], c) = IF ents[c].ns = Root THEN 2 ELSE 1
  BY HomeWeight
<1>5. ents[e].master # OvsSystem
  <2>. SUFFICES ASSUME ents[e].master = OvsSystem PROVE FALSE
    OBVIOUS
  <2>1. ents[e].attached \in {"slave", "foreign"}
    BY <1>2 DEF IInv, OwnersOK, OvsSystem
  <2>. QED
    BY <2>1 DEF IsPort, Attached, Mistakable
<1>6. <<Root, Iface(at).name>> \in vports
  BY <1>1, <1>3, <1>5 DEF Connected, check_vport
<1>7. PICK t \in TruePorts(at) : ents[t].ns = Root \/ ents[e].ns # Root
  BY <1>6 DEF Mistakable
<1>8. t \in Candidates(at[1], Iface(at))
  <2>1. ents[t].attached = "slave" \/ t \in answered
    BY DEF TruePorts, IsPort, Attached, QueryFailed
  <2>. QED
    BY <2>1, TruePortCandidate
<1>9. link_iface_search(at[1], e) <= link_iface_search(at[1], t)
  BY <1>4, <1>7
<1>10. \A c \in Candidates(at[1], Iface(at)) : link_iface_search(at[1], c) <= link_iface_search(at[1], t)
  <2>1. \A c \in Candidates(at[1], Iface(at)) : link_iface_search(at[1], c) <= link_iface_search(at[1], e)
    BY DEF link_iface
  <2>2. \A c : link_iface_search(at[1], c) \in {1, 2}
    BY <1>4
  <2>. QED
    BY <1>9, <2>1, <2>2
<1>11. t \in link_iface(at[1], Iface(at))
  BY <1>8, <1>10 DEF link_iface
<1>12. IsPort(t)
  BY DEF TruePorts
<1>. QED
  BY <1>11, <1>12

-----------------------------------------------------------------------------
(* Linking an interface of a port *)

\* After an interface, that is passed and no other.
LEMMA PassedIface ==
    ASSUME db \in Databases, NEW at \in Places, at[2] \notin System(at[1])
    PROVE  /\ ~ PassedAt(at, at)
           /\ \A bt \in Places : PassedAt(After(at[1], at[2], at[3]), bt) <=> PassedAt(at, bt) \/ bt = at
<1>1. PICK b : b = at[1]
  OBVIOUS
<1>2. PICK p : p = at[2]
  OBVIOUS
<1>3. PICK i : i = at[3]
  OBVIOUS
<1>4. /\ at = <<b, p, i>> /\ b \in DOMAIN db /\ p \in DOMAIN db[b].ports \ System(b)
      /\ b \in Nat /\ p \in Nat /\ i \in Nat /\ p # 0
  BY <1>1, <1>2, <1>3, PlaceFacts
<1>5. ASSUME NEW bt \in Places
      PROVE  PassedAt(<<b, p, i>>, bt) <=>
                bt[1] < b \/ (bt[1] = b /\ (bt[2] \in System(b) \/ bt[2] < p \/ (bt[2] = p /\ bt[3] < i)))
  <2>1. bt[1] \in Nat /\ bt[2] \in Nat /\ bt[3] \in Nat
    BY PlaceFacts
  <2>2. bt[1] = b /\ bt[2] \in System(b) => ~(bt[1] < b)
    BY <1>4, <2>1
  <2>. QED
    BY <1>4, <2>1 DEF PassedAt
<1>6. ~ PassedAt(at, at)
  <2>1. PassedAt(<<b, p, i>>, at) <=>
           at[1] < b \/ (at[1] = b /\ (at[2] \in System(b) \/ at[2] < p \/ (at[2] = p /\ at[3] < i)))
    BY <1>5
  <2>. QED
    BY <1>1, <1>2, <1>3, <1>4, <2>1
<1>7. ASSUME NEW bt \in Places
      PROVE  PassedAt(After(b, p, i), bt) <=> PassedAt(<<b, p, i>>, bt) \/ bt = at
  <2>1. PassedAt(After(b, p, i), bt) <=> PassedAt(<<b, p, i>>, bt)
           \/ (bt[1] = b /\ bt[2] = p /\ bt[3] <= i) \/ (bt[1] = b /\ bt[2] \in System(b))
    BY <1>4, PassedAfter
  <2>2. bt = <<bt[1], bt[2], bt[3]>> /\ bt[3] \in Nat
    BY PlaceFacts
  <2>3. bt = at <=> bt[1] = b /\ bt[2] = p /\ bt[3] = i
    BY <1>1, <1>2, <1>3, <1>4, <2>2
  <2>4. (bt[1] = b /\ bt[2] = p /\ bt[3] <= i) <=> (bt[1] = b /\ bt[2] = p /\ bt[3] < i) \/ bt = at
    BY <1>4, <2>2, <2>3
  <2>. QED
    BY <1>5, <2>1, <2>4
<1>. QED
  BY <1>1, <1>2, <1>3, <1>4, <1>6, <1>7

\* Where the linking is when it comes to an interface
LEMMA IfaceAt ==
    ASSUME IInv, NEW at \in Places, Linking(at[1], at[2], at[3])
    PROVE  /\ phase = "link" /\ pos = at /\ at[2] \notin System(at[1]) /\ ~ Passed(at)
           /\ Inside(at[1]) /\ MasterOK(at[1]) /\ at[2] # 0 /\ at[3] # 0
           /\ at[1] \in DOMAIN db /\ at[2] \in DOMAIN db[at[1]].ports \ System(at[1])
<1>1. pos = at /\ phase = "link"
  BY PlaceFacts DEF Linking, IInv
<1>2. at[2] # 0 /\ at[3] # 0
  <2>1. at[2] \in Nat /\ at[3] \in Nat /\ at[2] >= 1 /\ at[3] >= 1
    BY PlaceFacts DEF IInv
  <2>. QED
    BY <2>1
<1>3. /\ at[1] \in DOMAIN db /\ at[2] \in DOMAIN db[at[1]].ports \ System(at[1])
      /\ Inside(at[1]) /\ MasterOK(at[1])
  BY <1>1, <1>2 DEF IInv, PosOK
<1>4. ~ Passed(at)
  BY <1>1, <1>3, PassedIface DEF Passed, IInv
<1>. QED
  BY <1>1, <1>2, <1>3, <1>4

\* The master within a bridge is an entry, above the main one's number 0.
LEMMA MasterFacts ==
    ASSUME IInv, NEW b \in DOMAIN db, Inside(b), MasterOK(b)
    PROVE  /\ master \in 1..Len(ents) /\ master > 0
           /\ found[SystemIface(b)] \in 1..Len(ents) /\ SystemIface(b) \in Places
<1>1. DOMAIN ents = 1..Len(ents) /\ Len(ents) \in Nat
  BY EntryTypes DEF IInv, EntriesOK
<1>2. SystemIface(b) \in Places /\ found[SystemIface(b)] # 0
  BY SystemPlace DEF IInv, Inside
<1>3. found[SystemIface(b)] \in DOMAIN ents
  BY <1>2 DEF IInv, FoundOK
<1>4. master \in DOMAIN ents
  BY DEF MasterOK
<1>. QED
  BY <1>1, <1>2, <1>3, <1>4

\* The master stays one when other entries are joined.
LEMMA MasterKept ==
    ASSUME IInv, LinkStep, NEW at \in Places, Reached(at), Inside(at[1]), MasterOK(at[1]), master' = master
    PROVE  MasterOK(at[1])'
<1>1. PICK b : b = at[1] /\ b \in DOMAIN db
  BY PlaceFacts DEF IInv
<1>2. PICK s : s = found[SystemIface(b)]
  OBVIOUS
<1>3. found'[SystemIface(b)] = s /\ SystemIface(b)' = SystemIface(b)
  BY <1>1, <1>2, PastHome, SameDb DEF LinkStep
<1>4. master \in 1..Len(ents) /\ (master = s \/ (ents[master].internal /\ ents[master].master = s))
  BY <1>1, <1>2, MasterFacts DEF MasterOK
<1>5. master \in DOMAIN ents' /\ ents'[master].internal = ents[master].internal
  <2>1. ents \in Seq(Entry) /\ Grown(ents, ents')
    BY DEF IInv, EntriesOK, LinkStep
  <2>. QED
    BY <1>4, <2>1, GrownFacts
<1>6. ents[master].internal => ents'[master].master = ents[master].master
  <2>1. \A x \in 1..Len(ents) : ents'[x].master = ents[x].master \/ ~ ents[x].internal
    BY DEF LinkStep
  <2>. QED
    BY <1>4, <2>1
<1>. QED
  BY <1>1, <1>3, <1>4, <1>5, <1>6 DEF MasterOK

\* The place behind an interface is in order.
LEMMA AfterPos ==
    ASSUME IInv, LinkStep, NEW b \in DOMAIN db, NEW p \in DOMAIN db[b].ports \ System(b),
           Inside(b)', MasterOK(b)', NEW i \in Nat, pos' = After(b, p, i), phase' \notin Before
    PROVE  PosOK'
<1>1. b \in Nat /\ b >= 1 /\ p \in Nat /\ p # 0
  BY DbFacts DEF IInv
<1>2. db' = db /\ Places' = Places /\ \A c : System(c)' = System(c)
  BY SameDb DEF LinkStep
<1>3. CASE pos' = <<b, p, i + 1>> /\ i < Len(db[b].ports[p].ifaces)
  <2>1. <<b, p, i + 1>> \in Places
    <3>1. /\ Len(db[b].ports[p].ifaces) \in Nat
          /\ DOMAIN db[b].ports[p].ifaces = 1..Len(db[b].ports[p].ifaces)
      BY <1>1, DbFacts DEF IInv
    <3>2. i + 1 \in DOMAIN db[b].ports[p].ifaces
      BY <1>3, <3>1
    <3>. QED
      BY <1>1, <3>2, PlaceFacts DEF IInv
  <2>2. pos'[1] = b /\ pos'[2] = p /\ pos'[3] = i + 1 /\ pos' \in Nat \X Nat \X Nat
    BY <1>1, <1>3
  <2>. QED
    BY <1>1, <1>2, <1>3, <2>1, <2>2 DEF PosOK
<1>4. CASE pos' = <<b + 1, 0, 0>>
  BY <1>1, <1>4 DEF PosOK
<1>5. CASE \E r \in DOMAIN db[b].ports \ System(b) : pos' = <<b, r, 0>>
  <2>1. PICK r \in DOMAIN db[b].ports \ System(b) : pos' = <<b, r, 0>>
    BY <1>5
  <2>2. r \in Nat
    BY <1>1, DbFacts DEF IInv
  <2>3. pos'[1] = b /\ pos'[2] = r /\ pos'[3] = 0 /\ pos' \in Nat \X Nat \X Nat
    BY <1>1, <2>1, <2>2
  <2>. QED
    BY <1>1, <1>2, <2>1, <2>3 DEF PosOK
<1>6. i < Len(db[b].ports[p].ifaces) => pos' = <<b, p, i + 1>>
  BY DEF After
<1>7. ~(i < Len(db[b].ports[p].ifaces)) => pos' = NextPort(b, p)
  BY DEF After
<1>8. NextPort(b, p) = <<b + 1, 0, 0>> \/ \E r \in DOMAIN db[b].ports \ System(b) : NextPort(b, p) = <<b, r, 0>>
  BY <1>1, NextPortFacts DEF IInv
<1>. QED
  BY <1>3, <1>4, <1>5, <1>6, <1>7, <1>8

\* Linking an interface is a step of the common kind, and passes its place.
LEMMA IfaceIsLinkStep ==
    ASSUME IInv, NEW at \in Places, LinkIface(at[1], at[2], at[3]), NEW e, IfaceEffect(at, e)
    PROVE  /\ LinkStep
           /\ \A bt \in Places : Passed(bt)' <=> Passed(bt) \/ bt = at
           /\ ents'[e].master = master /\ master > 0
           /\ e \in 1..Len(ents) => e \in Candidates(at[1], Iface(at)) /\ ~ ents[e].internal /\ ents[e].master <= 0
<1>1. /\ phase = "link" /\ pos = at /\ at[2] \notin System(at[1]) /\ ~ Passed(at)
      /\ Inside(at[1]) /\ MasterOK(at[1]) /\ at[1] \in DOMAIN db
  BY IfaceAt DEF LinkIface
<1>2. /\ UNCHANGED <<db, vports, answered, asked>> /\ pos' = After(at[1], at[2], at[3])
  BY DEF LinkIface, LinkVars
<1>3. /\ Grown(ents, ents') /\ found' = [found EXCEPT ![at] = e]
      /\ e \in 1..Len(ents') /\ ents'[e].name = Iface(at).name /\ ents'[e].master = master
      /\ \A y \in 1..Len(ents) : y # e => ents'[y].master = ents[y].master
      /\ \/ link_iface(at[1], Iface(at)) = {e} /\ Len(ents') = Len(ents)
         \/ link_iface(at[1], Iface(at)) = {} /\ e = Len(ents) + 1 /\ Len(ents') = e
      /\ ~ warned' => ~ warned
  BY DEF IfaceEffect
<1>4. master > 0
  BY <1>1, MasterFacts
<1>5. \A bt \in Places : Passed(bt)' <=> Passed(bt) \/ bt = at
  <2>1. \A bt : Passed(bt)' = PassedAt(pos', bt)
    BY <1>2, SameDb
  <2>. QED
    BY <1>1, <1>2, <2>1, PassedIface DEF Passed, IInv
<1>6. ents \in Seq(Entry) /\ Len(ents) \in Nat
  BY EntryTypes DEF IInv, EntriesOK
<1>7. ASSUME e \in 1..Len(ents)
      PROVE  e \in Candidates(at[1], Iface(at)) /\ ~ ents[e].internal /\ ents[e].master <= 0
  <2>1. link_iface(at[1], Iface(at)) = {e}
    BY <1>3, <1>6, <1>7
  <2>2. e \in Candidates(at[1], Iface(at))
    BY <1>6, <2>1, BestFacts
  <2>. QED
    BY <1>1, <2>2, CandidateFacts
<1>8. \A x \in 1..Len(ents) :
         \/ ents'[x].master = ents[x].master
         \/ /\ ~ ents[x].internal /\ ents[x].master <= 0 /\ ents'[x].master > 0
            /\ JoinedNow(ents[x].name)
  <2>. SUFFICES ASSUME e \in 1..Len(ents) PROVE JoinedNow(ents[e].name)
    BY <1>3, <1>4, <1>7
  <2>1. ents[e].name = Iface(at).name
    BY <1>7 DEF Candidates
  <2>. QED
    BY <1>1, <1>5, <2>1 DEF JoinedNow
<1>9. \A x \in 1..Len(ents') : x > Len(ents) => ents'[x].master > 0 /\ OwnName(ents'[x].name)
  <2>. SUFFICES ASSUME NEW x \in 1..Len(ents'), x > Len(ents)
                PROVE  ents'[x].master > 0 /\ OwnName(ents'[x].name)
    OBVIOUS
  <2>1. x = e
    BY <1>3, <1>6
  <2>. QED
    BY <1>1, <1>3, <1>4, <2>1 DEF OwnName
<1>10. \A bt \in Places : Passed(bt) => Passed(bt)' /\ found'[bt] = found[bt]
  BY <1>1, <1>3, <1>5 DEF IInv, FoundOK
<1>11. warned => warned'
  BY <1>3, <1>2 DEF LinkIface
<1>. QED
  BY <1>2, <1>3, <1>4, <1>5, <1>7, <1>8, <1>9, <1>10, <1>11 DEF LinkStep

\* What it finds is of that name.
LEMMA FoundKept ==
    ASSUME IInv, phase = "link", LinkStep, NEW at, NEW e,
           found' = [found EXCEPT ![at] = e] \/ found' = found,
           found' # found => e \in Nat,
           found'[at] # found[at] /\ e # 0 =>
              /\ e \in DOMAIN ents' /\ ents'[e].name = Iface(at).name
              /\ at[2] \in System(at[1]) => ~ ents'[e].internal
              /\ Passed(at)' \/ (at = pos' /\ phase' \notin Before \union {"link"})
    PROVE  FoundOK'
<1>1. Places' = Places /\ (\A b : System(b)' = System(b)) /\ \A bt : Iface(bt)' = Iface(bt)
  BY SameDb DEF LinkStep
<1>2. found \in [Places -> Nat]
  BY DEF IInv, FoundOK
<1>3. /\ found' \in [Places -> Nat] /\ found'[at] \in {found[at], e}
      /\ \A bt \in Places : bt # at => found'[bt] = found[bt]
  BY <1>2
<1>4. ents \in Seq(Entry) /\ Grown(ents, ents')
  BY DEF IInv, EntriesOK, LinkStep
<1>5. ASSUME NEW bt \in Places, found'[bt] # 0
      PROVE  /\ found'[bt] \in DOMAIN ents'
             /\ ents'[found'[bt]].name = Iface(bt).name
             /\ bt[2] \in System(bt[1]) => ~ ents'[found'[bt]].internal
             /\ Passed(bt)' \/ (bt = pos' /\ phase' \notin Before \union {"link"})
  <2>1. CASE found'[bt] = found[bt]
    <3>1. PICK f : f = found[bt]
      OBVIOUS
    <3>2. /\ f \in DOMAIN ents /\ ents[f].name = Iface(bt).name
          /\ bt[2] \in System(bt[1]) => ~ ents[f].internal
          /\ Passed(bt)
      BY <1>5, <2>1, <3>1, Zenon DEF IInv, FoundOK
    <3>3. f \in DOMAIN ents' /\ ents'[f].name = ents[f].name /\ ents'[f].internal = ents[f].internal
      BY <1>4, <3>2, GrownFacts
    <3>4. Passed(bt)'
      BY <3>2 DEF LinkStep
    <3>. QED
      BY <2>1, <3>1, <3>2, <3>3, <3>4
  <2>2. CASE found'[bt] # found[bt]
    <3>1. bt = at /\ found'[at] = e
      BY <1>3, <2>2
    <3>. QED
      BY <1>5, <2>2, <3>1
  <2>. QED
    BY <2>1, <2>2
<1>. QED
  BY <1>1, <1>3, <1>5 DEF FoundOK

\* The pairs of patch ports stay peers when an interface is linked.
LEMMA IfacePeers ==
    ASSUME IInv, NEW at \in Places, LinkIface(at[1], at[2], at[3]), NEW e, IfaceEffect(at, e),
           LinkStep, FoundOK', DroppedOK', \A bt \in Places : Passed(bt)' <=> Passed(bt) \/ bt = at
    PROVE  PeersOK'
<1>. DEFINE f == Iface(at)
            S == PeersOf(ents', f)
<1>1. /\ Symmetric(ents') /\ found' = [found EXCEPT ![at] = e]
      /\ ents'[e].name = f.name
      /\ ~ warned' => ~ warned /\ \A x \in S : ents'[e].peer = x /\ ents'[x].peer = e
      /\ \A g \in 1..Len(ents) :
            (g \notin {e} \union S /\ ents[g].peer \notin {e} \union S) => ents'[g].peer = ents[g].peer
  BY DEF IfaceEffect
<1>2. /\ Places' = Places /\ (\A bt : Iface(bt)' = Iface(bt)) /\ \A bt, ct : Names(bt, ct)' = Names(bt, ct)
  BY SameDb DEF LinkStep
<1>3. ents \in Seq(Entry) /\ Grown(ents, ents') /\ DOMAIN ents = 1..Len(ents) /\ DOMAIN ents' = 1..Len(ents')
  BY GrownFacts DEF IInv, EntriesOK, LinkStep
<1>4. \A x, y \in Places : Iface(x).name = Iface(y).name => x = y
  BY UniqueNames DEF IInv
<1>. SUFFICES ASSUME ~ warned', NEW x \in Places, NEW y \in Places, Names(x, y), Names(y, x),
                     \A ct \in Places \ {x, y} : ~ Names(ct, x) /\ ~ Names(ct, y),
                     Passed(x)', Passed(y)', Created(Iface(x).name)', Created(Iface(y).name)'
              PROVE  ents'[found'[x]].peer = found'[y] /\ ents'[found'[y]].peer = found'[x]
  BY <1>1, <1>2 DEF PeersOK, Pair, Created
<1>5. ASSUME NEW z \in {x, y}
      PROVE  /\ found'[z] \in 1..Len(ents') /\ ents'[found'[z]].name = Iface(z).name /\ ents'[found'[z]].internal
             /\ found'[z] # 0
  <2>1. found'[z] # 0
    BY <1>2 DEF DroppedOK, NotDropped
  <2>2. found'[z] \in DOMAIN ents' /\ ents'[found'[z]].name = Iface(z).name
    BY <1>2, <2>1, Zenon DEF FoundOK
  <2>3. ents'[found'[z]].internal
    BY <1>2, <2>2 DEF Created
  <2>. QED
    BY <1>3, <2>1, <2>2, <2>3
<1>6. found \in [Places -> Nat]
  BY DEF IInv, FoundOK
<1>7. found'[at] = e
  BY <1>1, <1>6
<1>8. ASSUME x = at PROVE ents'[e].peer = found'[y] /\ ents'[found'[y]].peer = e
  <2>1. f.type = "patch" /\ f.peer = Iface(y).name
    BY <1>8 DEF Names
  <2>2. found'[y] \in S
    BY <1>5, <2>1 DEF PeersOf
  <2>. QED
    BY <1>1, <2>2
<1>9. ASSUME y = at PROVE ents'[e].peer = found'[x] /\ ents'[found'[x]].peer = e
  <2>1. f.type = "patch" /\ f.peer = Iface(x).name
    BY <1>9 DEF Names
  <2>2. found'[x] \in S
    BY <1>5, <2>1 DEF PeersOf
  <2>. QED
    BY <1>1, <2>2
<1>10. ASSUME x # at, y # at
       PROVE  ents'[found'[x]].peer = found'[y] /\ ents'[found'[y]].peer = found'[x]
  <2>1. Passed(x) /\ Passed(y) /\ found'[x] = found[x] /\ found'[y] = found[y]
    BY <1>1, <1>6, <1>10
  <2>2. ASSUME NEW z \in {x, y} PROVE found[z] \in 1..Len(ents) /\ found[z] \notin {e} \union S
    <3>1. found[z] # 0 /\ found'[z] = found[z]
      BY <1>5, <2>1
    <3>2. found[z] \in 1..Len(ents)
      BY <1>3, <3>1 DEF IInv, FoundOK
    <3>3. found[z] # e
      <4>1. found[z] = e => Iface(z).name = f.name
        BY <1>1, <1>5, <3>1
      <4>2. Iface(z).name = f.name => z = at
        BY <1>4
      <4>. QED
        BY <1>10, <4>1, <4>2
    <3>4. found[z] \notin S
      <4>1. found[z] \in S => f.type = "patch" /\ Iface(z).name = f.peer
        BY <1>5, <3>1 DEF PeersOf
      <4>2. ~ Names(at, z)
        BY <1>10
      <4>. QED
        BY <4>1, <4>2 DEF Names
    <3>. QED
      BY <3>2, <3>3, <3>4
  <2>3. Created(Iface(x).name) /\ Created(Iface(y).name)
    <3>1. ASSUME NEW n, \A g \in DOMAIN ents' : ents'[g].name = n => ents'[g].internal,
                 NEW g \in DOMAIN ents, ents[g].name = n
          PROVE  ents[g].internal
      <4>1. g \in DOMAIN ents' /\ ents'[g].name = ents[g].name /\ ents'[g].internal = ents[g].internal
        BY <1>3, GrownFacts
      <4>. QED
        BY <3>1, <4>1
    <3>2. /\ \A g \in DOMAIN ents' : ents'[g].name = Iface(x).name => ents'[g].internal
          /\ \A g \in DOMAIN ents' : ents'[g].name = Iface(y).name => ents'[g].internal
      BY <1>2 DEF Created
    <3>. QED
      BY <3>1, <3>2 DEF Created
  <2>4. ents[found[x]].peer = found[y] /\ ents[found[y]].peer = found[x]
    <3>1. ~ warned /\ Pair(x, y)
      BY <1>1 DEF Pair
    <3>. QED
      BY <2>1, <2>3, <3>1 DEF IInv, PeersOK
  <2>5. PICK g : g = found[x]
    OBVIOUS
  <2>6. PICK h : h = found[y]
    OBVIOUS
  <2>7. ents'[g].peer = ents[g].peer /\ ents'[h].peer = ents[h].peer
    BY <1>1, <2>2, <2>4, <2>5, <2>6
  <2>. QED
    BY <2>1, <2>4, <2>5, <2>6, <2>7
<1>. QED
  BY <1>7, <1>8, <1>9, <1>10

\* The step of LinkIface
LEMMA IfaceKeeps ==
    ASSUME IInv, NEW at \in Places, LinkIface(at[1], at[2], at[3]) PROVE IInv'
<1>1. PICK e : IfaceEffect(at, e)
  BY LinkIfaceEffect
<1>2. /\ phase = "link" /\ pos = at /\ at[2] \notin System(at[1]) /\ ~ Passed(at) /\ at[2] # 0
      /\ Inside(at[1]) /\ MasterOK(at[1]) /\ at[1] \in DOMAIN db
      /\ at[2] \in DOMAIN db[at[1]].ports \ System(at[1])
  BY IfaceAt DEF LinkIface
<1>3. /\ LinkStep
      /\ \A bt \in Places : Passed(bt)' <=> Passed(bt) \/ bt = at
      /\ ents'[e].master = master /\ master > 0
      /\ e \in 1..Len(ents) => e \in Candidates(at[1], Iface(at)) /\ ~ ents[e].internal /\ ents[e].master <= 0
  BY <1>1, IfaceIsLinkStep
<1>4. /\ phase' = phase /\ master' = master /\ br_list' = br_list /\ db' = db /\ asked' = asked /\ answered' = answered
      /\ pos' = After(at[1], at[2], at[3]) /\ warned' \in BOOLEAN
  BY DEF LinkIface, LinkVars
<1>5. /\ found' = [found EXCEPT ![at] = e] /\ e \in 1..Len(ents') /\ ents'[e].name = Iface(at).name
      /\ \/ link_iface(at[1], Iface(at)) = {e} /\ Len(ents') = Len(ents)
         \/ link_iface(at[1], Iface(at)) = {} /\ e = Len(ents) + 1 /\ Len(ents') = e
  BY <1>1 DEF IfaceEffect
<1>6. /\ found \in [Places -> Nat] /\ ents \in Seq(Entry) /\ Grown(ents, ents') /\ Len(ents) \in Nat
      /\ DOMAIN ents = 1..Len(ents) /\ DOMAIN ents' = 1..Len(ents') /\ Len(ents') \in Nat
  BY <1>3, GrownFacts DEF IInv, FoundOK, EntriesOK, LinkStep
<1>7. found'[at] = e /\ (\A bt \in Places : bt # at => found'[bt] = found[bt]) /\ e # 0 /\ e \in Nat
  <2>1. PICK k \in Nat : k = Len(ents')
    BY <1>6
  <2>2. e \in 1..k
    BY <1>5, <2>1
  <2>3. e # 0 /\ e \in Nat
    BY <2>2
  <2>. QED
    BY <1>5, <1>6, <2>3
<1>8. Reached(at)
  BY <1>2 DEF Reached
<1>9. /\ AtHome(at)' <=> AtHome(at)
      /\ Inside(at[1])' /\ found'[SystemIface(at[1])] = found[SystemIface(at[1])]
  BY <1>2, <1>3, <1>8, PastHome
<1>10. MasterOK(at[1])'
  BY <1>2, <1>3, <1>4, <1>8, MasterKept
<1>11. (\A b : System(b)' = System(b) /\ SystemIface(b)' = SystemIface(b)) /\ \A bt : Iface(bt)' = Iface(bt)
  BY <1>4, SameDb
<1>12. NotDropped(at)'
  <2>1. Below(at)'
    BY <1>3, <1>4, <1>7, <1>10, <1>11 DEF Below, MasterOK
  <2>. QED
    BY <1>7, <1>9, <2>1 DEF NotDropped
<1>13. (PortsAtHome /\ AtHome(at)') => Recognised(at)'
  <2>. SUFFICES ASSUME PortsAtHome', AtHome(at)' PROVE Recognised(at)'
    BY <1>3, PortsKept
  <2>1. PortsAtHome /\ AtHome(at) /\ TruePorts(at)' = TruePorts(at) /\ TruePorts(at) \subseteq DOMAIN ents
    BY <1>3, <1>9, PortsKept
  <2>2. ASSUME NEW t \in TruePorts(at), ents'[t].attached = "slave" \/ t \in answered PROVE e = t
    <3>1. ents'[t].attached = ents[t].attached
      BY <1>6, <2>1, GrownFacts
    <3>2. t \in link_iface(at[1], Iface(at))
      BY <1>2, <2>1, <2>2, <3>1, HomeBest
    <3>. QED
      BY <1>5, <3>2
  <2>3. Joined(e)'
    BY <1>3 DEF Joined
  <2>. QED
    BY <1>4, <1>7, <2>1, <2>2, <2>3 DEF Recognised
<1>14. NotFalse(at)'
  <2>. SUFFICES ASSUME AtHome(at)', ~ Mistakable(at, e)', ~ QueryFailed(at)', ~ ents'[e].internal
                PROVE  IsPort(e)'
    <3>1. e' = e
      OBVIOUS
    <3>. QED
      BY <1>7 DEF NotFalse, Mistakable, IsPort
  <2>1. e \in DOMAIN ents
    BY <1>6, <1>5, GrownFacts
  <2>2. AtHome(at) /\ ~ Mistakable(at, e) /\ ~ QueryFailed(at)
    BY <1>3, <1>9, <2>1, PortsKept
  <2>3. link_iface(at[1], Iface(at)) = {e}
    <3>1. PICK n \in Nat : n = Len(ents)
      BY <1>6
    <3>2. e \in 1..n
      BY <1>6, <2>1, <3>1
    <3>3. e # n + 1
      BY <3>1, <3>2
    <3>. QED
      BY <1>5, <3>1, <3>3
  <2>4. IsPort(e)
    BY <1>2, <2>2, <2>3, HomePort
  <2>. QED
    BY <1>3, <2>1, <2>4, PortsKept
<1>15. ASSUME NEW bt \in Places, ~ Passed(bt) PROVE NotFalse(bt)'
  <2>1. CASE bt = at
    BY <1>14, <2>1
  <2>2. CASE bt # at
    <3>1. found[bt] = 0
      BY <1>2, <1>15 DEF IInv, FoundOK
    <3>2. found'[bt] = 0
      BY <1>7, <2>2, <3>1
    <3>. QED
      BY <3>2 DEF NotFalse
  <2>. QED
    BY <2>1, <2>2
<1>16. phase' \notin Done /\ phase' \notin Before
  BY <1>2, <1>4 DEF Done, Before
<1>17. EntriesOK' /\ OwnersOK' /\ DroppedOK' /\ FalsePortOK' /\ PortsOK'
  <2>1. \A bt \in Places : (~ Passed(bt) /\ Passed(bt)') =>
           (~ warned' => NotDropped(bt)') /\ ((PortsAtHome /\ AtHome(bt)') => Recognised(bt)')
    BY <1>3, <1>12, <1>13
  <2>. QED
    BY <1>3, <1>15, <1>16, <2>1, LinkKeeps
<1>18. FoundOK'
  BY <1>2, <1>3, <1>5, <1>6, <1>7, FoundKept
<1>19. PosOK'
  <2>1. at[3] \in Nat
    BY PlaceFacts DEF IInv
  <2>. QED
    BY <1>2, <1>3, <1>4, <1>9, <1>10, <1>16, <2>1, AfterPos
<1>20. PhaseOK'
  BY <1>2, <1>4, <1>16 DEF IInv, PhaseOK
<1>21. PeersOK'
  BY <1>1, <1>3, <1>17, <1>18, IfacePeers
<1>. QED
  BY <1>4, <1>17, <1>18, <1>19, <1>20, <1>21 DEF IInv

-----------------------------------------------------------------------------
(* The other steps of the linking *)

\* The next bridge begins at its main interface.
LEMMA NextBridgePos ==
    ASSUME LinkStep, NEW b \in Nat, pos' = <<b + 1, 0, 0>>, phase' \notin Before PROVE PosOK'
<1>1. pos'[1] = b + 1 /\ pos'[2] = 0 /\ pos'[3] = 0 /\ pos' \in Nat \X Nat \X Nat /\ b + 1 >= 1
  OBVIOUS
<1>. QED
  BY <1>1 DEF PosOK

\* At the beginning of a bridge the bridges before it are passed, and at its
\* end it is, too.
LEMMA PassedBridge ==
    ASSUME db \in Databases, NEW b \in Nat
    PROVE  /\ \A at \in Places : PassedAt(<<b, 0, 0>>, at) <=> at[1] < b
           /\ \A at \in Places : PassedAt(<<b + 1, 0, 0>>, at) <=> at[1] <= b
<1>. SUFFICES ASSUME NEW at \in Places
              PROVE  /\ PassedAt(<<b, 0, 0>>, at) <=> at[1] < b
                     /\ PassedAt(<<b + 1, 0, 0>>, at) <=> at[1] <= b
  OBVIOUS
<1>1. at[1] \in Nat /\ at[2] \in Nat /\ at[3] \in Nat /\ at[2] >= 1
  BY PlaceFacts
<1>. QED
  BY <1>1 DEF PassedAt

\* Peers stay peers when the step sets none and passes no patch port.
LEMMA PeersSame ==
    ASSUME IInv, LinkStep, Peers(ents, ents'), \A x \in 1..Len(ents') : x > Len(ents) => ents'[x].peer = 0,
           ~ warned' => \A at \in Places : (Passed(at)' /\ Created(Iface(at).name)') => Passed(at)
    PROVE  PeersOK'
<1>1. ents \in Seq(Entry) /\ Grown(ents, ents') /\ Symmetric(ents) /\ DOMAIN ents = 1..Len(ents)
  BY EntryTypes DEF IInv, EntriesOK, LinkStep, PeersOK
<1>2. Symmetric(ents')
  BY <1>1, GrownSymmetric
<1>3. /\ Places' = Places /\ (\A bt : Iface(bt)' = Iface(bt)) /\ \A bt, ct : Names(bt, ct)' = Names(bt, ct)
  BY SameDb DEF LinkStep
<1>. SUFFICES ASSUME ~ warned', NEW x \in Places, NEW y \in Places, Pair(x, y),
                     Passed(x)', Passed(y)', Created(Iface(x).name)', Created(Iface(y).name)'
              PROVE  ents'[found'[x]].peer = found'[y] /\ ents'[found'[y]].peer = found'[x]
  BY <1>2, <1>3 DEF PeersOK, Pair, Created
<1>4. Passed(x) /\ Passed(y) /\ ~ warned /\ found'[x] = found[x] /\ found'[y] = found[y]
  BY DEF LinkStep
<1>5. Created(Iface(x).name) /\ Created(Iface(y).name)
  <2>1. ASSUME NEW n, \A g \in DOMAIN ents' : ents'[g].name = n => ents'[g].internal,
               NEW g \in DOMAIN ents, ents[g].name = n
        PROVE  ents[g].internal
    <3>1. g \in DOMAIN ents' /\ ents'[g].name = ents[g].name /\ ents'[g].internal = ents[g].internal
      BY <1>1, GrownFacts
    <3>. QED
      BY <2>1, <3>1
  <2>2. /\ \A g \in DOMAIN ents' : ents'[g].name = Iface(x).name => ents'[g].internal
        /\ \A g \in DOMAIN ents' : ents'[g].name = Iface(y).name => ents'[g].internal
    BY <1>3 DEF Created
  <2>. QED
    BY <2>1, <2>2 DEF Created
<1>6. ents[found[x]].peer = found[y] /\ ents[found[y]].peer = found[x]
  BY <1>4, <1>5 DEF IInv, PeersOK
<1>7. ASSUME NEW z \in {x, y} PROVE found[z] \in 1..Len(ents)
  <2>1. found[z] # 0
    BY <1>4 DEF IInv, DroppedOK, NotDropped
  <2>. QED
    BY <1>1, <2>1 DEF IInv, FoundOK
<1>8. PICK g : g = found[x]
  OBVIOUS
<1>9. PICK h : h = found[y]
  OBVIOUS
<1>10. ents'[g].peer = ents[g].peer /\ ents'[h].peer = ents[h].peer
  BY <1>7, <1>8, <1>9 DEF Peers
<1>. QED
  BY <1>4, <1>6, <1>8, <1>9, <1>10

\* A step that leaves the entries alike and joins none is of the common kind.
LEMMA AlikeIsLinkStep ==
    ASSUME IInv, UNCHANGED <<db, vports, answered, asked>>, Alike(ents, ents'), Masters(ents, ents'),
           \A at \in Places : Passed(at) => Passed(at)' /\ found'[at] = found[at],
           warned => warned'
    PROVE  LinkStep /\ \A x \in 1..Len(ents') : x > Len(ents) => ents'[x].peer = 0
<1>1. ents \in Seq(Entry) /\ Len(ents) \in Nat
  BY EntryTypes DEF IInv, EntriesOK
<1>2. Grown(ents, ents') /\ Len(ents') = Len(ents)
  BY <1>1, AlikeGrown DEF Alike
<1>3. \A x \in 1..Len(ents') : ~(x > Len(ents))
  BY <1>1, <1>2
<1>. QED
  BY <1>2, <1>3 DEF LinkStep, Masters

\* The step of SkipBridge
LEMMA SkipKeeps ==
    ASSUME IInv, NEW b \in DOMAIN db, SkipBridge(b) PROVE IInv'
<1>1. /\ phase = "link" /\ pos = <<b, 0, 0>> /\ warned' = TRUE /\ pos' = <<b + 1, 0, 0>>
      /\ UNCHANGED <<db, vports, answered, br_list, asked, out, ents, found, master, phase>>
      /\ \A p \in System(b) : Len(db[b].ports[p].ifaces) # 1
  BY DEF SkipBridge, Linking, LinkVars
<1>2. b \in Nat
  BY DbFacts DEF IInv
<1>3. \A at \in Places : (Passed(at) <=> at[1] < b) /\ (Passed(at)' <=> at[1] <= b) /\ at[1] \in Nat
  BY <1>1, <1>2, PassedBridge, SameDb, PlaceFacts DEF IInv, Passed
<1>4. \A at \in Places : Passed(at) => Passed(at)' /\ found'[at] = found[at]
  BY <1>1, <1>2, <1>3
<1>5. Alike(ents, ents') /\ Masters(ents, ents') /\ Peers(ents, ents')
  BY <1>1, AlikeSelf DEF IInv, EntriesOK
<1>6. LinkStep /\ \A x \in 1..Len(ents') : x > Len(ents) => ents'[x].peer = 0
  BY <1>1, <1>4, <1>5, AlikeIsLinkStep
<1>7. ASSUME NEW at \in Places, ~ Passed(at), Passed(at)' PROVE ~ AtHome(at)'
  <2>1. at[1] = b
    BY <1>2, <1>3, <1>7
  <2>2. ~(System(b) # {} /\ Placed(b))
    BY <1>1 DEF Placed
  <2>. QED
    BY <1>1, <2>1, <2>2, SameDb DEF AtHome, Placed
<1>8. ASSUME NEW at \in Places, ~ Passed(at) PROVE NotFalse(at)'
  <2>1. found'[at] = 0
    BY <1>1, <1>8 DEF IInv, FoundOK
  <2>. QED
    BY <2>1 DEF NotFalse
<1>9. phase' \notin Done /\ phase' \notin Before /\ warned'
  BY <1>1 DEF Done, Before
<1>10. EntriesOK' /\ OwnersOK' /\ DroppedOK' /\ FalsePortOK' /\ PortsOK'
  BY <1>6, <1>7, <1>8, <1>9, LinkKeeps
<1>11. FoundOK'
  BY <1>1, <1>6, FoundKept
<1>12. PosOK'
  BY <1>1, <1>2, <1>6, <1>9, NextBridgePos
<1>13. PhaseOK'
  BY <1>1, <1>9 DEF IInv, PhaseOK
<1>14. PeersOK'
  BY <1>5, <1>6, <1>9, PeersSame
<1>. QED
  BY <1>1, <1>10, <1>11, <1>12, <1>13, <1>14 DEF IInv

\* The step of LinkPort
LEMMA PortKeeps ==
    ASSUME IInv, NEW b \in DOMAIN db, NEW p \in DOMAIN db[b].ports, LinkPort(b, p) PROVE IInv'
<1>. DEFINE sys == found[SystemIface(b)]
            name == db[b].ports[p].name
            x == [create_iface(name, b) EXCEPT !.master = sys]
<1>1. /\ phase = "link" /\ pos = <<b, p, 0>> /\ p # 0 /\ pos' = After(b, p, 0)
      /\ UNCHANGED <<db, vports, answered, br_list, asked, out, found, warned, phase>>
      /\ \/ master' = sys /\ ents' = ents
         \/ ents' = Append(ents, x) /\ master' = Len(ents) + 1
  BY DEF LinkPort, Linking, LinkVars
<1>2. b \in Nat /\ p \in DOMAIN db[b].ports \ System(b) /\ Inside(b) /\ name \in STRING /\ p \in Nat
  BY <1>1, DbFacts DEF IInv, PosOK
<1>3. /\ SystemIface(b) \in Places /\ SystemIface(b)[1] = b /\ SystemIface(b)[2] \in System(b)
  BY <1>2, SystemPlace DEF IInv, Inside
<1>4. ents \in Seq(Entry) /\ Len(ents) \in Nat /\ DOMAIN ents = 1..Len(ents)
  BY EntryTypes DEF IInv, EntriesOK
<1>5. sys # 0 /\ sys \in 1..Len(ents)
  BY <1>2, <1>3, <1>4 DEF IInv, FoundOK, Inside
<1>. HIDE DEF sys
<1>6. \A at \in Places : Passed(at)' <=> Passed(at)
  <2>1. ASSUME NEW at \in Places
        PROVE  PassedAt(After(b, p, 0), at) <=> PassedAt(<<b, p, 0>>, at)
    <3>1. PassedAt(After(b, p, 0), at) <=> PassedAt(<<b, p, 0>>, at)
             \/ (at[1] = b /\ at[2] = p /\ at[3] <= 0) \/ (at[1] = b /\ at[2] \in System(b))
      BY <1>2, PassedAfter DEF IInv
    <3>2. at[3] \in Nat /\ at[3] >= 1
      BY PlaceFacts DEF IInv
    <3>3. at[1] = b /\ at[2] \in System(b) => PassedAt(<<b, p, 0>>, at)
      BY <1>1 DEF PassedAt
    <3>. QED
      BY <3>1, <3>2, <3>3
  <2>. QED
    BY <1>1, <2>1, SameDb DEF Passed
<1>7. /\ LinkStep /\ Peers(ents, ents') /\ \A y \in 1..Len(ents') : y > Len(ents) => ents'[y].peer = 0
      /\ master' \in DOMAIN ents'
      /\ master' = sys \/ (ents'[master'].internal /\ ents'[master'].master = sys)
  <2>1. CASE master' = sys /\ ents' = ents
    <3>1. Alike(ents, ents') /\ Masters(ents, ents') /\ Peers(ents, ents')
      BY <1>4, <2>1, AlikeSelf
    <3>2. LinkStep /\ \A y \in 1..Len(ents') : y > Len(ents) => ents'[y].peer = 0
      BY <1>1, <1>6, <3>1, AlikeIsLinkStep
    <3>. QED
      BY <1>4, <1>5, <2>1, <3>1, <3>2
  <2>2. CASE ents' = Append(ents, x) /\ master' = Len(ents) + 1
    <3>1. x = Owned(create_iface(name, b), sys) /\ sys \in Int
      BY <1>5 DEF Owned
    <3>. HIDE DEF name, x
    <3>2. /\ x \in Entry /\ x.name = name /\ x.internal /\ ByHandler(x) /\ x.master = sys /\ x.peer = 0
      <4>1. b \in Nat /\ name \in STRING
        BY <1>2
      <4>2. PortEntry(x, name, sys)
        BY <3>1, <4>1, PortCreated
      <4>. QED
        BY <4>2 DEF PortEntry, ByHandler
    <3>3. Longer(ents, ents') /\ ents'[Len(ents')] = x
      BY <1>4, <2>2, <3>2, AppendFacts
    <3>4. Grown(ents, ents')
      BY <1>4, <3>2, <3>3, AppendGrown DEF Longer
    <3>5. PICK n \in Nat : n = Len(ents)
      BY <1>4
    <3>6. Len(ents') = n + 1 /\ ents' \in Seq(Entry) /\ \A y \in 1..n : ents'[y] = ents[y]
      BY <3>3, <3>5 DEF Longer
    <3>7. \A y \in 1..Len(ents') : y > Len(ents) => ents'[y] = x
      BY <3>3, <3>5, <3>6
    <3>8. Peers(ents, ents') /\ Masters(ents, ents')
      BY <3>5, <3>6 DEF Peers, Masters
    <3>9. OwnName(name)
      BY <1>2 DEF OwnName, name
    <3>10. LinkStep
      <4>1. \A y \in 1..Len(ents') : y > Len(ents) => ents'[y].master > 0 /\ OwnName(ents'[y].name)
        <5>1. sys > 0
          BY <1>4, <1>5
        <5>. QED
          BY <3>2, <3>7, <3>9, <5>1
      <4>. QED
        BY <1>1, <1>6, <3>4, <3>8, <4>1 DEF LinkStep, Masters
    <3>11. master' \in DOMAIN ents' /\ ents'[master'] = x
      <4>1. DOMAIN ents' = 1..(n + 1)
        BY <3>6
      <4>. QED
        BY <2>2, <3>3, <3>5, <3>6, <4>1
    <3>. QED
      BY <3>2, <3>7, <3>8, <3>10, <3>11
  <2>. QED
    BY <1>1, <2>1, <2>2
<1>8. Reached(SystemIface(b))
  BY <1>1, <1>3 DEF Reached
<1>9. Inside(b)' /\ found'[SystemIface(b)] = sys /\ SystemIface(b)' = SystemIface(b)
  BY <1>1, <1>2, <1>3, <1>7, <1>8, PastHome, SameDb DEF sys
<1>10. MasterOK(b)'
  BY <1>7, <1>9 DEF MasterOK
<1>11. phase' \notin Done /\ phase' \notin Before
  BY <1>1 DEF Done, Before
<1>12. PosOK'
  <2>1. 0 \in Nat
    OBVIOUS
  <2>. QED
    BY <1>1, <1>2, <1>7, <1>9, <1>10, <1>11, <2>1, AfterPos
<1>13. ASSUME NEW at \in Places, ~ Passed(at) PROVE NotFalse(at)'
  <2>1. found'[at] = 0
    BY <1>1, <1>13 DEF IInv, FoundOK
  <2>. QED
    BY <2>1 DEF NotFalse
<1>14. EntriesOK' /\ OwnersOK' /\ DroppedOK' /\ FalsePortOK' /\ PortsOK'
  BY <1>6, <1>7, <1>11, <1>13, LinkKeeps
<1>15. FoundOK'
  BY <1>1, <1>7, FoundKept
<1>16. PhaseOK'
  BY <1>1, <1>11 DEF IInv, PhaseOK
<1>17. PeersOK'
  BY <1>6, <1>7, PeersSame
<1>. QED
  BY <1>1, <1>12, <1>14, <1>15, <1>16, <1>17 DEF IInv

\* Main interfaces that could be the one of the datapath's own namespace are
\* not ambiguous there.
LEMMA MainBest ==
    ASSUME IInv, phase = "link", NEW b \in DOMAIN db, System(b) # {}, Placed(b), ~ Passed(SystemIface(b)),
           NEW e \in link_iface(b, Iface(SystemIface(b))), ents[e].ns = Root
    PROVE  \A x, y \in link_iface(b, Iface(SystemIface(b))) : x = y
<1>1. PICK at \in Places : at = SystemIface(b) /\ at[1] = b /\ at[2] \in System(b)
  BY SystemPlace DEF IInv
<1>2. found[at] = 0
  BY <1>1, Zenon DEF IInv, FoundOK, Before
<1>3. \A c : link_iface_search(b, c) = IF ents[c].ns = Root THEN 2 ELSE 1
  BY <1>1, <1>2 DEF link_iface_search
<1>4. \A c \in Candidates(b, Iface(at)) :
         c \in DOMAIN ents /\ ents[c].name = Iface(at).name /\ ~ ents[c].internal
  <2>1. \A c \in Candidates(b, Iface(at)) : c \in DOMAIN ents
    BY DEF Candidates
  <2>. QED
    BY <1>1, <2>1, CandidateFacts
<1>5. ASSUME NEW x \in link_iface(b, Iface(at)), NEW y \in link_iface(b, Iface(at)) PROVE x = y
  <2>1. x \in Candidates(b, Iface(at)) /\ y \in Candidates(b, Iface(at)) /\ e \in Candidates(b, Iface(at))
    BY <1>1 DEF link_iface
  <2>2. link_iface_search(b, e) <= link_iface_search(b, x) /\ link_iface_search(b, e) <= link_iface_search(b, y)
    BY <2>1 DEF link_iface
  <2>3. ents[x].ns = Root /\ ents[y].ns = Root
    BY <1>3, <2>2
  <2>4. /\ x \in DOMAIN ents /\ ents[x].name = Iface(at).name /\ ~ ents[x].internal
        /\ y \in DOMAIN ents /\ ents[y].name = Iface(at).name /\ ~ ents[y].internal
    BY <1>4, <2>1
  <2>5. ents[x].name = ents[y].name /\ ents[x].ns = ents[y].ns
    BY <2>3, <2>4
  <2>. QED
    BY <2>4, <2>5, Zenon DEF IInv, EntriesOK
<1>. QED
  BY <1>1, <1>5

\* The step of LinkBridge: S are the best candidates for the main interface at,
\* and e is the one that is taken.
LEMMA BridgeKeeps ==
    ASSUME IInv, NEW b \in DOMAIN db, LinkBridge(b) PROVE IInv'
<1>1. /\ phase = "link" /\ pos = <<b, 0, 0>>
      /\ UNCHANGED <<db, vports, answered, br_list, asked, out, master, phase>>
      /\ \E p \in System(b) : Len(db[b].ports[p].ifaces) = 1
  BY DEF LinkBridge, Linking, LinkVars
<1>2. b \in Nat /\ System(b) # {} /\ Placed(b)
  <2>1. PICK p \in System(b) : Len(db[b].ports[p].ifaces) = 1
    BY <1>1
  <2>2. System(b) = {p}
    BY OneSystem DEF IInv
  <2>3. b \in Nat
    BY DbFacts DEF IInv
  <2>. QED
    BY <2>1, <2>2, <2>3 DEF Placed
<1>3. PICK at \in Places :
         /\ at = SystemIface(b) /\ at[1] = b /\ at[2] \in System(b)
         /\ \A bt \in Places : bt[1] = b /\ bt[2] \in System(b) => bt = at
  BY <1>2, SystemPlace DEF IInv
<1>4. \A bt \in Places : (Passed(bt) <=> bt[1] < b) /\ bt[1] \in Nat /\ bt[2] \in Nat /\ bt[2] >= 1
  BY <1>1, <1>2, PassedBridge, PlaceFacts DEF IInv, Passed
<1>5. ~ Passed(at) /\ found[at] = 0
  <2>1. ~ Passed(at)
    BY <1>2, <1>3, <1>4
  <2>. QED
    BY <1>1, <2>1, Zenon DEF IInv, FoundOK, Before
<1>6. PICK S : S = link_iface(b, Iface(at))
  OBVIOUS
<1>7. PICK e : e = IF S = {} THEN 0 ELSE Min(S)
  OBVIOUS
<1>8. /\ ents' = Marked(b, Iface(at)) /\ found' = [found EXCEPT ![at] = e]
      /\ \/ Cardinality(S) = 1 /\ pos' = NextPort(b, 0) /\ warned' = warned
         \/ Cardinality(S) # 1 /\ pos' = <<b + 1, 0, 0>> /\ warned' = TRUE
  BY <1>3, <1>6, <1>7 DEF LinkBridge
<1>9. ents \in Seq(Entry) /\ found \in [Places -> Nat]
  BY DEF IInv, EntriesOK, FoundOK
<1>10. /\ Cardinality(S) \in Nat /\ (Cardinality(S) = 0 <=> S = {}) /\ S \subseteq 1..Len(ents)
       /\ S # {} => e \in S
       /\ (\A x, y \in S : x = y) => Cardinality(S) <= 1
       /\ S \subseteq Candidates(b, Iface(at))
  <2>1. S # {} => Min(S) \in S
    BY <1>6, <1>9, BestFacts
  <2>2. /\ Cardinality(S) \in Nat /\ (Cardinality(S) = 0 <=> S = {}) /\ S \subseteq 1..Len(ents)
        /\ (\A x, y \in S : x = y) => Cardinality(S) <= 1
        /\ S \subseteq Candidates(b, Iface(at))
    BY <1>6, <1>9, BestFacts
  <2>. QED
    BY <1>7, <2>1, <2>2
<1>11. e \in Nat /\ (e # 0 <=> S # {}) /\ found'[at] = e /\ \A bt \in Places : bt # at => found'[bt] = found[bt]
  <2>1. e \in Nat /\ (e # 0 <=> S # {})
    <3>1. Len(ents) \in Nat
      BY <1>9, EntryTypes
    <3>2. S # {} => e \in Nat /\ e # 0
      <4>1. PICK n \in Nat : n = Len(ents)
        BY <3>1
      <4>2. S # {} => e \in 1..n
        BY <1>10, <4>1, Zenon
      <4>3. \A m \in 1..n : m \in Nat /\ m # 0
        OBVIOUS
      <4>. QED
        BY <4>2, <4>3, Zenon
    <3>. QED
      BY <1>7, <3>2
  <2>. QED
    BY <1>8, <1>9, <2>1
<1>12. ASSUME NEW c \in S
       PROVE  c \in 1..Len(ents) /\ ents[c].name = Iface(at).name /\ ~ ents[c].internal
  <2>1. c \in Candidates(at[1], Iface(at))
    BY <1>3, <1>10
  <2>. QED
    BY <1>1, <1>3, <1>5, <2>1, CandidateFacts
<1>13. Alike(ents, ents') /\ Masters(ents, ents') /\ Peers(ents, ents')
  BY <1>8, <1>9, MarkedFacts
<1>14. \/ Cardinality(S) = 1 /\ \A bt \in Places : Passed(bt)' <=> bt[1] < b \/ bt = at
       \/ Cardinality(S) # 1 /\ \A bt \in Places : Passed(bt)' <=> bt[1] <= b
  <2>1. \A bt : Passed(bt)' = PassedAt(pos', bt)
    BY <1>1, SameDb DEF Passed, PassedAt
  <2>2. CASE Cardinality(S) = 1 /\ pos' = NextPort(b, 0)
    <3>1. \A bt \in Places : PassedAt(NextPort(b, 0), bt) <=>
             bt[1] < b \/ (bt[1] = b /\ (bt[2] \in System(b) \/ bt[2] <= 0))
      <4>1. 0 \in Nat
        OBVIOUS
      <4>. QED
        BY <4>1, PassedNext DEF IInv
    <3>2. \A bt \in Places : bt[1] = b /\ (bt[2] \in System(b) \/ bt[2] <= 0) <=> bt = at
      BY <1>3, <1>4
    <3>. QED
      BY <2>1, <2>2, <3>1, <3>2
  <2>3. CASE Cardinality(S) # 1 /\ pos' = <<b + 1, 0, 0>>
    BY <1>2, <2>1, <2>3, PassedBridge DEF IInv
  <2>. QED
    BY <1>8, <2>2, <2>3
<1>15. \A bt \in Places : Passed(bt) => Passed(bt)' /\ found'[bt] = found[bt]
  BY <1>2, <1>4, <1>5, <1>11, <1>14
<1>16. LinkStep /\ \A x \in 1..Len(ents') : x > Len(ents) => ents'[x].peer = 0
  BY <1>1, <1>8, <1>13, <1>15, AlikeIsLinkStep
<1>17. /\ Places' = Places /\ \A c : System(c)' = System(c) /\ SystemIface(c)' = SystemIface(c)
       /\ Placed(b)' = Placed(b)
  BY <1>1, SameDb DEF Placed
<1>18. /\ Grown(ents, ents')
       /\ DOMAIN ents = 1..Len(ents)
       /\ \A c \in DOMAIN ents : c \in DOMAIN ents' /\ ents'[c].name = ents[c].name /\ ents'[c].ns = ents[c].ns
                                 /\ ents'[c].internal = ents[c].internal
  BY <1>9, <1>16, GrownFacts DEF LinkStep
<1>19. ~ AtHome(at)'
  BY <1>3, <1>17 DEF AtHome
<1>20. ASSUME NEW bt \in Places, ~ Passed(bt), Passed(bt)'
       PROVE  (~ warned' => NotDropped(bt)') /\ ((PortsAtHome /\ AtHome(bt)') => Recognised(bt)')
  <2>1. CASE Cardinality(S) = 1
    <3>1. bt = at
      BY <1>4, <1>14, <1>20, <2>1
    <3>2. found'[bt] # 0
      BY <1>10, <1>11, <2>1, <3>1
    <3>3. bt[2] \in System(bt[1])'
      BY <1>3, <1>17, <3>1
    <3>. QED
      BY <1>19, <3>1, <3>2, <3>3 DEF NotDropped
  <2>2. CASE Cardinality(S) # 1
    <3>1. bt[1] = b /\ warned'
      BY <1>2, <1>4, <1>8, <1>14, <1>20, <2>2
    <3>2. ASSUME AtHome(bt)' PROVE FALSE
      <4>1. e # 0 /\ ents'[e].ns = Root
        BY <1>3, <1>11, <1>17, <3>1, <3>2 DEF AtHome
      <4>2. e \in S /\ ents[e].ns = Root
        BY <1>10, <1>11, <1>18, <4>1
      <4>3. \A x, y \in S : x = y
        BY <1>1, <1>2, <1>3, <1>5, <1>6, <4>2, MainBest
      <4>. QED
        BY <1>10, <1>11, <2>2, <4>1, <4>3
    <3>. QED
      BY <3>1, <3>2
  <2>. QED
    BY <2>1, <2>2
<1>21. ASSUME NEW bt \in Places, ~ Passed(bt) PROVE NotFalse(bt)'
  <2>1. CASE bt = at
    BY <1>19, <2>1 DEF NotFalse
  <2>2. CASE bt # at
    <3>1. found'[bt] = 0
      BY <1>1, <1>11, <1>21, <2>2, Zenon DEF IInv, FoundOK, Before
    <3>. QED
      BY <3>1 DEF NotFalse
  <2>. QED
    BY <2>1, <2>2
<1>22. phase' \notin Done /\ phase' \notin Before /\ phase' = "link"
  BY <1>1 DEF Done, Before
<1>23. EntriesOK' /\ OwnersOK' /\ DroppedOK' /\ FalsePortOK' /\ PortsOK'
  BY <1>16, <1>20, <1>21, <1>22, LinkKeeps
<1>24. FoundOK'
  <2>1. e # 0 => e \in DOMAIN ents' /\ ents'[e].name = Iface(at).name /\ ~ ents'[e].internal
    BY <1>10, <1>11, <1>12, <1>18
  <2>2. Passed(at)'
    BY <1>2, <1>3, <1>14
  <2>. QED
    BY <1>1, <1>8, <1>11, <1>16, <2>1, <2>2, FoundKept
<1>25. PosOK'
  <2>1. CASE Cardinality(S) = 1 /\ pos' = NextPort(b, 0)
    <3>1. Inside(b)'
      BY <1>2, <1>3, <1>10, <1>11, <1>17, <2>1 DEF Inside
    <3>2. CASE \E r \in DOMAIN db[b].ports \ System(b) : pos' = <<b, r, 0>>
      <4>1. PICK r \in DOMAIN db[b].ports \ System(b) : pos' = <<b, r, 0>>
        BY <3>2
      <4>2. r \in Nat /\ b >= 1
        BY DbFacts DEF IInv
      <4>3. pos'[1] = b /\ pos'[2] = r /\ pos'[3] = 0 /\ pos' \in Nat \X Nat \X Nat
        BY <1>2, <4>1, <4>2
      <4>. QED
        BY <1>1, <1>17, <1>22, <3>1, <4>1, <4>2, <4>3 DEF PosOK
    <3>3. CASE pos' = <<b + 1, 0, 0>>
      BY <1>2, <1>16, <1>22, <3>3, NextBridgePos
    <3>4. NextPort(b, 0) = <<b + 1, 0, 0>> \/ \E r \in DOMAIN db[b].ports \ System(b) : NextPort(b, 0) = <<b, r, 0>>
      <4>1. 0 \in Nat
        OBVIOUS
      <4>. QED
        BY <4>1, NextPortFacts DEF IInv
    <3>. QED
      BY <2>1, <3>2, <3>3, <3>4
  <2>2. CASE pos' = <<b + 1, 0, 0>>
    BY <1>2, <1>16, <1>22, <2>2, NextBridgePos
  <2>. QED
    BY <1>8, <2>1, <2>2
<1>26. PhaseOK'
  BY <1>1, <1>22 DEF IInv, PhaseOK
<1>27. PeersOK'
  <2>1. ASSUME ~ warned', NEW bt \in Places, Passed(bt)', Created(Iface(bt).name)' PROVE Passed(bt)
    <3>1. SUFFICES ASSUME bt = at PROVE FALSE
      BY <1>4, <1>8, <1>14, <2>1
    <3>2. Cardinality(S) = 1
      BY <1>8, <2>1
    <3>3. e \in DOMAIN ents' /\ ents'[e].name = Iface(at).name /\ ~ ents'[e].internal
      <4>1. e \in S
        BY <1>10, <3>2
      <4>2. e \in DOMAIN ents /\ ents[e].name = Iface(at).name /\ ~ ents[e].internal
        BY <1>12, <1>18, <4>1
      <4>. QED
        BY <1>18, <4>2
    <3>4. Iface(at)' = Iface(at)
      BY <1>1, SameDb
    <3>. QED
      BY <2>1, <3>1, <3>3, <3>4 DEF Created
  <2>. QED
    BY <1>13, <1>16, <2>1, PeersSame
<1>28. warned' \in BOOLEAN
  BY <1>8 DEF IInv
<1>. QED
  BY <1>1, <1>23, <1>24, <1>25, <1>26, <1>27, <1>28 DEF IInv

\* The step of LinkAmbiguous, after which no more is linked: S are the best
\* candidates for the interface at.
LEMMA AmbiguousKeeps ==
    ASSUME IInv, NEW at \in Places, LinkAmbiguous(at[1], at[2], at[3]) PROVE IInv'
<1>1. /\ phase = "link" /\ pos = at /\ at[2] \notin System(at[1]) /\ ~ Passed(at)
      /\ Inside(at[1]) /\ MasterOK(at[1]) /\ at[2] # 0 /\ at[3] # 0
      /\ at[1] \in DOMAIN db /\ at[2] \in DOMAIN db[at[1]].ports \ System(at[1])
  BY IfaceAt DEF LinkAmbiguous
<1>2. /\ UNCHANGED <<db, vports, answered, br_list, asked, out, master, pos>>
      /\ warned' = TRUE /\ phase' = "output"
  BY DEF LinkAmbiguous, LinkVars
<1>3. PICK S : S = link_iface(at[1], Iface(at))
  OBVIOUS
<1>4. PICK e : e = Min(S)
  OBVIOUS
<1>5. Cardinality(S) > 1 /\ ents' = Marked(at[1], Iface(at)) /\ found' = [found EXCEPT ![at] = e]
  BY <1>1, <1>3, <1>4 DEF LinkAmbiguous
<1>6. ents \in Seq(Entry) /\ found \in [Places -> Nat]
  BY DEF IInv, EntriesOK, FoundOK
<1>7. /\ Cardinality(S) \in Nat /\ ~(\A x, y \in S : x = y)
      /\ e \in S /\ e \in 1..Len(ents) /\ e \in Candidates(at[1], Iface(at))
  <2>1. /\ Cardinality(S) \in Nat /\ (Cardinality(S) = 0 <=> S = {}) /\ S \subseteq Candidates(at[1], Iface(at))
        /\ S \subseteq 1..Len(ents)
        /\ (\A x, y \in S : x = y) => Cardinality(S) <= 1
    BY <1>3, <1>6, BestFacts
  <2>2. S # {} => Min(S) \in S
    BY <1>3, <1>6, BestFacts
  <2>3. PICK k \in Nat : k = Cardinality(S)
    BY <2>1
  <2>4. S # {}
    BY <1>5, <2>1, <2>3
  <2>5. e \in S
    BY <1>4, <2>2, <2>4
  <2>6. e \in 1..Len(ents) /\ e \in Candidates(at[1], Iface(at))
    BY <2>1, <2>5, Zenon
  <2>7. ~(\A x, y \in S : x = y)
    <3>1. (\A x, y \in S : x = y) => k <= 1
      BY <2>1, <2>3, Zenon
    <3>2. k > 1
      BY <1>5, <2>3
    <3>3. ~(k <= 1)
      BY <3>2
    <3>. QED
      BY <3>1, <3>3, Zenon
  <2>. QED
    BY <2>1, <2>5, <2>6, <2>7, Zenon
<1>8. ents[e].name = Iface(at).name /\ ~ ents[e].internal /\ ents[e].master <= 0
  BY <1>1, <1>7, CandidateFacts
<1>9. e \in Nat /\ found'[at] = e /\ \A bt \in Places : bt # at => found'[bt] = found[bt]
  <2>1. PICK n \in Nat : n = Len(ents)
    BY <1>6, EntryTypes
  <2>2. e \in 1..n
    BY <1>7, <2>1, Zenon
  <2>3. e \in Nat
    BY <2>2
  <2>. QED
    BY <1>5, <1>6, <2>3
<1>10. Alike(ents, ents') /\ Masters(ents, ents') /\ Peers(ents, ents')
  BY <1>5, <1>6, MarkedFacts
<1>11. \A bt \in Places : Passed(bt)' <=> Passed(bt)
  BY <1>2, SameDb DEF Passed, PassedAt
<1>12. LinkStep /\ \A x \in 1..Len(ents') : x > Len(ents) => ents'[x].peer = 0
  <2>1. \A bt \in Places : Passed(bt) => Passed(bt)' /\ found'[bt] = found[bt]
    BY <1>1, <1>9, <1>11
  <2>. QED
    BY <1>2, <1>10, <2>1, AlikeIsLinkStep
<1>13. /\ Places' = Places /\ \A c : System(c)' = System(c) /\ SystemIface(c)' = SystemIface(c)
       /\ \A c : Placed(c)' = Placed(c)
  BY <1>2, SameDb DEF Placed
<1>14. /\ DOMAIN ents = 1..Len(ents)
       /\ e \in DOMAIN ents' /\ ents'[e].name = ents[e].name /\ ents'[e].internal = ents[e].internal
       /\ ents'[e].master = ents[e].master
  <2>1. Grown(ents, ents') /\ ents'[e].master = ents[e].master
    BY <1>7, <1>10, <1>12 DEF LinkStep, Masters
  <2>. QED
    BY <1>6, <1>7, <2>1, GrownFacts
<1>15. \A bt \in Places : found[bt] # 0 => Passed(bt)
  BY <1>1, Zenon DEF IInv, FoundOK, Before
<1>16. ASSUME NEW bt \in Places, ~ Passed(bt) PROVE NotFalse(bt)'
  <2>1. CASE bt = at
    <3>1. found'[bt] = e /\ ents'[e].master <= 0
      BY <1>8, <1>9, <1>14, <2>1
    <3>2. PICK m : m = ents'[e].master
      OBVIOUS
    <3>3. m \in Int /\ m <= 0
      <4>1. ents[e].master \in Int
        BY <1>6, <1>7, EntryTypes
      <4>. QED
        BY <1>14, <3>1, <3>2, <4>1
    <3>4. ~(m > 0)
      BY <3>3
    <3>. QED
      BY <3>1, <3>2, <3>4 DEF NotFalse, Joined
  <2>2. CASE bt # at
    <3>1. found'[bt] = 0
      BY <1>9, <1>15, <1>16, <2>2
    <3>. QED
      BY <3>1 DEF NotFalse
  <2>. QED
    BY <2>1, <2>2
<1>17. ASSUME NEW bt \in Places, PortsAtHome, AtHome(bt)', ~ Passed(bt) PROVE CutOff(bt)'
  <2>1. at[1] \in Nat /\ bt[1] \in Nat
    BY PlaceFacts DEF IInv
  <2>2. CASE bt[1] = at[1]
    <3>1. AtHome(bt)
      <4>1. Reached(bt)
        BY <1>1, <2>2 DEF Reached
      <4>. QED
        BY <1>12, <1>17, <4>1, PastHome
    <3>2. AtHome(at)
      BY <1>1, <2>2, <3>1 DEF AtHome
    <3>3. QueryFailed(at) \/ \A x, y \in S : x = y
      BY <1>1, <1>3, <1>17, <3>2, HomeBest
    <3>4. QueryFailed(at)'
      BY <1>7, <1>12, <3>3, PortsKept
    <3>5. pos' = at /\ at \in Places' /\ warned'
      BY <1>1, <1>2, <1>13
    <3>6. CutShort'
      BY <3>4, <3>5 DEF CutShort
    <3>7. bt = at \/ found'[bt] = 0
      <4>1. PICK g : g = found[bt]
        OBVIOUS
      <4>2. bt # at => found'[bt] = g
        BY <1>9, <4>1
      <4>3. g = 0
        BY <1>15, <1>17, <4>1
      <4>. QED
        BY <4>2, <4>3
    <3>. QED
      BY <3>5, <3>6, <3>7 DEF CutOff
  <2>3. CASE bt[1] # at[1]
    <3>1. bt[1] > at[1]
      BY <1>1, <1>17, <2>1, <2>3 DEF Passed, PassedAt
    <3>2. PICK c \in DOMAIN db : c = bt[1]
      BY PlaceFacts DEF IInv
    <3>3. System(c) # {} /\ Placed(c) /\ found'[SystemIface(c)] # 0
      BY <1>13, <1>17, <3>2 DEF AtHome
    <3>4. PICK st \in Places : st = SystemIface(c) /\ st[1] = c
      BY <3>3, SystemPlace DEF IInv
    <3>5. st # at /\ found[st] # 0
      BY <1>9, <2>3, <3>2, <3>3, <3>4
    <3>6. Passed(st)
      BY <1>15, <3>5
    <3>. QED
      BY <1>1, <2>1, <3>1, <3>2, <3>4, <3>6 DEF Passed, PassedAt
  <2>. QED
    BY <2>2, <2>3
<1>18. EntriesOK' /\ OwnersOK' /\ DroppedOK' /\ FalsePortOK' /\ PortsOK'
  BY <1>11, <1>12, <1>16, <1>17, LinkKeeps
<1>19. phase' \notin Before \union {"link"} /\ phase' \in Done
  BY <1>2 DEF Before, Done
<1>20. FoundOK'
  BY <1>1, <1>2, <1>5, <1>8, <1>9, <1>12, <1>14, <1>19, FoundKept
<1>21. PosOK'
  <2>1. Reached(at)
    BY <1>1 DEF Reached
  <2>2. Inside(at[1])'
    BY <1>1, <1>12, <2>1, PastHome
  <2>3. MasterOK(at[1])'
    BY <1>1, <1>2, <1>12, <2>1, MasterKept
  <2>4. pos \in Nat \X Nat \X Nat /\ pos[1] >= 1
    BY DEF IInv, PosOK
  <2>. QED
    BY <1>1, <1>2, <1>13, <1>19, <2>2, <2>3, <2>4 DEF PosOK
<1>22. PhaseOK'
  BY <1>2, <1>19 DEF IInv, PhaseOK, Done
<1>23. PeersOK'
  BY <1>2, <1>10, <1>12, PeersSame
<1>. QED
  BY <1>2, <1>18, <1>20, <1>21, <1>22, <1>23 DEF IInv

-----------------------------------------------------------------------------
(* The steps before and after the linking *)

\* A step that leaves the entries, what was found and the place alone
LEMMA QuietKeeps ==
    ASSUME IInv, UNCHANGED <<db, vports, answered, ents, found, master, pos>>,
           warned => warned', warned' \in BOOLEAN, asked' \in BOOLEAN, PhaseOK',
           phase' \in Before => phase \in Before,
           phase' \in Before \union {"link"} => phase \in Before \union {"link"},
           phase' \in Done => phase \in Done \/ \A at \in Places : (PortsAtHome /\ AtHome(at)) => Passed(at)
    PROVE  IInv'
<1>1. /\ Places' = Places /\ \A at : Iface(at)' = Iface(at)
      /\ \A b : System(b)' = System(b) /\ SystemIface(b)' = SystemIface(b)
  BY SameDb
<1>2. \A b : Placed(b)' = Placed(b)
  BY <1>1 DEF Placed
<1>3. \A at : (AtHome(at)' <=> AtHome(at)) /\ (Passed(at)' <=> Passed(at))
  BY <1>1, <1>2 DEF AtHome, Passed, PassedAt
<1>4. \A at : TruePorts(at)' = TruePorts(at)
  BY <1>1 DEF TruePorts, IsPort, Attached
<1>5. PortsAtHome' <=> PortsAtHome
  BY DEF PortsAtHome, IsPort, Attached
<1>6. EntriesOK'
  <2>1. EntriesOK
    BY DEF IInv
  <2>. QED
    BY <1>1, <2>1 DEF EntriesOK, Attached
<1>7. OwnersOK'
  <2>1. OwnersOK
    BY DEF IInv
  <2>. QED
    BY <1>1, <1>3, <2>1 DEF OwnersOK
<1>8. FoundOK'
  <2>1. FoundOK
    BY DEF IInv
  <2>. QED
    BY <1>1, <1>3, <2>1 DEF FoundOK
<1>9. \A b : (Inside(b)' <=> Inside(b)) /\ (MasterOK(b)' <=> MasterOK(b))
  BY <1>1, <1>2 DEF Inside, MasterOK
<1>10. PosOK'
  <2>1. PosOK
    BY DEF IInv
  <2>. QED
    BY <1>1, <1>9, <2>1 DEF PosOK
<1>11. DroppedOK'
  <2>1. DroppedOK
    BY DEF IInv
  <2>2. \A at : Below(at)' <=> Below(at)
    BY <1>1 DEF Below
  <2>3. \A at : NotDropped(at)' <=> NotDropped(at)
    BY <1>1, <1>9, <2>2 DEF NotDropped
  <2>. QED
    BY <1>1, <1>3, <2>1, <2>3 DEF DroppedOK
<1>12. FalsePortOK'
  <2>1. FalsePortOK
    BY DEF IInv
  <2>2. \A at : NotFalse(at)' <=> NotFalse(at)
    <3>1. ASSUME NEW at PROVE NotFalse(at)' <=> NotFalse(at)
      <4>1. Mistakable(at, found[at])' <=> Mistakable(at, found[at])
        BY <1>1, <1>4 DEF Mistakable
      <4>2. QueryFailed(at)' <=> QueryFailed(at)
        BY <1>4 DEF QueryFailed
      <4>. QED
        BY <1>3, <4>1, <4>2 DEF NotFalse, Joined, IsPort, Attached
    <3>. QED
      BY <3>1
  <2>. QED
    BY <1>1, <2>1, <2>2 DEF FalsePortOK
<1>13. PortsOK'
  <2>1. PortsOK
    BY DEF IInv
  <2>2. \A at : Recognised(at)' <=> Recognised(at)
    BY <1>1, <1>4 DEF Recognised, Joined
  <2>3. \A at : CutOff(at) => CutOff(at)'
    <3>1. QueryFailed(pos)' <=> QueryFailed(pos)
      <4>1. TruePorts(pos)' = TruePorts(pos)
        BY <1>4, pos' = pos DEF TruePorts, IsPort, Iface, IfaceOf, Attached
      <4>. QED
        BY <4>1 DEF QueryFailed
    <3>2. pos' = pos /\ Places' = Places /\ found' = found /\ (warned => warned')
      BY <1>1
    <3>3. CutShort => CutShort'
      BY <3>1, <3>2 DEF CutShort
    <3>. QED
      BY <3>2, <3>3 DEF CutOff
  <2>. QED
    BY <1>1, <1>3, <1>5, <2>1, <2>2, <2>3 DEF PortsOK
<1>14. PeersOK'
  <2>1. PeersOK
    BY DEF IInv
  <2>2. \A at, bt : Names(at, bt)' = Names(at, bt)
    BY <1>1 DEF Names
  <2>3. \A at, bt : Pair(at, bt)' <=> Pair(at, bt)
    BY <1>1, <2>2 DEF Pair
  <2>4. \A n : Created(n)' <=> Created(n)
    BY DEF Created
  <2>5. Symmetric(ents)' <=> Symmetric(ents)
    BY DEF Symmetric
  <2>. QED
    BY <1>1, <1>3, <2>1, <2>3, <2>4, <2>5 DEF PeersOK
<1>15. db' \in Databases
  BY DEF IInv
<1>. QED
  BY <1>6, <1>7, <1>8, <1>10, <1>11, <1>12, <1>13, <1>14, <1>15 DEF IInv

\* Before the linking nothing is passed, and nothing found.
LEMMA NothingFound ==
    ASSUME IInv, phase \in Before
    PROVE  \A at \in Places : ~ Passed(at) /\ found[at] = 0 /\ ~ AtHome(at)
<1>1. pos = <<1, 0, 0>> /\ 1 \in Nat
  BY DEF IInv, PosOK
<1>2. ASSUME NEW at \in Places PROVE ~ Passed(at) /\ found[at] = 0
  <2>1. PassedAt(<<1, 0, 0>>, at) <=> at[1] < 1
    BY <1>1, PassedBridge DEF IInv
  <2>2. at[1] \in Nat /\ at[1] >= 1
    BY PlaceFacts DEF IInv
  <2>3. ~ Passed(at)
    BY <1>1, <2>1, <2>2 DEF Passed
  <2>4. phase \in Before \union {"link"}
    OBVIOUS
  <2>. QED
    BY <2>3, <2>4, Zenon DEF IInv, FoundOK
<1>3. ASSUME NEW at \in Places, AtHome(at) PROVE FALSE
  <2>1. at[1] \in DOMAIN db
    BY PlaceFacts DEF IInv
  <2>2. SystemIface(at[1]) \in Places
    BY <1>3, <2>1, SystemPlace DEF IInv, AtHome
  <2>. QED
    BY <1>2, <1>3, <2>2 DEF AtHome
<1>. QED
  BY <1>2, <1>3

\* The steps of the exchange: without an answer nothing is linked.
LEMMA ExchangeKeeps ==
    ASSUME IInv, connect_ovs \/ read_all \/ parse PROVE IInv'
<1>1. /\ UNCHANGED <<db, vports, answered, ents, found, master, pos>>
      /\ phase \in Before /\ phase' \in Before \union {"link", "output", "failed", "crashed"}
  BY DEF connect_ovs, read_all, parse, parse_bridge, parse_error, Before
<1>2. /\ \A b \in DOMAIN db : b <= Len(br_list) => db[b].broken = 0
      /\ Len(br_list) < Len(db) \/ Len(db) = 0
      /\ br_list \in Seq(Nat) /\ warned \in BOOLEAN /\ asked \in BOOLEAN /\ pos = <<1, 0, 0>>
  BY <1>1 DEF IInv, PhaseOK, PosOK
<1>3. DOMAIN db = 1..Len(db) /\ Len(db) \in Nat /\ Len(br_list) \in Nat
  BY <1>2, DbFacts DEF IInv
<1>4. (warned => warned') /\ warned' \in BOOLEAN /\ asked' \in BOOLEAN
  BY <1>2 DEF connect_ovs, read_all, parse, parse_bridge, parse_error
<1>5. PhaseOK'
  <2>1. CASE connect_ovs
    <3>1. phase' \in {"read", "output", "failed"} /\ asked' = (phase' = "read") /\ br_list' = br_list /\ db' = db
      BY <2>1 DEF connect_ovs
    <3>. QED
      BY <1>2, <3>1 DEF PhaseOK, Before, Done
  <2>2. CASE read_all
    <3>1. /\ phase' = "parse" \/ (phase' = "output" /\ warned' = TRUE) \/ phase' = "failed"
          /\ br_list' = br_list /\ db' = db
      BY <2>2 DEF read_all
    <3>. QED
      BY <1>2, <3>1 DEF PhaseOK, Before, Done
  <2>3. CASE parse
    <3>. DEFINE b == Len(br_list) + 1
    <3>1. CASE b \in DOMAIN db /\ parse_bridge(b)
      <4>1. PICK n \in Nat : n = Len(br_list)
        BY <1>3
      <4>2. PICK k \in Nat : k = Len(db) /\ DOMAIN db = 1..k
        BY <1>3
      <4>3. /\ db[n + 1].broken = 0 /\ br_list' = Append(br_list, n + 1) /\ n + 1 \in 1..k
            /\ phase' = IF n + 1 = k THEN "link" ELSE "parse"
        BY <3>1, <4>1, <4>2 DEF parse_bridge
      <4>4. br_list' \in Seq(Nat) /\ Len(br_list') = n + 1
        BY <1>2, <4>1, <4>3
      <4>5. \A c \in 1..k : c <= n + 1 => db[c].broken = 0
        <5>1. \A c \in 1..k : c <= n => db[c].broken = 0
          BY <1>2, <4>1, <4>2
        <5>2. \A c \in 1..k : c <= n + 1 => c <= n \/ c = n + 1
          OBVIOUS
        <5>. QED
          BY <4>3, <5>1, <5>2
      <4>6. db' = db
        BY <1>1
      <4>7. CASE n + 1 = k
        <5>1. phase' = "link" /\ \A c \in DOMAIN db : db[c].broken = 0
          BY <4>2, <4>3, <4>5, <4>7
        <5>. QED
          BY <4>4, <4>6, <5>1 DEF PhaseOK, Before, Done
      <4>8. CASE n + 1 # k
        <5>1. phase' = "parse" /\ n + 1 < k
          BY <4>3, <4>8
        <5>2. \A c \in DOMAIN db : c <= Len(br_list') => db[c].broken = 0
          BY <4>2, <4>4, <4>5
        <5>3. Len(br_list') < Len(db)
          BY <4>2, <4>4, <5>1
        <5>. QED
          BY <4>4, <4>6, <5>1, <5>2, <5>3 DEF PhaseOK, Before, Done
      <4>. QED
        BY <4>7, <4>8
    <3>2. CASE parse_error(b)
      <4>1. (phase' = "output" \/ phase' = "crashed") /\ warned' = TRUE /\ br_list' = br_list /\ db' = db
        BY <1>1, <3>2 DEF parse_error
      <4>. QED
        BY <1>2, <4>1 DEF PhaseOK, Before, Done
    <3>3. CASE b \notin DOMAIN db /\ phase' = "output" /\ br_list' = br_list
      <4>1. pos'[1] > Len(db)
        <5>1. PICK n \in Nat : n = Len(br_list)
          BY <1>3
        <5>2. PICK k \in Nat : k = Len(db)
          BY <1>3
        <5>3. ~(n + 1 \in 1..k) /\ (n < k \/ k = 0)
          BY <1>2, <1>3, <3>3, <5>1, <5>2
        <5>4. k = 0
          BY <5>3
        <5>. QED
          BY <1>1, <1>2, <5>2, <5>4
      <4>2. db' = db
        BY <1>1
      <4>. QED
        BY <1>2, <3>3, <4>1, <4>2 DEF PhaseOK, Before, Done
    <3>. QED
      BY <2>3, <3>1, <3>2, <3>3 DEF parse
  <2>. QED
    BY <2>1, <2>2, <2>3
<1>6. \A at \in Places : (PortsAtHome /\ AtHome(at)) => Passed(at)
  BY <1>1, NothingFound
<1>. QED
  BY <1>1, <1>4, <1>5, <1>6, QuietKeeps

\* The end of the linking, when all places are passed, and the steps after it
LEMMA EndKeeps ==
    ASSUME IInv,
           \/ LinkEnd \/ frontend_output \/ ovs_global_cleanup \/ CleanupFault
           \/ \E at \in Places : LinkFault(at[1], at[2], at[3])
    PROVE  IInv'
<1>1. /\ UNCHANGED <<db, vports, answered, ents, found, master, pos, warned, asked, br_list>>
      /\ \/ phase = "link" /\ pos[1] > Len(db) /\ phase' = "output"
         \/ phase = "link" /\ phase' = "crashed"
         \/ phase \in Done /\ phase' \in Done \union {"crashed"}
  BY DEF LinkEnd, LinkFault, Linking, LinkVars, frontend_output, ovs_global_cleanup, CleanupFault, Done
<1>2. phase' \notin Before \union {"link"} /\ phase' \in Done \union {"crashed"}
  BY <1>1 DEF Before, Done
<1>3. PhaseOK'
  BY <1>1, <1>2 DEF IInv, PhaseOK, Before, Done
<1>4. ASSUME phase = "link", pos[1] > Len(db), NEW at \in Places PROVE Passed(at)
  <2>1. PICK k \in Nat : k = Len(db) /\ DOMAIN db = 1..k
    BY DbFacts DEF IInv
  <2>2. PICK n \in Nat : n = pos[1]
    BY DEF IInv, PosOK
  <2>3. PICK m \in 1..k : m = at[1]
    BY <2>1, PlaceFacts DEF IInv
  <2>4. m < n
    BY <1>4, <2>1, <2>2
  <2>. QED
    BY <2>2, <2>3, <2>4 DEF Passed, PassedAt
<1>5. warned' \in BOOLEAN /\ asked' \in BOOLEAN /\ (warned => warned')
  BY <1>1 DEF IInv
<1>6. /\ phase' \in Before => phase \in Before
      /\ phase' \in Before \union {"link"} => phase \in Before \union {"link"}
  BY <1>2
<1>7. phase' \in Done => phase \in Done \/ (phase = "link" /\ pos[1] > Len(db))
  BY <1>1 DEF Done
<1>8. phase' \in Done => phase \in Done \/ \A at \in Places : (PortsAtHome /\ AtHome(at)) => Passed(at)
  BY <1>4, <1>7
<1>. QED
  BY <1>1, <1>3, <1>5, <1>6, <1>8, QuietKeeps

-----------------------------------------------------------------------------
(* The invariant *)

\* It is true at the start.
LEMMA InitInv ==
    ASSUME Init PROVE IInv
<1>1. PICK kernel \in Kernels : ents = kernel.ifs /\ vports = kernel.vports
  BY DEF Init
<1>2. /\ db \in Databases /\ br_list = <<>> /\ found = [at \in Places |-> 0] /\ master = 0
      /\ asked = FALSE /\ warned = FALSE /\ pos = <<1, 0, 0>> /\ phase = "connect"
  BY DEF Init
<1>3. ents \in Seq(Entry)
  BY <1>1, KernelAssumption
<1>4. \A e \in DOMAIN ents :
         /\ ~ ents[e].internal
         /\ ents[e].master \in {0, OvsSystem, OtherMaster}
         /\ ents[e].master = OvsSystem <=> ents[e].attached \in {"slave", "foreign"}
         /\ ents[e].attached = "vport" => ents[e].master = 0
         /\ Attached(ents[e]) => <<Root, ents[e].name>> \in vports
         /\ ents[e].peer # 0 => ents[e].peer \in DOMAIN ents /\ ents[ents[e].peer].peer = e
  BY <1>1, KernelAssumption
<1>5. \A e, f \in DOMAIN ents :
         (/\ ents[e].name = ents[f].name
          /\ ents[e].ns = ents[f].ns \/ (Attached(ents[e]) /\ Attached(ents[f]))) => e = f
  BY <1>1, KernelAssumption
<1>6. \A at \in Places : \A e \in DOMAIN ents :
         (/\ Iface(at).type = "internal" /\ db[at[1]].dp = "system"
          /\ Attached(ents[e]) /\ ents[e].name = Iface(at).name) => ents[e].driver = "openvswitch"
  BY <1>1, <1>2, DatapathAssumption DEF Places, Iface
<1>7. EntriesOK
  BY <1>3, <1>4, <1>5, <1>6 DEF EntriesOK
<1>8. ASSUME NEW at \in Places PROVE ~ Passed(at) /\ found[at] = 0
  <2>1. 1 \in Nat
    OBVIOUS
  <2>2. PassedAt(<<1, 0, 0>>, at) <=> at[1] < 1
    BY <1>2, <2>1, PassedBridge
  <2>3. at[1] \in Nat /\ at[1] >= 1
    BY <1>2, PlaceFacts
  <2>. QED
    BY <1>2, <2>2, <2>3 DEF Passed
<1>9. OwnersOK
  <2>1. \A m \in {0, OvsSystem, OtherMaster} : ~(m > 0)
    BY DEF OvsSystem, OtherMaster
  <2>2. \A e \in DOMAIN ents : ~(ents[e].master > 0)
    BY <1>4, <2>1
  <2>. QED
    BY <1>4, <2>2 DEF OwnersOK
<1>10. FoundOK
  <2>1. found \in [Places -> Nat]
    BY <1>2
  <2>. QED
    BY <1>8, <2>1 DEF FoundOK
<1>11. PosOK
  BY <1>2 DEF PosOK
<1>12. PhaseOK
  <2>1. Len(db) \in Nat /\ DOMAIN db = 1..Len(db)
    BY <1>2, DbFacts
  <2>2. br_list \in Seq(Nat) /\ Len(br_list) = 0
    BY <1>2
  <2>3. \A b \in DOMAIN db : ~(b <= Len(br_list))
    BY <2>1, <2>2
  <2>4. Len(br_list) < Len(db) \/ Len(db) = 0
    BY <2>1, <2>2
  <2>. QED
    BY <1>2, <2>2, <2>3, <2>4 DEF PhaseOK, Before, Done
<1>13. DroppedOK
  BY <1>8 DEF DroppedOK
<1>14. FalsePortOK
  BY <1>8 DEF FalsePortOK, NotFalse
<1>15. PortsOK
  <2>1. phase \notin Done
    BY <1>2 DEF Done
  <2>. QED
    BY <1>8, <2>1 DEF PortsOK
<1>16. PeersOK
  <2>1. DOMAIN ents = 1..Len(ents)
    BY <1>3, EntryTypes
  <2>2. Symmetric(ents)
    BY <1>4, <2>1 DEF Symmetric
  <2>. QED
    BY <1>8, <2>2 DEF PeersOK
<1>. QED
  BY <1>2, <1>7, <1>9, <1>10, <1>11, <1>12, <1>13, <1>14, <1>15, <1>16 DEF IInv

\* Every step preserves it.
LEMMA Inductive ==
    ASSUME IInv, [Next]_vars PROVE IInv'
<1>1. CASE connect_ovs \/ read_all \/ parse
  BY <1>1, ExchangeKeeps
<1>2. ASSUME NEW b \in DOMAIN db, SkipBridge(b) PROVE IInv'
  BY <1>2, SkipKeeps
<1>3. ASSUME NEW b \in DOMAIN db, LinkBridge(b) PROVE IInv'
  BY <1>3, BridgeKeeps
<1>4. ASSUME NEW b \in DOMAIN db, NEW p \in DOMAIN db[b].ports, LinkPort(b, p) PROVE IInv'
  BY <1>4, PortKeeps
<1>5. ASSUME NEW at \in Places, LinkAmbiguous(at[1], at[2], at[3]) PROVE IInv'
  BY <1>5, AmbiguousKeeps
<1>6. ASSUME NEW at \in Places, LinkIface(at[1], at[2], at[3]) PROVE IInv'
  BY <1>6, IfaceKeeps
<1>7. CASE \/ LinkEnd \/ frontend_output \/ ovs_global_cleanup \/ CleanupFault
           \/ \E at \in Places : LinkFault(at[1], at[2], at[3])
  BY <1>7, EndKeeps
<1>8. CASE UNCHANGED vars
  <2>1. UNCHANGED <<db, vports, answered, ents, br_list, found, master, asked, warned, pos, phase>>
    BY <1>8 DEF vars
  <2>2. PhaseOK'
    <3>1. PhaseOK
      BY DEF IInv
    <3>. QED
      BY <2>1, <3>1 DEF PhaseOK
  <2>3. warned' \in BOOLEAN /\ asked' \in BOOLEAN
    BY <2>1 DEF IInv
  <2>. QED
    BY <2>1, <2>2, <2>3, QuietKeeps
<1>. QED
  BY <1>1, <1>2, <1>3, <1>4, <1>5, <1>6, <1>7, <1>8 DEF Next, link_ifaces

\* It is true of all states.
LEMMA Invariant == Spec => []IInv
<1>1. Init => IInv
  BY InitInv
<1>2. IInv /\ [Next]_vars => IInv'
  BY Inductive
<1>. QED
  BY <1>1, <1>2, PTL DEF Spec

\* When the database was asked and nothing was warned of, all was passed.
LEMMA AllPassed ==
    ASSUME IInv, Shown, asked, ~ warned PROVE \A at \in Places : Passed(at)
<1>1. pos[1] > Len(db)
  BY DEF Shown, IInv, PhaseOK, Done
<1>. SUFFICES ASSUME NEW at \in Places PROVE Passed(at)
  OBVIOUS
<1>2. PICK k \in Nat : k = Len(db) /\ DOMAIN db = 1..k
  BY DbFacts DEF IInv
<1>3. PICK n \in Nat : n = pos[1]
  BY DEF IInv, PosOK
<1>4. PICK m \in 1..k : m = at[1]
  BY <1>2, PlaceFacts DEF IInv
<1>5. m < n
  BY <1>1, <1>2, <1>3
<1>. QED
  BY <1>3, <1>4, <1>5 DEF Passed, PassedAt

-----------------------------------------------------------------------------
(* The properties *)

\* NoFalsePort (link_iface_search, openvswitch.c:564-660): whatever interfaces
\* of other namespaces have the name of a port, and whichever queries fail, an
\* interface that is shown at a bridge of the kernel's datapath is a port of it,
\* or was created, or the code cannot tell it from one, or the query about the
\* port itself is among the failed ones.
THEOREM NoFalsePortCorrect == Spec => []NoFalsePort
<1>1. IInv => NoFalsePort
  BY DEF IInv, FalsePortOK, NotFalse, FalsePort, NoFalsePort
<1>. QED
  BY <1>1, Invariant, PTL

\* PortFound (link_iface, openvswitch.c:564-710): with all ports in the
\* namespace of the datapath, each that the kernel tells to be one is found for
\* its interface and joined, unless the linking was cut short with a warning at
\* a port about which the query failed.
THEOREM PortFoundCorrect == Spec => []PortFound
<1>1. IInv => PortFound
  <2>. SUFFICES ASSUME IInv, Shown, PortsAtHome, NEW at \in Places, AtHome(at),
                       NEW e \in TruePorts(at), ents[e].attached = "slave" \/ e \in answered,
                       ~(CutShort /\ warned /\ found[at] = 0)
                PROVE  found[at] = e /\ Joined(e)
    BY DEF PortFound
  <2>1. phase \in Done
    BY DEF Shown, Done
  <2>2. (Passed(at) => Recognised(at)) /\ (Passed(at) \/ CutOff(at))
    BY <2>1 DEF IInv, PortsOK
  <2>3. CASE Passed(at)
    BY <2>2, <2>3 DEF Recognised
  <2>4. CASE CutOff(at)
    <3>1. at = pos /\ QueryFailed(at)
      BY <2>4 DEF CutOff, CutShort
    <3>2. PICK t \in TruePorts(at) : ents[t].attached = "vport" /\ t \notin answered
      BY <3>1 DEF QueryFailed
    <3>3. /\ t \in DOMAIN ents /\ e \in DOMAIN ents /\ ents[t].name = ents[e].name
          /\ Attached(ents[t]) /\ Attached(ents[e])
      BY DEF TruePorts, IsPort
    <3>4. ~ ents[t].internal /\ ~ ents[e].internal
      <4>1. (ents[t].internal => ents[t].attached = "no") /\ (ents[e].internal => ents[e].attached = "no")
        BY <3>3 DEF IInv, EntriesOK
      <4>. QED
        BY <3>3, <4>1 DEF Attached
    <3>5. t = e
      BY <3>3, <3>4, Zenon DEF IInv, EntriesOK
    <3>. QED
      BY <3>2, <3>5
  <2>. QED
    BY <2>2, <2>3, <2>4
<1>. QED
  BY <1>1, Invariant, PTL

\* PatchPeers (link_patch, openvswitch.c:741-792): two patch ports that name
\* each other and that no other names are peers in the end, in whatever order
\* they are linked.
THEOREM PatchPeersCorrect == Spec => []PatchPeers
<1>1. IInv => PatchPeers
  <2>. SUFFICES ASSUME IInv, Shown, asked, ~ warned, NEW at \in Places, NEW bt \in Places,
                       Names(at, bt), Names(bt, at),
                       \A ct \in Places \ {at, bt} : ~ Names(ct, at) /\ ~ Names(ct, bt),
                       \A e \in DOMAIN ents :
                          ents[e].name \in {Iface(at).name, Iface(bt).name} => ents[e].internal
                PROVE  ents[found[at]].peer = found[bt]
    BY DEF PatchPeers
  <2>1. Pair(at, bt) /\ Created(Iface(at).name) /\ Created(Iface(bt).name)
    BY DEF Pair, Created
  <2>2. Passed(at) /\ Passed(bt)
    BY AllPassed
  <2>. QED
    BY <2>1, <2>2 DEF IInv, PeersOK
<1>. QED
  BY <1>1, Invariant, PTL

\* NothingDropped (ovs_global_post, openvswitch.c:794-861): without a warning
\* each interface of the database is shown, below its bridge or its port.
THEOREM NothingDroppedCorrect == Spec => []NothingDropped
<1>1. IInv => NothingDropped
  <2>. SUFFICES ASSUME IInv, Shown, asked, ~ warned, NEW at \in Places
                PROVE  /\ found[at] # 0
                       /\ at[2] \notin System(at[1]) => Under(found[at], found[SystemIface(at[1])])
    BY DEF NothingDropped
  <2>1. NotDropped(at)
    BY AllPassed DEF IInv, DroppedOK
  <2>2. found[at] # 0
    BY <2>1 DEF NotDropped
  <2>3. ASSUME at[2] \notin System(at[1]) PROVE Under(found[at], found[SystemIface(at[1])])
    <3>1. Below(at)
      BY <2>1, <2>3 DEF NotDropped
    <3>2. \A m \in DOMAIN ents : m > 0
      <4>1. PICK k \in Nat : DOMAIN ents = 1..k
        BY EntryTypes DEF IInv, EntriesOK
      <4>. QED
        BY <4>1
    <3>. QED
      BY <3>1, <3>2 DEF Below, Under
  <2>. QED
    BY <2>2, <2>3
<1>. QED
  BY <1>1, Invariant, PTL
=============================================================================
