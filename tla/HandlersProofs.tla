--------------------------- MODULE HandlersProofs ---------------------------
(***************************************************************************)
(* Proofs about the interface handlers: which faults the private data can  *)
(* lead to, and what the entries say at the end of a run (the roles of the *)
(* ports of bonds and teams, the links of tunnels, masters and physical    *)
(* functions), whatever happens to the system meanwhile.                   *)
(*                                                                         *)
(* The entries are followed through their stages: filled from netlink      *)
(* (Linked), from sysfs (Scanned) and from teamd (Named), resolved, and    *)
(* completed by the post callbacks, interface by interface.                *)
(***************************************************************************)
EXTENDS Handlers, FiniteSetTheorems, WellFoundedInduction, TLAPS

\* What handler_private is once the netlink callback has run.
Kept(f) ==
    IF f.driver \in {"vxlan", "geneve"} THEN IF f.info THEN "own" ELSE "freed"
    ELSE IF f.driver \in {"gre", "ipip", "vti"} /\ f.info THEN "own"
    ELSE IF f.driver \in Sized THEN "init" ELSE NULL

Phases == {"link", "scan", "connect", "wait", "recv", "wild", "failed",
           "resolve", "post", "output", "cleanup", "exit", "crashed"}

\* The interfaces whose entries are filled in
Filled(e) ==
    CASE phase = "link" -> e < cur
      [] phase \in {"scan", "connect", "wait", "recv"} -> e <= cur
      [] phase \in {"wild", "failed", "crashed"} -> FALSE
      [] OTHER -> TRUE

Holds(x, f) == "private" \in DOMAIN x /\ x.private = Kept(f)

Shape ==
    /\ cur \in Ifs
    /\ phase \in Phases
    /\ DOMAIN k = Ifs
    /\ DOMAIN ent = Ifs
    /\ \A e \in Ifs : {"driver", "info", "active"} \subseteq DOMAIN k[e]

\* The inductive invariant
KeptInv ==
    /\ Shape
    /\ \A e \in Ifs : Filled(e) => Holds(ent[e], k[e])
    /\ PrivateValid

\* When errno is 0, a team is right before interface e + 1: only ports that are
\* virtual functions are in between.
BehindNext(e) ==
    \E t \in 1..e : /\ k[t].driver = "team" /\ Ns[t] = Ns[e]
                    /\ \A f \in (t + 1)..e : AllFound(ent[f])

ErrnoOK ==
    /\ phase = "link" /\ errno = 0 => cur > 1 /\ BehindNext(cur - 1)
    /\ phase = "scan" /\ errno = 0 => BehindTeam(cur)
    /\ phase \in {"connect", "wait", "recv"} => k[cur].driver = "team"

\* The netlink callbacks leave the block Kept says.
LEMMA CallbackKeeps ==
    ASSUME NEW f, NEW x, "private" \in DOMAIN x, x.private = if_handler_init(f)
    PROVE  Holds(if_handler_netlink(f, x), f)
<1>2. CASE f.driver = "vxlan"
  BY <1>2 DEF if_handler_netlink, vxlan_netlink, Holds, Kept
<1>3. CASE f.driver = "geneve"
  BY <1>3 DEF if_handler_netlink, geneve_netlink, Holds, Kept
<1>4. CASE f.driver = "gre"
  BY <1>4 DEF if_handler_netlink, gre_common_netlink, Holds, Kept, if_handler_init, Sized
<1>5. CASE f.driver = "ipip"
  BY <1>5 DEF if_handler_netlink, ipxipy_netlink, Holds, Kept, if_handler_init, Sized
<1>6. CASE f.driver = "vti"
  BY <1>6 DEF if_handler_netlink, vti_netlink, Holds, Kept, if_handler_init, Sized
<1>7. CASE f.driver \notin {"vxlan", "geneve", "gre", "ipip", "vti"}
  BY <1>7 DEF if_handler_netlink, bond_netlink, vlan_netlink, macsec_netlink, xfrm_netlink,
              Holds, Kept, if_handler_init
<1> QED BY <1>2, <1>3, <1>4, <1>5, <1>6, <1>7

\* fill_if_link calls them on the entry if_handler_init has prepared.
LEMMA NetlinkKeeps ==
    ASSUME NEW e, NEW f
    PROVE  Holds(if_handler_netlink(f, entry(e, f)), f)
<1>1. "private" \in DOMAIN entry(e, f) /\ entry(e, f).private = if_handler_init(f)
  BY DEF entry
<1> QED BY <1>1, CallbackKeeps

\* Neither the scan callbacks nor the resolution touch the private data.
LEMMA ScanKeeps ==
    ASSUME NEW e, NEW f, NEW x, Holds(x, f)
    PROVE  Holds(iov_scan(e, bridge_scan(e, bond_scan(e, x))), f)
<1>1. \A y : Holds(y, f) => Holds(bond_scan(e, y), f)
  BY DEF bond_scan, Holds
<1>2. \A y : Holds(y, f) => Holds(bridge_scan(e, y), f)
  BY DEF bridge_scan, Holds
<1>3. \A y : Holds(y, f) => Holds(iov_scan(e, y), f)
  BY DEF iov_scan, Holds
<1> QED BY <1>1, <1>2, <1>3

\* process of master.c
LEMMA ProcessKeeps ==
    ASSUME NEW e, NEW f, NEW x, Holds(x, f)
    PROVE  Holds(process(e, x), f)
BY DEF process, Holds

\* The post callbacks change other fields, of any entry.
SameBlocks(en, new) ==
    /\ DOMAIN new = Ifs
    /\ \A e \in Ifs : \A f : Holds(en[e], f) => Holds(new[e], f)

\* bond_post and team_post
LEMMA ElectedKeeps ==
    ASSUME NEW en, NEW m, NEW i
    PROVE  SameBlocks(en, Elected(en, m, i))
BY DEF SameBlocks, Elected, Holds

\* All post callbacks of one interface
LEMMA PostKeeps ==
    ASSUME NEW en, DOMAIN en = Ifs, NEW e \in Ifs
    PROVE  SameBlocks(en, iov_post(driver_post(en, e), e))
<1>1. SameBlocks(en, tunnel_post(en, e))
  BY DEF SameBlocks, tunnel_post, Holds
<1>2. SameBlocks(en, bond_post(en, e))
  BY ElectedKeeps DEF SameBlocks, bond_post
<1>3. SameBlocks(en, team_post(en, e))
  BY ElectedKeeps DEF SameBlocks, team_post
<1>4. SameBlocks(en, driver_post(en, e))
  <2>1. SameBlocks(en, en)
    BY DEF SameBlocks
  <2> QED BY <1>1, <1>2, <1>3, <2>1 DEF driver_post
<1>5. ASSUME NEW new, DOMAIN new = Ifs PROVE SameBlocks(new, iov_post(new, e))
  BY <1>5 DEF SameBlocks, iov_post, Holds
<1>6. SameBlocks(driver_post(en, e), iov_post(driver_post(en, e), e))
  BY <1>4, <1>5 DEF SameBlocks
<1> QED BY <1>4, <1>6 DEF SameBlocks

-----------------------------------------------------------------------------
\* No entry is filled at first.
LEMMA InitKept == Init => KeptInv
<1> SUFFICES ASSUME Init PROVE KeptInv
  OBVIOUS
<1>1. Shape
  BY ConfigAssumption, PlaceAssumption DEF Init, Shape, Phases, Ifs, Possible
<1>2. \A e \in Ifs : ~ Filled(e)
  BY DEF Init, Filled, Ifs
<1> QED BY <1>1, <1>2 DEF KeptInv, PrivateValid, Init

\* Steps that only move on: what was filled stays filled.
LEMMA Onwards ==
    ASSUME KeptInv, cur' \in Ifs, phase' \in Phases \ {"crashed"}, k' = k, DOMAIN ent' = Ifs,
           \A e \in Ifs : Filled(e)' => Holds(ent'[e], k[e])
    PROVE  KeptInv'
BY DEF KeptInv, Shape, PrivateValid

\* fill_if_link fills one entry more.
LEMMA FillKept == KeptInv /\ fill_if_link => KeptInv'
<1> SUFFICES ASSUME KeptInv, fill_if_link PROVE KeptInv'
  OBVIOUS
<1> USE DEF fill_if_link
<1>1. DOMAIN ent' = Ifs /\ cur \in Ifs
  BY DEF KeptInv, Shape
<1>2. ASSUME NEW e \in Ifs, Filled(e)' PROVE Holds(ent'[e], k[e])
  <2>1. CASE e = cur
    BY <2>1, NetlinkKeeps DEF KeptInv, Shape
  <2>2. CASE e # cur
    <3>1. e < cur
      BY <1>1, <1>2, <2>2 DEF Filled, Ifs
    <3> QED BY <3>1, <2>2 DEF KeptInv, Shape, Filled
  <2> QED BY <2>1, <2>2
<1> QED BY <1>1, <1>2, Onwards DEF Phases

\* Steps of the scan of one interface keep the blocks.
LEMMA ScanStep ==
    ASSUME KeptInv, phase \in {"scan", "connect", "wait", "recv"}, k' = k, DOMAIN ent' = Ifs,
           \A e \in Ifs : Holds(ent[e], k[e]) => Holds(ent'[e], k[e]),
           \/ cur' = cur /\ phase' \in {"connect", "wait", "recv", "wild"}
           \/ NextInterface
    PROVE  KeptInv'
<1>1. cur' \in Ifs /\ phase' \in Phases \ {"crashed"}
  <2>1. cur \in Ifs
    BY DEF KeptInv, Shape
  <2>2. cur' \in Ifs
    BY <2>1, PlaceAssumption DEF NextInterface, Ifs
  <2>3. phase' \in {"connect", "wait", "recv", "wild", "resolve", "link"}
    BY DEF NextInterface
  <2> QED BY <2>2, <2>3 DEF Phases
<1>2. ASSUME NEW e \in Ifs, Filled(e)' PROVE Filled(e)
  BY <1>2 DEF Filled, NextInterface, Ifs, KeptInv, Shape
<1> QED BY <1>1, <1>2, Onwards DEF KeptInv

\* if_add_warning leaves the blocks alone.
LEMMA WarnedKeeps ==
    ASSUME KeptInv, Warned(cur)
    PROVE  DOMAIN ent' = Ifs /\ \A e \in Ifs : Holds(ent[e], k[e]) => Holds(ent'[e], k[e])
BY DEF KeptInv, Shape, Warned, Holds

\* The scan callbacks, teamd's included
LEMMA TeamKept == KeptInv /\ (if_handler_scan \/ Team) => KeptInv'
<1> SUFFICES ASSUME KeptInv, if_handler_scan \/ Team PROVE KeptInv'
  OBVIOUS
<1>0. DOMAIN ent = Ifs
  BY DEF KeptInv, Shape
<1>1. CASE if_handler_scan
  <2>1. DOMAIN ent' = Ifs /\ \A e \in Ifs : Holds(ent[e], k[e]) => Holds(ent'[e], k[e])
    BY <1>0, <1>1, ScanKeeps DEF if_handler_scan
  <2> QED BY <1>1, <2>1, ScanStep DEF if_handler_scan
<1>2. CASE team_connect
  BY <1>0, <1>2, WarnedKeeps, ScanStep DEF team_connect
<1>3. CASE team_wait
  BY <1>0, <1>3, WarnedKeeps, ScanStep DEF team_wait
<1>4. CASE team_recv_bad
  BY <1>0, <1>4, WarnedKeeps, ScanStep DEF team_recv_bad
<1>5. CASE team_parse_json
  <2>1. ent' = [ent EXCEPT ![cur].activeName = teamd.port] =>
            DOMAIN ent' = Ifs /\ \A e \in Ifs : Holds(ent[e], k[e]) => Holds(ent'[e], k[e])
    BY <1>0 DEF Holds
  <2> QED BY <1>0, <1>5, <2>1, WarnedKeeps, ScanStep DEF team_parse_json
<1> QED BY <1>1, <1>2, <1>3, <1>4, <1>5 DEF Team

\* From the resolution to the end: the only steps that may fault
LEMMA LateKept ==
    KeptInv /\ (if_list_error \/ master_resolve \/ Post \/ frontend_output \/ Cleanup) => KeptInv'
<1> SUFFICES ASSUME KeptInv, if_list_error \/ master_resolve \/ Post \/ frontend_output \/ Cleanup
             PROVE  KeptInv'
  OBVIOUS
<1>0. Shape /\ cur \in Ifs /\ 1 \in Ifs /\ DOMAIN ent = Ifs
  BY PlaceAssumption DEF KeptInv, Shape, Ifs
<1>1. CASE if_list_error
  BY <1>0, <1>1, Onwards DEF if_list_error, Phases, Filled
<1>2. CASE master_resolve
  <2>1. \A e \in Ifs : Holds(ent[e], k[e])
    BY <1>2 DEF master_resolve, KeptInv, Filled
  <2> QED BY <1>0, <1>2, <2>1, ProcessKeeps, Onwards DEF master_resolve, Phases
<1>3. ASSUME phase \in {"post", "output", "cleanup"} PROVE \A e \in Ifs : Holds(ent[e], k[e])
  BY <1>3 DEF KeptInv, Filled
<1>4. CASE if_handler_post
  <2>1. cur' \in Ifs /\ phase' \in Phases \ {"crashed"}
    BY <1>0, <1>4, PlaceAssumption DEF if_handler_post, Phases, Ifs
  <2>2. SameBlocks(ent, ent')
    BY <1>0, <1>4, PostKeeps DEF if_handler_post
  <2> QED BY <1>3, <1>4, <2>1, <2>2, Onwards DEF if_handler_post, SameBlocks
<1>5. CASE PostFault
  <2>1. Holds(ent[cur], k[cur])
    BY <1>0, <1>3, <1>5 DEF PostFault
  <2>2. CASE PostReads(cur) /\ ent[cur].private \in {NULL, "freed"}
    <3>1. k[cur].driver \in {"vxlan", "geneve", "vti"} /\ ~ k[cur].info
      BY <2>1, <2>2, PlaceAssumption DEF PostReads, Holds, Kept, Sized, Tunnels
    <3> QED BY <1>0, <1>3, <1>5, <3>1 DEF PostFault, KeptInv, Shape, Filled, PrivateValid, Phases
  <2>3. CASE ComparesNull(cur)
    <3>1. k[cur].driver = "team" /\ ent[cur].activeName = NotAName /\ \E e \in Ifs : ent[e].master = cur
      BY <2>3 DEF ComparesNull
    <3> QED BY <1>0, <1>3, <1>5, <3>1 DEF PostFault, KeptInv, Shape, Filled, PrivateValid, Phases
  <2> QED BY <1>5, <2>2, <2>3 DEF PostFault
<1>6. CASE frontend_output
  BY <1>0, <1>3, <1>6, Onwards DEF frontend_output, Phases
<1>7. CASE if_handler_cleanup
  <2>1. cur' \in Ifs /\ phase' \in Phases \ {"crashed"}
    BY <1>0, <1>7, PlaceAssumption DEF if_handler_cleanup, Phases, Ifs
  <2> QED BY <1>0, <1>3, <1>7, <2>1, Onwards DEF if_handler_cleanup
<1>8. CASE CleanupFault
  <2>1. Holds(ent[cur], k[cur])
    BY <1>0, <1>3, <1>8 DEF CleanupFault
  <2>2. k[cur].driver \in {"vxlan", "geneve", "vti"} /\ ~ k[cur].info
    BY <1>8, <2>1, PlaceAssumption DEF CleanupFault, Holds, Kept
  <2> QED BY <1>0, <1>3, <1>8, <2>2 DEF CleanupFault, KeptInv, Shape, Filled, PrivateValid, Phases
<1> QED BY <1>1, <1>2, <1>4, <1>5, <1>6, <1>7, <1>8 DEF Post, Cleanup

\* A bond that frees the field is behind a team.
LEMMA FaultKept == KeptInv /\ ErrnoOK /\ ScanFault => KeptInv'
<1> SUFFICES ASSUME KeptInv, ErrnoOK, ScanFault PROVE KeptInv'
  OBVIOUS
<1>1. /\ UNCHANGED <<k, gone, ent, cur>> /\ phase = "scan" /\ phase' = "crashed"
      /\ k[cur].driver = "bonding" /\ sysfs(cur, k[cur].active) = 0 /\ errno = 0
  BY DEF ScanFault, FreesField
<1>2. k[cur].active = 0 /\ cur \notin gone
  BY <1>1, PlaceAssumption DEF sysfs
<1>3. BehindTeam(cur)
  BY <1>1 DEF ErrnoOK
<1>4. BehindTeam(cur)'
  BY <1>1, <1>3 DEF BehindTeam, AllFound
<1>5. PrivateValid'
  BY <1>1, <1>2, <1>4 DEF PrivateValid
<1> QED BY <1>1, <1>5 DEF KeptInv, Shape, Phases, Filled

\* Drivers and attributes are not among what changes during a run.
LEMMA EnvironmentKept == KeptInv /\ (Environment \/ UNCHANGED vars) => KeptInv'
<1> SUFFICES ASSUME KeptInv, Environment \/ UNCHANGED vars PROVE KeptInv'
  OBVIOUS
<1>1. CASE UNCHANGED vars
  <2>1. PrivateValid'
    BY <1>1 DEF vars, KeptInv, PrivateValid, BehindTeam, AllFound
  <2> QED BY <1>1, <2>1 DEF vars, KeptInv, Shape, Filled
<1>2. CASE TeamdAnswers
  BY <1>2 DEF TeamdAnswers, KeptInv, Shape, Filled, PrivateValid
<1>3. ASSUME NEW e \in Ifs, Vanish(e) PROVE KeptInv'
  <2>1. PrivateValid'
    BY <1>3 DEF Vanish, Reading, PrivateValid
  <2> QED BY <1>3, <2>1 DEF Vanish, KeptInv, Shape, Filled
<1>4. ASSUME NEW m \in Ifs, Failover(m) PROVE KeptInv'
  <2>1. PICK i : k' = [k EXCEPT ![m].active = i]
    BY <1>4 DEF Failover
  <2>2. /\ DOMAIN k' = Ifs
        /\ \A e \in Ifs : /\ {"driver", "info", "active"} \subseteq DOMAIN k'[e]
                          /\ k'[e].driver = k[e].driver
                          /\ k'[e].info = k[e].info
    BY <2>1 DEF KeptInv, Shape
  <2>3. \A e \in Ifs : Kept(k'[e]) = Kept(k[e])
    BY <2>2 DEF Kept
  <2>4. UNCHANGED <<ent, phase, cur>> /\ phase # "crashed"
    BY <1>4 DEF Failover, Reading
  <2> QED BY <2>2, <2>3, <2>4 DEF KeptInv, Shape, Filled, PrivateValid, Holds
<1> QED BY <1>1, <1>2, <1>3, <1>4 DEF Environment

\* errno is not 0 at first.
LEMMA InitErrno == Init => ErrnoOK
BY DEF Init, ErrnoOK, ENOENT

\* A step to the next interface, from a team or with errno still 0
LEMMA NextErrno ==
    ASSUME Shape, NextInterface, k' = k, DOMAIN ent' = Ifs,
           \A f \in Ifs : f # cur => ent'[f] = ent[f],
           \/ k[cur].driver = "team"
           \/ errno' = 0 => BehindTeam(cur) /\ AllFound(ent'[cur])
    PROVE  ErrnoOK'
<1>1. PICK c \in 1..N : c = cur
  BY DEF Shape, Ifs
<1>2. N \in Nat
  BY PlaceAssumption
<1>3. phase' \in {"resolve", "link"} /\ (phase' = "link" => cur' = c + 1)
  BY <1>1 DEF NextInterface
<1>4. ASSUME errno' = 0, phase' = "link" PROVE BehindNext(c)'
  <2>1. CASE k[cur].driver = "team"
    <3>1. k'[c].driver = "team" /\ \A f \in (c + 1)..c : AllFound(ent'[f])
      BY <1>1, <2>1
    <3> QED BY <3>1 DEF BehindNext, AllFound
  <2>2. CASE BehindTeam(cur) /\ AllFound(ent'[cur])
    <3>1. PICK t \in 1..(c - 1) : /\ k[t].driver = "team" /\ Ns[t] = Ns[c]
                                  /\ \A f \in (t + 1)..(c - 1) : AllFound(ent[f])
      BY <1>1, <2>2 DEF BehindTeam
    <3>2. \A f \in (t + 1)..c : AllFound(ent'[f])
      <4> SUFFICES ASSUME NEW f \in (t + 1)..c PROVE AllFound(ent'[f])
        OBVIOUS
      <4>1. CASE f = c
        BY <1>1, <2>2, <4>1
      <4>2. CASE f # c
        <5>1. f \in (t + 1)..(c - 1) /\ f \in Ifs
          BY <1>2, <4>2 DEF Ifs
        <5>2. ent'[f] = ent[f]
          BY <1>1, <4>2, <5>1
        <5> QED BY <3>1, <5>1, <5>2
      <4> QED BY <4>1, <4>2
    <3>3. t \in 1..c
      OBVIOUS
    <3> QED BY <3>1, <3>2, <3>3 DEF BehindNext, AllFound
  <2> QED BY <1>4, <2>1, <2>2
<1>5. (c + 1) - 1 = c /\ c + 1 > 1
  OBVIOUS
<1>6. phase' = "link" /\ errno' = 0 => cur' > 1 /\ BehindNext(cur - 1)'
  BY <1>3, <1>4, <1>5 DEF BehindNext, AllFound
<1> QED BY <1>3, <1>6 DEF ErrnoOK

\* Every step keeps it.
LEMMA ErrnoStep == Shape /\ ErrnoOK /\ [Next]_vars => ErrnoOK'
<1> SUFFICES ASSUME Shape, ErrnoOK, [Next]_vars PROVE ErrnoOK'
  OBVIOUS
<1>0. DOMAIN ent = Ifs /\ cur \in Ifs
  BY DEF Shape
<1>1. CASE fill_if_link
  <2>1. PICK c \in 1..N : c = cur
    BY <1>0 DEF Ifs
  <2>2. UNCHANGED <<k, cur>> /\ phase = "link" /\ phase' = "scan" /\ \A f \in Ifs : f # c => ent'[f] = ent[f]
    BY <1>0, <1>1, <2>1 DEF fill_if_link
  <2>3. errno' = 0 => c > 1 /\ Ns[c] = Ns[c - 1] /\ errno = 0
    BY <1>1, <2>1 DEF fill_if_link, ENOENT
  <2>4. ASSUME errno' = 0 PROVE BehindTeam(c)'
    <3>1. BehindNext(c - 1)
      BY <2>1, <2>2, <2>3, <2>4 DEF ErrnoOK
    <3>2. PICK t \in 1..(c - 1) : /\ k[t].driver = "team" /\ Ns[t] = Ns[c - 1]
                                  /\ \A f \in (t + 1)..(c - 1) : AllFound(ent[f])
      BY <3>1 DEF BehindNext
    <3>3. N \in Nat
      BY PlaceAssumption
    <3>4. \A f \in (t + 1)..(c - 1) : f \in Ifs /\ f # c
      BY <3>3 DEF Ifs
    <3>5. \A f \in (t + 1)..(c - 1) : AllFound(ent'[f])
      BY <2>2, <3>2, <3>4
    <3> QED BY <2>2, <2>3, <2>4, <3>2, <3>5 DEF BehindTeam, AllFound
  <2> QED BY <2>1, <2>2, <2>4 DEF ErrnoOK, BehindTeam, AllFound
<1>2. CASE if_handler_scan
  <2>1. k' = k /\ phase = "scan" /\ DOMAIN ent' = Ifs /\ \A f \in Ifs : f # cur => ent'[f] = ent[f]
    BY <1>0, <1>2 DEF if_handler_scan
  <2>2. errno' = 0 => errno = 0 /\ AllFound(ent'[cur])
    BY <1>2 DEF if_handler_scan, ENOENT
  <2>3. CASE k[cur].driver = "team"
    BY <1>2, <2>1, <2>3 DEF if_handler_scan, ErrnoOK
  <2>4. CASE k[cur].driver # "team"
    <3>1. errno' = 0 => BehindTeam(cur) /\ AllFound(ent'[cur])
      BY <2>1, <2>2 DEF ErrnoOK
    <3> QED BY <1>2, <2>1, <2>4, <3>1, NextErrno DEF if_handler_scan
  <2> QED BY <2>3, <2>4
<1>3. CASE Team
  <2>1. k' = k /\ phase \in {"connect", "wait", "recv"}
    BY <1>3 DEF Team, team_connect, team_wait, team_recv_bad, team_parse_json
  <2>2. DOMAIN ent' = Ifs /\ \A f \in Ifs : f # cur => ent'[f] = ent[f]
    BY <1>0, <1>3 DEF Team, team_connect, team_wait, team_recv_bad, team_parse_json, Warned
  <2>3. NextInterface \/ (cur' = cur /\ phase' \notin {"link", "scan"})
    BY <1>3 DEF Team, team_connect, team_wait, team_recv_bad, team_parse_json
  <2>4. k[cur].driver = "team"
    BY <2>1 DEF ErrnoOK
  <2> QED BY <2>1, <2>2, <2>3, <2>4, NextErrno DEF ErrnoOK
<1>4. ASSUME phase' \notin {"link", "scan", "connect", "wait", "recv"} PROVE ErrnoOK'
  BY <1>4 DEF ErrnoOK
<1>5. CASE ScanFault \/ if_list_error \/ master_resolve \/ Post \/ frontend_output \/ Cleanup
  <2>1. phase' \notin {"link", "scan", "connect", "wait", "recv"}
    BY <1>5 DEF ScanFault, if_list_error, master_resolve, Post, if_handler_post, PostFault,
                frontend_output, Cleanup, if_handler_cleanup, CleanupFault
  <2> QED BY <1>4, <2>1
<1>6. ASSUME UNCHANGED <<ent, errno, phase, cur>>, \A e \in Ifs : k'[e].driver = k[e].driver
      PROVE  ErrnoOK'
  <2>1. N \in Nat /\ \A e \in 1..N : \A t \in 1..e : t \in Ifs
    BY PlaceAssumption DEF Ifs
  <2>2. \A e \in 1..N : BehindNext(e)' <=> BehindNext(e)
    BY <1>6, <2>1 DEF BehindNext, AllFound
  <2>3. PICK c \in 1..N : c = cur
    BY <1>0 DEF Ifs
  <2>4. \A t \in 1..(c - 1) : t \in Ifs
    BY <2>1, <2>3 DEF Ifs
  <2>5. BehindTeam(c)' <=> BehindTeam(c)
    BY <1>6, <2>4 DEF BehindTeam, AllFound
  <2>6. c > 1 => c - 1 \in 1..N
    BY <2>1
  <2>7. BehindTeam(cur)' <=> BehindTeam(cur)
    BY <1>6, <2>3, <2>5 DEF BehindTeam, AllFound
  <2>8. cur > 1 => (BehindNext(cur - 1)' <=> BehindNext(cur - 1))
    BY <1>6, <2>2, <2>3, <2>6 DEF BehindNext, AllFound
  <2> QED BY <1>0, <1>6, <2>7, <2>8 DEF ErrnoOK
<1>7. CASE Environment \/ UNCHANGED vars
  <2>1. UNCHANGED <<ent, errno, phase, cur>>
    BY <1>7 DEF Environment, Vanish, Failover, TeamdAnswers, vars
  <2>2. k' = k \/ \E m \in Ifs, i \in Nat : k' = [k EXCEPT ![m].active = i]
    BY <1>7, PlaceAssumption DEF Environment, Vanish, Failover, TeamdAnswers, vars
  <2>3. \A e \in Ifs : k'[e].driver = k[e].driver
    BY <2>2 DEF Shape
  <2> QED BY <1>6, <2>1, <2>3
<1> QED BY <1>1, <1>2, <1>3, <1>5, <1>7 DEF Next, Program

\* Every step keeps the blocks.
LEMMA KeptStep == KeptInv /\ ErrnoOK /\ [Next]_vars => KeptInv'
BY FillKept, TeamKept, FaultKept, LateKept, EnvironmentKept DEF Next, Program

\* Only vxlan, geneve and vti interfaces without attributes, bonds behind a team
\* and teams with an odd daemon lead to a fault, whatever else the kernel is
\* configured to, removes or changes: the life of handler_private between
\* if_handler_init and if_handler_cleanup.
THEOREM PrivateCorrect == Spec => []PrivateValid
<1>1. KeptInv /\ ErrnoOK /\ [Next]_vars => KeptInv' /\ ErrnoOK'
  BY KeptStep, ErrnoStep DEF KeptInv
<1>2. KeptInv => PrivateValid
  BY DEF KeptInv
<1> QED BY InitKept, InitErrno, <1>1, <1>2, PTL DEF Spec

-----------------------------------------------------------------------------
(* What an entry says about its interface, stage by stage.  x is the entry   *)
(* of interface e.                                                           *)

Fields == {"private", "local", "activeIndex", "activeName", "up", "addrs", "masterIndex",
           "linkIndex", "linkNetnsid", "label", "pciPath", "physfnPath", "master", "link", "linkNet",
           "weak", "activeSlave", "passive", "physfn", "warned"}

\* From netlink
Linked(e, x) ==
    /\ DOMAIN x = Fields
    /\ x.up = k[e].up
    /\ x.addrs = k[e].addrs
    /\ x.linkNetnsid = Netnsid(k[e], Ns[e])
    /\ k[e].driver \in Tunnels /\ k[e].info => x.local = k[e].local
    /\ k[e].driver \in Tunnels /\ k[e].info /\ k[e].dev < U8 => x.linkIndex = k[e].dev
    /\ k[e].driver = "other" => x.linkIndex = k[e].dev
    /\ x.activeIndex # NULL
    /\ x.activeIndex # 0 => x.activeIndex \in actives[e]
    /\ k[e].driver = "bonding" /\ k[e].info /\ x.activeIndex = 0 => 0 \in actives[e]

Fresh(e, x) ==
    /\ x.masterIndex = MasterIndex(k[e])
    /\ x.activeName = NULL

\* From sysfs
Scanned(e, x) ==
    /\ k[e].master = NULL => x.masterIndex = 0
    /\ k[e].master # NULL /\ {e, k[e].master} \cap gone = {} => x.masterIndex = Index[k[e].master]
    /\ x.pciPath \in {NULL, k[e].pci}
    /\ e \notin gone => x.pciPath = k[e].pci /\ x.physfnPath = k[e].physfn
    /\ k[e].driver = "bonding" =>
          /\ x.activeName # NULL => x.activeIndex = 0 /\ x.activeName # 0 /\ x.activeName \in actives[e]
          /\ x.activeName = NULL /\ x.activeIndex = 0 => e \in gone \/ 0 \in actives[e]

\* From teamd
Named(e, x) ==
    k[e].driver = "team" =>
        /\ x.activeName # NULL => x.activeName \in actives[e] \union {NotAName}
        /\ x.activeName = NULL => x.warned \/ NULL \in actives[e]

\* What only post sets
Blank(x) == ~x.weak /\ x.activeSlave = NULL /\ ~x.passive /\ x.physfn = NULL

\* Only team_scan warns before the resolution.
Quiet(e, x) == k[e].driver # "team" => ~x.warned

AfterLink(e, x) == Linked(e, x) /\ Fresh(e, x) /\ Blank(x) /\ Quiet(e, x)
AfterScan(e, x) == Linked(e, x) /\ Scanned(e, x) /\ Blank(x) /\ Quiet(e, x)
Ready(e, x) == AfterScan(e, x) /\ Named(e, x)

\* No interface takes part in the facts about e that has vanished.
Intact(e) == {e, k[e].master} \cap gone = {}

\* From the resolution
Resolved(e, x) ==
    /\ x.master # e
    /\ Intact(e) => x.master = k[e].master
    /\ Regular(e) => k[e].under = IF x.linkNet # NULL THEN x.linkNet ELSE Ns[e]

Unposted(e, x) ==
    /\ x.activeSlave = NULL
    /\ x.physfn = NULL
    /\ x.warned \in BOOLEAN
    /\ k[e].driver = "other" /\ k[e].dev = 0 /\ Intact(e) => ~x.warned
    /\ Regular(e) => x.link = First(In(Ns[e], k[e].dev)) /\ ~x.weak

\* The three properties of one interface
Elects(m) ==
    k[m].driver \in {"bonding", "team"} =>
        \/ ent[m].warned
        \/ m \in gone /\ Roles(m, NULL)
        \/ \E a \in actives[m] : Roles(m, a)

Tunnelled(e, x) ==
    Regular(e) =>
        IF Cardinality(Holders(e)) = 1
        THEN x.link = First(Holders(e)) /\ x.weak
        ELSE x.link = First(In(Ns[e], k[e].dev)) /\ ~x.weak

Alone(e, x) ==
    (k[e].driver = "other" /\ k[e].dev = 0 /\ Involved(e) \cap gone = {}) =>
        /\ x.master = k[e].master
        /\ x.physfn = First(PhysicalFunctions(k[e].physfn))
        /\ x.warned = (k[e].physfn # NULL /\ x.physfn = NULL)

Early == phase \in {"link", "scan", "connect", "wait", "recv"}
Late == phase \in {"post", "output", "cleanup", "exit"}

Asking == phase \in {"connect", "wait", "recv"}

KernelOK ==
    /\ Possible(k)
    /\ DOMAIN actives = Ifs
    /\ \A m \in Ifs : k[m].active \in actives[m]
    /\ Asking => /\ k[cur].driver = "team"
                 /\ teamd # NULL /\ teamd.state => teamd.port \in actives[cur] \union {NotAName}
    /\ phase = "recv" => teamd # NULL

\* Interfaces whose scan is over
Settled(e) == (Early /\ e < cur) \/ phase = "resolve"

EarlyOK ==
    \A e \in Ifs : \A x : x = ent[e] =>
        /\ Settled(e) => Ready(e, x)
        /\ phase = "scan" /\ e = cur => AfterLink(e, x)
        /\ Asking /\ e = cur => AfterScan(e, x) /\ x.activeName = NULL

\* Interfaces whose post callbacks have been called
Posted(e) == phase # "post" \/ e < cur

NoPassive(m) == \A p \in Ifs : ent[p].master = m => ~ent[p].passive

LateOK ==
    /\ phase = "resolve" => cur = 1
    /\ Late => \A e \in Ifs :
           /\ \A x : x = ent[e] =>
                 /\ Linked(e, x) /\ Scanned(e, x) /\ Named(e, x) /\ Resolved(e, x)
                 /\ ~Posted(e) => Unposted(e, x)
                 /\ Posted(e) => Tunnelled(e, x) /\ Alone(e, x)
           /\ ~Posted(e) => NoPassive(e)
           /\ Posted(e) => Elects(e)

\* First is a member of a set that has one.
LEMMA FirstIsMember ==
    ASSUME NEW S, S \subseteq Ifs
    PROVE  /\ S = {} => First(S) = NULL
           /\ S # {} => First(S) \in S /\ First(S) # NULL
           /\ \A i \in Ifs : S = {i} => First(S) = i
<1>1. S \subseteq Nat
  BY DEF Ifs
<1>2. ASSUME S # {} PROVE Min(S) \in S
  <2>1. \E x \in S : \A y \in S : ~ (<<y, x>> \in OpToRel(<, Nat))
    BY <1>1, <1>2, NatLessThanWellFounded, WFMin
  <2>2. PICK x \in S : \A y \in S : ~ (<<y, x>> \in OpToRel(<, Nat))
    BY <2>1
  <2>3. ASSUME NEW y \in S PROVE ~ (y < x)
    <3>1. <<y, x>> \in Nat \X Nat /\ <<y, x>>[1] = y /\ <<y, x>>[2] = x
      BY <1>1
    <3>. QED
      BY <3>1, <2>2, Zenon DEF OpToRel
  <2>4. \A y \in S : x <= y
    BY <1>1, <2>3
  <2>. QED
    BY <2>4 DEF Min
<1>3. NULL \notin Ifs
  BY PlaceAssumption DEF Ifs
<1>. QED
  BY <1>2, <1>3 DEF First

\* An index belongs to one interface of a namespace, and 0 to none.
LEMMA IndexUnique ==
    /\ \A e \in Ifs : In(Ns[e], Index[e]) = {e}
    /\ \A ns : In(ns, 0) = {}
<1>1. \A e \in Ifs : Index[e] # 0
  BY PlaceAssumption
<1>. QED
  BY <1>1, PlaceAssumption DEF In

\* What a step may change of the system: other ports become active, interfaces
\* vanish.
SameButActive(f, g) ==
    /\ g.driver = f.driver /\ g.info = f.info /\ g.up = f.up /\ g.addrs = f.addrs
    /\ g.local = f.local /\ g.dev = f.dev /\ g.under = f.under /\ g.master = f.master
    /\ g.brport = f.brport /\ g.pci = f.pci /\ g.physfn = f.physfn

Moved ==
    /\ gone \subseteq gone'
    /\ \A e \in Ifs : actives[e] \subseteq actives'[e] /\ SameButActive(k[e], k'[e])

\* What entries say stays true while the system moves.
LEMMA EntriesStay ==
    ASSUME Moved, NEW e \in Ifs, NEW x
    PROVE  /\ Linked(e, x) => Linked(e, x)'
           /\ Fresh(e, x) => Fresh(e, x)'
           /\ Scanned(e, x) => Scanned(e, x)'
           /\ Named(e, x) => Named(e, x)'
           /\ Quiet(e, x) => Quiet(e, x)'
<1>1. SameButActive(k[e], k'[e]) /\ actives[e] \subseteq actives'[e] /\ gone \subseteq gone'
  BY DEF Moved
<1>2. Netnsid(k'[e], Ns[e]) = Netnsid(k[e], Ns[e]) /\ MasterIndex(k'[e]) = MasterIndex(k[e])
  BY <1>1 DEF SameButActive, Netnsid, MasterIndex
<1>3. Linked(e, x) => Linked(e, x)'
  BY <1>1, <1>2 DEF SameButActive, Linked
<1>4. Fresh(e, x) => Fresh(e, x)'
  BY <1>2 DEF Fresh
<1>5. Scanned(e, x) => Scanned(e, x)'
  <2>1. {e, k'[e].master} \cap gone' = {} => {e, k[e].master} \cap gone = {}
    BY <1>1 DEF SameButActive
  <2>. QED
    BY <1>1, <2>1 DEF SameButActive, Scanned
<1>6. Named(e, x) => Named(e, x)'
  BY <1>1 DEF SameButActive, Named
<1>7. Quiet(e, x) => Quiet(e, x)'
  BY <1>1 DEF SameButActive, Quiet
<1>. QED
  BY <1>3, <1>4, <1>5, <1>6, <1>7

\* The stages of an entry, likewise
LEMMA ReadyStays ==
    ASSUME Moved, NEW e \in Ifs, NEW x
    PROVE  /\ AfterLink(e, x) => AfterLink(e, x)'
           /\ AfterScan(e, x) => AfterScan(e, x)'
           /\ Ready(e, x) => Ready(e, x)'
<1>1. Blank(x) => Blank(x)'
  BY DEF Blank
<1>. QED
  BY <1>1, EntriesStay DEF AfterLink, AfterScan, Ready

-----------------------------------------------------------------------------
(* The kernel's and teamd's part *)

\* What is configured at first is possible.
LEMMA KernelInit == Init => KernelOK
  BY ConfigAssumption DEF Init, KernelOK, Asking

\* The program changes nothing of the kernel.
LEMMA ProgramMoves ==
    ASSUME KernelOK, UNCHANGED <<k, actives, gone>>
    PROVE  /\ Moved
           /\ Possible(k)' /\ DOMAIN actives' = Ifs /\ \A m \in Ifs : k'[m].active \in actives'[m]
<1>1. Possible(k)'
  BY DEF KernelOK, Possible
<1>. QED
  BY <1>1 DEF KernelOK, Moved, SameButActive

\* Another active port leaves the configuration possible.
LEMMA FailoverMoves ==
    ASSUME Shape, KernelOK, NEW m \in Ifs, Failover(m)
    PROVE  KernelOK' /\ Moved
<1>1. PICK e \in Ifs : /\ k' = [k EXCEPT ![m].active = Index[e]]
                       /\ actives' = [actives EXCEPT ![m] = @ \union {Index[e]}]
  BY DEF Failover
<1>2. DOMAIN k = Ifs /\ DOMAIN actives = Ifs /\ Possible(k)
  BY DEF KernelOK, Possible
<1>3. DOMAIN k' = Ifs /\ DOMAIN actives' = Ifs
  BY <1>1, <1>2
<1>4. ASSUME NEW i \in Ifs
      PROVE  /\ DOMAIN k'[i] = DOMAIN k[i]
             /\ SameButActive(k[i], k'[i])
             /\ k'[i].active = k[i].active \/ k'[i].active \in Nat
             /\ actives[i] \subseteq actives'[i]
             /\ k'[i].active \in actives'[i]
  <2>1. DOMAIN k[i] = {"driver", "info", "up", "addrs", "local", "dev", "under", "master",
                       "brport", "active", "pci", "physfn"}
    BY <1>2 DEF Possible
  <2>2. CASE i = m
    <3>1. k'[i] = [k[i] EXCEPT !.active = Index[e]]
      BY <1>1, <1>2, <2>2
    <3>2. Index[e] \in Nat
      BY PlaceAssumption
    <3>3. SameButActive(k[i], k'[i])
      BY <2>1, <3>1 DEF SameButActive
    <3>. QED
      BY <1>1, <1>2, <2>1, <2>2, <3>1, <3>2, <3>3
  <2>3. CASE i # m
    <3>1. k'[i] = k[i] /\ actives'[i] = actives[i]
      BY <1>1, <1>2, <2>3
    <3>. QED
      BY <3>1 DEF KernelOK, SameButActive
  <2>. QED
    BY <2>2, <2>3
<1>5. Possible(k)'
  <2>. SUFFICES ASSUME NEW i \in Ifs
                PROVE  /\ DOMAIN k'[i] = {"driver", "info", "up", "addrs", "local", "dev", "under", "master",
                                          "brport", "active", "pci", "physfn"}
                       /\ NULL \notin k'[i].addrs
                       /\ k'[i].dev \in Nat
                       /\ k'[i].under \in Listed \union {HiddenNs}
                       /\ k'[i].master # NULL => k'[i].master \in Ifs \ {i} /\ Ns[k'[i].master] = Ns[i]
                       /\ k'[i].active \in Nat \/ (k'[i].active = NULL /\ k'[i].driver # "bonding")
                       /\ k'[i].physfn # NULL => k'[i].pci # k'[i].physfn
    BY <1>3 DEF Possible
  <2>. QED
    BY <1>2, <1>4 DEF Possible, SameButActive
<1>6. UNCHANGED <<gone, teamd, phase, cur>>
  BY DEF Failover
<1>7. Asking => k'[cur].driver = "team"
  BY <1>4 DEF KernelOK, SameButActive, Shape
<1>8. Asking /\ teamd # NULL /\ teamd.state => teamd.port \in actives'[cur] \union {NotAName}
  <2>1. \A i \in Ifs : actives[i] \subseteq actives'[i]
    BY <1>4
  <2>. QED
    BY <2>1 DEF KernelOK, Shape
<1>9. Moved
  BY <1>4, <1>6 DEF Moved
<1>. QED
  BY <1>3, <1>4, <1>5, <1>6, <1>7, <1>8, <1>9 DEF KernelOK, Asking

\* Every step keeps the kernel's part and only moves the system.
LEMMA KernelStep == Shape /\ KernelOK /\ [Next]_vars => KernelOK' /\ Moved
<1>. SUFFICES ASSUME Shape, KernelOK, [Next]_vars PROVE KernelOK' /\ Moved
  OBVIOUS
<1>1. ASSUME UNCHANGED <<k, actives, gone>>, ~Asking' PROVE KernelOK' /\ Moved
  BY <1>1, ProgramMoves DEF KernelOK, Asking
<1>2. ASSUME UNCHANGED <<k, actives, gone, teamd, cur>>, Asking, phase' = "recv" => teamd # NULL
      PROVE  KernelOK' /\ Moved
  BY <1>2, ProgramMoves DEF KernelOK
<1>3. CASE if_handler_scan
  <2>1. UNCHANGED <<k, actives, gone>> /\ teamd' = NULL
    BY <1>3 DEF if_handler_scan
  <2>2. CASE k[cur].driver = "team"
    BY <1>3, <2>1, <2>2, ProgramMoves DEF if_handler_scan, KernelOK, Asking
  <2>3. CASE k[cur].driver # "team"
    BY <1>1, <1>3, <2>1, <2>3 DEF if_handler_scan, NextInterface, Asking
  <2>. QED
    BY <2>2, <2>3
<1>4. CASE Team
  <2>1. UNCHANGED <<k, actives, gone, teamd>> /\ Asking
    BY <1>4 DEF Team, team_connect, team_wait, team_recv_bad, team_parse_json, Asking
  <2>2. NextInterface \/ (UNCHANGED cur /\ (phase' = "recv" => teamd # NULL))
    BY <1>4 DEF Team, team_connect, team_wait, team_recv_bad, team_parse_json
  <2>3. NextInterface => ~Asking'
    BY DEF NextInterface, Asking
  <2>. QED
    BY <1>1, <1>2, <2>1, <2>2, <2>3
<1>5. CASE fill_if_link \/ ScanFault \/ if_list_error \/ master_resolve \/ Post \/ frontend_output \/ Cleanup
  <2>1. UNCHANGED <<k, actives, gone>>
    BY <1>5 DEF fill_if_link, ScanFault, if_list_error, master_resolve, Post, if_handler_post, PostFault,
                frontend_output, Cleanup, if_handler_cleanup, CleanupFault
  <2>2. ~Asking'
    BY <1>5 DEF fill_if_link, ScanFault, if_list_error, master_resolve, Post, if_handler_post, PostFault,
                frontend_output, Cleanup, if_handler_cleanup, CleanupFault, Asking
  <2>. QED
    BY <1>1, <2>1, <2>2
<1>6. ASSUME NEW e \in Ifs, Vanish(e) PROVE KernelOK' /\ Moved
  <2>1. Possible(k)'
    BY <1>6 DEF Vanish, KernelOK, Possible
  <2>. QED
    BY <1>6, <2>1 DEF Vanish, KernelOK, Moved, SameButActive, Asking
<1>7. ASSUME NEW e \in Ifs, Failover(e) PROVE KernelOK' /\ Moved
  BY <1>7, FailoverMoves
<1>8. CASE TeamdAnswers
  <2>1. UNCHANGED <<k, actives, gone, cur, phase>> /\ cur \in Ifs
    BY <1>8 DEF TeamdAnswers, Shape
  <2>2. (teamd'.state => teamd'.port \in {k[cur].active, NotAName}) /\ phase # "recv"
    BY <1>8 DEF TeamdAnswers
  <2>. QED
    BY <2>1, <2>2, ProgramMoves DEF KernelOK, Asking
<1>9. CASE UNCHANGED vars
  <2>1. UNCHANGED <<k, actives, gone, teamd, cur, phase>>
    BY <1>9 DEF vars
  <2>. QED
    BY <2>1, ProgramMoves DEF KernelOK, Asking
<1>. QED
  BY <1>3, <1>4, <1>5, <1>6, <1>7, <1>8, <1>9 DEF Next, Program, Environment

-----------------------------------------------------------------------------
(* fill_if_link and the scan callbacks *)

\* fill_if_addr gives an interface its own addresses.
LEMMA AddressesOwn == ASSUME NEW e \in Ifs PROVE fill_if_addr(e) = k[e].addrs
<1>1. In(Ns[e], Index[e]) = {e}
  BY IndexUnique
<1>. QED
  BY <1>1 DEF fill_if_addr

\* What the netlink callbacks leave alone, and what they set.
Callback(f, x, y) ==
    /\ DOMAIN y = Fields
    /\ y.up = x.up /\ y.addrs = x.addrs /\ y.linkNetnsid = x.linkNetnsid
    /\ y.masterIndex = x.masterIndex /\ y.activeName = x.activeName
    /\ y.weak = x.weak /\ y.activeSlave = x.activeSlave /\ y.passive = x.passive
    /\ y.physfn = x.physfn /\ y.warned = x.warned
    /\ f.driver \in Tunnels /\ f.info => y.local = f.local
    /\ f.driver \in Tunnels /\ f.info => y.linkIndex \in {x.linkIndex, f.dev % U8}
    /\ f.driver \notin Tunnels => y.linkIndex = x.linkIndex
    /\ y.activeIndex = IF f.driver = "bonding" /\ f.info THEN f.active ELSE x.activeIndex

\* if_handler_netlink, driver by driver
LEMMA CallbackSets ==
    ASSUME NEW f, NEW x, DOMAIN x = Fields, NEW y, y = if_handler_netlink(f, x)
    PROVE  Callback(f, x, y)
<1>1. CASE f.driver = "vxlan"
  <2>1. y = vxlan_netlink(f, x)
    BY <1>1 DEF if_handler_netlink
  <2>. QED
    BY <1>1, <2>1 DEF vxlan_netlink, Callback, Fields, Tunnels
<1>2. CASE f.driver = "geneve"
  <2>1. y = geneve_netlink(f, x)
    BY <1>2 DEF if_handler_netlink
  <2>. QED
    BY <1>2, <2>1 DEF geneve_netlink, Callback, Fields, Tunnels
<1>3. CASE f.driver = "gre"
  <2>1. y = gre_common_netlink(f, x)
    BY <1>3 DEF if_handler_netlink
  <2>. QED
    BY <1>3, <2>1 DEF gre_common_netlink, Callback, Fields, Tunnels
<1>4. CASE f.driver = "ipip"
  <2>1. y = ipxipy_netlink(f, x)
    BY <1>4 DEF if_handler_netlink
  <2>. QED
    BY <1>4, <2>1 DEF ipxipy_netlink, Callback, Fields, Tunnels
<1>5. CASE f.driver = "vti"
  <2>1. y = vti_netlink(f, x)
    BY <1>5 DEF if_handler_netlink
  <2>. QED
    BY <1>5, <2>1 DEF vti_netlink, Callback, Fields, Tunnels
<1>6. CASE f.driver = "bonding"
  <2>1. y = bond_netlink(f, x)
    BY <1>6 DEF if_handler_netlink
  <2>. QED
    BY <1>6, <2>1 DEF bond_netlink, Callback, Fields, Tunnels
<1>7. CASE f.driver \notin Tunnels \union {"geneve", "bonding"}
  <2>1. y \in {vlan_netlink(f, x), macsec_netlink(f, x), xfrm_netlink(f, x), x}
    BY <1>7 DEF if_handler_netlink, Tunnels
  <2>2. \A z \in {vlan_netlink(f, x), macsec_netlink(f, x), xfrm_netlink(f, x), x} :
            z = x \/ z = [x EXCEPT !.label = f.info]
    BY DEF vlan_netlink, macsec_netlink, xfrm_netlink
  <2>3. CASE y = x
    BY <1>7, <2>3 DEF Callback
  <2>4. CASE y = [x EXCEPT !.label = f.info]
    BY <1>7, <2>4 DEF Callback, Fields
  <2>. QED
    BY <2>1, <2>2, <2>3, <2>4
<1>. QED
  BY <1>1, <1>2, <1>3, <1>4, <1>5, <1>6, <1>7 DEF Tunnels

\* fill_if_link fills an entry from the kernel's record.
LEMMA LinkFills ==
    ASSUME KernelOK, NEW e \in Ifs, NEW y, y = if_handler_netlink(k[e], entry(e, k[e]))
    PROVE  AfterLink(e, y)
<1>1. PICK x : x = entry(e, k[e])
  OBVIOUS
<1>2. /\ DOMAIN x = Fields
      /\ x.up = k[e].up /\ x.addrs = k[e].addrs /\ x.linkNetnsid = Netnsid(k[e], Ns[e])
      /\ x.masterIndex = MasterIndex(k[e]) /\ x.activeName = NULL /\ x.linkIndex = k[e].dev
      /\ x.activeIndex = 0
      /\ ~x.weak /\ x.activeSlave = NULL /\ ~x.passive /\ x.physfn = NULL /\ ~x.warned
  BY <1>1, AddressesOwn DEF entry, Fields
<1>3. Callback(k[e], x, y)
  BY <1>1, <1>2, CallbackSets
<1>4. k[e].dev \in Nat /\ k[e].active \in actives[e]
      /\ (k[e].active \in Nat \/ (k[e].active = NULL /\ k[e].driver # "bonding"))
  BY DEF KernelOK, Possible
<1>5. k[e].dev < U8 => k[e].dev % U8 = k[e].dev
  BY <1>4 DEF U8
<1>6. Linked(e, y)
  <2>1. DOMAIN y = Fields /\ y.up = k[e].up /\ y.addrs = k[e].addrs
        /\ y.linkNetnsid = Netnsid(k[e], Ns[e])
    BY <1>2, <1>3 DEF Callback
  <2>2. /\ k[e].driver \in Tunnels /\ k[e].info => y.local = k[e].local
        /\ k[e].driver \in Tunnels /\ k[e].info /\ k[e].dev < U8 => y.linkIndex = k[e].dev
        /\ k[e].driver = "other" => y.linkIndex = k[e].dev
    BY <1>2, <1>3, <1>5 DEF Callback, Tunnels
  <2>3. /\ y.activeIndex # NULL
        /\ y.activeIndex # 0 => y.activeIndex \in actives[e]
        /\ k[e].driver = "bonding" /\ k[e].info /\ y.activeIndex = 0 => 0 \in actives[e]
    BY <1>2, <1>3, <1>4, PlaceAssumption DEF Callback
  <2>. QED
    BY <2>1, <2>2, <2>3 DEF Linked
<1>7. Fresh(e, y)
  BY <1>2, <1>3 DEF Callback, Fresh
<1>8. Blank(y) /\ Quiet(e, y)
  BY <1>2, <1>3 DEF Callback, Blank, Quiet
<1>. QED
  BY <1>6, <1>7, <1>8 DEF AfterLink

\* What the scan callbacks leave alone
Carried(x, y) ==
    /\ DOMAIN y = Fields
    /\ y.up = x.up /\ y.addrs = x.addrs /\ y.linkNetnsid = x.linkNetnsid /\ y.local = x.local
    /\ y.linkIndex = x.linkIndex /\ y.activeIndex = x.activeIndex
    /\ y.weak = x.weak /\ y.activeSlave = x.activeSlave /\ y.passive = x.passive
    /\ y.physfn = x.physfn /\ y.warned = x.warned

\* The three scan callbacks, one after the other
LEMMA ScanFills ==
    ASSUME KernelOK, NEW e \in Ifs, NEW x, AfterLink(e, x),
           NEW y, y = iov_scan(e, bridge_scan(e, bond_scan(e, x)))
    PROVE  AfterScan(e, y) /\ (k[e].driver # "bonding" => y.activeName = NULL)
<1>1. DOMAIN x = Fields /\ x.activeName = NULL /\ x.masterIndex = MasterIndex(k[e])
  BY DEF AfterLink, Linked, Fresh
<1>2. PICK b : b = bond_scan(e, x)
  OBVIOUS
<1>. DEFINE n == IF k[e].driver # "bonding" \/ x.activeIndex # 0 \/ k[e].active = 0
                 THEN NULL ELSE sysfs(e, k[e].active)
<1>3. Carried(x, b) /\ b.activeName = n /\ b.masterIndex = x.masterIndex
  <2>1. CASE b = x
    BY <1>1, <1>2, <2>1 DEF bond_scan, Fields, Carried
  <2>2. CASE b = [x EXCEPT !.activeName = n]
    BY <1>1, <2>2 DEF Fields, Carried
  <2>. QED
    BY <1>2, <2>1, <2>2 DEF bond_scan
<1>4. PICK g : g = bridge_scan(e, b)
  OBVIOUS
<1>. DEFINE port == k[e].master # NULL /\ k[e].brport /\ {e, k[e].master} \cap gone = {}
            i == IF b.masterIndex = 0 /\ port THEN Index[k[e].master] ELSE b.masterIndex
<1>5. DOMAIN b = Fields
  BY <1>3 DEF Carried
<1>6. Carried(b, g) /\ g.activeName = b.activeName /\ g.masterIndex = i
  <2>1. CASE g = b /\ ~ (b.masterIndex = 0 /\ port)
    BY <1>5, <2>1 DEF Fields, Carried
  <2>2. CASE g = [b EXCEPT !.masterIndex = Index[k[e].master]] /\ b.masterIndex = 0 /\ port
    BY <1>5, <2>2 DEF Fields, Carried
  <2>. QED
    BY <1>4, <2>1, <2>2 DEF bridge_scan
<1>7. y = [g EXCEPT !.pciPath = sysfs(e, k[e].pci), !.physfnPath = sysfs(e, k[e].physfn)]
  BY <1>2, <1>4 DEF iov_scan
<1>. HIDE DEF n, i, port
<1>8. /\ Carried(x, y)
      /\ y.activeName = n /\ y.masterIndex = i
      /\ y.pciPath = sysfs(e, k[e].pci) /\ y.physfnPath = sysfs(e, k[e].physfn)
  <2>1. DOMAIN g = Fields
    BY <1>6 DEF Carried
  <2>2. /\ Carried(g, y)
        /\ y.activeName = g.activeName /\ y.masterIndex = g.masterIndex
        /\ y.pciPath = sysfs(e, k[e].pci) /\ y.physfnPath = sysfs(e, k[e].physfn)
    BY <1>7, <2>1 DEF Fields, Carried
  <2>. QED
    BY <1>3, <1>6, <2>2 DEF Carried
<1>9. Linked(e, y) /\ Blank(y) /\ Quiet(e, y)
  BY <1>8 DEF AfterLink, Linked, Blank, Quiet, Carried
<1>10. /\ k[e].master = NULL => y.masterIndex = 0
       /\ k[e].master # NULL /\ {e, k[e].master} \cap gone = {} => y.masterIndex = Index[k[e].master]
  BY <1>1, <1>3, <1>8 DEF i, port, MasterIndex
<1>11. /\ y.pciPath \in {NULL, k[e].pci}
       /\ e \notin gone => y.pciPath = k[e].pci /\ y.physfnPath = k[e].physfn
  BY <1>8 DEF sysfs
<1>12. k[e].driver = "bonding" =>
          /\ y.activeName # NULL => y.activeIndex = 0 /\ y.activeName # 0 /\ y.activeName \in actives[e]
          /\ y.activeName = NULL /\ y.activeIndex = 0 => e \in gone \/ 0 \in actives[e]
  <2>1. k[e].active \in actives[e] /\ (k[e].driver = "bonding" => k[e].active # NULL)
    BY PlaceAssumption DEF KernelOK, Possible
  <2>. QED
    BY <1>8, <2>1 DEF n, sysfs, Carried, AfterLink, Linked
<1>13. Scanned(e, y)
  BY <1>10, <1>11, <1>12 DEF Scanned
<1>14. k[e].driver # "bonding" => y.activeName = NULL
  BY <1>8 DEF n
<1>. QED
  BY <1>9, <1>13, <1>14 DEF AfterScan

\* if_add_warning and the name from teamd, the last of the scan of a team
LEMMA TeamReady ==
    ASSUME NEW e \in Ifs, NEW x, AfterScan(e, x), x.activeName = NULL, k[e].driver = "team", NEW y,
           \/ y = [x EXCEPT !.warned = TRUE]
           \/ \E n \in actives[e] \union {NotAName} : y = [x EXCEPT !.activeName = n]
    PROVE  Ready(e, y)
<1>1. DOMAIN x = Fields
  BY DEF AfterScan, Linked
<1>2. CASE y = [x EXCEPT !.warned = TRUE]
  BY <1>1, <1>2 DEF Fields, AfterScan, Ready, Linked, Scanned, Named, Blank, Quiet
<1>3. ASSUME NEW n \in actives[e] \union {NotAName}, y = [x EXCEPT !.activeName = n] PROVE Ready(e, y)
  BY <1>1, <1>3, PlaceAssumption DEF Fields, AfterScan, Ready, Linked, Scanned, Named, Blank, Quiet, NotAName
<1>. QED
  BY <1>2, <1>3

\* The interface after the current one: what it was settled stays so.
LEMMA SettledNext ==
    ASSUME Shape, Early, NextInterface, NEW e \in Ifs
    PROVE  /\ Settled(e)' => e = cur \/ Settled(e)
           /\ phase' # "scan" /\ ~Asking'
<1>1. cur \in 1..N /\ e \in 1..N /\ N \in Nat
  BY PlaceAssumption DEF Shape, Ifs
<1>. QED
  BY <1>1 DEF NextInterface, Settled, Early, Asking

\* No entry is filled at first.
LEMMA EarlyInit == Init => EarlyOK
<1>. SUFFICES ASSUME Init, NEW e \in Ifs PROVE ~Settled(e) /\ phase # "scan" /\ ~Asking
  BY DEF EarlyOK
<1>1. ~ (e < 1)
  BY DEF Ifs
<1>. QED
  BY <1>1 DEF Init, Settled, Asking

\* Steps that leave the early phases alone
LEMMA EarlyKept ==
    ASSUME EarlyOK, Moved, UNCHANGED <<ent, cur>>, phase' = phase \/ (Asking /\ Asking')
    PROVE  EarlyOK'
<1>. SUFFICES ASSUME NEW e \in Ifs, NEW x, x = ent'[e]
              PROVE  /\ Settled(e)' => Ready(e, x)'
                     /\ phase' = "scan" /\ e = cur' => AfterLink(e, x)'
                     /\ Asking' /\ e = cur' => AfterScan(e, x)' /\ x.activeName = NULL
  BY DEF EarlyOK
<1>1. x = ent[e]
  OBVIOUS
<1>2. Settled(e)' => Settled(e)
  BY DEF Settled, Early, Asking
<1>3. Settled(e)' => Ready(e, x)
  BY <1>1, <1>2 DEF EarlyOK
<1>4. phase' = "scan" /\ e = cur' => AfterLink(e, x)
  BY <1>1 DEF EarlyOK, Asking
<1>5. Asking' /\ e = cur' => AfterScan(e, x) /\ x.activeName = NULL
  BY <1>1 DEF EarlyOK, Asking
<1>. QED
  BY <1>3, <1>4, <1>5, ReadyStays

\* The entry of the current interface is finished, and the next one follows.
LEMMA EarlyNext ==
    ASSUME Shape, EarlyOK, Early, Moved, NextInterface,
           NEW y, Ready(cur, y), ent' = [ent EXCEPT ![cur] = y]
    PROVE  EarlyOK'
<1>. SUFFICES ASSUME NEW e \in Ifs, NEW x, x = ent'[e], Settled(e)' PROVE Ready(e, x)'
  BY SettledNext DEF EarlyOK
<1>1. e = cur \/ Settled(e)
  BY SettledNext
<1>2. DOMAIN ent = Ifs /\ cur \in Ifs
  BY DEF Shape
<1>3. Ready(e, x)
  <2>1. CASE e = cur
    <3>1. x = y
      BY <1>2, <2>1
    <3>. QED
      BY <2>1, <3>1
  <2>2. CASE e # cur
    <3>1. x = ent[e]
      BY <1>2, <2>2
    <3>. QED
      BY <1>1, <2>2, <3>1 DEF EarlyOK
  <2>. QED
    BY <2>1, <2>2
<1>. QED
  BY <1>3, ReadyStays

\* Every step keeps what the entries say while they are filled.
LEMMA EarlyStep == Shape /\ KernelOK /\ Moved /\ EarlyOK /\ [Next]_vars => EarlyOK'
<1>. SUFFICES ASSUME Shape, KernelOK, Moved, EarlyOK, [Next]_vars PROVE EarlyOK'
  OBVIOUS
<1>0. DOMAIN ent = Ifs /\ cur \in Ifs
  BY DEF Shape
<1>1. CASE fill_if_link
  <2>. SUFFICES ASSUME NEW e \in Ifs, NEW x, x = ent'[e]
                PROVE  /\ Settled(e)' => Ready(e, x)'
                       /\ e = cur => AfterLink(e, x)'
    BY <1>1 DEF EarlyOK, fill_if_link, Asking
  <2>1. ASSUME e = cur PROVE AfterLink(e, x)'
    <3>1. x = if_handler_netlink(k[e], entry(e, k[e]))
      BY <1>0, <1>1, <2>1 DEF fill_if_link
    <3>. QED
      BY <3>1, LinkFills, ReadyStays
  <2>2. ASSUME Settled(e)' PROVE Ready(e, x)'
    <3>1. e < cur /\ Settled(e)
      BY <1>1, <2>2 DEF fill_if_link, Settled, Early
    <3>2. e # cur
      BY <1>0, <3>1 DEF Ifs
    <3>3. x = ent[e]
      BY <1>0, <1>1, <3>2 DEF fill_if_link
    <3>. QED
      BY <3>1, <3>3, ReadyStays DEF EarlyOK
  <2>. QED
    BY <2>1, <2>2
<1>2. CASE if_handler_scan
  <2>1. PICK x : x = ent[cur]
    OBVIOUS
  <2>2. AfterLink(cur, x)
    BY <1>0, <1>2, <2>1 DEF EarlyOK, if_handler_scan
  <2>3. PICK y : y = iov_scan(cur, bridge_scan(cur, bond_scan(cur, x)))
    OBVIOUS
  <2>4. ent' = [ent EXCEPT ![cur] = y]
    BY <1>2, <2>1, <2>3 DEF if_handler_scan
  <2>5. AfterScan(cur, y) /\ (k[cur].driver # "bonding" => y.activeName = NULL)
    <3>1. PICK c \in Ifs : c = cur
      BY <1>0
    <3>2. AfterScan(c, y) /\ (k[c].driver # "bonding" => y.activeName = NULL)
      BY <2>2, <2>3, <3>1, ScanFills
    <3>. QED
      BY <3>1, <3>2
  <2>6. CASE k[cur].driver = "team"
    <3>. SUFFICES ASSUME NEW e \in Ifs, NEW z, z = ent'[e]
                  PROVE  /\ Settled(e)' => Ready(e, z)'
                         /\ e = cur => AfterScan(e, z)' /\ z.activeName = NULL
      BY <1>2, <2>6 DEF EarlyOK, if_handler_scan, Asking
    <3>1. ASSUME e = cur PROVE AfterScan(e, z)' /\ z.activeName = NULL
      <4>1. z = y
        BY <1>0, <2>4, <3>1
      <4>. QED
        BY <2>5, <2>6, <3>1, <4>1, ReadyStays
    <3>2. ASSUME Settled(e)' PROVE Ready(e, z)'
      <4>1. e < cur /\ Settled(e)
        BY <1>2, <2>6, <3>2 DEF if_handler_scan, Settled, Early
      <4>2. e # cur
        BY <1>0, <4>1 DEF Ifs
      <4>3. z = ent[e]
        BY <1>0, <2>4, <4>2
      <4>. QED
        BY <4>1, <4>3, ReadyStays DEF EarlyOK
    <3>. QED
      BY <3>1, <3>2
  <2>7. CASE k[cur].driver # "team"
    <3>1. Ready(cur, y)
      BY <2>5, <2>7 DEF Ready, Named
    <3>2. NextInterface /\ Early
      BY <1>2, <2>7 DEF if_handler_scan, Early
    <3>. QED
      BY <2>4, <3>1, <3>2, EarlyNext
  <2>. QED
    BY <2>6, <2>7
<1>3. ASSUME Asking, Warned(cur), NextInterface PROVE EarlyOK'
  <2>1. PICK x : x = ent[cur]
    OBVIOUS
  <2>2. AfterScan(cur, x) /\ x.activeName = NULL /\ k[cur].driver = "team"
    BY <1>0, <1>3, <2>1 DEF EarlyOK, KernelOK
  <2>3. PICK y : y = [x EXCEPT !.warned = TRUE]
    OBVIOUS
  <2>4. ent' = [ent EXCEPT ![cur] = y]
    BY <1>3, <2>1, <2>3 DEF Warned
  <2>5. Ready(cur, y)
    BY <1>0, <2>2, <2>3, TeamReady
  <2>. QED
    BY <1>3, <2>4, <2>5, EarlyNext DEF Asking, Early
<1>4. CASE team_connect
  BY <1>3, <1>4, EarlyKept DEF team_connect, Asking
<1>5. CASE team_wait
  BY <1>3, <1>5, EarlyKept DEF team_wait, Asking
<1>6. CASE team_recv_bad
  BY <1>3, <1>6 DEF team_recv_bad, Asking
<1>7. ASSUME ~Early', phase' # "resolve" PROVE EarlyOK'
  BY <1>7 DEF EarlyOK, Settled, Early, Asking
<1>8. CASE team_parse_json
  <2>1. Asking
    BY <1>8 DEF team_parse_json, Asking
  <2>2. CASE ent' = [ent EXCEPT ![cur].activeName = teamd.port] /\ NextInterface
    <3>1. PICK x : x = ent[cur]
      OBVIOUS
    <3>2. AfterScan(cur, x) /\ x.activeName = NULL /\ k[cur].driver = "team"
      BY <1>0, <2>1, <3>1 DEF EarlyOK, KernelOK
    <3>3. PICK y : y = [x EXCEPT !.activeName = teamd.port]
      OBVIOUS
    <3>4. teamd.port \in actives[cur] \union {NotAName}
      BY <1>8, <2>1 DEF KernelOK, team_parse_json
    <3>5. ent' = [ent EXCEPT ![cur] = y]
      BY <2>2, <3>1, <3>3
    <3>6. Ready(cur, y)
      BY <1>0, <3>2, <3>3, <3>4, TeamReady
    <3>. QED
      BY <2>1, <2>2, <3>5, <3>6, EarlyNext DEF Asking, Early
  <2>. QED
    BY <1>3, <1>7, <1>8, <2>1, <2>2 DEF team_parse_json, Early
<1>9. CASE ScanFault \/ if_list_error \/ master_resolve \/ Post \/ frontend_output \/ Cleanup
  <2>1. ~Early' /\ phase' # "resolve"
    BY <1>9 DEF ScanFault, if_list_error, master_resolve, Post, if_handler_post, PostFault,
                frontend_output, Cleanup, if_handler_cleanup, CleanupFault, Early
  <2>. QED
    BY <1>7, <2>1
<1>10. CASE Environment \/ UNCHANGED vars
  <2>1. UNCHANGED <<ent, cur, phase>>
    BY <1>10 DEF Environment, Vanish, Failover, TeamdAnswers, vars
  <2>. QED
    BY <2>1, EarlyKept
<1>. QED
  BY <1>1, <1>2, <1>4, <1>5, <1>6, <1>8, <1>9, <1>10 DEF Next, Program, Team
-----------------------------------------------------------------------------
(* The resolution *)

\* What no step after the scan changes in an entry
Frozen(x, y) ==
    /\ DOMAIN y = Fields
    /\ y.up = x.up /\ y.addrs = x.addrs /\ y.linkNetnsid = x.linkNetnsid /\ y.local = x.local
    /\ y.linkIndex = x.linkIndex /\ y.activeIndex = x.activeIndex /\ y.activeName = x.activeName
    /\ y.masterIndex = x.masterIndex /\ y.pciPath = x.pciPath /\ y.physfnPath = x.physfnPath
    /\ x.warned => y.warned

\* So what netlink, sysfs and teamd said stays.
LEMMA FrozenStays ==
    ASSUME NEW e, NEW x, NEW y, Frozen(x, y)
    PROVE  /\ Linked(e, x) => Linked(e, y)
           /\ Scanned(e, x) => Scanned(e, y)
           /\ Named(e, x) => Named(e, y)
<1>1. Linked(e, x) => Linked(e, y)
  BY DEF Frozen, Linked
<1>2. Scanned(e, x) => Scanned(e, y)
  BY DEF Frozen, Scanned
<1>3. Named(e, x) => Named(e, y)
  BY DEF Frozen, Named
<1>. QED
  BY <1>1, <1>2, <1>3

\* The one interface of the own namespace with an index is the nearest.
LEMMA NearestOwn ==
    ASSUME NEW e \in Ifs, NEW f \in Ifs \ {e}, Ns[f] = Ns[e]
    PROVE  Nearest(e, Index[f]) = {f}
<1>1. In(Ns[e], Index[f]) = {f}
  BY IndexUnique
<1>. QED
  BY <1>1 DEF Nearest

\* match_if excludes the interface itself.
LEMMA NearestOthers ==
    ASSUME NEW e \in Ifs, NEW i
    PROVE  Nearest(e, i) \subseteq Ifs \ {e}
BY DEF Nearest, In

\* process of master.c, after match_all_netnsid
LEMMA ProcessSets ==
    ASSUME NEW e, NEW x, DOMAIN x = Fields, NEW y, y = process(e, x),
           NEW masters, masters = IF x.masterIndex = 0 THEN {} ELSE Nearest(e, x.masterIndex)
    PROVE  /\ Frozen(x, y)
           /\ y.weak = x.weak /\ y.activeSlave = x.activeSlave /\ y.passive = x.passive
           /\ y.physfn = x.physfn
           /\ y.master = First(masters)
           /\ y.linkNet = link_net(x)
           /\ y.link = IF link_by_id(x) = NULL /\ x.linkIndex # 0
                       THEN First(Nearest(e, x.linkIndex)) ELSE link_by_id(x)
           /\ y.warned \in BOOLEAN
           /\ y.warned => \/ x.warned
                          \/ x.masterIndex # 0 /\ Cardinality(masters) # 1
                          \/ x.linkIndex # 0
<1>. DEFINE search == link_by_id(x) = NULL /\ x.linkIndex # 0
            links == IF search THEN Nearest(e, x.linkIndex) ELSE {}
            w == \/ x.warned
                 \/ x.masterIndex # 0 /\ Cardinality(masters) # 1
                 \/ search /\ Cardinality(links) # 1
            l == IF search THEN First(links) ELSE link_by_id(x)
<1>1. w \in BOOLEAN /\ (x.warned => w)
      /\ (w => \/ x.warned
               \/ x.masterIndex # 0 /\ Cardinality(masters) # 1
               \/ x.linkIndex # 0)
  BY Zenon
<1>2. l = IF link_by_id(x) = NULL /\ x.linkIndex # 0
          THEN First(Nearest(e, x.linkIndex)) ELSE link_by_id(x)
  OBVIOUS
<1>3. y = [x EXCEPT !.master = First(masters), !.linkNet = link_net(x), !.link = l, !.warned = w]
  BY Zenon DEF process
<1>. HIDE DEF w, l
<1>4. /\ DOMAIN y = Fields
      /\ y.up = x.up /\ y.addrs = x.addrs /\ y.linkNetnsid = x.linkNetnsid /\ y.local = x.local
      /\ y.linkIndex = x.linkIndex /\ y.activeIndex = x.activeIndex /\ y.activeName = x.activeName
      /\ y.masterIndex = x.masterIndex /\ y.pciPath = x.pciPath /\ y.physfnPath = x.physfnPath
      /\ y.weak = x.weak /\ y.activeSlave = x.activeSlave /\ y.passive = x.passive
      /\ y.physfn = x.physfn
      /\ y.master = First(masters) /\ y.linkNet = link_net(x) /\ y.link = l /\ y.warned = w
  BY <1>3 DEF Fields
<1>. QED
  BY <1>1, <1>2, <1>4 DEF Frozen

\* What is known of an interface before its post callbacks
Prepared(e, x) == Linked(e, x) /\ Scanned(e, x) /\ Named(e, x) /\ Resolved(e, x) /\ Unposted(e, x)

\* match_all_netnsid and master_resolve, for one interface
LEMMA ResolveFills ==
    ASSUME KernelOK, NEW e \in Ifs, NEW x, Ready(e, x), NEW y, y = process(e, x)
    PROVE  Prepared(e, y) /\ ~y.passive
<1>1. PICK masters : masters = IF x.masterIndex = 0 THEN {} ELSE Nearest(e, x.masterIndex)
  OBVIOUS
<1>2. Linked(e, x) /\ Scanned(e, x) /\ Named(e, x) /\ Blank(x) /\ Quiet(e, x) /\ DOMAIN x = Fields
  BY DEF Ready, AfterScan, Linked
<1>3. /\ Frozen(x, y)
      /\ y.weak = x.weak /\ y.activeSlave = x.activeSlave /\ y.passive = x.passive
      /\ y.physfn = x.physfn
      /\ y.master = First(masters)
      /\ y.linkNet = link_net(x)
      /\ y.link = IF link_by_id(x) = NULL /\ x.linkIndex # 0
                  THEN First(Nearest(e, x.linkIndex)) ELSE link_by_id(x)
      /\ y.warned \in BOOLEAN
      /\ y.warned => \/ x.warned
                     \/ x.masterIndex # 0 /\ Cardinality(masters) # 1
                     \/ x.linkIndex # 0
  BY <1>1, <1>2, ProcessSets
<1>4. Linked(e, y) /\ Scanned(e, y) /\ Named(e, y)
  BY <1>2, <1>3, FrozenStays
<1>5. ~y.weak /\ y.activeSlave = NULL /\ ~y.passive /\ y.physfn = NULL
  BY <1>2, <1>3 DEF Blank
<1>6. masters \subseteq Ifs \ {e}
  BY <1>1, NearestOthers
<1>7. y.master # e
  <2>1. e # NULL
    BY PlaceAssumption DEF Ifs
  <2>. QED
    BY <1>3, <1>6, <2>1, FirstIsMember
<1>8. ASSUME Intact(e)
      PROVE  y.master = k[e].master /\ (x.masterIndex # 0 => Cardinality(masters) = 1)
  <2>1. CASE k[e].master = NULL
    <3>1. x.masterIndex = 0
      BY <1>2, <2>1 DEF Scanned
    <3>. QED
      BY <1>1, <1>3, <2>1, <3>1 DEF First
  <2>2. CASE k[e].master # NULL
    <3>1. PICK m : m = k[e].master
      OBVIOUS
    <3>2. m \in Ifs \ {e} /\ Ns[m] = Ns[e]
      BY <2>2, <3>1 DEF KernelOK, Possible
    <3>3. x.masterIndex = Index[m] /\ Index[m] # 0
      BY <1>2, <1>8, <2>2, <3>1, <3>2, PlaceAssumption DEF Scanned, Intact
    <3>4. masters = {m}
      BY <1>1, <3>2, <3>3, NearestOwn
    <3>5. Cardinality(masters) = 1
      BY <3>4, FS_Singleton
    <3>. QED
      BY <1>3, <3>1, <3>2, <3>4, <3>5, FirstIsMember
  <2>. QED
    BY <2>1, <2>2
<1>9. k[e].driver = "other" /\ k[e].dev = 0 /\ Intact(e) => ~y.warned
  BY <1>2, <1>3, <1>8 DEF Quiet, Linked
<1>10. ASSUME Regular(e)
       PROVE  /\ k[e].under = IF y.linkNet # NULL THEN y.linkNet ELSE Ns[e]
              /\ y.link = First(In(Ns[e], k[e].dev))
  <2>1. x.linkIndex = k[e].dev /\ x.linkNetnsid = Netnsid(k[e], Ns[e])
    BY <1>2, <1>10 DEF Linked, Regular
  <2>2. k[e].under \in Listed /\ k[e].dev \in Nat
    BY <1>10 DEF Regular, KernelOK, Possible
  <2>3. Listed \subseteq Nat \ {0}
    BY PlaceAssumption DEF Listed
  <2>4. k[e].under # NULL
    <3>1. NULL \notin Int
      BY PlaceAssumption, Zenon
    <3>2. k[e].under \in Nat \ {0}
      BY <2>2, <2>3, Zenon
    <3>3. \A ns \in Nat \ {0} : ns \in Int
      OBVIOUS
    <3>. QED
      BY <3>1, <3>2, <3>3, Zenon
  <2>5. k[e].under = IF y.linkNet # NULL THEN y.linkNet ELSE Ns[e]
    <3>1. CASE k[e].under = Ns[e]
      <4>1. x.linkNetnsid \notin Listed
        BY <2>1, <2>3, <3>1 DEF Netnsid
      <4>. QED
        BY <1>3, <3>1, <4>1 DEF link_net
    <3>2. CASE k[e].under # Ns[e]
      <4>1. x.linkNetnsid = k[e].under /\ x.linkIndex = 0
        BY <1>10, <2>1, <3>2 DEF Netnsid, Regular
      <4>. QED
        BY <1>3, <2>2, <2>4, <4>1 DEF link_net
    <3>. QED
      BY <3>1, <3>2
  <2>6. y.link = First(In(Ns[e], k[e].dev))
    <3>1. CASE k[e].dev = 0
      <4>1. link_by_id(x) = NULL /\ First(In(Ns[e], 0)) = NULL
        BY <2>1, <3>1, IndexUnique DEF link_by_id, First
      <4>. QED
        BY <1>3, <2>1, <3>1, <4>1
    <3>2. CASE k[e].dev # 0
      <4>1. k[e].under = Ns[e] /\ In(Ns[e], k[e].dev) \ {e} # {}
        BY <1>10, <3>2 DEF Regular
      <4>2. link_by_id(x) = NULL
        BY <2>1, <4>1 DEF link_by_id, Netnsid
      <4>3. PICK f : f \in In(Ns[e], k[e].dev) \ {e}
        BY <4>1
      <4>4. f \in Ifs \ {e} /\ Ns[f] = Ns[e] /\ Index[f] = k[e].dev
        BY <4>3 DEF In
      <4>5. Nearest(e, k[e].dev) = {f} /\ In(Ns[e], k[e].dev) = {f}
        BY <4>4, NearestOwn, IndexUnique
      <4>. QED
        BY <1>3, <2>1, <3>2, <4>2, <4>5
    <3>. QED
      BY <3>1, <3>2
  <2>. QED
    BY <2>5, <2>6
<1>11. Resolved(e, y)
  BY <1>7, <1>8, <1>10 DEF Resolved
<1>12. Unposted(e, y)
  BY <1>3, <1>5, <1>9, <1>10 DEF Unposted
<1>. QED
  BY <1>4, <1>5, <1>11, <1>12 DEF Prepared

\* match_all_netnsid and master_resolve leave everything ready for post.
LEMMA ResolveStep ==
    ASSUME Shape, KernelOK, EarlyOK, LateOK, master_resolve
    PROVE  LateOK'
<1>1. phase = "resolve" /\ phase' = "post" /\ cur' = 1 /\ UNCHANGED <<k, actives, gone>>
  BY DEF master_resolve, LateOK
<1>2. ASSUME NEW e \in Ifs, NEW y, y = ent'[e] PROVE Prepared(e, y) /\ ~y.passive
  <2>1. Settled(e) /\ y = process(e, ent[e])
    BY <1>1, <1>2 DEF master_resolve, Settled
  <2>2. PICK x : x = ent[e]
    OBVIOUS
  <2>3. Ready(e, x)
    BY <2>1, <2>2 DEF EarlyOK
  <2>. QED
    BY <2>1, <2>2, <2>3, ResolveFills
<1>3. ASSUME NEW e \in Ifs PROVE ~Posted(e)' /\ NoPassive(e)'
  <2>1. ~ (e < 1)
    BY DEF Ifs
  <2>. QED
    BY <1>1, <1>2, <2>1 DEF Posted, NoPassive
<1>4. ASSUME NEW e \in Ifs, NEW y, Prepared(e, y) PROVE Prepared(e, y)'
  BY <1>1, <1>4 DEF Prepared, Linked, Scanned, Named, Resolved, Unposted, Intact, Regular, Holders,
                    Netnsid
<1>5. ASSUME NEW e \in Ifs, NEW y, y = ent'[e]
      PROVE  Linked(e, y)' /\ Scanned(e, y)' /\ Named(e, y)' /\ Resolved(e, y)' /\ Unposted(e, y)'
  BY <1>2, <1>4, <1>5 DEF Prepared
<1>. QED
  BY <1>1, <1>3, <1>5 DEF LateOK

-----------------------------------------------------------------------------
(* The post callbacks *)

\* What a post callback of one interface leaves alone in the entry of another
Same(x, y) ==
    /\ Frozen(x, y)
    /\ y.master = x.master /\ y.linkNet = x.linkNet /\ y.link = x.link /\ y.weak = x.weak
    /\ y.activeSlave = x.activeSlave /\ y.physfn = x.physfn /\ y.warned = x.warned

\* and in its own
Own(x, y) == Frozen(x, y) /\ y.master = x.master /\ y.passive = x.passive

\* So the post callbacks of one interface keep what is known of another.
LEMMA SameStays ==
    ASSUME NEW e, NEW x, NEW y, Same(x, y)
    PROVE  /\ Resolved(e, x) => Resolved(e, y)
           /\ Unposted(e, x) => Unposted(e, y)
           /\ Tunnelled(e, x) => Tunnelled(e, y)
           /\ Alone(e, x) => Alone(e, y)
<1>1. Resolved(e, x) => Resolved(e, y)
  BY DEF Same, Resolved
<1>2. Unposted(e, x) => Unposted(e, y)
  BY DEF Same, Unposted
<1>3. Tunnelled(e, x) => Tunnelled(e, y)
  BY DEF Same, Tunnelled
<1>4. Alone(e, x) => Alone(e, y)
  BY DEF Same, Alone
<1>. QED
  BY <1>1, <1>2, <1>3, <1>4

\* Entries of the right shape, of interfaces that are not their own masters
Entries(en) == DOMAIN en = Ifs /\ \A e \in Ifs : DOMAIN en[e] = Fields /\ en[e].master # e

\* The entries once the post callbacks of c, the driver's and then iov's, have
\* been called on the entries en
Touched(en, c, new) ==
    /\ DOMAIN new = Ifs
    /\ Own(en[c], new[c])
    /\ new[c].linkNet = en[c].linkNet
    /\ \A e \in Ifs \ {c} : /\ Same(en[e], new[e])
                            /\ en[e].master # c => new[e].passive = en[e].passive

\* The roles bond_post and team_post give the ports of c, a being the index of
\* the active port
Elect(en, c, a, new) ==
    /\ \A e \in Ifs \ {c} : en[e].master = c =>
          new[e].passive = IF Index[e] # a THEN TRUE ELSE en[e].passive
    /\ new[c].activeSlave = First({p \in Ifs : en[p].master = c /\ Index[p] = a})
    /\ new[c].warned = en[c].warned

\* Elected gives the roles and touches nothing else.
LEMMA ElectedSets ==
    ASSUME NEW en, Entries(en), NEW c \in Ifs, NEW a, NEW new, new = Elected(en, c, a)
    PROVE  Touched(en, c, new) /\ Elect(en, c, a, new)
<1>. DEFINE ports == {e \in Ifs : en[e].master = c}
            s == First({p \in ports : Index[p] = a})
<1>1. s = First({p \in Ifs : en[p].master = c /\ Index[p] = a})
  <2>1. {p \in ports : Index[p] = a} = {p \in Ifs : en[p].master = c /\ Index[p] = a}
    OBVIOUS
  <2>. QED
    BY <2>1
<1>2. DOMAIN new = Ifs
  BY DEF Elected
<1>3. new[c] = [en[c] EXCEPT !.activeSlave = s]
  BY DEF Elected
<1>4. ASSUME NEW e \in Ifs \ {c}
      PROVE  new[e] = IF en[e].master = c /\ Index[e] # a
                      THEN [en[e] EXCEPT !.passive = TRUE] ELSE en[e]
  BY DEF Elected
<1>. HIDE DEF s
<1>5. /\ Own(en[c], new[c]) /\ new[c].linkNet = en[c].linkNet
      /\ new[c].activeSlave = s /\ new[c].warned = en[c].warned
  <2>1. DOMAIN en[c] = Fields
    BY DEF Entries
  <2>. QED
    BY <1>3, <2>1 DEF Own, Frozen, Fields
<1>6. ASSUME NEW e \in Ifs \ {c}
      PROVE  /\ Same(en[e], new[e])
             /\ en[e].master # c => new[e].passive = en[e].passive
             /\ en[e].master = c => new[e].passive = IF Index[e] # a THEN TRUE ELSE en[e].passive
  <2>1. DOMAIN en[e] = Fields
    BY DEF Entries
  <2>2. CASE new[e] = en[e] /\ ~ (en[e].master = c /\ Index[e] # a)
    BY <2>1, <2>2 DEF Same, Frozen
  <2>3. CASE new[e] = [en[e] EXCEPT !.passive = TRUE] /\ en[e].master = c /\ Index[e] # a
    BY <2>1, <2>3 DEF Same, Frozen, Fields
  <2>. QED
    BY <1>4, <2>2, <2>3
<1>. QED
  BY <1>1, <1>2, <1>5, <1>6 DEF Touched, Elect

\* A change of the own entry only
LEMMA OwnTouched ==
    ASSUME NEW en, Entries(en), NEW c \in Ifs, NEW y, Own(en[c], y), y.linkNet = en[c].linkNet,
           NEW new, DOMAIN new = Ifs, new[c] = y, \A e \in Ifs \ {c} : new[e] = en[e]
    PROVE  Touched(en, c, new)
BY DEF Entries, Touched, Same, Frozen

\* A callback that returns early
LEMMA NoneTouched ==
    ASSUME NEW en, Entries(en), NEW c \in Ifs
    PROVE  Touched(en, c, en)
BY DEF Entries, Touched, Same, Own, Frozen

\* One callback after the other
LEMMA TouchedTwice ==
    ASSUME NEW en, NEW c \in Ifs, NEW mid, NEW new, Touched(en, c, mid), Touched(mid, c, new)
    PROVE  Touched(en, c, new)
<1>1. DOMAIN new = Ifs /\ Own(en[c], new[c]) /\ new[c].linkNet = en[c].linkNet
  BY DEF Touched, Own, Frozen
<1>2. ASSUME NEW e \in Ifs \ {c}
      PROVE Same(en[e], new[e]) /\ (en[e].master # c => new[e].passive = en[e].passive)
  <2>1. Same(en[e], mid[e]) /\ Same(mid[e], new[e])
    BY DEF Touched
  <2>2. Same(en[e], new[e]) /\ mid[e].master = en[e].master
    BY <2>1 DEF Same, Frozen
  <2>. QED
    BY <2>2 DEF Touched
<1>. QED
  BY <1>1, <1>2 DEF Touched

\* The callbacks keep the shape of the entries.
LEMMA TouchedEntries ==
    ASSUME NEW en, Entries(en), NEW c \in Ifs, NEW new, Touched(en, c, new)
    PROVE  Entries(new)
BY DEF Entries, Touched, Same, Own, Frozen

\* What is known of all entries before the post callbacks of c
Facts(en) ==
    /\ DOMAIN en = Ifs
    /\ \A e \in Ifs : \A x : x = en[e] =>
          Linked(e, x) /\ Scanned(e, x) /\ Named(e, x) /\ Resolved(e, x)

Before(en, c) ==
    /\ Facts(en)
    /\ \A x : x = en[c] => Unposted(c, x)
    /\ \A p \in Ifs : en[p].master = c => ~en[p].passive
    /\ k[c].driver = "team" /\ en[c].activeName = NotAName => \A p \in Ifs : en[p].master # c

\* The facts include the shape.
LEMMA FactsEntries == ASSUME NEW en, Facts(en) PROVE Entries(en)
BY DEF Facts, Entries, Linked, Resolved

\* The roles of the ports of m in the entries en
Chosen(en, m, a) ==
    LET ports == {e \in Ifs : en[e].master = m}
        none == a = NULL \/ (a = 0 /\ k[m].driver = "bonding")
    IN  /\ {e \in ports : en[e].passive} = IF none THEN {} ELSE {e \in ports : Index[e] # a}
        /\ en[m].activeSlave = IF none THEN NULL ELSE First({e \in ports : Index[e] = a})

ChosenWell(en, m) ==
    k[m].driver \in {"bonding", "team"} =>
        \/ en[m].warned
        \/ m \in gone /\ Chosen(en, m, NULL)
        \/ \E a \in actives[m] : Chosen(en, m, a)

\* Without an election no port is passive.
LEMMA NobodyChosen ==
    ASSUME NEW en, NEW c \in Ifs, Before(en, c), NEW a,
           a = NULL \/ (a = 0 /\ k[c].driver = "bonding")
    PROVE  Chosen(en, c, a)
<1>1. en[c].activeSlave = NULL
  BY DEF Before, Unposted
<1>2. {e \in {f \in Ifs : en[f].master = c} : en[e].passive} = {}
  BY DEF Before
<1>. QED
  BY <1>1, <1>2 DEF Chosen

\* With one, all but the active port are.
LEMMA SomebodyChosen ==
    ASSUME NEW en, NEW c \in Ifs, Before(en, c), NEW a, a # NULL,
           ~ (a = 0 /\ k[c].driver = "bonding"), NEW new, new = Elected(en, c, a)
    PROVE  Touched(en, c, new) /\ Chosen(new, c, a)
<1>1. Entries(en)
  BY FactsEntries DEF Before
<1>2. Touched(en, c, new) /\ Elect(en, c, a, new)
  BY <1>1, ElectedSets
<1>3. \A e \in Ifs : new[e].master = en[e].master
  BY <1>2 DEF Touched, Same, Own
<1>4. ASSUME NEW e \in Ifs, en[e].master = c
      PROVE  (new[e].passive) <=> (Index[e] # a)
  <2>1. e # c /\ ~en[e].passive
    BY <1>1, <1>4 DEF Entries, Before
  <2>2. new[e].passive = IF Index[e] # a THEN TRUE ELSE en[e].passive
    BY <1>2, <1>4, <2>1 DEF Elect
  <2>3. CASE Index[e] # a
    BY <2>2, <2>3, Zenon
  <2>4. CASE Index[e] = a
    BY <2>1, <2>2, <2>4, Zenon
  <2>. QED
    BY <2>3, <2>4, Zenon
<1>. DEFINE ports == {e \in Ifs : new[e].master = c}
<1>5. {e \in ports : new[e].passive} = {e \in ports : Index[e] # a}
  BY <1>3, <1>4
<1>6. {e \in ports : Index[e] = a} = {p \in Ifs : en[p].master = c /\ Index[p] = a}
  BY <1>3
<1>7. new[c].activeSlave = First({e \in ports : Index[e] = a})
  BY <1>2, <1>6 DEF Elect
<1>. QED
  BY <1>2, <1>5, <1>7 DEF Chosen

\* bond_post gives the roles of one moment.
LEMMA BondElects ==
    ASSUME NEW en, NEW c \in Ifs, Before(en, c), k[c].driver = "bonding",
           NEW new, new = bond_post(en, c)
    PROVE  Touched(en, c, new) /\ ChosenWell(new, c)
<1>1. PICK x : x = en[c]
  OBVIOUS
<1>2. Linked(c, x) /\ Scanned(c, x)
  BY <1>1 DEF Before, Facts
<1>3. CASE x.activeIndex = 0 /\ x.activeName = NULL
  <2>1. new = en
    BY <1>1, <1>3 DEF bond_post
  <2>2. c \in gone \/ 0 \in actives[c]
    BY <1>2, <1>3 DEF Scanned
  <2>3. Chosen(en, c, NULL) /\ Chosen(en, c, 0)
    BY NobodyChosen
  <2>4. Touched(en, c, en)
    BY FactsEntries, NoneTouched DEF Before
  <2>. QED
    BY <2>1, <2>2, <2>3, <2>4 DEF ChosenWell
<1>4. CASE ~ (x.activeIndex = 0 /\ x.activeName = NULL)
  <2>1. PICK a : a = IF x.activeIndex = 0 THEN x.activeName ELSE x.activeIndex
    OBVIOUS
  <2>2. a # NULL /\ a # 0 /\ a \in actives[c]
    BY <1>2, <1>4, <2>1 DEF Scanned, Linked
  <2>3. x.activeIndex # 0 => x.activeName = NULL
    BY <1>2 DEF Scanned
  <2>4. new = Elected(en, c, a)
    BY <1>1, <1>4, <2>1, <2>3 DEF bond_post
  <2>5. Touched(en, c, new) /\ Chosen(new, c, a)
    BY <2>2, <2>4, SomebodyChosen
  <2>. QED
    BY <2>2, <2>5 DEF ChosenWell
<1>. QED
  BY <1>3, <1>4

\* team_post, likewise
LEMMA TeamElects ==
    ASSUME KernelOK, NEW en, NEW c \in Ifs, Before(en, c), k[c].driver = "team",
           NEW new, new = team_post(en, c)
    PROVE  Touched(en, c, new) /\ ChosenWell(new, c)
<1>1. PICK x : x = en[c]
  OBVIOUS
<1>2. Named(c, x)
  BY <1>1 DEF Before, Facts
<1>3. CASE x.activeName = NULL
  <2>1. new = en
    BY <1>1, <1>3 DEF team_post
  <2>2. x.warned \/ NULL \in actives[c]
    BY <1>2, <1>3 DEF Named
  <2>3. Chosen(en, c, NULL)
    BY NobodyChosen
  <2>4. Touched(en, c, en)
    BY FactsEntries, NoneTouched DEF Before
  <2>. QED
    BY <1>1, <2>1, <2>2, <2>3, <2>4 DEF ChosenWell
<1>4. CASE x.activeName # NULL
  <2>1. PICK a : a = x.activeName
    OBVIOUS
  <2>2. a # NULL /\ a \in actives[c] \union {NotAName}
    BY <1>2, <1>4, <2>1 DEF Named
  <2>3. new = Elected(en, c, a)
    BY <1>1, <1>4, <2>1 DEF team_post
  <2>4. Touched(en, c, new) /\ Chosen(new, c, a)
    BY <2>2, <2>3, SomebodyChosen
  <2>5. CASE a \in actives[c]
    BY <2>4, <2>5 DEF ChosenWell
  <2>6. CASE a = NotAName
    <3>1. \A p \in Ifs : en[p].master # c
      BY <1>1, <2>1, <2>6 DEF Before
    <3>2. {p \in Ifs : new[p].master = c} = {}
      BY <2>4, <3>1 DEF Touched, Same, Own
    <3>3. First({}) = NULL
      BY FirstIsMember
    <3>4. k[c].active \in actives[c]
      BY DEF KernelOK
    <3>5. Chosen(new, c, k[c].active)
      BY <2>4, <3>2, <3>3 DEF Chosen
    <3>. QED
      BY <2>4, <3>4, <3>5 DEF ChosenWell
  <2>. QED
    BY <2>2, <2>5, <2>6
<1>. QED
  BY <1>3, <1>4

\* tunnel_find_addr sees the kernel's addresses in the entries.
LEMMA HoldersFound ==
    ASSUME NEW en, Facts(en), NEW ns, NEW addr
    PROVE  match_tunnel(en, ns, addr) = {f \in Ifs : Ns[f] = ns /\ k[f].up /\ addr \in k[f].addrs}
<1>1. \A f \in Ifs : en[f].up = k[f].up /\ en[f].addrs = k[f].addrs
  BY DEF Facts, Linked
<1>. QED
  BY <1>1 DEF match_tunnel

\* The post callbacks of tunnels link to the one holder of the address.
LEMMA TunnelPosted ==
    ASSUME KernelOK, NEW en, NEW c \in Ifs, Before(en, c), k[c].driver \in Tunnels,
           NEW new, new = tunnel_post(en, c)
    PROVE  Touched(en, c, new) /\ \A y : y = new[c] => Tunnelled(c, y)
<1>1. PICK x : x = en[c]
  OBVIOUS
<1>2. Linked(c, x) /\ Resolved(c, x) /\ Unposted(c, x) /\ DOMAIN x = Fields
  BY <1>1 DEF Before, Facts, Linked
<1>3. PICK ns : ns = IF x.linkNet # NULL THEN x.linkNet ELSE Ns[c]
  OBVIOUS
<1>4. PICK found : found = match_tunnel(en, ns, x.local)
  OBVIOUS
<1>5. found \subseteq Ifs
  BY <1>4 DEF match_tunnel
<1>6. PICK ife : ife = IF Cardinality(found) = 1 THEN First(found) ELSE NULL
  OBVIOUS
<1>7. new = IF x.local = NULL \/ ife = NULL THEN en ELSE [en EXCEPT ![c].link = ife, ![c].weak = TRUE]
  BY <1>1, <1>3, <1>4, <1>6 DEF tunnel_post, tunnel_find_addr
<1>8. Regular(c) => found = Holders(c) /\ (x.local = NULL => found = {})
  <2>. SUFFICES ASSUME Regular(c) PROVE found = Holders(c) /\ (x.local = NULL => found = {})
    OBVIOUS
  <2>1. ns = k[c].under
    BY <1>2, <1>3 DEF Resolved
  <2>2. x.local = k[c].local
    BY <1>2 DEF Linked, Regular
  <2>3. found = Holders(c)
    BY <1>4, <2>1, <2>2, HoldersFound DEF Before, Holders
  <2>4. \A f \in Ifs : NULL \notin k[f].addrs
    BY DEF KernelOK, Possible
  <2>5. k[c].local = NULL => Holders(c) = {}
    BY <2>4 DEF Holders
  <2>. QED
    BY <2>2, <2>3, <2>5
<1>9. found = {} => Cardinality(found) # 1
  BY FS_EmptySet
<1>10. Cardinality(found) = 1 => First(found) # NULL
  BY <1>5, <1>9, FirstIsMember
<1>11. CASE x.local = NULL \/ ife = NULL
  <2>1. new = en
    BY <1>7, <1>11
  <2>2. Touched(en, c, new)
    BY <2>1, FactsEntries, NoneTouched DEF Before
  <2>3. Regular(c) => Cardinality(Holders(c)) # 1
    BY <1>6, <1>8, <1>9, <1>10, <1>11
  <2>. QED
    BY <1>1, <1>2, <2>1, <2>2, <2>3 DEF Tunnelled, Unposted
<1>12. CASE x.local # NULL /\ ife # NULL
  <2>1. PICK y : y = [x EXCEPT !.link = ife, !.weak = TRUE]
    OBVIOUS
  <2>2. new = [en EXCEPT ![c] = y]
    <3>1. new = [en EXCEPT ![c].link = ife, ![c].weak = TRUE]
      BY <1>7, <1>12
    <3>2. [en EXCEPT ![c].link = ife, ![c].weak = TRUE] =
              [en EXCEPT ![c] = [en[c] EXCEPT !.link = ife, !.weak = TRUE]]
      BY DEF Before, Facts
    <3>. QED
      BY <1>1, <2>1, <3>1, <3>2
  <2>3. /\ Own(x, y) /\ y.linkNet = x.linkNet
        /\ y.link = ife /\ y.weak
    BY <1>2, <2>1 DEF Own, Frozen, Fields
  <2>4. Touched(en, c, new) /\ new[c] = y
    <3>1. Entries(en)
      BY FactsEntries DEF Before
    <3>2. Own(en[c], y) /\ y.linkNet = en[c].linkNet
      BY <1>1, <2>3
    <3>3. DOMAIN new = Ifs /\ new[c] = y /\ \A e \in Ifs \ {c} : new[e] = en[e]
      BY <2>2, <3>1 DEF Entries
    <3>4. Touched(en, c, new)
      BY <3>1, <3>2, <3>3, OwnTouched
    <3>. QED
      BY <3>3, <3>4
  <2>5. Regular(c) => Cardinality(Holders(c)) = 1 /\ ife = First(Holders(c))
    BY <1>6, <1>8, <1>12
  <2>. QED
    BY <2>3, <2>4, <2>5 DEF Tunnelled
<1>. QED
  BY <1>11, <1>12

\* iov_post changes physfn and warned of its own entry.
PhysfnSet(x, y, found) ==
    /\ y.link = x.link /\ y.weak = x.weak /\ y.activeSlave = x.activeSlave
    /\ x.physfnPath = NULL => y.physfn = x.physfn /\ y.warned = x.warned
    /\ x.physfnPath # NULL => y.physfn = First(found) /\ (y.warned <=> (x.warned \/ found = {}))

\* iov_post touches its own entry only.
LEMMA IovPosted ==
    ASSUME NEW en, Entries(en), NEW c \in Ifs, NEW new, new = iov_post(en, c)
    PROVE  /\ Touched(en, c, new)
           /\ PhysfnSet(en[c], new[c], match_physfn(en, c))
           /\ en[c].warned \in BOOLEAN => new[c].warned \in BOOLEAN
           /\ \A e \in Ifs \ {c} : new[e] = en[e]
<1>0. DOMAIN en = Ifs /\ DOMAIN en[c] = Fields
  BY DEF Entries
<1>1. CASE en[c].physfnPath = NULL
  <2>1. new = en
    BY <1>1 DEF iov_post
  <2>2. Touched(en, c, new)
    BY <2>1, NoneTouched
  <2>3. PhysfnSet(en[c], new[c], match_physfn(en, c))
    BY <1>1, <2>1 DEF PhysfnSet
  <2>. QED
    BY <2>1, <2>2, <2>3
<1>2. CASE en[c].physfnPath # NULL
  <2>. DEFINE found == match_physfn(en, c)
              w == en[c].warned \/ found = {}
  <2>1. PICK x : x = en[c]
    OBVIOUS
  <2>2. PICK y : y = [x EXCEPT !.physfn = First(found), !.warned = w]
    OBVIOUS
  <2>3. w \in BOOLEAN /\ (x.warned => w) /\ (w <=> (x.warned \/ found = {}))
    BY <2>1, Zenon
  <2>4. new = [en EXCEPT ![c] = y]
    <3>1. new = [en EXCEPT ![c].physfn = First(found), ![c].warned = @ \/ found = {}]
      BY <1>2 DEF iov_post
    <3>2. [en EXCEPT ![c].physfn = First(found), ![c].warned = @ \/ found = {}] =
              [en EXCEPT ![c] = [en[c] EXCEPT !.physfn = First(found), !.warned = @ \/ found = {}]]
      BY <1>0
    <3>3. y = [en[c] EXCEPT !.physfn = First(found), !.warned = @ \/ found = {}]
      BY <2>1, <2>2, Zenon
    <3>. QED
      BY <3>1, <3>2, <3>3, Zenon
  <2>. HIDE DEF found, w
  <2>5. /\ Own(x, y) /\ y.linkNet = x.linkNet
        /\ y.link = x.link /\ y.weak = x.weak /\ y.activeSlave = x.activeSlave
        /\ y.physfn = First(found) /\ y.warned = w
    BY <1>0, <2>1, <2>2, <2>3 DEF Own, Frozen, Fields
  <2>6. DOMAIN new = Ifs /\ new[c] = y /\ \A e \in Ifs \ {c} : new[e] = en[e]
    BY <1>0, <2>4
  <2>7. Own(en[c], y) /\ y.linkNet = en[c].linkNet
    BY <2>1, <2>5
  <2>8. Touched(en, c, new)
    BY <2>6, <2>7, OwnTouched
  <2>9. PhysfnSet(x, y, found)
    BY <1>2, <2>1, <2>3, <2>5 DEF PhysfnSet
  <2>10. new[c].warned \in BOOLEAN
    BY <2>3, <2>5, <2>6
  <2>. QED
    BY <2>1, <2>6, <2>8, <2>9, <2>10 DEF found
<1>. QED
  BY <1>1, <1>2

\* The files of what has not vanished lead to the physical functions.
LEMMA PhysicalFound ==
    ASSUME KernelOK, NEW en, Facts(en), NEW c \in Ifs, Involved(c) \cap gone = {}, k[c].physfn # NULL
    PROVE  match_physfn(en, c) = PhysicalFunctions(k[c].physfn)
<1>1. en[c].physfnPath = k[c].physfn
  BY DEF Facts, Scanned, Involved
<1>2. ASSUME NEW f \in Ifs
      PROVE  f \in match_physfn(en, c) <=> f \in PhysicalFunctions(k[c].physfn)
  <2>1. en[f].pciPath \in {NULL, k[f].pci} /\ (f \notin gone => en[f].pciPath = k[f].pci)
    BY DEF Facts, Scanned
  <2>2. f \in match_physfn(en, c) => f \in PhysicalFunctions(k[c].physfn)
    BY <1>1, <2>1 DEF match_physfn, PhysicalFunctions
  <2>3. ASSUME f \in PhysicalFunctions(k[c].physfn) PROVE f \in match_physfn(en, c)
    <3>1. k[f].pci = k[c].physfn /\ f \notin gone
      BY <2>3 DEF PhysicalFunctions, Involved
    <3>2. f # c
      BY <3>1 DEF KernelOK, Possible
    <3>. QED
      BY <1>1, <2>1, <3>1, <3>2 DEF match_physfn
  <2>. QED
    BY <2>2, <2>3
<1>3. match_physfn(en, c) \subseteq Ifs /\ PhysicalFunctions(k[c].physfn) \subseteq Ifs
  BY DEF match_physfn, PhysicalFunctions
<1>. QED
  BY <1>2, <1>3

\* iov_post on what is known before it
LEMMA IovAlone ==
    ASSUME KernelOK, NEW en, NEW c \in Ifs, Before(en, c), NEW y, DOMAIN y = Fields,
           PhysfnSet(en[c], y, match_physfn(en, c)), y.master = en[c].master, y.warned \in BOOLEAN
    PROVE  Alone(c, y)
<1>. SUFFICES ASSUME k[c].driver = "other", k[c].dev = 0, Involved(c) \cap gone = {}
              PROVE  /\ y.master = k[c].master
                     /\ y.physfn = First(PhysicalFunctions(k[c].physfn))
                     /\ y.warned = (k[c].physfn # NULL /\ y.physfn = NULL)
  BY Zenon DEF Alone
<1>1. PICK x : x = en[c]
  OBVIOUS
<1>2. Scanned(c, x) /\ Resolved(c, x) /\ Unposted(c, x)
  BY <1>1 DEF Before, Facts
<1>3. Intact(c) /\ c \notin gone
  BY DEF Intact, Involved
<1>4. y.master = k[c].master /\ ~x.warned /\ x.physfn = NULL /\ x.physfnPath = k[c].physfn
  BY <1>1, <1>2, <1>3 DEF Resolved, Unposted, Scanned
<1>5. CASE k[c].physfn = NULL
  <2>1. PhysicalFunctions(k[c].physfn) = {}
    BY <1>5 DEF PhysicalFunctions
  <2>2. y.physfn = NULL /\ y.warned = x.warned
    BY <1>1, <1>4, <1>5 DEF PhysfnSet
  <2>3. First(PhysicalFunctions(k[c].physfn)) = NULL
    BY <2>1 DEF First
  <2>4. y.warned = FALSE
    BY <1>4, <2>2, Zenon
  <2>. QED
    BY <1>4, <1>5, <2>2, <2>3, <2>4
<1>6. CASE k[c].physfn # NULL
  <2>1. PICK found : found = PhysicalFunctions(k[c].physfn)
    OBVIOUS
  <2>2. match_physfn(en, c) = found
    BY <1>6, <2>1, PhysicalFound DEF Before
  <2>3. y.physfn = First(found) /\ (y.warned <=> (x.warned \/ found = {}))
    BY <1>1, <1>4, <1>6, <2>2 DEF PhysfnSet
  <2>4. found \subseteq Ifs
    BY <2>1 DEF PhysicalFunctions
  <2>5. found = {} <=> First(found) = NULL
    BY <2>4, FirstIsMember
  <2>6. y.warned <=> (k[c].physfn # NULL /\ y.physfn = NULL)
    BY <1>4, <1>6, <2>3, <2>5, Zenon
  <2>7. y.warned = (k[c].physfn # NULL /\ y.physfn = NULL)
    BY <2>6, Zenon
  <2>. QED
    BY <1>4, <2>1, <2>3, <2>7
<1>. QED
  BY <1>5, <1>6

\* The driver's post callback
LEMMA DriverPosted ==
    ASSUME KernelOK, NEW en, NEW c \in Ifs, Before(en, c), NEW mid, mid = driver_post(en, c)
    PROVE  /\ Touched(en, c, mid)
           /\ ChosenWell(mid, c)
           /\ \A y : y = mid[c] => Tunnelled(c, y)
           /\ k[c].driver = "other" => mid = en
<1>1. CASE k[c].driver \in Tunnels
  <2>1. mid = tunnel_post(en, c)
    BY <1>1 DEF driver_post, Tunnels
  <2>2. k[c].driver \notin {"bonding", "team", "other"}
    BY <1>1 DEF Tunnels
  <2>3. Touched(en, c, mid) /\ \A y : y = mid[c] => Tunnelled(c, y)
    BY <1>1, <2>1, TunnelPosted
  <2>4. ChosenWell(mid, c)
    BY <2>2 DEF ChosenWell
  <2>. QED
    BY <2>2, <2>3, <2>4
<1>2. k[c].driver \notin Tunnels => \A y : Tunnelled(c, y)
  BY DEF Tunnelled, Regular
<1>3. CASE k[c].driver = "bonding"
  <2>1. mid = bond_post(en, c) /\ k[c].driver \notin Tunnels
    BY <1>3 DEF driver_post, Tunnels
  <2>. QED
    BY <1>2, <1>3, <2>1, BondElects
<1>4. CASE k[c].driver = "team"
  <2>1. mid = team_post(en, c) /\ k[c].driver \notin Tunnels
    BY <1>4 DEF driver_post, Tunnels
  <2>. QED
    BY <1>2, <1>4, <2>1, TeamElects
<1>5. CASE k[c].driver \notin Tunnels \union {"bonding", "team"}
  <2>1. mid = en
    BY <1>5 DEF driver_post
  <2>2. Touched(en, c, en)
    BY FactsEntries, NoneTouched DEF Before
  <2>. QED
    BY <1>2, <1>5, <2>1, <2>2 DEF ChosenWell
<1>. QED
  BY <1>1, <1>3, <1>4, <1>5

\* All post callbacks of c
Posts(en, c, new) ==
    /\ Touched(en, c, new)
    /\ ChosenWell(new, c)
    /\ \A y : y = new[c] => Tunnelled(c, y) /\ Alone(c, y)

\* The driver's callback and then iov_post
LEMMA PostSets ==
    ASSUME KernelOK, NEW en, NEW c \in Ifs, Before(en, c),
           NEW new, new = iov_post(driver_post(en, c), c)
    PROVE  Posts(en, c, new)
<1>1. PICK mid : mid = driver_post(en, c)
  OBVIOUS
<1>2. /\ Touched(en, c, mid)
      /\ ChosenWell(mid, c)
      /\ \A y : y = mid[c] => Tunnelled(c, y)
      /\ k[c].driver = "other" => mid = en
  BY <1>1, DriverPosted
<1>3. Entries(mid)
  BY <1>2, FactsEntries, TouchedEntries DEF Before
<1>4. /\ Touched(mid, c, new)
      /\ PhysfnSet(mid[c], new[c], match_physfn(mid, c))
      /\ mid[c].warned \in BOOLEAN => new[c].warned \in BOOLEAN
      /\ \A e \in Ifs \ {c} : new[e] = mid[e]
  BY <1>1, <1>3, IovPosted
<1>5. Touched(en, c, new)
  BY <1>2, <1>4, TouchedTwice
<1>6. new[c].master = mid[c].master /\ new[c].passive = mid[c].passive
      /\ new[c].activeSlave = mid[c].activeSlave /\ (mid[c].warned => new[c].warned)
      /\ new[c].link = mid[c].link /\ new[c].weak = mid[c].weak /\ DOMAIN new[c] = Fields
  BY <1>4 DEF Touched, Own, Frozen, PhysfnSet
<1>7. ASSUME NEW a, Chosen(mid, c, a) PROVE Chosen(new, c, a)
  <2>1. \A e \in Ifs : new[e].master = mid[e].master /\ new[e].passive = mid[e].passive
    BY <1>4, <1>6
  <2>2. {e \in Ifs : new[e].master = c} = {e \in Ifs : mid[e].master = c}
    BY <2>1
  <2>3. {e \in {f \in Ifs : mid[f].master = c} : new[e].passive} =
            {e \in {f \in Ifs : mid[f].master = c} : mid[e].passive}
    BY <2>1
  <2>. QED
    BY <1>6, <1>7, <2>2, <2>3 DEF Chosen
<1>8. ChosenWell(new, c)
  BY <1>2, <1>6, <1>7 DEF ChosenWell
<1>9. ASSUME NEW y, y = new[c] PROVE Tunnelled(c, y)
  BY <1>2, <1>6, <1>9 DEF Tunnelled
<1>10. ASSUME NEW y, y = new[c] PROVE Alone(c, y)
  <2>1. CASE k[c].driver # "other"
    BY <2>1 DEF Alone
  <2>2. CASE k[c].driver = "other"
    <3>1. mid = en
      BY <1>2, <2>2
    <3>2. en[c].warned \in BOOLEAN
      BY DEF Before, Unposted
    <3>3. PhysfnSet(en[c], y, match_physfn(en, c)) /\ y.master = en[c].master /\ y.warned \in BOOLEAN
          /\ DOMAIN y = Fields
      BY <1>4, <1>6, <1>10, <3>1, <3>2
    <3>. QED
      BY <3>3, IovAlone
  <2>. QED
    BY <2>1, <2>2
<1>. QED
  BY <1>5, <1>8, <1>9, <1>10 DEF Posts

\* The post callbacks of c take nothing from the other masters.
LEMMA OthersChosen ==
    ASSUME NEW en, NEW c \in Ifs, NEW new, Touched(en, c, new), NEW m \in Ifs \ {c}
    PROVE  /\ \A p \in Ifs : new[p].master = m =>
                  en[p].master = m /\ new[p].passive = en[p].passive
           /\ ChosenWell(en, m) => ChosenWell(new, m)
<1>1. \A p \in Ifs : new[p].master = en[p].master
  BY DEF Touched, Same, Own
<1>2. ASSUME NEW p \in Ifs, en[p].master = m PROVE new[p].passive = en[p].passive
  <2>1. CASE p = c
    BY <2>1 DEF Touched, Own
  <2>2. CASE p # c
    BY <1>2, <2>2 DEF Touched
  <2>. QED
    BY <2>1, <2>2
<1>3. new[m].activeSlave = en[m].activeSlave /\ new[m].warned = en[m].warned
  BY DEF Touched, Same
<1>4. ASSUME NEW a, Chosen(en, m, a) PROVE Chosen(new, m, a)
  <2>1. {e \in Ifs : new[e].master = m} = {e \in Ifs : en[e].master = m}
    BY <1>1
  <2>2. {e \in {f \in Ifs : en[f].master = m} : new[e].passive} =
            {e \in {f \in Ifs : en[f].master = m} : en[e].passive}
    BY <1>2
  <2>. QED
    BY <1>3, <1>4, <2>1, <2>2 DEF Chosen
<1>5. ChosenWell(en, m) => ChosenWell(new, m)
  BY <1>3, <1>4 DEF ChosenWell
<1>. QED
  BY <1>1, <1>2, <1>5

\* The facts depend on the kernel and on what has happened only.
LEMMA FactsStay ==
    ASSUME UNCHANGED <<k, actives, gone>>, NEW e, NEW x
    PROVE  /\ Linked(e, x) => Linked(e, x)'
           /\ Scanned(e, x) => Scanned(e, x)'
           /\ Named(e, x) => Named(e, x)'
           /\ Resolved(e, x) => Resolved(e, x)'
           /\ Unposted(e, x) => Unposted(e, x)'
           /\ Tunnelled(e, x) => Tunnelled(e, x)'
           /\ Alone(e, x) => Alone(e, x)'
<1>1. Linked(e, x) => Linked(e, x)'
  BY DEF Linked, Netnsid
<1>2. Scanned(e, x) => Scanned(e, x)'
  BY DEF Scanned
<1>3. Named(e, x) => Named(e, x)'
  BY DEF Named
<1>4. Intact(e)' = Intact(e) /\ Regular(e)' = Regular(e) /\ Holders(e)' = Holders(e)
      /\ Involved(e)' = Involved(e) /\ PhysicalFunctions(k[e].physfn)' = PhysicalFunctions(k[e].physfn)
  BY DEF Intact, Regular, Holders, Involved, PhysicalFunctions
<1>5. Resolved(e, x) => Resolved(e, x)'
  BY <1>4 DEF Resolved
<1>6. Unposted(e, x) => Unposted(e, x)'
  BY <1>4 DEF Unposted
<1>7. Tunnelled(e, x) => Tunnelled(e, x)'
  BY <1>4 DEF Tunnelled
<1>8. Alone(e, x) => Alone(e, x)'
  BY <1>4 DEF Alone
<1>. QED
  BY <1>1, <1>2, <1>3, <1>5, <1>6, <1>7, <1>8

\* if_handler_post completes the current interface and spoils no other.
LEMMA PostStep ==
    ASSUME Shape, KernelOK, LateOK, if_handler_post
    PROVE  LateOK'
<1>1. PICK en : en = ent
  OBVIOUS
<1>2. PICK new : new = ent'
  OBVIOUS
<1>3. PICK c \in Ifs : c = cur
  BY DEF Shape
<1>4. UNCHANGED <<k, actives, gone>> /\ phase = "post" /\ phase' \in {"post", "output"}
  BY DEF if_handler_post
<1>5. ASSUME NEW e \in Ifs
      PROVE  (Posted(e)' => e = c \/ Posted(e)) /\ (~Posted(e)' => e # c /\ ~Posted(e))
  <2>1. c \in 1..N /\ e \in 1..N /\ N \in Nat
    BY PlaceAssumption DEF Ifs
  <2>2. CASE c = N
    <3>1. phase' = "output"
      BY <1>3, <2>2 DEF if_handler_post
    <3>2. e = c \/ e < c
      BY <2>1, <2>2
    <3>. QED
      BY <1>3, <1>4, <3>1, <3>2 DEF Posted
  <2>3. CASE c # N
    <3>1. phase' = "post" /\ cur' = c + 1
      BY <1>3, <1>4, <2>3 DEF if_handler_post
    <3>2. (e < c + 1 => e = c \/ e < c) /\ (~ (e < c + 1) => e # c /\ ~ (e < c))
      BY <2>1
    <3>. QED
      BY <1>3, <1>4, <3>1, <3>2 DEF Posted
  <2>. QED
    BY <2>2, <2>3
<1>6. DOMAIN en = Ifs /\ \A e \in Ifs : \A x : x = en[e] =>
          Linked(e, x) /\ Scanned(e, x) /\ Named(e, x) /\ Resolved(e, x)
  BY <1>1, <1>4 DEF LateOK, Late, Shape
<1>7. ~Posted(c)
  <2>1. ~ (c < c)
    BY DEF Ifs
  <2>. QED
    BY <1>3, <1>4, <2>1 DEF Posted
<1>8. Before(en, c)
  <2>1. \A x : x = en[c] => Unposted(c, x)
    BY <1>1, <1>4, <1>7 DEF LateOK, Late
  <2>2. \A p \in Ifs : en[p].master = c => ~en[p].passive
    BY <1>1, <1>4, <1>7 DEF LateOK, Late, NoPassive
  <2>3. k[c].driver = "team" /\ en[c].activeName = NotAName => \A p \in Ifs : en[p].master # c
    BY <1>1, <1>3 DEF if_handler_post, ComparesNull
  <2>. QED
    BY <1>6, <2>1, <2>2, <2>3 DEF Before, Facts
<1>9. Posts(en, c, new)
  <2>1. new = iov_post(driver_post(en, c), c)
    BY <1>1, <1>2, <1>3 DEF if_handler_post
  <2>. QED
    BY <1>8, <2>1, PostSets
<1>10. Touched(en, c, new)
  BY <1>9 DEF Posts
<1>11. ASSUME NEW e \in Ifs, NEW y, y = ent'[e]
       PROVE  /\ Linked(e, y) /\ Scanned(e, y) /\ Named(e, y) /\ Resolved(e, y)
              /\ ~Posted(e)' => Unposted(e, y)
              /\ Posted(e)' => Tunnelled(e, y) /\ Alone(e, y)
  <2>1. PICK x : x = en[e]
    OBVIOUS
  <2>2. y = new[e]
    BY <1>2, <1>11
  <2>3. Linked(e, x) /\ Scanned(e, x) /\ Named(e, x) /\ Resolved(e, x)
    BY <1>6, <2>1
  <2>4. CASE e = c
    <3>1. Own(x, y) /\ y.linkNet = x.linkNet
      BY <1>10, <2>1, <2>2, <2>4 DEF Touched
    <3>2. Linked(e, y) /\ Scanned(e, y) /\ Named(e, y)
      BY <2>3, <3>1, FrozenStays DEF Own
    <3>3. Resolved(e, y)
      BY <2>3, <3>1 DEF Resolved, Own
    <3>4. Tunnelled(e, y) /\ Alone(e, y)
      BY <1>9, <2>2, <2>4 DEF Posts
    <3>. QED
      BY <1>5, <2>4, <3>2, <3>3, <3>4
  <2>5. CASE e # c
    <3>1. Same(x, y)
      BY <1>10, <2>1, <2>2, <2>5 DEF Touched
    <3>2. Linked(e, y) /\ Scanned(e, y) /\ Named(e, y)
      BY <2>3, <3>1, FrozenStays DEF Same
    <3>3. Resolved(e, y)
      BY <2>3, <3>1, SameStays
    <3>4. /\ ~Posted(e)' => Unposted(e, x)
          /\ Posted(e)' => Tunnelled(e, x) /\ Alone(e, x)
      BY <1>1, <1>4, <1>5, <2>1, <2>5 DEF LateOK, Late
    <3>. QED
      BY <3>1, <3>2, <3>3, <3>4, SameStays
  <2>. QED
    BY <2>4, <2>5
<1>12. ASSUME NEW e \in Ifs, ~Posted(e)' PROVE NoPassive(e)'
  <2>1. e # c /\ ~Posted(e)
    BY <1>5, <1>12
  <2>2. NoPassive(e)
    BY <1>4, <2>1 DEF LateOK, Late
  <2>3. \A p \in Ifs : new[p].master = e => en[p].master = e /\ new[p].passive = en[p].passive
    BY <1>10, <2>1, OthersChosen
  <2>4. \A p \in Ifs : new[p].master = e => ~new[p].passive
    BY <1>1, <2>2, <2>3 DEF NoPassive
  <2>. QED
    BY <1>2, <2>4 DEF NoPassive
<1>13. ASSUME NEW e \in Ifs, Posted(e)' PROVE Elects(e)'
  <2>1. ChosenWell(new, e)
    <3>1. CASE e = c
      BY <1>9, <3>1 DEF Posts
    <3>2. CASE e # c
      <4>1. Elects(e)
        BY <1>4, <1>5, <1>13, <3>2 DEF LateOK, Late
      <4>2. ChosenWell(en, e)
        BY <1>1, <4>1 DEF Elects, Roles, ChosenWell, Chosen
      <4>. QED
        BY <1>10, <3>2, <4>2, OthersChosen
    <3>. QED
      BY <3>1, <3>2
  <2>. QED
    BY <1>2, <1>4, <2>1 DEF Elects, Roles, ChosenWell, Chosen
<1>14. ASSUME NEW e \in Ifs, NEW y, y = ent'[e]
       PROVE  /\ Linked(e, y)' /\ Scanned(e, y)' /\ Named(e, y)' /\ Resolved(e, y)'
              /\ ~Posted(e)' => Unposted(e, y)'
              /\ Posted(e)' => Tunnelled(e, y)' /\ Alone(e, y)'
  BY <1>4, <1>11, <1>14, FactsStay
<1>. QED
  BY <1>4, <1>12, <1>13, <1>14 DEF LateOK

\* Nothing of it changes once all post callbacks have been called.
LEMMA AfterPost ==
    ASSUME LateOK, UNCHANGED <<k, actives, gone, ent>>,
           Late, \A e \in Ifs : Posted(e)' <=> Posted(e), phase' # "resolve"
    PROVE  LateOK'
<1>1. ASSUME NEW e \in Ifs, NEW y, y = ent'[e]
      PROVE  /\ Linked(e, y)' /\ Scanned(e, y)' /\ Named(e, y)' /\ Resolved(e, y)'
             /\ ~Posted(e)' => Unposted(e, y)'
             /\ Posted(e)' => Tunnelled(e, y)' /\ Alone(e, y)'
  <2>1. y = ent[e]
    BY <1>1
  <2>2. /\ Linked(e, y) /\ Scanned(e, y) /\ Named(e, y) /\ Resolved(e, y)
        /\ ~Posted(e)' => Unposted(e, y)
        /\ Posted(e)' => Tunnelled(e, y) /\ Alone(e, y)
    BY <2>1 DEF LateOK
  <2>. QED
    BY <2>2, FactsStay
<1>2. ASSUME NEW e \in Ifs PROVE (~Posted(e)' => NoPassive(e)') /\ (Posted(e)' => Elects(e)')
  <2>1. (~Posted(e)' => NoPassive(e)) /\ (Posted(e)' => Elects(e))
    BY DEF LateOK
  <2>2. (NoPassive(e) => NoPassive(e)') /\ (Elects(e) => Elects(e)')
    BY DEF NoPassive, Elects, Roles
  <2>. QED
    BY <2>1, <2>2
<1>. QED
  BY <1>1, <1>2 DEF LateOK

\* Every step keeps what the entries say after the resolution.
LEMMA LateStep == Shape /\ KernelOK /\ EarlyOK /\ LateOK /\ [Next]_vars => LateOK'
<1>. SUFFICES ASSUME Shape, KernelOK, EarlyOK, LateOK, [Next]_vars PROVE LateOK'
  OBVIOUS
<1>1. ASSUME ~Late', phase' = "resolve" => cur' = 1 PROVE LateOK'
  BY <1>1 DEF LateOK
<1>2. CASE fill_if_link \/ ScanFault \/ if_list_error \/ PostFault \/ CleanupFault
  BY <1>1, <1>2 DEF fill_if_link, ScanFault, if_list_error, PostFault, CleanupFault, Late
<1>3. ASSUME NextInterface PROVE LateOK'
  BY <1>1, <1>3 DEF NextInterface, Late
<1>4. CASE if_handler_scan \/ Team
  <2>1. NextInterface \/ phase' \in {"connect", "wait", "recv", "wild"}
    BY <1>4 DEF if_handler_scan, Team, team_connect, team_wait, team_recv_bad, team_parse_json
  <2>. QED
    BY <1>1, <1>3, <2>1 DEF Late
<1>5. CASE master_resolve
  BY <1>5, ResolveStep
<1>6. CASE if_handler_post
  BY <1>6, PostStep
<1>7. CASE frontend_output \/ if_handler_cleanup
  <2>1. UNCHANGED <<k, actives, gone, ent>> /\ Late /\ phase # "post" /\ phase' \notin {"post", "resolve"}
    BY <1>7 DEF frontend_output, if_handler_cleanup, Late
  <2>2. \A e \in Ifs : Posted(e)' <=> Posted(e)
    BY <2>1 DEF Posted
  <2>. QED
    BY <2>1, <2>2, AfterPost
<1>8. CASE Environment
  <2>1. phase' = phase /\ phase \in {"link", "scan", "connect", "wait", "recv"}
    BY <1>8 DEF Environment, Vanish, Failover, TeamdAnswers, Reading
  <2>. QED
    BY <1>1, <2>1 DEF Late
<1>9. CASE UNCHANGED vars
  <2>1. UNCHANGED <<k, actives, gone, ent, phase, cur>>
    BY <1>9 DEF vars
  <2>2. CASE ~Late
    BY <1>1, <2>1, <2>2 DEF Late, LateOK
  <2>3. CASE Late
    BY <2>1, <2>3, AfterPost DEF Posted, Late
  <2>. QED
    BY <2>2, <2>3
<1>. QED
  BY <1>2, <1>4, <1>5, <1>6, <1>7, <1>8, <1>9 DEF Next, Program, Post, Cleanup

-----------------------------------------------------------------------------
\* The inductive invariant: what the private data are, what is true of the
\* kernel, of the entries while they are filled, and of the entries after.
EntriesInv == KeptInv /\ ErrnoOK /\ KernelOK /\ EarlyOK /\ LateOK

\* The invariant holds at first.
LEMMA EntriesInit == Init => EntriesInv
<1>1. Init => LateOK
  BY DEF Init, LateOK, Late
<1>. QED
  BY <1>1, InitKept, InitErrno, KernelInit, EarlyInit DEF EntriesInv

\* Every step keeps the invariant.
LEMMA EntriesStep == EntriesInv /\ [Next]_vars => EntriesInv'
<1>. SUFFICES ASSUME EntriesInv, [Next]_vars PROVE EntriesInv'
  OBVIOUS
<1>1. KeptInv' /\ ErrnoOK' /\ Shape
  BY KeptStep, ErrnoStep DEF EntriesInv, KeptInv
<1>2. KernelOK' /\ Moved
  BY <1>1, KernelStep DEF EntriesInv
<1>3. EarlyOK'
  BY <1>1, <1>2, EarlyStep DEF EntriesInv
<1>4. LateOK'
  BY <1>1, LateStep DEF EntriesInv
<1>. QED
  BY <1>1, <1>2, <1>3, <1>4 DEF EntriesInv

\* At the end the post callbacks of all interfaces have been called.
LEMMA AllPosted ==
    ASSUME EntriesInv, Done, NEW e \in Ifs
    PROVE  Elects(e) /\ \A x : x = ent[e] => Tunnelled(e, x) /\ Alone(e, x)
BY DEF EntriesInv, LateOK, Late, Posted, Done

\* A bond or team without a warning shows its ports in the roles they had at
\* one moment of the run, however often and whenever other ports become active
\* or interfaces vanish (bond_scan, team_scan, bond_post, team_post).
THEOREM RolesCorrect == Spec => []PassiveExact
<1>1. EntriesInv => PassiveExact
  BY AllPosted DEF PassiveExact, Elects
<1>. QED
  BY EntriesInit, EntriesStep, <1>1, PTL DEF Spec

\* A tunnel's link is the one interface that is up and has its local address,
\* and its device when there is no such interface or more than one
\* (match_all_netnsid, master_resolve, tunnel_find_addr).
THEOREM TunnelsCorrect == Spec => []TunnelTrue
<1>1. EntriesInv => TunnelTrue
  BY AllPosted DEF TunnelTrue, Tunnelled
<1>. QED
  BY EntriesInit, EntriesStep, <1>1, PTL DEF Spec

\* An interface none of whose relatives vanishes shows its master and its
\* physical function, and no warning that is not due (bridge_scan, iov_scan,
\* iov_post).
THEOREM VanishedCorrect == Spec => []VanishedAlone
<1>1. EntriesInv => VanishedAlone
  BY AllPosted DEF VanishedAlone, Alone
<1>. QED
  BY EntriesInit, EntriesStep, <1>1, PTL DEF Spec
=============================================================================
