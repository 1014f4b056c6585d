-------------------------- MODULE NetnsScanProofs --------------------------
(***************************************************************************)
(* For any number of namespaces, names and processes, and any moves and    *)
(* exits of processes: no namespace id is listed twice, every entry but    *)
(* the root is read in its own namespace with its own sysfs, and, whatever *)
(* calls fail, the walks miss a namespace only for a reason.               *)
(*                                                                         *)
(* UniqueIds needs that the id read from a process's link is still new     *)
(* when the link is opened (ProcNew); ReadInOwnNs needs where the process  *)
(* is between the switch and the read (AtEntry), that the entries read are *)
(* those before idx (Progress), and that only the first is the root.       *)
(*                                                                         *)
(* That nothing is missed needs what both walks have seen so far (Found):  *)
(* a usable name that was seen is listed, and, as long as no process has   *)
(* moved, a process that was seen is gone or its namespace is listed.      *)
(***************************************************************************)
EXTENDS NetnsScan, TLAPS

ProcNew == proc # NULL => ~IsDuplicate(proc.id) /\ pc \in {"proc", "exit", "gone"}

OneRoot == \A i \in 1..Len(list) : list[i].kind = "root" <=> i = 1

Early == pc \in {"start", "new", "var", "proc", "init"}
Reading == pc \in {"switch", "mount", "read"}

Progress ==
    /\ pc \in {"start", "new"} => list = <<>>
    /\ pc \in {"var", "proc"} => list # <<>>
    /\ Early => readFrom = <<>>
    /\ Len(sysFrom) = Len(readFrom)
    /\ Len(readFrom) <= Len(list)
    /\ Reading => idx = Len(readFrom) + 1
    /\ pc \in {"mount", "read"} => idx <= Len(list)

AtEntry ==
    /\ pc \in {"mount", "read"} => (idx >= 2 => cur = list[idx].fd)
    /\ pc = "read" => mounted = cur

Setup == (Reading \/ pc = "ids") => idx >= 1

IInv ==
    /\ TypeOK
    /\ UniqueIds
    /\ ProcNew
    /\ OneRoot
    /\ Progress
    /\ AtEntry
    /\ ReadInOwnNs
    /\ Setup

USE NsAssumption, PidAssumption, BoundAssumption

\* The invariant holds before the first directory entry is read.
LEMMA InitIInv == Init => IInv
<1>. SUFFICES ASSUME Init PROVE IInv
  OBVIOUS
<1>1. TypeOK
  <2>1. list \in Seq(Entry) /\ readFrom \in Seq(Ns) /\ sysFrom \in Seq(Ns \union {NULL})
    BY DEF Init
  <2>2. supported \in BOOLEAN
    BY DEF Init
  <2>. QED
    BY <2>1, <2>2 DEF Init, TypeOK
<1>2. UniqueIds /\ ProcNew /\ OneRoot /\ ReadInOwnNs
  BY DEF Init, UniqueIds, ProcNew, OneRoot, ReadInOwnNs
<1>3. Progress /\ AtEntry /\ Setup
  BY DEF Init, Progress, Early, Reading, AtEntry, Setup, TypeOK
<1>. QED
  BY <1>1, <1>2, <1>3 DEF IInv

\* A step that leaves the list, what was read and the mount alone, and does not
\* enter or leave the reading of an entry, keeps the invariant.
LEMMA QuietIInv ==
    ASSUME IInv, TypeOK', UNCHANGED <<list, idx, mounted, readFrom, sysFrom>>,
           UNCHANGED <<proc, pc>> \/ (proc' = NULL /\ pc' = pc) \/ (proc = NULL /\ UNCHANGED proc)
              \/ (UNCHANGED proc /\ pc' = "exit"),
           \/ UNCHANGED <<pc, cur>>
           \/ UNCHANGED pc /\ pc \in {"var", "proc"}
           \/ pc \in {"var", "proc"} /\ pc' \in {"proc", "init"}
           \/ pc = "start" /\ pc' = "new"
           \/ pc \notin {"gone"} /\ pc' = "exit"
    PROVE  IInv'
<1>1. UniqueIds' /\ OneRoot' /\ ReadInOwnNs' /\ Setup'
  BY DEF IInv, UniqueIds, OneRoot, ReadInOwnNs, Setup, Reading, TypeOK
<1>2. ProcNew'
  BY DEF IInv, ProcNew, IsDuplicate
<1>3. Progress' /\ AtEntry'
  BY DEF IInv, Progress, AtEntry, Early, Reading
<1>. QED
  BY <1>1, <1>2, <1>3 DEF IInv

\* Appending an entry with a new id keeps the invariant.
LEMMA AppendIInv ==
    ASSUME IInv, TypeOK', NEW e \in Entry, ~IsDuplicate(e.id), e.kind # "root",
           pc \in {"var", "proc"}, list # <<>>, list' = Append(list, e), proc' = NULL,
           UNCHANGED <<pc, idx, mounted, readFrom, sysFrom>>
    PROVE  IInv'
<1>1. /\ Len(list') = Len(list) + 1 /\ list'[Len(list) + 1] = e
      /\ \A i \in 1..Len(list) : list'[i] = list[i]
      /\ Len(list) \in Nat \ {0}
  BY DEF IInv, TypeOK
<1>2. UniqueIds'
  BY <1>1 DEF IInv, UniqueIds, IsDuplicate
<1>3. OneRoot'
  BY <1>1 DEF IInv, OneRoot
<1>4. ReadInOwnNs'
  BY <1>1 DEF IInv, ReadInOwnNs, Progress, Early
<1>5. Progress' /\ AtEntry'
  BY <1>1 DEF IInv, Progress, AtEntry, Early, Reading
<1>6. Setup' /\ ProcNew'
  BY DEF IInv, Setup, ProcNew, Reading
<1>. QED
  BY <1>2, <1>3, <1>4, <1>5, <1>6 DEF IInv

\* Enumerating the namespaces keeps the invariant.
LEMMA EnumerateIInv == ASSUME IInv, Enumerate PROVE IInv'
<1>0. TypeOK
  BY DEF IInv
<1>1. CASE SwitchRoot
  <2>1. TypeOK'
    BY <1>0, <1>1 DEF SwitchRoot, TypeOK, outside, passed
  <2>2. proc = NULL
    BY <1>1 DEF SwitchRoot, IInv, ProcNew
  <2>. QED
    BY <1>1, <2>1, <2>2, QuietIInv DEF SwitchRoot
<1>2. CASE NoSupport
  <2>1. TypeOK'
    BY <1>0, <1>2 DEF NoSupport, TypeOK, outside, passed
  <2>2. proc = NULL
    BY <1>2 DEF NoSupport, IInv, ProcNew
  <2>. QED
    BY <1>2, <2>1, <2>2, QuietIInv DEF NoSupport
<1>3. CASE NewList
  <2>. DEFINE e == [id |-> Root, fd |-> Root, kind |-> "root", pid |-> 0]
  <2>1. e \in Entry /\ list' = <<e>> /\ e.kind = "root"
    BY <1>3 DEF NewList, Entry
  <2>. HIDE DEF e
  <2>2. list' \in Seq(Entry) /\ Len(list') = 1 /\ list'[1] = e /\ list' # <<>>
    BY <2>1
  <2>3. TypeOK'
    BY <1>0, <1>3, <2>2 DEF NewList, TypeOK, outside, passed
  <2>4. UniqueIds' /\ OneRoot'
    BY <2>1, <2>2 DEF UniqueIds, OneRoot
  <2>5. proc = NULL /\ readFrom = <<>>
    BY <1>3 DEF NewList, IInv, ProcNew, Progress, Early
  <2>6. ProcNew' /\ ReadInOwnNs' /\ Setup' /\ AtEntry'
    BY <1>3, <2>5 DEF NewList, IInv, ProcNew, ReadInOwnNs, Setup, Reading, TypeOK, AtEntry
  <2>7. Progress'
    BY <1>3, <2>2, <2>5 DEF NewList, IInv, Progress, Early, Reading
  <2>. QED
    BY <2>3, <2>4, <2>6, <2>7 DEF IInv
<1>4. CASE VarDone
  <2>1. TypeOK'
    BY <1>0, <1>4 DEF VarDone, TypeOK, outside, passed
  <2>2. proc = NULL
    BY <1>4 DEF VarDone, IInv, ProcNew
  <2>. QED
    BY <1>4, <2>1, <2>2, QuietIInv DEF VarDone
<1>5. CASE ProcDone
  <2>1. TypeOK'
    BY <1>0, <1>5 DEF ProcDone, TypeOK, outside, passed
  <2>. QED
    BY <1>5, <2>1, QuietIInv DEF ProcDone
<1>6. CASE ProcOpenFails
  <2>1. TypeOK'
    BY <1>0, <1>6 DEF ProcOpenFails, TypeOK, outside, passed
  <2>. QED
    BY <1>6, <2>1, QuietIInv DEF ProcOpenFails
<1>7. CASE ProcOpen
  <2>. DEFINE e == [id |-> proc.id, fd |-> procNs[proc.pid], kind |-> "proc", pid |-> proc.pid]
  <2>1. proc \in [pid : Pids, id : Ns] /\ procNs[proc.pid] \in Ns
    BY <1>0, <1>7 DEF ProcOpen, TypeOK
  <2>2. e \in Entry /\ e.kind # "root" /\ e.id = proc.id
    BY <2>1 DEF Entry
  <2>3. list' = Append(list, e) /\ ~IsDuplicate(proc.id) /\ list # <<>>
    BY <1>7 DEF ProcOpen, IInv, ProcNew, Progress
  <2>. HIDE DEF e
  <2>4. TypeOK'
    BY <1>0, <1>7, <2>2, <2>3 DEF ProcOpen, TypeOK, outside, passed
  <2>. QED
    BY <1>7, <2>2, <2>3, <2>4, AppendIInv DEF ProcOpen
<1>8. ASSUME NEW n \in Names, VarUnusable(n) PROVE IInv'
  <2>1. TypeOK'
    BY <1>0, <1>8 DEF VarUnusable, SkipName, TypeOK, outside, passed
  <2>. QED
    BY <1>8, <2>1, QuietIInv DEF VarUnusable
<1>9. ASSUME NEW n \in Names, VarDuplicate(n) PROVE IInv'
  <2>1. TypeOK'
    BY <1>0, <1>9 DEF VarDuplicate, TypeOK, outside, passed
  <2>. QED
    BY <1>9, <2>1, QuietIInv DEF VarDuplicate
<1>10. ASSUME NEW n \in Names, VarNew(n) PROVE IInv'
  <2>. DEFINE e == [id |-> target[n], fd |-> target[n], kind |-> "var", pid |-> 0]
  <2>1. e \in Entry /\ e.kind # "root" /\ e.id = target[n]
    BY <1>10 DEF VarNew, Entry
  <2>2. list' = Append(list, e) /\ ~IsDuplicate(target[n]) /\ list # <<>> /\ proc = NULL
    BY <1>10 DEF VarNew, IInv, ProcNew, Progress
  <2>. HIDE DEF e
  <2>3. TypeOK'
    BY <1>0, <1>10, <2>1, <2>2 DEF VarNew, TypeOK, outside, passed
  <2>. QED
    BY <1>10, <2>1, <2>2, <2>3, AppendIInv DEF VarNew
<1>11. ASSUME NEW p \in Pids, ProcUnreadable(p) PROVE IInv'
  <2>1. TypeOK'
    BY <1>0, <1>11 DEF ProcUnreadable, TypeOK, outside, passed
  <2>. QED
    BY <1>11, <2>1, QuietIInv DEF ProcUnreadable
<1>12. ASSUME NEW p \in Pids, ProcDuplicate(p) PROVE IInv'
  <2>1. /\ Len(list') = Len(list) /\ list' \in Seq(Entry)
        /\ \A i \in 1..Len(list) : /\ list'[i].id = list[i].id
                                   /\ list'[i].fd = list[i].fd
                                   /\ list'[i].kind = list[i].kind
    <3>1. \A i \in 1..Len(list) : list[i] \in Entry /\ [list[i] EXCEPT !.pid = p] \in Entry
      <4>1. \A e \in Entry : [e EXCEPT !.pid = p] \in Entry
        BY DEF Entry
      <4>2. \A i \in 1..Len(list) : list[i] \in Entry
        BY <1>0 DEF TypeOK
      <4>. QED
        BY <4>1, <4>2
    <3>. DEFINE F(i) == IF list[i].id = procNs[p] /\ Renames(list[i], p)
                       THEN [list[i] EXCEPT !.pid = p] ELSE list[i]
    <3>4. \A i \in 1..Len(list) : F(i) \in Entry
      BY <3>1
    <3>5. list' = [i \in 1..Len(list) |-> F(i)] /\ Len(list) \in Nat
      BY <1>0, <1>12 DEF ProcDuplicate, TypeOK
    <3>. HIDE DEF F
    <3>2. list' \in Seq(Entry) /\ Len(list') = Len(list)
      BY <3>4, <3>5
    <3>3. \A i \in 1..Len(list) : list'[i] \in {list[i], [list[i] EXCEPT !.pid = p]}
      BY <1>12 DEF ProcDuplicate
    <3>. QED
      BY <3>1, <3>2, <3>3 DEF Entry
  <2>2. TypeOK'
    BY <1>0, <1>12, <2>1 DEF ProcDuplicate, TypeOK, outside, passed
  <2>3. UniqueIds' /\ OneRoot' /\ ReadInOwnNs'
    BY <1>12, <2>1 DEF ProcDuplicate, IInv, UniqueIds, OneRoot, ReadInOwnNs, Progress, Early
  <2>4. ProcNew' /\ Setup' /\ AtEntry'
    BY <1>12 DEF ProcDuplicate, IInv, ProcNew, Setup, Reading, TypeOK, AtEntry
  <2>5. Progress'
    BY <1>12, <2>1 DEF ProcDuplicate, IInv, Progress, Early, Reading
  <2>. QED
    BY <2>2, <2>3, <2>4, <2>5 DEF IInv
<1>13. ASSUME NEW p \in Pids, ProcReadLink(p) PROVE IInv'
  <2>1. procNs[p] \in Ns /\ proc' \in [pid : Pids, id : Ns] /\ proc'.id = procNs[p]
    BY <1>0, <1>13 DEF ProcReadLink, TypeOK
  <2>2. TypeOK'
    BY <1>0, <1>13, <2>1 DEF ProcReadLink, TypeOK, outside, passed
  <2>3. ProcNew'
    BY <1>13, <2>1 DEF ProcReadLink, ProcNew, IsDuplicate
  <2>4. UniqueIds' /\ OneRoot' /\ ReadInOwnNs' /\ Setup' /\ AtEntry'
    BY <1>13 DEF ProcReadLink, IInv, UniqueIds, OneRoot, ReadInOwnNs, Setup, Reading, TypeOK, AtEntry
  <2>5. Progress'
    BY <1>13 DEF ProcReadLink, IInv, Progress, Early, Reading
  <2>. QED
    BY <2>2, <2>3, <2>4, <2>5 DEF IInv
<1>. QED
  BY <1>1, <1>2, <1>3, <1>4, <1>5, <1>6, <1>7, <1>8, <1>9, <1>10, <1>11, <1>12, <1>13
  DEF Enumerate

\* Reading the namespaces and exiting keeps the invariant.
LEMMA ReadAllIInv == ASSUME IInv, ReadAll PROVE IInv'
<1>0. TypeOK
  BY DEF IInv
<1>. USE DEF outside, passed
<1>1. CASE SysfsInit
  <2>1. TypeOK'
    BY <1>0, <1>1 DEF SysfsInit, TypeOK
  <2>2. UniqueIds' /\ OneRoot' /\ ProcNew' /\ ReadInOwnNs'
    BY <1>1 DEF SysfsInit, IInv, UniqueIds, OneRoot, ProcNew, ReadInOwnNs
  <2>3. Progress' /\ AtEntry' /\ Setup'
    BY <1>1 DEF SysfsInit, IInv, Progress, Early, Reading, AtEntry, Setup, TypeOK
  <2>. QED
    BY <2>1, <2>2, <2>3 DEF IInv
<1>2. CASE Switch
  <2>1. idx \in 1..Len(list) /\ list[idx] \in Entry /\ list[idx].fd \in Ns
    <3>1. idx \in 1..Len(list)
      BY <1>0, <1>2 DEF Switch, IInv, Progress, Reading, TypeOK
    <3>2. list[idx] \in Entry
      BY <1>0, <3>1 DEF TypeOK
    <3>. QED
      BY <3>1, <3>2 DEF Entry
  <2>2. TypeOK'
    BY <1>0, <1>2, <2>1 DEF Switch, TypeOK
  <2>3. UniqueIds' /\ OneRoot' /\ ProcNew' /\ ReadInOwnNs' /\ Setup'
    BY <1>2 DEF Switch, IInv, UniqueIds, OneRoot, ProcNew, ReadInOwnNs, Setup, Reading, TypeOK
  <2>4. Progress'
    BY <1>2, <2>1 DEF Switch, IInv, Progress, Early, Reading
  <2>5. AtEntry'
    <3>1. idx >= 2 => Switches(list[idx])
      BY <2>1 DEF Switches, IInv, OneRoot
    <3>. QED
      BY <1>2, <3>1 DEF Switch, AtEntry
  <2>. QED
    BY <2>2, <2>3, <2>4, <2>5 DEF IInv
<1>3. CASE Mount
  <2>1. TypeOK'
    BY <1>0, <1>3 DEF Mount, TypeOK
  <2>2. UniqueIds' /\ OneRoot' /\ ProcNew' /\ ReadInOwnNs'
    BY <1>3 DEF Mount, IInv, UniqueIds, OneRoot, ProcNew, ReadInOwnNs
  <2>3. Progress' /\ AtEntry'
    BY <1>3 DEF Mount, IInv, Progress, Early, Reading, AtEntry
  <2>4. Setup'
    BY <1>3 DEF Mount, IInv, Setup, Reading
  <2>. QED
    BY <2>1, <2>2, <2>3, <2>4 DEF IInv
<1>4. CASE MountFails
  <2>1. TypeOK'
    BY <1>0, <1>4 DEF MountFails, TypeOK
  <2>2. UniqueIds' /\ OneRoot' /\ ProcNew' /\ ReadInOwnNs'
    BY <1>4 DEF MountFails, IInv, UniqueIds, OneRoot, ProcNew, ReadInOwnNs
  <2>3. Progress' /\ AtEntry' /\ Setup'
    BY <1>4 DEF MountFails, IInv, Progress, Early, Reading, AtEntry, Setup, TypeOK
  <2>. QED
    BY <2>1, <2>2, <2>3 DEF IInv
<1>5. CASE Read
  <2>0. /\ readFrom \in Seq(Ns) /\ sysFrom \in Seq(Ns \union {NULL}) /\ list \in Seq(Entry)
        /\ cur \in Ns /\ mounted = cur /\ Len(sysFrom) = Len(readFrom)
        /\ idx = Len(readFrom) + 1 /\ idx <= Len(list)
        /\ idx >= 2 => cur = list[idx].fd
    BY <1>0, <1>5 DEF Read, IInv, TypeOK, Progress, Reading, AtEntry
  <2>1. /\ readFrom' \in Seq(Ns) /\ sysFrom' \in Seq(Ns \union {NULL})
        /\ Len(readFrom') = idx /\ Len(sysFrom') = idx /\ readFrom'[idx] = cur /\ sysFrom'[idx] = cur
        /\ \A i \in 1..Len(readFrom) : readFrom'[i] = readFrom[i] /\ sysFrom'[i] = sysFrom[i]
    <3>1. readFrom' = Append(readFrom, cur) /\ sysFrom' = Append(sysFrom, cur)
      BY <1>5, <2>0 DEF Read
    <3>2. /\ readFrom' \in Seq(Ns) /\ Len(readFrom') = idx /\ readFrom'[idx] = cur
          /\ \A i \in 1..Len(readFrom) : readFrom'[i] = readFrom[i]
      BY <2>0, <3>1
    <3>3. /\ sysFrom' \in Seq(Ns \union {NULL}) /\ Len(sysFrom') = idx /\ sysFrom'[idx] = cur
          /\ \A i \in 1..Len(sysFrom) : sysFrom'[i] = sysFrom[i]
      BY <2>0, <3>1
    <3>. QED
      BY <2>0, <3>2, <3>3
  <2>2. TypeOK'
    BY <1>0, <1>5, <2>1 DEF Read, TypeOK
  <2>3. ReadInOwnNs'
    BY <1>5, <2>0, <2>1 DEF Read, IInv, ReadInOwnNs
  <2>4. UniqueIds' /\ OneRoot' /\ ProcNew' /\ Setup' /\ AtEntry'
    BY <1>5 DEF Read, IInv, UniqueIds, OneRoot, ProcNew, Setup, Reading, TypeOK, AtEntry
  <2>5. Progress'
    BY <1>5, <2>0, <2>1 DEF Read, IInv, Progress, Early, Reading
  <2>. QED
    BY <2>2, <2>3, <2>4, <2>5 DEF IInv
<1>6. CASE ReadDone \/ Resolve
  <2>1. TypeOK'
    BY <1>0, <1>6 DEF ReadDone, Resolve, TypeOK
  <2>2. UniqueIds' /\ OneRoot' /\ ProcNew' /\ ReadInOwnNs'
    BY <1>6 DEF ReadDone, Resolve, IInv, UniqueIds, OneRoot, ProcNew, ReadInOwnNs
  <2>3. Progress' /\ AtEntry' /\ Setup'
    BY <1>6 DEF ReadDone, Resolve, IInv, Progress, Early, Reading, AtEntry, Setup, TypeOK
  <2>. QED
    BY <2>1, <2>2, <2>3 DEF IInv
<1>7. ASSUME NEW b \in BOOLEAN, GetIds(b) PROVE IInv'
  <2>1. cur' \in Ns
    <3>1. CASE ~b
      BY <1>0, <1>7, <3>1 DEF GetIds, TypeOK
    <3>2. CASE b
      <4>1. idx \in 1..Len(list)
        BY <1>0, <1>7 DEF GetIds, TypeOK, IInv, Setup
      <4>2. list[idx] \in Entry
        BY <1>0, <4>1 DEF TypeOK
      <4>. QED
        BY <1>7, <3>2, <4>2 DEF GetIds, Entry
    <3>. QED
      BY <3>1, <3>2
  <2>2. TypeOK'
    BY <1>0, <1>7, <2>1 DEF GetIds, TypeOK
  <2>3. UniqueIds' /\ OneRoot' /\ ProcNew' /\ ReadInOwnNs'
    BY <1>7 DEF GetIds, IInv, UniqueIds, OneRoot, ProcNew, ReadInOwnNs
  <2>4. Progress' /\ AtEntry' /\ Setup'
    BY <1>7 DEF GetIds, IInv, Progress, Early, Reading, AtEntry, Setup, TypeOK
  <2>. QED
    BY <2>2, <2>3, <2>4 DEF IInv
<1>8. CASE Exit
  <2>1. mounted' = NULL /\ pc' = "gone"
    BY <1>8 DEF Exit
  <2>2. TypeOK'
    BY <1>0, <1>8, <2>1 DEF Exit, TypeOK
  <2>3. UniqueIds' /\ OneRoot' /\ ProcNew' /\ ReadInOwnNs'
    BY <1>8 DEF Exit, IInv, UniqueIds, OneRoot, ProcNew, IsDuplicate, ReadInOwnNs
  <2>4. Progress' /\ AtEntry' /\ Setup'
    BY <1>8, <2>1 DEF Exit, IInv, Progress, Early, Reading, AtEntry, Setup, TypeOK
  <2>. QED
    BY <2>2, <2>3, <2>4 DEF IInv
<1>. QED
  BY <1>1, <1>2, <1>3, <1>4, <1>5, <1>6, <1>7, <1>8 DEF ReadAll

\* Other processes only change what the next reading of a link finds.
LEMMA OthersIInv ==
    ASSUME IInv, NEW p \in Pids, NEW n \in Ns, ProcessMoves(p, n) \/ ProcessExits(p)
    PROVE  IInv'
<1>1. TypeOK'
  <2>1. procNs' \in [Pids -> Ns \union {NULL}] /\ moves' \in Nat /\ exits' \in Nat
    BY DEF ProcessMoves, ProcessExits, IInv, TypeOK
  <2>. QED
    BY <2>1 DEF ProcessMoves, ProcessExits, program, IInv, TypeOK
<1>. QED
  BY <1>1, QuietIInv DEF ProcessMoves, ProcessExits, program

\* Every step keeps the invariant.
LEMMA NextIInv == IInv /\ [Next]_vars => IInv'
<1>. SUFFICES ASSUME IInv, [Next]_vars PROVE IInv'
  OBVIOUS
<1>1. ASSUME NEW at \in {"start", "new", "var", "proc", "init", "switch", "read", "resolved"},
             Fatal(at)
      PROVE  IInv'
  <2>1. TypeOK'
    BY <1>1 DEF Fatal, outside, passed, IInv, TypeOK
  <2>. QED
    BY <1>1, <2>1, QuietIInv DEF Fatal
<1>2. ASSUME NEW p \in Pids, ProcessExits(p) PROVE IInv'
  BY <1>2, OthersIInv
<1>3. CASE UNCHANGED vars
  <2>1. TypeOK'
    BY <1>3 DEF vars, IInv, TypeOK
  <2>. QED
    BY <1>3, <2>1, QuietIInv DEF vars
<1>. QED
  BY <1>1, <1>2, <1>3, EnumerateIInv, ReadAllIInv, OthersIInv DEF Next

\* The invariant holds in every reachable state.
LEMMA Invariance == Spec => []IInv
  BY InitIInv, NextIInv, PTL DEF Spec

\* The list, the process's namespace and the mount keep their types.
THEOREM NetnsType == Spec => []TypeOK
<1>1. IInv => TypeOK
  BY DEF IInv
<1>. QED
  BY <1>1, Invariance, PTL

\* No kernel id is listed twice, for any names and processes, although the
\* link of a process is read and opened in two steps (netns.c:121, 177-192).
THEOREM NetnsUnique == Spec => []UniqueIds
<1>1. IInv => UniqueIds
  BY DEF IInv
<1>. QED
  BY <1>1, Invariance, PTL

\* Every entry but the root is read in the namespace of its fd, with a sysfs of
\* the same namespace (netns.c:362-377).
THEOREM NetnsOwn == Spec => []ReadInOwnNs
<1>1. IInv => ReadInOwnNs
  BY DEF IInv
<1>. QED
  BY <1>1, Invariance, PTL

-----------------------------------------------------------------------------
(* What the walks have found *)

\* The names and processes dealt with and not passed over
SeenName(n) ==
    /\ n \notin failed \union warned
    /\ \/ pc \in {"proc", "init", "switch", "mount", "read", "ids", "resolved"}
       \/ pc = "var" /\ n \notin todo
SeenProc(p) ==
    /\ p \notin failed
    /\ \/ pc \in {"init", "switch", "mount", "read", "ids", "resolved"}
       \/ pc = "proc" /\ p \notin todo /\ (proc = NULL \/ proc.pid # p)

\* The list starts with the root, is only searched for with support, and is
\* read to its end.
Ends ==
    /\ list # <<>> => list[1].id = Root
    /\ pc \in {"var", "proc"} => supported
    /\ pc \in {"ids", "resolved"} => Len(readFrom) = Len(list)

NamesListed == \A n \in Names : (supported /\ SeenName(n) /\ target[n] \in Ns) => IsDuplicate(target[n])

\* As long as no process moves, a link read is the link opened later, unless
\* the process is gone.
ProcTrue == proc # NULL => procNs[proc.pid] \in {proc.id, NULL}
FdTrue == \A i \in 1..Len(list) : list[i].fd = list[i].id
ProcsListed ==
    \A p \in Pids : (supported /\ SeenProc(p) /\ procNs[p] # NULL) => IsDuplicate(procNs[p])
PidLow ==
    \A i \in 1..Len(list), p \in Pids :
        (list[i].kind = "proc" /\ SeenProc(p) /\ procNs[p] = list[i].id) => list[i].pid <= p

Still == ProcTrue /\ FdTrue /\ ProcsListed /\ PidLow

Found == Ends /\ NamesListed /\ (moves = 0 => Still)

\* A step that leaves the list alone, and sees a name or a process only if it
\* is of no use or listed
LEMMA FoundKept ==
    ASSUME IInv, Found, UNCHANGED <<list, target, supported>>,
           pc' \in {"var", "proc"} => pc \in {"var", "proc"},
           pc' \in {"ids", "resolved"} => Len(readFrom') = Len(list),
           moves' = 0 => moves = 0,
           \A n \in Names : SeenName(n)' => SeenName(n) \/ target[n] \notin Ns \/ IsDuplicate(target[n]),
           moves = 0 => \A p \in Pids : procNs'[p] \in {procNs[p], NULL},
           moves = 0 => \A p \in Pids :
               (SeenProc(p)' /\ procNs'[p] # NULL) => SeenProc(p),
           moves = 0 => ProcTrue'
    PROVE  Found'
<1>1. \A id : IsDuplicate(id)' <=> IsDuplicate(id)
  BY DEF IsDuplicate
<1>2. Ends'
  BY DEF Found, Ends
<1>3. NamesListed'
  BY <1>1 DEF Found, NamesListed
<1>4. ASSUME moves = 0 PROVE Still'
  <2>1. FdTrue'
    BY <1>4 DEF Found, Still, FdTrue
  <2>2. ProcsListed'
    BY <1>1, <1>4 DEF Found, Still, ProcsListed
  <2>3. PidLow'
    <3>1. \A i \in 1..Len(list) : list[i].id # NULL
      <4>1. \A i \in 1..Len(list) : list[i] \in Entry
        BY DEF IInv, TypeOK
      <4>. QED
        BY <4>1 DEF Entry
    <3>. QED
      BY <1>4, <3>1 DEF Found, Still, PidLow
  <2>. QED
    BY <1>4, <2>1, <2>2, <2>3 DEF Still
<1>. QED
  BY <1>2, <1>3, <1>4 DEF Found

\* An entry that is appended for something just seen
LEMMA FoundAppended ==
    ASSUME IInv, Found, NEW e \in Entry, list' = Append(list, e), list # <<>>
    PROVE  /\ \A id : IsDuplicate(id)' <=> IsDuplicate(id) \/ id = e.id
           /\ list' # <<>> /\ list'[1] = list[1] /\ Len(list') = Len(list) + 1
           /\ \A i \in 1..Len(list) : list'[i] = list[i]
           /\ list'[Len(list) + 1] = e
<1>1. list \in Seq(Entry) /\ Len(list) \in Nat \ {0}
  BY DEF IInv, TypeOK
<1>2. /\ list'[1] = list[1] /\ Len(list') = Len(list) + 1 /\ list' # <<>>
      /\ \A i \in 1..Len(list) : list'[i] = list[i]
      /\ list'[Len(list) + 1] = e
  BY <1>1
<1>. QED
  BY <1>1, <1>2 DEF IsDuplicate

\* Walking the names keeps what is known of the names.
LEMMA FoundNames ==
    ASSUME IInv, Found, NEW n \in Names, VarUnusable(n) \/ VarDuplicate(n) \/ VarNew(n)
    PROVE  Found'
<1>. USE DEF outside, passed
<1>1. /\ pc = "var" /\ pc' = "var" /\ todo' = todo \ {n} /\ proc = NULL /\ proc' = NULL
      /\ UNCHANGED failed /\ warned \subseteq warned'
  BY DEF VarUnusable, VarDuplicate, VarNew, SkipName, IInv, ProcNew
<1>2. \A m \in Names : SeenName(m)' => SeenName(m) \/ m = n
  BY <1>1 DEF SeenName
<1>3. \A p \in Pids : ~ SeenProc(p) /\ ~ SeenProc(p)'
  BY <1>1 DEF SeenProc
<1>4. CASE VarUnusable(n) \/ VarDuplicate(n)
  <2>1. UNCHANGED <<list, target, supported, procNs, moves>>
    BY <1>4 DEF VarUnusable, VarDuplicate
  <2>2. SeenName(n)' => IsDuplicate(target[n])
    BY <1>4 DEF VarUnusable, VarDuplicate, SeenName
  <2>3. ProcTrue'
    BY <1>1 DEF ProcTrue
  <2>. QED
    BY <1>1, <1>2, <1>3, <2>1, <2>2, <2>3, FoundKept
<1>5. CASE VarNew(n)
  <2>. DEFINE e == [id |-> target[n], fd |-> target[n], kind |-> "var", pid |-> 0]
  <2>1. e \in Entry /\ e.id = target[n] /\ e.fd = target[n] /\ e.kind = "var"
    BY <1>5 DEF VarNew, Entry
  <2>2. list' = Append(list, e) /\ list # <<>> /\ UNCHANGED <<target, supported, procNs, moves, readFrom>>
    BY <1>5 DEF VarNew, IInv, Progress
  <2>. HIDE DEF e
  <2>3. /\ \A id : IsDuplicate(id)' <=> IsDuplicate(id) \/ id = e.id
        /\ list' # <<>> /\ list'[1] = list[1] /\ Len(list') = Len(list) + 1
        /\ \A i \in 1..Len(list) : list'[i] = list[i]
        /\ list'[Len(list) + 1] = e
    BY <2>1, <2>2, FoundAppended
  <2>4. Ends'
    BY <1>1, <2>2, <2>3 DEF Found, Ends
  <2>5. NamesListed'
    BY <1>2, <2>1, <2>2, <2>3 DEF Found, NamesListed
  <2>6. ASSUME moves = 0 PROVE Still'
    <3>1. ProcTrue' /\ ProcsListed' /\ PidLow'
      BY <1>1, <1>3 DEF ProcTrue, ProcsListed, PidLow
    <3>2. FdTrue'
      <4>1. Len(list) \in Nat
        BY DEF IInv, TypeOK
      <4>2. FdTrue
        BY <2>6 DEF Found, Still
      <4>. QED
        BY <4>1, <4>2, <2>1, <2>3 DEF FdTrue
    <3>. QED
      BY <3>1, <3>2 DEF Still
  <2>. QED
    BY <2>2, <2>4, <2>5, <2>6 DEF Found
<1>. QED
  BY <1>4, <1>5

\* Walking the processes keeps what is known of the processes: the one in hand
\* is listed when it is opened, and no process seen before was in its namespace.
LEMMA FoundProcs ==
    ASSUME IInv, Found,
           ProcOpen \/ ProcOpenFails
           \/ \E p \in Pids : ProcUnreadable(p) \/ ProcDuplicate(p) \/ ProcReadLink(p)
    PROVE  Found'
<1>. USE DEF outside, passed
<1>0. /\ pc = "proc" /\ pc' = "proc" /\ supported
      /\ UNCHANGED <<target, supported, procNs, moves, readFrom>> /\ failed \subseteq failed'
      /\ \A n \in Names : SeenName(n)' => SeenName(n)
      /\ list # <<>> /\ list \in Seq(Entry) /\ Len(list) \in Nat
  BY DEF ProcOpen, ProcOpenFails, ProcUnreadable, ProcDuplicate, ProcReadLink, SeenName, Found, Ends,
         IInv, Progress, TypeOK
<1>1. ASSUME NEW p \in Pids, ProcUnreadable(p) PROVE Found'
  <2>1. UNCHANGED <<list, proc>> /\ todo' = todo \ {p} /\ failed' = failed \union {p}
    BY <1>1 DEF ProcUnreadable
  <2>2. \A q \in Pids : SeenProc(q)' => SeenProc(q)
    BY <1>0, <2>1 DEF SeenProc
  <2>3. ProcTrue' <=> ProcTrue
    BY <1>0, <2>1 DEF ProcTrue
  <2>4. moves = 0 => ProcTrue
    BY DEF Found, Still
  <2>. QED
    BY <1>0, <2>1, <2>2, <2>3, <2>4, FoundKept
<1>2. CASE ProcOpenFails
  <2>1. UNCHANGED <<list, todo>> /\ proc' = NULL /\ failed' = failed \union {proc.pid} /\ proc # NULL
    BY <1>2 DEF ProcOpenFails
  <2>2. \A q \in Pids : SeenProc(q)' => SeenProc(q)
    BY <1>0, <2>1 DEF SeenProc
  <2>3. ProcTrue'
    BY <2>1 DEF ProcTrue
  <2>. QED
    BY <1>0, <2>1, <2>2, <2>3, FoundKept
<1>3. ASSUME NEW p \in Pids, ProcReadLink(p) PROVE Found'
  <2>1. UNCHANGED list /\ todo' = todo \ {p} /\ proc = NULL /\ proc' = [pid |-> p, id |-> procNs[p]]
    BY <1>3 DEF ProcReadLink
  <2>2. \A q \in Pids : SeenProc(q)' => SeenProc(q)
    <3>1. proc' # NULL /\ proc'.pid = p
      <4>1. procNs[p] \in Ns
        BY <1>3 DEF ProcReadLink, IInv, TypeOK
      <4>2. proc' \in [pid : Pids, id : Ns]
        BY <2>1, <4>1
      <4>. QED
        BY <2>1, <4>2
    <3>. QED
      BY <1>0, <2>1, <3>1 DEF SeenProc
  <2>3. ProcTrue'
    BY <1>0, <2>1 DEF ProcTrue
  <2>. QED
    BY <1>0, <2>1, <2>2, <2>3, FoundKept
<1>4. ASSUME NEW p \in Pids, ProcDuplicate(p) PROVE Found'
  <2>. DEFINE F(i) == IF list[i].id = procNs[p] /\ Renames(list[i], p)
                      THEN [list[i] EXCEPT !.pid = p] ELSE list[i]
  <2>1. /\ UNCHANGED proc /\ proc = NULL /\ todo' = todo \ {p}
        /\ procNs[p] # NULL /\ IsDuplicate(procNs[p])
        /\ list' = [i \in 1..Len(list) |-> F(i)]
    BY <1>4 DEF ProcDuplicate
  <2>2. \A i \in 1..Len(list) : list[i] \in Entry
    BY <1>0
  <2>3. \A i \in 1..Len(list) : /\ F(i).id = list[i].id /\ F(i).fd = list[i].fd /\ F(i).kind = list[i].kind
                                /\ F(i).pid <= list[i].pid
                                /\ list[i].id = procNs[p] => F(i).pid <= p
    BY <2>2 DEF Entry, Renames
  <2>. HIDE DEF F
  <2>4. /\ Len(list') = Len(list) /\ \A i \in 1..Len(list) : list'[i] = F(i)
        /\ list' # <<>>
    BY <1>0, <2>1
  <2>5. \A id : IsDuplicate(id)' <=> IsDuplicate(id)
    BY <2>3, <2>4 DEF IsDuplicate
  <2>6. \A q \in Pids : SeenProc(q)' => SeenProc(q) \/ q = p
    BY <1>0, <2>1 DEF SeenProc
  <2>7. Ends'
    BY <1>0, <2>3, <2>4 DEF Found, Ends
  <2>8. NamesListed'
    BY <1>0, <2>5 DEF Found, NamesListed
  <2>9. ASSUME moves = 0 PROVE Still'
    <3>0. Still
      BY <2>9 DEF Found
    <3>1. ProcTrue' /\ FdTrue'
      BY <1>0, <2>1, <2>3, <2>4, <3>0 DEF Still, ProcTrue, FdTrue
    <3>2. ProcsListed'
      BY <1>0, <2>1, <2>5, <2>6, <3>0 DEF Still, ProcsListed
    <3>3. ASSUME NEW i \in 1..Len(list), NEW q \in Pids, list[i].kind = "proc", SeenProc(q)',
                 procNs[q] = list[i].id
          PROVE  F(i).pid <= q
      <4>1. list[i].pid \in Nat /\ F(i).pid <= list[i].pid /\ F(i).pid \in Nat /\ q \in Nat
        <5>1. list[i].pid \in Nat /\ q \in Nat /\ p \in Nat
          <6>1. list[i] \in Entry
            BY <2>2
          <6>2. list[i].pid \in Pids \union {0}
            BY <6>1 DEF Entry
          <6>3. \A x \in Pids \union {0} : x \in Nat
            <7>1. 0 \in Nat
              OBVIOUS
            <7>2. Pids \subseteq Nat
              BY PidAssumption, Zenon
            <7>. QED
              BY <7>1, <7>2, Zenon
          <6>. QED
            BY <6>2, <6>3, Zenon
        <5>2. F(i).pid \in {p, list[i].pid}
          BY <2>2 DEF Entry, F
        <5>. QED
          BY <2>3, <5>1, <5>2
      <4>2. CASE q = p
        BY <2>3, <3>3, <4>2
      <4>3. CASE SeenProc(q)
        BY <3>0, <3>3, <4>1, <4>3 DEF Still, PidLow
      <4>. QED
        BY <2>6, <3>3, <4>2, <4>3
    <3>4. PidLow'
      BY <1>0, <2>3, <2>4, <3>3 DEF PidLow
    <3>. QED
      BY <3>1, <3>2, <3>4 DEF Still
  <2>. QED
    BY <1>0, <2>7, <2>8, <2>9 DEF Found
<1>5. CASE ProcOpen
  <2>. DEFINE e == [id |-> proc.id, fd |-> procNs[proc.pid], kind |-> "proc", pid |-> proc.pid]
  <2>1. /\ proc \in [pid : Pids, id : Ns] /\ procNs[proc.pid] \in Ns /\ proc.pid \in Pids
        /\ proc # NULL /\ UNCHANGED todo /\ proc' = NULL /\ ~ IsDuplicate(proc.id)
    BY <1>5 DEF ProcOpen, IInv, TypeOK, ProcNew
  <2>2. /\ e \in Entry /\ e.id = proc.id /\ e.fd = procNs[proc.pid] /\ e.pid = proc.pid
        /\ list' = Append(list, e)
    BY <1>5, <2>1 DEF ProcOpen, Entry
  <2>. HIDE DEF e
  <2>3. /\ \A id : IsDuplicate(id)' <=> IsDuplicate(id) \/ id = e.id
        /\ list' # <<>> /\ list'[1] = list[1] /\ Len(list') = Len(list) + 1
        /\ \A i \in 1..Len(list) : list'[i] = list[i]
        /\ list'[Len(list) + 1] = e
    BY <1>0, <2>2, FoundAppended
  <2>4. \A q \in Pids : SeenProc(q)' => SeenProc(q) \/ q = proc.pid
    BY <1>0, <2>1 DEF SeenProc
  <2>5. Ends'
    BY <1>0, <2>3 DEF Found, Ends
  <2>6. NamesListed'
    BY <1>0, <2>3 DEF Found, NamesListed
  <2>7. ASSUME moves = 0 PROVE Still'
    <3>0. Still
      BY <2>7 DEF Found
    <3>1. procNs[proc.pid] = proc.id
      BY <2>1, <3>0 DEF Still, ProcTrue
    <3>2. ProcTrue'
      BY <2>1 DEF ProcTrue
    <3>3. FdTrue'
      BY <1>0, <2>2, <2>3, <3>0, <3>1 DEF Still, FdTrue
    <3>4. ProcsListed'
      BY <1>0, <2>2, <2>3, <2>4, <3>0, <3>1 DEF Still, ProcsListed
    <3>5. ASSUME NEW i \in 1..Len(list), NEW q \in Pids, list[i].kind = "proc", SeenProc(q)',
                 procNs[q] = list[i].id
          PROVE  list[i].pid <= q
      <4>1. IsDuplicate(list[i].id)
        BY DEF IsDuplicate
      <4>2. q # proc.pid
        BY <2>1, <3>1, <3>5, <4>1
      <4>. QED
        BY <2>4, <3>0, <3>5, <4>2 DEF Still, PidLow
    <3>6. ASSUME NEW q \in Pids, SeenProc(q)', procNs[q] = proc.id PROVE proc.pid <= q
      <4>1. ~ SeenProc(q)
        BY <1>0, <2>1, <3>0, <3>6 DEF Still, ProcsListed
      <4>2. q = proc.pid
        BY <2>4, <3>6, <4>1
      <4>3. q \in Nat
        OBVIOUS
      <4>. QED
        BY <4>2, <4>3
    <3>7. PidLow'
      BY <1>0, <2>2, <2>3, <3>5, <3>6 DEF PidLow
    <3>. QED
      BY <3>2, <3>3, <3>4, <3>7 DEF Still
  <2>. QED
    BY <1>0, <2>5, <2>6, <2>7 DEF Found
<1>. QED
  BY <1>1, <1>2, <1>3, <1>4, <1>5

\* Setting up the list, and going from the names to the processes
LEMMA FoundLists ==
    ASSUME IInv, Found, SwitchRoot \/ NoSupport \/ NewList \/ VarDone \/ ProcDone
    PROVE  Found'
<1>. USE DEF outside, passed
<1>1. CASE SwitchRoot \/ NoSupport
  <2>1. pc' = "new" /\ list' = <<>> /\ proc' = NULL
    BY <1>1 DEF SwitchRoot, NoSupport, IInv, Progress, ProcNew
  <2>2. \A n : ~ SeenName(n)'
    BY <2>1 DEF SeenName
  <2>3. \A p : ~ SeenProc(p)'
    BY <2>1 DEF SeenProc
  <2>4. FdTrue' /\ PidLow' /\ ProcTrue' /\ ProcsListed' /\ NamesListed'
    BY <2>1, <2>2, <2>3 DEF FdTrue, PidLow, ProcTrue, ProcsListed, NamesListed
  <2>. QED
    BY <2>1, <2>4 DEF Found, Ends, Still
<1>2. CASE NewList
  <2>. DEFINE e == [id |-> Root, fd |-> Root, kind |-> "root", pid |-> 0]
  <2>1. e.id = Root /\ e.fd = Root /\ e.kind = "root" /\ list' = <<e>>
    BY <1>2 DEF NewList
  <2>. HIDE DEF e
  <2>2. Len(list') = 1 /\ list'[1] = e /\ \A i \in 1..Len(list') : list'[i] = e
    BY <2>1
  <2>3. /\ proc' = NULL /\ UNCHANGED supported
        /\ pc' = (IF supported THEN "var" ELSE "init") /\ todo' = (IF supported THEN Names ELSE {})
    BY <1>2 DEF NewList, IInv, ProcNew
  <2>4. \A n \in Names : ~ (supported' /\ SeenName(n)')
    BY <2>3 DEF SeenName
  <2>5. \A p \in Pids : ~ (supported' /\ SeenProc(p)')
    BY <2>3 DEF SeenProc
  <2>6. NamesListed' /\ ProcsListed' /\ ProcTrue'
    BY <2>3, <2>4, <2>5 DEF NamesListed, ProcsListed, ProcTrue
  <2>7. FdTrue' /\ PidLow'
    BY <2>1, <2>2 DEF FdTrue, PidLow
  <2>8. Ends'
    BY <2>1, <2>2, <2>3 DEF Ends
  <2>. QED
    BY <2>6, <2>7, <2>8 DEF Found, Still
<1>3. CASE VarDone
  <2>1. /\ pc = "var" /\ failed' = failed \union todo /\ pc' = "proc" /\ todo' = Pids /\ proc' = NULL
        /\ UNCHANGED <<list, target, supported, procNs, moves, warned>>
    BY <1>3 DEF VarDone, IInv, ProcNew
  <2>2. \A n \in Names : SeenName(n)' => SeenName(n)
    BY <2>1 DEF SeenName
  <2>3. \A p \in Pids : ~ SeenProc(p)'
    BY <2>1 DEF SeenProc
  <2>4. ProcTrue'
    BY <2>1 DEF ProcTrue
  <2>. QED
    BY <2>1, <2>2, <2>3, <2>4, FoundKept
<1>4. CASE ProcDone
  <2>1. /\ pc = "proc" /\ failed' = failed \union todo /\ pc' = "init" /\ proc = NULL /\ proc' = NULL
        /\ UNCHANGED <<list, target, supported, procNs, moves, warned>>
    BY <1>4 DEF ProcDone
  <2>2. \A n \in Names : SeenName(n)' => SeenName(n)
    BY <2>1 DEF SeenName
  <2>3. \A p \in Pids : SeenProc(p)' => SeenProc(p)
    BY <2>1 DEF SeenProc
  <2>4. ProcTrue'
    BY <2>1 DEF ProcTrue
  <2>. QED
    BY <2>1, <2>2, <2>3, <2>4, FoundKept
<1>. QED
  BY <1>1, <1>2, <1>3, <1>4

\* Reading the entries, a way out and other processes leave the list alone.
LEMMA FoundRead ==
    ASSUME IInv, Found,
           \/ ReadAll
           \/ \E at \in {"start", "new", "var", "proc", "init", "switch", "read", "resolved"} : Fatal(at)
           \/ \E p \in Pids, n \in Ns : ProcessMoves(p, n)
           \/ \E p \in Pids : ProcessExits(p)
    PROVE  Found'
<1>. USE DEF outside, passed, program
<1>1. CASE ReadAll
  <2>1. /\ pc \in {"init", "switch", "mount", "read", "ids", "resolved", "exit"}
        /\ pc' \in {"switch", "mount", "read", "ids", "resolved", "exit", "gone"}
        /\ pc = "exit" => pc' = "gone"
        /\ UNCHANGED <<list, target, supported, procNs, moves, proc, failed, warned>>
    BY <1>1 DEF ReadAll, SysfsInit, Switch, Mount, MountFails, Read, ReadDone, GetIds, Resolve, Exit
  <2>2. pc' \in {"ids", "resolved"} => Len(readFrom') = Len(list)
    <3>1. CASE ReadDone
      <4>1. idx = Len(readFrom) + 1 /\ Len(readFrom) \in Nat /\ Len(list) \in Nat
        BY <3>1 DEF ReadDone, IInv, Progress, Reading, TypeOK
      <4>. QED
        BY <3>1, <4>1 DEF ReadDone
    <3>2. CASE ~ ReadDone /\ pc' \in {"ids", "resolved"}
      <4>1. pc = "ids" /\ readFrom' = readFrom
        BY <1>1, <3>2 DEF ReadAll, SysfsInit, Switch, Mount, MountFails, Read, GetIds, Resolve, Exit
      <4>. QED
        BY <4>1 DEF Found, Ends
    <3>. QED
      BY <3>1, <3>2
  <2>3. \A n \in Names : SeenName(n)' => SeenName(n)
    BY <2>1 DEF SeenName
  <2>4. \A p \in Pids : SeenProc(p)' => SeenProc(p)
    BY <2>1 DEF SeenProc
  <2>5. moves = 0 => ProcTrue'
    BY <2>1 DEF Found, Still, ProcTrue
  <2>. QED
    BY <2>1, <2>2, <2>3, <2>4, <2>5, FoundKept
<1>2. ASSUME NEW at \in {"start", "new", "var", "proc", "init", "switch", "read", "resolved"}, Fatal(at)
      PROVE  Found'
  <2>1. pc' = "exit" /\ UNCHANGED <<list, target, supported, procNs, moves, proc>>
    BY <1>2 DEF Fatal
  <2>2. (\A n \in Names : ~ SeenName(n)') /\ (\A p \in Pids : ~ SeenProc(p)')
    BY <2>1 DEF SeenName, SeenProc
  <2>3. moves = 0 => ProcTrue'
    BY <2>1 DEF Found, Still, ProcTrue
  <2>. QED
    BY <2>1, <2>2, <2>3, FoundKept
<1>3. ASSUME NEW p \in Pids, NEW n \in Ns, ProcessMoves(p, n) PROVE Found'
  <2>1. UNCHANGED <<pc, list, todo, target, supported, readFrom, proc, passed>> /\ moves' # 0
    BY <1>3 DEF ProcessMoves, IInv, TypeOK
  <2>2. Ends' /\ NamesListed'
    BY <2>1 DEF Found, Ends, NamesListed, SeenName, IsDuplicate
  <2>. QED
    BY <2>1, <2>2 DEF Found
<1>4. ASSUME NEW p \in Pids, ProcessExits(p) PROVE Found'
  <2>1. /\ UNCHANGED <<pc, list, todo, target, supported, readFrom, proc, moves, passed>>
        /\ \A q \in Pids : procNs'[q] \in {procNs[q], NULL}
    BY <1>4 DEF ProcessExits, IInv, TypeOK
  <2>2. \A m \in Names : SeenName(m)' <=> SeenName(m)
    BY <2>1 DEF SeenName
  <2>3. \A q \in Pids : SeenProc(q)' <=> SeenProc(q)
    BY <2>1 DEF SeenProc
  <2>4. proc # NULL => proc.pid \in Pids
    BY DEF IInv, TypeOK
  <2>5. moves = 0 => ProcTrue'
    BY <2>1, <2>4 DEF Found, Still, ProcTrue
  <2>. QED
    BY <2>1, <2>2, <2>3, <2>5, FoundKept DEF Found, Ends
<1>. QED
  BY <1>1, <1>2, <1>3, <1>4

\* Both parts of the invariant hold throughout.
LEMMA FoundInvariance == Spec => [](IInv /\ Found)
<1>1. Init => Found
  <2>. SUFFICES ASSUME Init PROVE Found
    OBVIOUS
  <2>1. list = <<>> /\ pc = "start" /\ proc = NULL /\ Len(list) = 0
    BY DEF Init
  <2>2. Ends /\ ProcTrue /\ FdTrue /\ PidLow
    BY <2>1 DEF Ends, ProcTrue, FdTrue, PidLow
  <2>3. NamesListed /\ ProcsListed
    BY <2>1 DEF NamesListed, SeenName, ProcsListed, SeenProc
  <2>. QED
    BY <2>2, <2>3 DEF Found, Still
<1>2. ASSUME IInv, Found, [Next]_vars PROVE Found'
  <2>1. CASE Enumerate
    BY <1>2, <2>1, FoundLists, FoundNames, FoundProcs DEF Enumerate
  <2>2. CASE UNCHANGED vars
    BY <1>2, <2>2 DEF vars, Found, Ends, NamesListed, SeenName, SeenProc, IsDuplicate, Still, ProcTrue,
                      FdTrue, ProcsListed, PidLow
  <2>. QED
    BY <1>2, <2>1, <2>2, FoundRead DEF Next
<1>. QED
  BY <1>1, <1>2, InitIInv, NextIInv, PTL DEF Spec

\* As long as no process changes its namespace, every namespace has been read
\* at the end that has a name without a warning or a process that could be
\* looked at, whichever calls failed and whichever processes vanished between
\* the reading and the opening of their links (netns.c:106-117, 161-200,
\* 223-281).
THEOREM NetnsComplete == Spec => []NothingMissed
<1>1. ASSUME IInv, Found PROVE NothingMissed
  <2>. SUFFICES ASSUME pc = "resolved", supported, moves = 0 PROVE NothingMissed
    BY DEF NothingMissed
  <2>1. ASSUME NEW m, m # Root, IsDuplicate(m) PROVE WasRead(m)
    <3>1. PICK i \in 1..Len(list) : list[i].id = m
      BY <2>1 DEF IsDuplicate
    <3>2. list[i].fd = m
      BY <1>1, <3>1 DEF Found, Still, FdTrue
    <3>3. i # 1 /\ Len(readFrom) = Len(list) /\ Len(list) \in Nat
      BY <1>1, <2>1, <3>1 DEF Found, Ends, IInv, TypeOK
    <3>. QED
      BY <1>1, <3>1, <3>2, <3>3 DEF IInv, ReadInOwnNs, WasRead
  <2>2. ASSUME NEW n \in Names \ (failed \union warned), target[n] \in Ns \ {Root}
        PROVE  WasRead(target[n])
    BY <1>1, <2>1, <2>2 DEF Found, NamesListed, SeenName
  <2>3. ASSUME NEW p \in Pids \ failed, procNs[p] \notin {Root, NULL} PROVE WasRead(procNs[p])
    BY <1>1, <2>1, <2>3 DEF Found, Still, ProcsListed, SeenProc
  <2>. QED
    BY <2>2, <2>3 DEF NothingMissed
<1>. QED
  BY <1>1, FoundInvariance, PTL

\* A namespace that is known by its processes is named after a PID not above
\* that of any process in it that could be looked at, in whatever order /proc
\* lists them (netns.c:178-184).
THEOREM NetnsLowestPid == Spec => []LowestPid
<1>1. Found => LowestPid
  BY DEF Found, Still, PidLow, SeenProc, LowestPid
<1>. QED
  BY <1>1, FoundInvariance, PTL
=============================================================================
