----------------------------- MODULE NetnsScan -----------------------------
(***************************************************************************)
(* Finding the network namespaces and reading each of them (netns.c,       *)
(* sysfs.c and the part of main.c around them).                            *)
(*                                                                         *)
(* The program has one thread, but the namespace it is in (cur) and the    *)
(* sysfs mount are process-wide state that every later read depends on,    *)
(* and other processes exit or change their namespace while /proc is       *)
(* walked: reading a process's link and opening it are two steps.          *)
(*                                                                         *)
(* Outside the program: what the names in /var/run/netns refer to (target; *)
(* "gone" cannot be opened, "other" is no namespace), the namespace of     *)
(* every process (procNs, NULL once it has exited).  PID 1 is in Root.     *)
(*                                                                         *)
(* Any call may fail, for reasons of its own (no permission, no more file  *)
(* descriptors).  A failing open or setns of a name gives a warning        *)
(* (warned); a process or a directory that cannot be read is passed over   *)
(* in silence, which failed remembers.                                     *)
(***************************************************************************)
EXTENDS Integers, Sequences, FiniteSets

CONSTANTS
    Ns, Root,       \* namespaces, and that of PID 1
    Names,          \* entries of /var/run/netns
    Pids,           \* processes other than PID 1
    MaxMoves,       \* bound: processes changing their namespace meanwhile
    MaxExits,       \* bound: processes exiting meanwhile
    NULL

ASSUME NsAssumption == Root \in Ns /\ NULL \notin Ns /\ "gone" \notin Ns /\ "other" \notin Ns
ASSUME PidAssumption ==
    Pids \subseteq Nat \ {0} /\ NULL \notin Pids \union [pid : Pids, id : Ns]
ASSUME BoundAssumption == MaxMoves \in Nat /\ MaxExits \in Nat

Entry == [id : Ns, fd : Ns, kind : {"root", "var", "proc"}, pid : Pids \union {0}]

VARIABLES
    pc,
    supported,      \* netns support, as netns_switch_root found out
    cur,            \* the namespace the process is in
    list,           \* the netns_list
    todo,           \* names, then processes, readdir has not returned yet
    warned,         \* the names there is a warning about
    failed,         \* ghost: names and processes passed over in silence
    proc,           \* the process in hand and its kernel_id, or NULL
    idx,            \* the entry being read
    mounted,        \* the namespace whose sysfs is mounted, or NULL
    readFrom,       \* ghost: the namespace each entry was read in
    sysFrom,        \* ghost: the namespace whose sysfs was read with it
    \* outside the program
    target, procNs, moves, exits

passed == <<warned, failed>>
program == <<pc, supported, cur, list, todo, warned, failed, proc, idx, mounted, readFrom,
             sysFrom>>
outside == <<target, procNs, moves, exits>>
vars == <<pc, supported, cur, list, todo, warned, failed, proc, idx, mounted, readFrom,
          sysFrom, target, procNs, moves, exits>>

Init ==
    /\ pc = "start"
    /\ supported = FALSE
    /\ cur \in Ns               \* plotnetcfg may be started anywhere
    /\ list = <<>>
    /\ todo = {}
    /\ warned = {}
    /\ failed = {}
    /\ proc = NULL
    /\ idx = 0
    /\ mounted = NULL
    /\ readFrom = <<>>
    /\ sysFrom = <<>>
    /\ target \in [Names -> Ns \union {"gone", "other"}]
    /\ procNs \in [Pids -> Ns \union {NULL}]
    /\ moves = 0
    /\ exits = 0

-----------------------------------------------------------------------------
(* main: switch to the root namespace and find out about namespaces *)

SwitchRoot ==
    /\ pc = "start"
    /\ pc' = "new"
    /\ supported' = TRUE
    /\ cur' = Root
    /\ UNCHANGED <<list, todo, proc, idx, mounted, readFrom, sysFrom, passed, outside>>

\* ENOENT: no namespace support, there is the one namespace only
NoSupport ==
    /\ pc = "start"
    /\ cur = Root
    /\ pc' = "new"
    /\ UNCHANGED <<supported, cur, list, todo, proc, idx, mounted, readFrom, sysFrom,
                   passed, outside>>

\* Any error that is passed up to main, which exits.
Fatal(at) ==
    /\ pc = at
    /\ pc' = "exit"
    /\ UNCHANGED <<supported, cur, list, todo, proc, idx, mounted, readFrom, sysFrom,
                   passed, outside>>

\* netns_new_list
NewList ==
    /\ pc = "new"
    /\ list' = <<[id |-> Root, fd |-> Root, kind |-> "root", pid |-> 0]>>
    /\ pc' = IF supported THEN "var" ELSE "init"
    /\ todo' = IF supported THEN Names ELSE {}
    /\ UNCHANGED <<supported, cur, proc, idx, mounted, readFrom, sysFrom, passed, outside>>

\* Mutant: only namespaces found by name count as duplicates.
IsDuplicateMutant(id) == \E i \in 1..Len(list) : list[i].id = id /\ list[i].kind # "proc"

\* netns_check_duplicate
IsDuplicate(id) == \E i \in 1..Len(list) : list[i].id = id

-----------------------------------------------------------------------------
(* netns_add_var_list and netns_get_var_entry *)

\* Mutant: a name that cannot be used ends the walk of the directory.
SkipNameMutant(n) == {}
SkipName(n) == todo \ {n}

\* The open or the setns fails, as it must for what is gone or no namespace.
VarUnusable(n) ==
    /\ pc = "var"
    /\ n \in todo
    /\ todo' = SkipName(n)
    /\ warned' = warned \union {n}
    /\ UNCHANGED <<pc, supported, cur, list, failed, proc, idx, mounted, readFrom, sysFrom,
                   outside>>

\* The process has switched to the namespace to learn its id, and stays there.
VarDuplicate(n) ==
    /\ pc = "var"
    /\ n \in todo
    /\ target[n] \in Ns
    /\ IsDuplicate(target[n])
    /\ cur' = target[n]
    /\ todo' = todo \ {n}
    /\ UNCHANGED <<pc, supported, list, proc, idx, mounted, readFrom, sysFrom,
                   passed, outside>>

VarNew(n) ==
    /\ pc = "var"
    /\ n \in todo
    /\ target[n] \in Ns
    /\ ~IsDuplicate(target[n])
    /\ cur' = Root
    /\ list' = Append(list, [id |-> target[n], fd |-> target[n], kind |-> "var", pid |-> 0])
    /\ todo' = todo \ {n}
    /\ UNCHANGED <<pc, supported, proc, idx, mounted, readFrom, sysFrom, passed, outside>>

\* readdir is at the end, or the directory cannot be read: the two look alike.
VarDone ==
    /\ pc = "var"
    /\ failed' = failed \union todo
    /\ pc' = "proc"
    /\ todo' = Pids
    /\ UNCHANGED <<supported, cur, list, warned, proc, idx, mounted, readFrom, sysFrom,
                   outside>>

-----------------------------------------------------------------------------
(* netns_add_proc_list and netns_get_proc_entry *)

\* Mutant: the highest PID names the namespace.
RenamesMutant(e, p) == e.pid # 0 /\ e.pid < p
Renames(e, p) == e.pid # 0 /\ e.pid > p

\* readlink fails: the process is gone, or may not be looked at.
ProcUnreadable(p) ==
    /\ pc = "proc"
    /\ proc = NULL
    /\ p \in todo
    /\ todo' = todo \ {p}
    /\ failed' = failed \union {p}
    /\ UNCHANGED <<pc, supported, cur, list, warned, proc, idx, mounted, readFrom, sysFrom,
                   outside>>

ProcDuplicate(p) ==
    /\ pc = "proc"
    /\ proc = NULL
    /\ p \in todo
    /\ procNs[p] # NULL
    /\ IsDuplicate(procNs[p])
    /\ list' = [i \in 1..Len(list) |->
                  IF list[i].id = procNs[p] /\ Renames(list[i], p)
                  THEN [list[i] EXCEPT !.pid = p] ELSE list[i]]
    /\ todo' = todo \ {p}
    /\ UNCHANGED <<pc, supported, cur, proc, idx, mounted, readFrom, sysFrom, passed, outside>>

\* The link is read ...
ProcReadLink(p) ==
    /\ pc = "proc"
    /\ proc = NULL
    /\ p \in todo
    /\ procNs[p] # NULL
    /\ ~IsDuplicate(procNs[p])
    /\ proc' = [pid |-> p, id |-> procNs[p]]
    /\ todo' = todo \ {p}
    /\ UNCHANGED <<pc, supported, cur, list, idx, mounted, readFrom, sysFrom, passed, outside>>

\* Mutant: a failing open goes unnoticed.
ProcOpenMutant ==
    /\ pc = "proc"
    /\ proc # NULL
    /\ list' = Append(list, [id |-> proc.id, fd |-> procNs[proc.pid],
                             kind |-> "proc", pid |-> proc.pid])
    /\ proc' = NULL
    /\ UNCHANGED <<pc, supported, cur, todo, idx, mounted, readFrom, sysFrom, passed, outside>>

\* ... and opened later, when the process may be elsewhere or gone.
ProcOpen ==
    /\ pc = "proc"
    /\ proc # NULL
    /\ procNs[proc.pid] # NULL
    /\ list' = Append(list, [id |-> proc.id, fd |-> procNs[proc.pid],
                             kind |-> "proc", pid |-> proc.pid])
    /\ proc' = NULL
    /\ UNCHANGED <<pc, supported, cur, todo, idx, mounted, readFrom, sysFrom, passed, outside>>

ProcOpenFails ==
    /\ pc = "proc"
    /\ proc # NULL
    /\ failed' = failed \union {proc.pid}
    /\ proc' = NULL
    /\ UNCHANGED <<pc, supported, cur, list, todo, warned, idx, mounted, readFrom, sysFrom,
                   outside>>

\* At the end of /proc, or when it cannot be read.
ProcDone ==
    /\ pc = "proc"
    /\ proc = NULL
    /\ failed' = failed \union todo
    /\ todo' = {}
    /\ pc' = "init"
    /\ UNCHANGED <<supported, cur, list, warned, proc, idx, mounted, readFrom, sysFrom,
                   outside>>

-----------------------------------------------------------------------------
(* netns_fill_list: read every namespace *)

\* sysfs_init; sysfs_clean is registered to run at exit
SysfsInit ==
    /\ pc = "init"
    /\ pc' = "switch"
    /\ idx' = 1
    /\ UNCHANGED <<supported, cur, list, todo, proc, mounted, readFrom, sysFrom, passed, outside>>

\* Mutant: only namespaces with a name of their own are switched to.
SwitchesMutant(e) == e.kind = "var"
\* the root entry is the one without a name
Switches(e) == e.kind # "root"

Switch ==
    /\ pc = "switch"
    /\ idx <= Len(list)
    /\ cur' = IF Switches(list[idx]) THEN list[idx].fd ELSE cur
    /\ pc' = "mount"
    /\ UNCHANGED <<supported, list, todo, proc, idx, mounted, readFrom, sysFrom,
                   passed, outside>>

\* sysfs_mount: a sysfs shows the namespace of the process that mounts it
Mount ==
    /\ pc = "mount"
    /\ mounted' = cur
    /\ pc' = "read"
    /\ UNCHANGED <<supported, cur, list, todo, proc, idx, readFrom, sysFrom, passed, outside>>

\* sysfs_mount unmounts first, so a failure leaves nothing mounted
MountFails ==
    /\ pc = "mount"
    /\ mounted' = NULL
    /\ pc' = "exit"
    /\ UNCHANGED <<supported, cur, list, todo, proc, idx, readFrom, sysFrom, passed, outside>>

\* if_list, netns_handler_scan and sysfs_umount
Read ==
    /\ pc = "read"
    /\ readFrom' = Append(readFrom, cur)
    /\ sysFrom' = Append(sysFrom, mounted)
    /\ mounted' = NULL
    /\ idx' = idx + 1
    /\ pc' = "switch"
    /\ UNCHANGED <<supported, cur, list, todo, proc, passed, outside>>

ReadDone ==
    /\ pc = "switch"
    /\ idx = Len(list) + 1
    /\ pc' = "ids"
    /\ idx' = 1
    /\ UNCHANGED <<supported, cur, list, todo, proc, mounted, readFrom, sysFrom,
                   passed, outside>>

\* netns_get_all_ids for one entry: best effort, it may not even switch (the
\* fd of the root entry is no namespace without support)
GetIds(switched) ==
    /\ pc = "ids"
    /\ idx <= Len(list)
    /\ switched => supported
    /\ cur' = IF switched THEN list[idx].fd ELSE cur
    /\ idx' = idx + 1
    /\ UNCHANGED <<pc, supported, list, todo, proc, mounted, readFrom, sysFrom,
                   passed, outside>>

Resolve ==
    /\ pc = "ids"
    /\ idx = Len(list) + 1
    /\ pc' = "resolved"
    /\ UNCHANGED <<supported, cur, list, todo, proc, idx, mounted, readFrom, sysFrom,
                   passed, outside>>

\* exit, with the handler sysfs_init registered: umount and rmdir
Exit ==
    /\ pc \in {"resolved", "exit"}
    /\ pc' = "gone"
    /\ mounted' = NULL
    /\ UNCHANGED <<supported, cur, list, todo, proc, idx, readFrom, sysFrom, passed, outside>>

-----------------------------------------------------------------------------
(* The other processes (external) *)

ProcessMoves(p, n) ==
    /\ moves < MaxMoves
    /\ procNs[p] \notin {n, NULL}
    /\ procNs' = [procNs EXCEPT ![p] = n]
    /\ moves' = moves + 1
    /\ UNCHANGED <<program, target, exits>>

ProcessExits(p) ==
    /\ exits < MaxExits
    /\ procNs[p] # NULL
    /\ procNs' = [procNs EXCEPT ![p] = NULL]
    /\ exits' = exits + 1
    /\ UNCHANGED <<program, target, moves>>

-----------------------------------------------------------------------------
Enumerate ==
    \/ SwitchRoot \/ NoSupport \/ NewList \/ VarDone \/ ProcDone \/ ProcOpen \/ ProcOpenFails
    \/ \E n \in Names : VarUnusable(n) \/ VarDuplicate(n) \/ VarNew(n)
    \/ \E p \in Pids : ProcUnreadable(p) \/ ProcDuplicate(p) \/ ProcReadLink(p)

ReadAll ==
    \/ SysfsInit \/ Switch \/ Mount \/ MountFails \/ Read \/ ReadDone
    \/ (\E s \in BOOLEAN : GetIds(s)) \/ Resolve \/ Exit

Next ==
    \/ Enumerate
    \/ ReadAll
    \/ \E at \in {"start", "new", "var", "proc", "init", "switch", "read", "resolved"} :
          Fatal(at)
    \/ \E p \in Pids, n \in Ns : ProcessMoves(p, n)
    \/ \E p \in Pids : ProcessExits(p)

Spec == Init /\ [][Next]_vars

-----------------------------------------------------------------------------
TypeOK ==
    /\ pc \in {"start", "new", "var", "proc", "init", "switch", "mount", "read", "ids",
               "resolved", "exit", "gone"}
    /\ supported \in BOOLEAN
    /\ cur \in Ns
    /\ list \in Seq(Entry)
    /\ todo \subseteq Names \union Pids
    /\ warned \subseteq Names
    /\ failed \subseteq Names \union Pids
    /\ proc \in [pid : Pids, id : Ns] \union {NULL}
    /\ idx \in Nat
    /\ mounted \in Ns \union {NULL}
    /\ readFrom \in Seq(Ns)
    /\ sysFrom \in Seq(Ns \union {NULL})
    /\ target \in [Names -> Ns \union {"gone", "other"}]
    /\ procNs \in [Pids -> Ns \union {NULL}]
    /\ moves \in Nat
    /\ exits \in Nat

\* No namespace is listed twice under its kernel id, however many names and
\* processes lead to it and whatever processes do meanwhile (netns.c:121, 177).
UniqueIds == \A i, j \in 1..Len(list) : list[i].id = list[j].id => i = j

\* Every entry but the root is read in the namespace its fd refers to, and the
\* sysfs read with it shows the same namespace (netns.c:362-377).
ReadInOwnNs ==
    \A i \in 2..Len(readFrom) : readFrom[i] = list[i].fd /\ sysFrom[i] = list[i].fd

\* As long as no process changes its namespace, the walk misses a namespace
\* only for a reason: at the end every name of a namespace has been followed or
\* has its warning, and one process that could be looked at is enough for its
\* namespace to be read, whatever happened to the others in it, also to the one
\* whose link was read first and could not be opened then (netns.c:106-117,
\* 161-200).  Only a directory or a process that cannot be read hides anything
\* in silence (netns.c:171-175, 192-196, 230-232, 259-261).
WasRead(n) == \E i \in 2..Len(readFrom) : readFrom[i] = n
NothingMissed ==
    (pc = "resolved" /\ supported /\ moves = 0) =>
        /\ \A n \in Names \ (failed \union warned) :
              target[n] \in Ns \ {Root} => WasRead(target[n])
        /\ \A p \in Pids \ failed :
              procNs[p] \notin {Root, NULL} => WasRead(procNs[p])

\* A namespace known by its processes only is named after the lowest PID that
\* was in it all the time and could be looked at, or after a lower one, in
\* whatever order /proc lists them (netns.c:178-184).
LowestPid ==
    (pc = "resolved" /\ moves = 0) =>
        \A i \in 1..Len(list), p \in Pids \ failed :
            (list[i].kind = "proc" /\ procNs[p] = list[i].id) => list[i].pid <= p

\* "we're already there when processing the first entry" (netns.c:364-365): the
\* first entry is read in the root namespace.
RootReadInRoot == Len(readFrom) >= 1 => readFrom[1] = Root
=============================================================================
