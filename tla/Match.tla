------------------------------- MODULE Match -------------------------------
(***************************************************************************)
(* The search for an interface by a weighing callback (match.c: match_if   *)
(* and match_if_ns, match.h: match_found and match_ambiguous).             *)
(*                                                                         *)
(* Interfaces are numbered in the order the two nested loops visit them:   *)
(* ns[i] is the namespace of the i-th interface, and the namespaces come   *)
(* one after the other.  A search of one namespace (desc->netns_list       *)
(* NULL) is the case of a single namespace.  weight[i] is what the         *)
(* callback returns for the i-th interface, negative for an error.         *)
(* 0 stands for NULL in exclude and found.                                 *)
(***************************************************************************)
EXTENDS Integers, FiniteSets

CONSTANTS
    N,              \* interfaces in the searched namespaces
    MaxNs,          \* bound: namespaces
    Weights         \* what a callback may return

ASSUME SizeAssumption == N \in Nat /\ MaxNs \in Nat
ASSUME WeightAssumption == Weights \subseteq Int

Entries == 1..N

VARIABLES
    mode, exclude, ns, weight,      \* the search and the callback: inputs
    cur,                            \* the interface visited next
    found, best, count,             \* the result part of struct match_desc
    err                             \* what match_if returns

inputs == <<mode, exclude, ns, weight>>
matchVars == <<mode, exclude, ns, weight, cur, found, best, count, err>>

MatchInit ==
    /\ mode \in {"heuristic", "first"}
    /\ exclude \in 0..N
    /\ ns \in [Entries -> 1..MaxNs]
    /\ \A i, j \in Entries : i < j => ns[i] <= ns[j]
    /\ weight \in [Entries -> Weights]
    /\ cur = 1
    /\ found = 0
    /\ best = 0
    /\ count = 0
    /\ err = 0

Visiting == err = 0 /\ cur \in Entries

Exclude ==
    /\ Visiting
    /\ cur = exclude
    /\ cur' = cur + 1
    /\ UNCHANGED <<inputs, found, best, count, err>>

\* Mutant: the sign of the callback's error is kept.
ErrorOfMutant(w) == w
ErrorOf(w) == -w

CallbackFails ==
    /\ Visiting
    /\ cur # exclude
    /\ weight[cur] < 0
    /\ err' = ErrorOf(weight[cur])
    /\ UNCHANGED <<inputs, cur, found, best, count>>

Weighs == Visiting /\ cur # exclude /\ weight[cur] >= 0

\* Mutant: the early return of mode "first" is forgotten.
AfterBetterMutant(i) == i + 1

\* Mode "first" leaves out the rest of the namespace: the next interface is
\* the one after all those of the namespaces visited so far.
AfterBetter(i) ==
    IF mode = "first" THEN Cardinality({k \in Entries : ns[k] <= ns[i]}) + 1 ELSE i + 1

\* Mutant: a tie moves the result to the later interface.
ImprovesMutant(w) == w >= best /\ w > 0
Improves(w) == w > best

Better ==
    /\ Weighs
    /\ Improves(weight[cur])
    /\ found' = cur
    /\ best' = weight[cur]
    /\ count' = 1
    /\ cur' = AfterBetter(cur)
    /\ UNCHANGED <<inputs, err>>

NotBetter ==
    /\ Weighs
    /\ ~Improves(weight[cur])
    /\ count' = IF weight[cur] = best THEN count + 1 ELSE count
    /\ cur' = cur + 1
    /\ UNCHANGED <<inputs, found, best, err>>

MatchNext == Exclude \/ CallbackFails \/ Better \/ NotBetter

MatchSpec == MatchInit /\ [][MatchNext]_matchVars

-----------------------------------------------------------------------------
(* The result, as the callers read it *)

Done == ~Visiting

match_found == IF best > 0 THEN found ELSE 0
match_ambiguous == best > 0 /\ count > 1

-----------------------------------------------------------------------------
(* Reference: what the search promises *)

Candidates == {i \in Entries : i # exclude /\ weight[i] > 0}
Heaviest == {i \in Candidates : \A j \in Candidates : weight[j] <= weight[i]}

MatchTypeOK ==
    /\ mode \in {"heuristic", "first"}
    /\ exclude \in 0..N
    /\ ns \in [Entries -> 1..MaxNs]
    /\ weight \in [Entries -> Weights]
    /\ cur \in 1..(N + 1)
    /\ found \in 0..N
    /\ best \in Nat
    /\ count \in Nat
    /\ err \in Nat

\* A heuristic search that no callback fails finds the first of the heaviest
\* interfaces over all namespaces, NULL exactly when nothing matches, and says
\* ambiguous exactly when several share the highest weight (match.c:28-42,
\* match.h:60-61).
FindsFirstHeaviest ==
    (Done /\ err = 0 /\ mode = "heuristic") =>
        /\ (match_found = 0) <=> (Heaviest = {})
        /\ match_found # 0 =>
              /\ match_found \in Heaviest
              /\ \A i \in Heaviest : match_found <= i
        /\ match_ambiguous <=> (Cardinality(Heaviest) > 1)

\* In mode MM_FIRST the first match of a namespace is never given up for
\* another one of the same namespace, whatever its weight (match.c:38-39).
FirstOfItsNamespace ==
    [][(mode = "first" /\ found # 0 /\ found' # found) => ns[found'] # ns[found]]_matchVars
=============================================================================
