------------------------------- MODULE Diagram -------------------------------
(***************************************************************************)
(* What dot and JSON show of a resolved topology: Topology composed with   *)
(* Output.                                                                 *)
(***************************************************************************)
EXTENDS Topology

Out == INSTANCE Output

Shown == [e \in Ifs |-> [master |-> master[e], link |-> link[e], peer |-> peer[e],
                         physfn |-> NULL, linkNet |-> NULL, label |-> kind[e] = "vlan"]]

\* The interfaces' places in memory: malloc may return them in any order.
Places == {addr \in [Ifs -> Ifs] : \A e, f \in Ifs : e # f => addr[e] # addr[f]}

\* "All the outputs contain the same snapshot" (plotnetcfg.8): dot and JSON
\* connect the same interfaces with the same labels, although JSON leaves out
\* one side of a relation where an interface has others (json.c:169-190).
SameDiagram == phase = "done" => Out!DotPairs(Shown) = Out!JsonPairs(Shown)

\* A pair of peers is drawn once, whichever of the two comes first and wherever
\* they are in memory (dot.c:147), also when the dumps contradicted each other.
PeersDrawnOnce ==
    phase = "done" =>
        \A addr \in Places : \A e \in Ifs : peer[e] # NULL =>
            Cardinality({a \in Out!output_ifaces_pass2(Shown, addr) :
                            a.kind = "peer" /\ {a.from, a.to} = {e, peer[e]}}) = 1
=============================================================================
