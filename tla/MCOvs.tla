------------------------------- MODULE MCOvs -------------------------------
(* Two bridges, one of the kernel datapath and one of either, over           *)
(* interfaces of three namespaces that share names.                          *)
EXTENDS Ovs

If(name, ns, driver, m, attached) ==
    [name |-> name, ns |-> ns, driver |-> driver, master |-> m, peer |-> 0, link |-> 0,
     sub |-> FALSE, host |-> name = "eth", internal |-> FALSE, bridge |-> 0, attached |-> attached]

Decoys == {0, OtherMaster}

\* br0 is in the root namespace or was moved, or is not there at all.
Bridges == {<<If("br0", 1, "openvswitch", 0, "vport")>>, <<If("br0", 2, "openvswitch", 0, "vport")>>, <<>>}

\* eth is a port on a newer or an older kernel, belongs to another master, or
\* exists in another namespace only or as well.
Ethers ==
    {<<If("eth", 1, "other", OvsSystem, "slave")>>, <<If("eth", 1, "other", 0, "vport")>>,
     <<If("eth", 1, "other", OtherMaster, "no")>>, <<>>}
OtherEthers ==
    {<<>>, <<If("eth", 2, "other", OvsSystem, "foreign")>>,
     <<If("eth", 2, "other", 0, "no"), If("eth", 3, "other", 0, "no")>>}
    \union {<<If("eth", 2, "other", m, "no")>> : m \in Decoys}

\* The internal port p0 is where it was made, was moved, or is in no namespace
\* that was found; another datapath has one of that name, which may have been
\* moved to the root namespace.
Internals ==
    {<<If("p0", 1, "openvswitch", 0, "vport")>>, <<If("p0", 2, "openvswitch", 0, "vport")>>, <<>>}
OtherInternals == {<<>>, <<If("p0", 3, "openvswitch", 0, "no")>>, <<If("p0", 3, "other", 0, "no")>>,
                   <<If("p0", 1, "openvswitch", 0, "no")>>}

\* br1 is a port of the kernel datapath or a tun device.
Seconds ==
    {<<If("br1", 1, "openvswitch", 0, "vport")>>, <<If("br1", 1, "tun", 0, "no")>>,
     <<If("br1", 2, "tun", 0, "no"), If("br1", 3, "tun", 0, "no")>>}

Kernel(ifs, hidden) ==
    [ifs |-> ifs,
     vports |-> {<<Root, x.name>> : x \in {y \in ToSet(ifs) : y.attached # "no"}}
                \union {<<3, x.name>> : x \in {y \in ToSet(ifs) : y.ns = 3 /\ y.driver = "openvswitch"}}
                \union hidden]

MCKernels ==
    {k \in {Kernel(b \o e \o f \o i \o j \o s, h) :
        b \in Bridges, e \in Ethers, f \in OtherEthers, i \in Internals, j \in OtherInternals,
        s \in Seconds, h \in {{}, {<<Root, "p0">>}}} :
        \A x, y \in ToSet(k.ifs) : x.name = y.name /\ x.ns = y.ns => x = y}

If0(name, type, peer) == [name |-> name, type |-> type, peer |-> peer, local |-> type = "vxlan"]
Port(name, ifaces, trunks) == [name |-> name, ifaces |-> ifaces, trunks |-> trunks]
Single(name, type, peer) == Port(name, <<If0(name, type, peer)>>, FALSE)
Bridge(name, dp, ports, broken) == [name |-> name, dp |-> dp, ports |-> ports, broken |-> broken]

Main(name) == Single(name, "internal", "")

MCDatabases ==
    LET plain == <<Main("br0"), Single("eth", "", ""), Single("p0", "internal", "")>>
        bond == <<Single("pa", "patch", "pb"), Main("br0"),
                  Port("bond", <<If0("eth", "", ""), If0("e2", "", "")>>, FALSE)>>
        second == <<Main("br1"), Single("pb", "patch", "pa"), Single("vx", "vxlan", "")>>
        named == Port("bd", <<If0("bd", "internal", ""), If0("eth", "", "")>>, FALSE)
        stray == <<Main("br1"), Single("pb", "patch", "pa"), Single("pc", "patch", "pa")>>
    IN  {<<>>,
         <<Bridge("br0", "system", plain, 0)>>,
         <<Bridge("br0", "system", Tail(plain), 0), Bridge("br1", "netdev", second, 0)>>,
         <<Bridge("br0", "system", plain, 0), Bridge("br1", "system", second, 2)>>,
         <<Bridge("br0", "system", bond, 0), Bridge("br1", "system", stray, 0)>>,
         <<Bridge("br0", "netdev", bond, 0), Bridge("br1", "system", second, 0)>>,
         <<Bridge("br1", "netdev", <<Main("br1"), named>>, 0)>>,
         <<Bridge("br0", "unknown", bond, -1)>>}
        \union
        {<<Bridge("br0", "system", bond, 0), Bridge("br1", dp, second, 0)>> : dp \in {"system", "netdev"}}
        \union
        {<<Bridge("br0", "system", <<Port("br0", ifaces, FALSE), Port("eth", <<If0("eth", "", "")>>, TRUE)>>, x)>> :
            ifaces \in {<<>>, <<If0("br0", "internal", "")>>,
                        <<If0("br0", "internal", ""), If0("e2", "", "")>>},
            x \in {0, 2}}
=============================================================================
