----------------------------- MODULE MCHandlers -----------------------------
(* Three interfaces in one namespace and one in another, which shares an     *)
(* index with the first; an index does not fit a byte.                       *)
EXTENDS Handlers

MCN == 4
MCNs == <<1, 1, 1, 2>>
MCIndex == <<1, 2, 257, 1>>
Unlisted == 9

Plain(e) ==
    [driver |-> "other", info |-> FALSE, up |-> TRUE, addrs |-> {}, local |-> NULL, dev |-> 0,
     under |-> MCNs[e], master |-> NULL, brport |-> FALSE, active |-> NULL, pci |-> NULL, physfn |-> NULL]

Plains == [e \in 1..MCN |-> Plain(e)]

\* Interface 1 is a tunnel over its own, the other or an unknown namespace;
\* each other interface lacks or has the address and is up or down.
Underlays == {<<1, 0>>, <<1, 2>>, <<1, 257>>, <<2, 0>>, <<2, 1>>, <<HiddenNs, 0>>}
Hosts == {<<{}, TRUE>>, <<{"a"}, TRUE>>, <<{"a"}, FALSE>>}

WithTunnel(d, info, local, own, u, hosts) ==
    [e \in 1..MCN |->
        IF e = 1
        THEN [Plain(e) EXCEPT !.driver = d, !.info = info, !.local = local, !.addrs = own,
                              !.under = u[1], !.dev = u[2]]
        ELSE [Plain(e) EXCEPT !.addrs = hosts[e][1], !.up = hosts[e][2]]]

TunnelConfigs ==
    {WithTunnel(d, TRUE, local, own, u, hosts) :
        d \in Tunnels, local \in {NULL, "a"}, own \in {{}, {"a"}}, u \in Underlays, hosts \in [2..4 -> Hosts]}
    \union
    {WithTunnel(d, FALSE, "a", {}, u, [e \in 2..4 |-> <<{"a"}, e = 2>>]) :
        d \in Tunnels \union {"geneve"}, u \in Underlays}

\* Interface 1 is a bond or team with up to two ports.
WithPorts(d, info, active, ports) ==
    [e \in 1..MCN |->
        IF e = 1 THEN [Plain(e) EXCEPT !.driver = d, !.info = info, !.active = active]
        ELSE IF e \in ports THEN [Plain(e) EXCEPT !.master = 1] ELSE Plain(e)]

PortConfigs ==
    {WithPorts("bonding", info, a, ports) :
        info \in BOOLEAN, a \in {0, 2, 257, Unlisted}, ports \in SUBSET {2, 3}}
    \union {WithPorts("team", TRUE, a, ports) : a \in {NULL, 0, 2, 257, Unlisted}, ports \in SUBSET {2, 3}}

\* A bridge with one port, which may be a virtual function of an interface of
\* the same, the other or an unknown namespace.
DeviceConfigs ==
    {[Plains EXCEPT ![2] = [@ EXCEPT !.master = 1, !.brport = brport, !.pci = own, !.physfn = vf],
                    ![3].pci = pf3, ![4].pci = pf4] :
        brport \in BOOLEAN, own \in {NULL, "v"}, vf \in {NULL, "p"}, pf3 \in {NULL, "p"}, pf4 \in {NULL, "p"}}

SimpleConfigs ==
    {[Plains EXCEPT ![1] = [@ EXCEPT !.driver = d, !.info = info, !.dev = 2]] :
        d \in {"vlan", "macsec", "xfrm", "geneve"}, info \in BOOLEAN}

\* A team, and a bond behind it or behind one of its ports, or in the other
\* namespace.
Bond(e, a) == [Plain(e) EXCEPT !.driver = "bonding", !.active = a]
Teamed(e) == [Plain(e) EXCEPT !.driver = "team"]
Function(m) == [Plain(2) EXCEPT !.master = m, !.pci = "v", !.physfn = "p"]

BehindConfigs ==
    {[Plains EXCEPT ![1] = Teamed(1), ![2] = Bond(2, a), ![3] = [@ EXCEPT !.master = 2]] : a \in {0, 257}}
    \union {[Plains EXCEPT ![1] = Teamed(1), ![2] = Function(m), ![3] = Bond(3, 0)] : m \in {1, NULL}}
    \union {[Plains EXCEPT ![3] = Teamed(3), ![4] = Bond(4, 0)]}

MCConfigurations ==
    TunnelConfigs \union PortConfigs \union DeviceConfigs \union SimpleConfigs \union BehindConfigs
=============================================================================
