-------------------------- MODULE MCLocalhostProxy --------------------------
(* Instances of LocalhostProxy for TLC. *)
EXTENDS LocalhostProxy

CONSTANTS t1, bad, s1, k1, k2

TwoTools == {t1, bad}
NoAudit == {}
OneSkill == {s1}
TwoUseSkill == [c \in TwoTools |-> s1]
OneBadName == {bad}

SomeHosts == {"127.0.0.1", "localhost", "::1", "ha.local", "api.example"}
InternalHosts == SomeHosts \ {"api.example"}

\* home.read with HA_URL set to the supervisor's own API by mistake, a service
\* on the loopback address, and one the proxy does not know.
SomeServices == {"home.read", "data.meals", "cost.api"}
ProxiedServices == {"home.read", "data.meals"}
At(h, p) == [host |-> h, port |-> p]
Urls == [s \in ProxiedServices |->
  IF s = "home.read" THEN {At("localhost", 18790)} ELSE {}]
UsualPorts == [s \in ProxiedServices |-> IF s = "home.read" THEN 8123 ELSE 8788]

Cap(n, scope) == [name |-> n, scope |-> scope]
TwoCapSets ==
  { {Cap("home.read", {}), Cap("network.internal", {})},
    {Cap("data.meals", {}), Cap("cost.api", {}),
     Cap("network.external", {At("api.example", 0)})} }
TwoConns == {k1, k2}
FourTargets ==
  { At("localhost", 18790), At("ha.local", 8123), At("api.example", 443),
    At("127.0.0.1", 8788) }
=============================================================================
