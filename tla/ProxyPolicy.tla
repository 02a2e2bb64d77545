---------------------------- MODULE ProxyPolicy ----------------------------
(***************************************************************************)
(* What the approved capabilities of a skill let it reach through the      *)
(* localhost proxy (src/supervisor/proxy.ts: buildAllowedTargets,          *)
(* checkTarget).                                                           *)
(*                                                                         *)
(* A capability is a record of its name and scope; a scope is a set of     *)
(* endpoints, where port 0 stands for none written.  The service variables *)
(* of the supervisor's environment are constants; file and variable scopes *)
(* have no part in what is said here and are left out.                     *)
(*                                                                         *)
(* A host is what was written, not what it resolves to.  checkTarget()     *)
(* compares strings and knows two other names of the loopback address;     *)
(* any further name of it - another spelling, another address, a name that *)
(* resolves to it - is a host of its own, in the code as here.             *)
(***************************************************************************)
EXTENDS Integers

CONSTANTS
  Hosts,        \* hosts, as they are written
  Internal,     \* those isInternalHost() takes for internal
  Services,     \* capabilities the resource map lists
  Proxied,      \* those whose service the proxy lets through
  UrlOf,        \* UrlOf[s]: the endpoint its variable names, if it is set
  UsualPort     \* UsualPort[s]: the port the proxy assumes

Networks == {"network.external", "network.internal"}

Loopback == "127.0.0.1"

ProxyPort == 18800

SupervisorPorts == {18790, ProxyPort}

Ports == 0 .. 65535

Endpoint == [host : Hosts, port : Ports]

Capability == [name : Services \cup Networks, scope : SUBSET Endpoint]

ASSUME PolicyAssumption ==
  /\ {Loopback, "localhost", "::1"} \subseteq Internal
  /\ Internal \subseteq Hosts
  /\ "*" \notin Hosts
  /\ Services \cap Networks = {}
  /\ Proxied \subseteq Services
  /\ \A s \in Proxied : UrlOf[s] \subseteq Endpoint
  /\ \A s \in Proxied : UsualPort[s] \in Ports \ {0}

-----------------------------------------------------------------------------
\* parseHostPort(): the port, or the default.
WithPort(d, port) ==
  [host |-> d.host, port |-> IF d.port = 0 THEN port ELSE d.port]

Everything == [host |-> "*", port |-> 0]

Via(targets, name) == { [to |-> d, cap |-> name] : d \in targets }

\* Where the service is: its variable, or the loopback address.
ServiceOf(s) ==
  { WithPort(d, UsualPort[s]) :
      d \in IF UrlOf[s] = {} THEN {[host |-> Loopback, port |-> 0]} ELSE UrlOf[s] }

\* The targets of a network capability.
NetworkTargets(cap) ==
  LET port == IF cap.name = "network.external" THEN 443 ELSE 80
  IN  IF cap.scope = {} THEN {Everything}
                        ELSE { WithPort(d, port) : d \in cap.scope }

\* The targets of one capability.
Targets(cap) ==
  CASE cap.name \in Proxied  -> Via(ServiceOf(cap.name), cap.name)
    [] cap.name \in Networks -> Via(NetworkTargets(cap), cap.name)
    [] OTHER                 -> {}

\* buildAllowedTargets().
AllowedTargets(caps) ==
  Via({[host |-> Loopback, port |-> ProxyPort]}, "internal")
    \cup UNION { Targets(cap) : cap \in caps }

\* checkTarget() on one target, for a normalised host.
Fits(target, host, port) ==
  IF target.to.host = "*"
    THEN target.cap = "network.internal" => host \in Internal
    ELSE /\ host = IF target.to.host = "localhost" THEN Loopback
                                                   ELSE target.to.host
         /\ port = target.to.port

\* The two names checkTarget() takes for the loopback address.
Normal(host) == IF host \in {"localhost", "::1"} THEN Loopback ELSE host

\* checkTarget(): the supervisor's own ports under those names first, then the
\* list.
CheckTarget(caps, d) ==
  /\ ~(Normal(d.host) = Loopback /\ d.port \in SupervisorPorts)
  /\ \E target \in AllowedTargets(caps) : Fits(target, Normal(d.host), d.port)
=============================================================================
