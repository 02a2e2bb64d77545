--------------------------- MODULE LocalhostProxy ---------------------------
(***************************************************************************)
(* The SOCKS5 proxy of the supervisor (src/supervisor/proxy.ts) beside the *)
(* calls of ToolCalls: a skill's process connects with the token of its    *)
(* call, the proxy looks the token up once and keeps the capabilities it   *)
(* found on the connection, and decides on the target in a later event.    *)
(* Between the two, and while bytes are relayed, the call may end, its     *)
(* token be revoked or expire, and the approval be rewritten or removed.   *)
(*                                                                         *)
(* ToolCalls says whether a skill has an approval; here the approval has   *)
(* contents, in the file and in the cache of ApprovalStore.  A refused     *)
(* connection changes nothing and is no action.                            *)
(***************************************************************************)
EXTENDS ToolCalls, ProxyPolicy

CONSTANTS
  CapSets,     \* what an approval may hold: sets of capabilities
  Conns,       \* connections to the proxy
  Targeted     \* what the skills connect to

ASSUME ProxyAssumption ==
  /\ CapSets \subseteq SUBSET Capability
  /\ Targeted \subseteq Endpoint

VARIABLES
  content,     \* capabilities in each approval file, or last in it
  cached,      \* and in the cache entry
  granted,     \* capabilities each call's token was made from
  conns,       \* where each connection is
  inForce      \* history: capabilities approved at or since the supervisor's
               \* start, per skill

pvars == << content, cached, granted, conns, inForce >>

lvars == << vars, pvars >>

Closed == [at |-> "closed"]

NoConn == [k \in Conns |-> Closed]

ProxyInit ==
  /\ Init
  /\ content \in [Skills -> CapSets]
  /\ cached = content
  /\ granted = [c \in ToolRequests |-> {}]
  /\ conns = NoConn
  /\ inForce = [s \in Skills |-> IF s \in file THEN {content[s]} ELSE {}]

\* What get() returns for a skill: the file's contents before the cache's.
Fetched(s) == IF s \in file THEN content[s] ELSE cached[s]

\* The call whose approval the step fetches: get() puts it into the cache, and
\* the token is made from it.
Fetches(c) == handler[c] = "none" /\ handler'[c] \in {"running", "threw", "failed"}

GrantAll ==
  /\ granted' = [c \in ToolRequests |->
       IF Fetches(c) /\ handler'[c] # "failed" THEN Fetched(SkillOf[c])
                                               ELSE granted[c]]
  /\ cached' = [s \in Skills |->
       IF up' /\ ~up THEN content[s]
       ELSE IF \E c \in ToolRequests : Fetches(c) /\ SkillOf[c] = s
              THEN Fetched(s) ELSE cached[s]]

\* A step of ToolCalls.  Approving a skill writes some capabilities; a new
\* supervisor starts from the files; a dead one has no connections.
CallStep ==
  /\ Next
  /\ IF file' \subseteq file
       THEN UNCHANGED content
       ELSE \E written \in CapSets :
              content' = [s \in Skills |->
                            IF s \in file' \ file THEN written ELSE content[s]]
  /\ GrantAll
  /\ conns' = IF up' THEN conns ELSE NoConn
  /\ inForce' = [s \in Skills |->
       CASE up' /\ ~up          -> IF s \in file' THEN {content'[s]} ELSE {}
         [] s \in file' \ file -> inForce[s] \cup {content'[s]}
         [] OTHER               -> inForce[s]]

\* An approval is rewritten: more is allowed in the chat, or sc approve asked
\* again.
Rewrite(s) ==
  /\ s \in file
  /\ \E written \in CapSets \ {content[s]} :
       /\ content' = [content EXCEPT ![s] = written]
       /\ inForce' = [inForce EXCEPT ![s] = @ \cup {written}]
  /\ UNCHANGED << vars, cached, granted, conns >>

\* The auth handler: the token of a call whose process runs is looked up, and
\* the connection keeps what the registry holds for it.
Authenticate(k, c) ==
  /\ up
  /\ conns[k] = Closed
  /\ c \in running
  /\ c \in tokens
  /\ conns' = [conns EXCEPT ![k] = [at |-> "authenticated", call |-> c]]
  /\ UNCHANGED << vars, content, cached, granted, inForce >>

\* Mutant of Connect: the approval is fetched again, for the cache's sake.
ConnectFresh(k, d) ==
  /\ conns[k].at = "authenticated"
  /\ LET s == SkillOf[conns[k].call]
     IN  CheckTarget(cached[s] \cup content[s], d)
  /\ conns' = [conns EXCEPT ![k] = [at |-> "open", call |-> conns[k].call, to |-> d]]
  /\ UNCHANGED << vars, content, cached, granted, inForce >>

\* The ruleset validator accepts the target.  The token is not looked up
\* again, and the process may have ended if a descendant has the socket.
Connect(k, d) ==
  /\ conns[k].at = "authenticated"
  /\ CheckTarget(granted[conns[k].call], d)
  /\ conns' = [conns EXCEPT ![k] = [at |-> "open", call |-> conns[k].call, to |-> d]]
  /\ UNCHANGED << vars, content, cached, granted, inForce >>

\* Refused, or either end closes.
Disconnect(k) ==
  /\ conns[k] # Closed
  /\ conns' = [conns EXCEPT ![k] = Closed]
  /\ UNCHANGED << vars, content, cached, granted, inForce >>

ProxyNext ==
  \/ CallStep
  \/ \E s \in Skills : Rewrite(s)
  \/ \E k \in Conns :
       \/ \E c \in ToolRequests : Authenticate(k, c)
       \/ \E d \in Targeted : Connect(k, d)
       \/ Disconnect(k)

ProxySpec == ProxyInit /\ [][ProxyNext]_lvars

\* Timers fire (setTimeout of ipc.ts and proxy.ts).  Nothing else is assumed: a
\* child or a connection may stay for ever, and the supervisor may stay down or
\* answer late.
ProxyTimers ==
  \A c \in Calls :
    /\ WF_lvars(Timeout(c) /\ UNCHANGED pvars)
    /\ WF_lvars(TokenExpires(c) /\ UNCHANGED pvars)

FairProxySpec == ProxySpec /\ ProxyTimers

-----------------------------------------------------------------------------
(* Properties.                                                             *)

\* The types of the proxy's variables.
ProxyTypeOK ==
  /\ content \in [Skills -> CapSets]
  /\ cached \in [Skills -> CapSets]
  /\ granted \in [ToolRequests -> CapSets \cup {{}}]
  /\ \A k \in Conns :
       \/ conns[k] = Closed
       \/ conns[k].at = "authenticated" /\ conns[k].call \in ToolRequests
       \/ /\ conns[k].at = "open"
          /\ conns[k].call \in ToolRequests /\ conns[k].to \in Endpoint
  /\ inForce \in [Skills -> SUBSET CapSets]

\* The capability, read by itself, speaks of the endpoint.
Speaks(cap, d) ==
  \/ /\ cap.name \in Proxied
     /\ \E e \in ServiceOf(cap.name) : Normal(e.host) = Normal(d.host) /\ e.port = d.port
  \/ /\ cap.name \in Networks
     /\ cap.scope = {}
     /\ cap.name = "network.internal" => d.host \in Internal
  \/ /\ cap.name \in Networks
     /\ \E e \in cap.scope : /\ Normal(e.host) = Normal(d.host)
                             /\ e.port \in {0, d.port}

\* Whatever a connection outlives - its call, its token, its approval - it
\* reaches only what the capabilities its call started with speak of, and a
\* call starts with one approval in force since the supervisor's start: an
\* approval rewritten meanwhile neither widens nor mixes (proxy.ts:
\* setRulesetValidator; worker.ts).
ConnectedWithinConsent ==
  /\ \A k \in Conns :
       conns[k].at = "open" =>
         \E cap \in granted[conns[k].call] : Speaks(cap, conns[k].to)
  /\ \A c \in ToolRequests :
       handler[c] = "running" => granted[c] \in inForce[SkillOf[c]]
=============================================================================
