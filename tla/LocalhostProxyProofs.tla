------------------------ MODULE LocalhostProxyProofs ------------------------
(***************************************************************************)
(* What a connection through the proxy can reach, for every resource map,  *)
(* set of capabilities, of calls and of connections.  The composition only *)
(* adds to ToolCalls, so the invariants of ToolCallsProofs hold of it.     *)
(***************************************************************************)
EXTENDS LocalhostProxy, ToolCallsProofs

-----------------------------------------------------------------------------
(* The policy.                                                             *)

\* checkTarget() accepts only what one of the capabilities speaks of: the
\* ports and defaults that buildAllowedTargets() fills in, the normalised
\* names and the entry of the proxy itself open nothing more.
LEMMA TargetsAreSpokenOf ==
  ASSUME NEW caps \in SUBSET Capability, NEW d \in Endpoint, CheckTarget(caps, d)
  PROVE  \E cap \in caps : Speaks(cap, d)
<1>1. ~(Normal(d.host) = Loopback /\ d.port \in SupervisorPorts)
  BY DEF CheckTarget
<1>2. PICK target \in AllowedTargets(caps) : Fits(target, Normal(d.host), d.port)
  BY DEF CheckTarget
<1>3. CASE target \in Via({[host |-> Loopback, port |-> ProxyPort]}, "internal")
  <2>1. target.to = [host |-> Loopback, port |-> ProxyPort]
    BY <1>3 DEF Via
  <2>2. Loopback # "*" /\ Loopback # "localhost" /\ ProxyPort \in SupervisorPorts
    BY DEF Loopback, SupervisorPorts
  <2>3. Normal(d.host) = Loopback /\ d.port = ProxyPort
    BY <1>2, <2>1, <2>2 DEF Fits
  <2> QED
    BY <1>1, <2>2, <2>3
<1>4. CASE \E cap \in caps : target \in Targets(cap)
  <2>1. PICK cap \in caps : target \in Targets(cap)
    BY <1>4
  <2>2. /\ cap \in Capability /\ cap.name \in Services \cup Networks
        /\ cap.scope \subseteq Endpoint
    BY DEF Capability
  <2>3. CASE cap.name \in Proxied
    <3>0. cap.name \notin Networks
      BY <2>3, PolicyAssumption
    <3>a. Targets(cap) = Via(ServiceOf(cap.name), cap.name)
      BY <2>3, <3>0, Zenon DEF Targets
    <3>1. PICK e \in ServiceOf(cap.name) : target = [to |-> e, cap |-> cap.name]
      BY <2>1, <3>a DEF Via
    <3>2. UrlOf[cap.name] \subseteq Endpoint /\ Loopback \in Hosts /\ "*" \notin Hosts
      BY <2>3, PolicyAssumption DEF Loopback
    <3>3. e.host \in Hosts
      BY <3>1, <3>2 DEF ServiceOf, WithPort, Endpoint
    <3>4. e.host # "*"
      BY <3>2, <3>3
    <3>5. /\ Normal(d.host) = IF e.host = "localhost" THEN Loopback ELSE e.host
          /\ d.port = e.port
      BY <1>2, <3>1, <3>4 DEF Fits
    <3>6. Normal(e.host) = Normal(d.host)
      BY <3>5 DEF Normal, Loopback
    <3> QED
      BY <2>3, <3>1, <3>5, <3>6 DEF Speaks
  <2>4. CASE cap.name \notin Proxied /\ cap.name \in Networks
    <3>a. Targets(cap) = Via(NetworkTargets(cap), cap.name)
      BY <2>4, Zenon DEF Targets
    <3>1. PICK e \in NetworkTargets(cap) : target = [to |-> e, cap |-> cap.name]
      BY <2>1, <3>a DEF Via
    <3>2. CASE cap.scope = {}
      <4>1. e = Everything
        BY <3>1, <3>2 DEF NetworkTargets
      <4>2. cap.name = "network.internal" => Normal(d.host) \in Internal
        BY <1>2, <3>1, <4>1 DEF Fits, Everything
      <4>3. Normal(d.host) \in Internal => d.host \in Internal
        BY PolicyAssumption DEF Normal
      <4> QED
        BY <2>4, <3>2, <4>2, <4>3 DEF Speaks
    <3>3. CASE cap.scope # {}
      <4>1. PICK f \in cap.scope, p \in {80, 443} : e = WithPort(f, p)
        BY <3>1, <3>3 DEF NetworkTargets
      <4>2. e.host = f.host /\ f.host \in Hosts /\ "*" \notin Hosts
        BY <2>2, <4>1, PolicyAssumption DEF WithPort, Endpoint
      <4>3. e.host # "*"
        BY <4>2
      <4>4. f.port \in {0, e.port}
        BY <4>1 DEF WithPort
      <4>5. /\ Normal(d.host) = IF f.host = "localhost" THEN Loopback ELSE f.host
            /\ d.port = e.port
        BY <1>2, <3>1, <4>2, <4>3 DEF Fits
      <4>6. Normal(f.host) = Normal(d.host)
        BY <4>5 DEF Normal, Loopback
      <4> QED
        BY <2>4, <4>4, <4>5, <4>6 DEF Speaks
    <3> QED
      BY <3>2, <3>3
  <2>5. CASE cap.name \notin Proxied /\ cap.name \notin Networks
    BY <2>1, <2>5 DEF Targets
  <2> QED
    BY <2>3, <2>4, <2>5
<1> QED
  BY <1>2, <1>3, <1>4 DEF AllowedTargets

-----------------------------------------------------------------------------
(* The composition takes the steps of ToolCalls.                           *)

\* What a step of the proxy is to ToolCalls: one of its steps, or nothing.
LEMMA StepsOfToolCalls == [ProxyNext]_lvars => [Next]_vars
BY DEF ProxyNext, CallStep, Rewrite, Authenticate, Connect, Disconnect, lvars

\* The composition implements ToolCalls, so every property proved of a call
\* holds with a proxy beside it.
THEOREM CallsWithProxy == ProxySpec => Spec
BY StepsOfToolCalls, PTL DEF ProxySpec, ProxyInit, Spec

\* The invariants of ToolCalls the proxy relies on.
CallInv == TypeOK /\ ExchangeInv /\ ApprovalInv /\ TokenDiesWithChild

LEMMA CallsCorrect == ProxySpec => []CallInv
<1>1. Init => CallInv
  BY TypeInit, ExchangeInit
     DEF Init, CallInv, ApprovalInv, OnlyKnownSkillsRun, TokenDiesWithChild, Calls
<1>2. CallInv /\ [Next]_vars => CallInv'
  BY TypeStep, ExchangeStep, ApprovalStep, TokenStep DEF CallInv
<1> QED
  BY <1>1, <1>2, CallsWithProxy, PTL DEF Spec

\* What a step of ToolCalls does to handlers, cache and files.  A handler is
\* never forgotten; a child starts from no handler and an approval in the file
\* or the cache; the cache grows by such an approval, or is loaded by a new
\* supervisor; a file appears while nothing else moves.
LEMMA HandlersAndFiles ==
  ASSUME CallInv, Next
  PROVE  /\ \A c \in Calls : handler[c] # "none" => handler'[c] # "none"
         /\ \A c \in Calls : handler'[c] = "running" /\ handler[c] # "running" =>
              /\ c \in ToolRequests /\ Fetches(c)
              /\ up /\ up' /\ SkillOf[c] \in file \cup cache /\ file' = file
         /\ \A s \in cache' \ cache : up /\ up' =>
              s \in file /\ \E c \in ToolRequests : Fetches(c) /\ SkillOf[c] = s
         /\ up' /\ ~up => cache' = file /\ file' = file
         /\ file' \subseteq file \/ (UNCHANGED << up, handler, cache >>)
<1>0. /\ handler \in [Calls -> HandlerStates]
      /\ ToolRequests \subseteq Calls /\ AuditRequests \subseteq Calls
      /\ BadNames \subseteq ToolRequests
      /\ up \in BOOLEAN
  BY CallsAssumption DEF CallInv, TypeOK, Calls
<1>t. ASSUME NEW c \in Calls, Take(c)
      PROVE  up /\ handler[c] = "none"
  <2>1. requests \in Seq(Calls) /\ requests # << >> /\ c = Head(requests) /\ up
    BY <1>t DEF Take, CallInv, TypeOK
  <2> QED
    BY <2>1, SequenceFacts DEF CallInv, ExchangeInv, RequestsAreNew
<1>1. CASE HandleAudit
  BY <1>0, <1>1, <1>t DEF HandleAudit
<1>2. CASE HandleBadName
  BY <1>0, <1>2, <1>t DEF HandleBadName, world
<1>3. CASE HandleUnapproved
  BY <1>0, <1>3, <1>t DEF HandleUnapproved
<1>4. CASE StartChild
  BY <1>0, <1>4, <1>t DEF StartChild, TakeApproved, Approved, Cached, Fetches
<1>5. CASE ConfigFails
  BY <1>0, <1>5, <1>t DEF ConfigFails, TakeApproved, Approved, Cached, Fetches, world
<1>6. CASE SpawnThrows
  BY <1>0, <1>6, <1>t DEF SpawnThrows, TakeApproved, Approved, Cached, Fetches
<1>7. ASSUME NEW c \in Calls, ChildEnds(c) \/ OrphanEnds(c) \/ TokenExpires(c)
      PROVE  /\ UNCHANGED << up, cache, file >>
             /\ \A d \in Calls : handler'[d] = handler[d] \/ handler'[d] = "done"
  BY <1>0, <1>7 DEF ChildEnds, OrphanEnds, TokenExpires, supervisor, world
<1>8. CASE Crash
  BY <1>0, <1>8 DEF Crash, world
<1>9. CASE Restart
  BY <1>9 DEF Restart
<1>10. CASE UserNext
  BY <1>10 DEF UserNext, Approve, Remove, supervisor
<1>11. CASE PluginNext
  BY <1>11 DEF PluginNext, Send, Refused, Receive, Timeout, ConnectionEnds,
     ConnectionErrors, Close, Reconnect, supervisor, world
<1>12. CASE \E c \in Calls : ChildEnds(c) \/ OrphanEnds(c) \/ TokenExpires(c)
  BY <1>0, <1>7, <1>12
<1> QED
  BY <1>1, <1>2, <1>3, <1>4, <1>5, <1>6, <1>8, <1>9, <1>10, <1>11, <1>12
     DEF Next, SupervisorNext

-----------------------------------------------------------------------------
(* The invariant.                                                          *)

Connection ==
  {Closed}
    \cup [at : {"authenticated"}, call : ToolRequests]
    \cup [at : {"open"}, call : ToolRequests, to : Endpoint]

ProxyTypes ==
  /\ content \in [Skills -> CapSets]
  /\ cached \in [Skills -> CapSets]
  /\ granted \in [ToolRequests -> CapSets \cup {{}}]
  /\ conns \in [Conns -> Connection]
  /\ inForce \in [Skills -> SUBSET CapSets]

\* A connection is of a call whose approval was fetched, so that what its
\* call was granted does not change any more, and an open one passed the
\* check on it.
ConnsFollowGrants ==
  \A k \in Conns :
    /\ conns[k] # Closed => handler[conns[k].call] # "none"
    /\ conns[k].at = "open" => CheckTarget(granted[conns[k].call], conns[k].to)

\* What a supervisor can fetch was approved at or since its start, and a call
\* runs with what was fetched.
GrantsAreInForce ==
  /\ up => /\ \A s \in file : content[s] \in inForce[s]
           /\ \A s \in cache : cached[s] \in inForce[s]
  /\ \A c \in Calls :
       handler[c] = "running" =>
         c \in ToolRequests /\ granted[c] \in inForce[SkillOf[c]]

ProxyInv == ProxyTypes /\ ConnsFollowGrants /\ GrantsAreInForce

LEMMA ProxyInitial == ProxyInit => ProxyInv
<1> SUFFICES ASSUME ProxyInit
             PROVE  ProxyInv
  OBVIOUS
<1> USE CallsAssumption DEF ProxyInit, Init, Calls
<1>1. ProxyTypes
  BY DEF ProxyTypes, NoConn, Connection
<1>2. ConnsFollowGrants
  BY DEF ConnsFollowGrants, NoConn, Closed
<1>3. GrantsAreInForce
  BY DEF GrantsAreInForce
<1> QED
  BY <1>1, <1>2, <1>3 DEF ProxyInv

\* A step of ToolCalls keeps the types of what the proxy adds.
LEMMA CallStepTypes ==
  ASSUME CallInv, ProxyInv, CallStep
  PROVE  ProxyTypes'
<1> USE DEF ProxyInv, ProxyTypes
<1>0. \A c \in ToolRequests : SkillOf[c] \in Skills
  BY CallsAssumption
<1>1. content' \in [Skills -> CapSets]
  BY DEF CallStep
<1>2. \A s \in Skills : Fetched(s) \in CapSets
  BY DEF Fetched
<1>3. granted' \in [ToolRequests -> CapSets \cup {{}}]
  BY <1>0, <1>2 DEF CallStep, GrantAll
<1>4. cached' \in [Skills -> CapSets]
  BY <1>2 DEF CallStep, GrantAll
<1>5. conns' \in [Conns -> Connection]
  BY DEF CallStep, NoConn, Connection
<1>6. inForce' \in [Skills -> SUBSET CapSets]
  BY <1>1 DEF CallStep
<1> QED
  BY <1>1, <1>3, <1>4, <1>5, <1>6

\* It leaves the grants of calls with connections alone.
LEMMA CallStepConns ==
  ASSUME CallInv, ProxyInv, CallStep
  PROVE  ConnsFollowGrants'
<1>1. CASE ~up'
  BY <1>1 DEF CallStep, NoConn, Closed, ConnsFollowGrants
<1>2. CASE up'
  <2>1. conns' = conns /\ Next
    BY <1>2 DEF CallStep
  <2>2. SUFFICES ASSUME NEW k \in Conns, conns[k] # Closed
                 PROVE  LET c == conns[k].call
                        IN  /\ handler'[c] # "none"
                            /\ conns[k].at = "open" => CheckTarget(granted'[c], conns[k].to)
    BY <2>1 DEF ConnsFollowGrants, Closed
  <2> DEFINE c == conns[k].call
  <2>3. c \in ToolRequests /\ c \in Calls
    BY <2>2 DEF ProxyInv, ProxyTypes, Connection, Calls
  <2>4. handler[c] # "none" /\ handler'[c] # "none"
    BY <2>1, <2>2, <2>3, HandlersAndFiles DEF ProxyInv, ConnsFollowGrants
  <2>5. granted'[c] = granted[c]
    BY <2>3, <2>4 DEF CallStep, GrantAll, Fetches
  <2> QED
    BY <2>2, <2>4, <2>5 DEF ProxyInv, ConnsFollowGrants
<1> QED
  BY <1>1, <1>2

\* What can be fetched stays in force.
LEMMA CallStepForce ==
  ASSUME CallInv, ProxyInv, CallStep
  PROVE  GrantsAreInForce'
<1>0. /\ \A c \in ToolRequests : c \in Calls /\ SkillOf[c] \in Skills
      /\ file \subseteq Skills /\ cache \subseteq Skills
      /\ file' \subseteq Skills /\ cache' \subseteq Skills
      /\ up \in BOOLEAN /\ up' \in BOOLEAN
  <2>1. TypeOK /\ TypeOK'
    BY TypeStep DEF CallInv, CallStep
  <2> QED
    BY <2>1, CallsAssumption DEF TypeOK, Calls
<1>1. Next
  BY DEF CallStep
<1>2. CASE up' /\ ~up
  <2>1. cache' = file /\ file' = file /\ content' = content
    BY <1>1, <1>2, HandlersAndFiles DEF CallStep
  <2>2. /\ \A s \in Skills : cached'[s] = content[s]
        /\ \A s \in file : inForce'[s] = {content[s]}
    BY <1>0, <1>2, <2>1 DEF CallStep, GrantAll
  <2>3. \A c \in Calls : handler'[c] # "running"
    BY <1>0, <1>1, <1>2, HandlersAndFiles
       DEF CallInv, ApprovalInv, ProxyInv, GrantsAreInForce
  <2> QED
    BY <1>0, <2>1, <2>2, <2>3 DEF GrantsAreInForce
<1>3. CASE ~(up' /\ ~up)
  <2>1. /\ \A s \in Skills : inForce[s] \subseteq inForce'[s]
        /\ \A s \in file' \ file : content'[s] \in inForce'[s]
        /\ \A s \in file' \cap file : content'[s] = content[s]
    BY <1>0, <1>3 DEF CallStep, ProxyInv, ProxyTypes
  <2>2. ASSUME up
        PROVE  \A s \in file' : content'[s] \in inForce'[s]
    BY <1>0, <2>1, <2>2 DEF ProxyInv, GrantsAreInForce
  <2>3. ASSUME up, NEW s \in Skills, s \in file \cup cache
        PROVE  Fetched(s) \in inForce'[s]
    BY <2>1, <2>3 DEF ProxyInv, GrantsAreInForce, Fetched
  <2>4. ASSUME up, up', NEW s \in cache'
        PROVE  cached'[s] \in inForce'[s]
    <3>1. s \in Skills /\ s \in file \cup cache
      BY <1>0, <1>1, <2>4, HandlersAndFiles
    <3>2. CASE \E c \in ToolRequests : Fetches(c) /\ SkillOf[c] = s
      <4>1. cached'[s] = Fetched(s)
        BY <1>3, <2>4, <3>1, <3>2 DEF CallStep, GrantAll
      <4> QED
        BY <2>3, <2>4, <3>1, <4>1
    <3>3. CASE ~\E c \in ToolRequests : Fetches(c) /\ SkillOf[c] = s
      <4>1. cached'[s] = cached[s] /\ s \in cache
        BY <1>1, <1>3, <2>4, <3>1, <3>3, HandlersAndFiles DEF CallStep, GrantAll
      <4> QED
        BY <2>1, <2>4, <3>1, <4>1 DEF ProxyInv, GrantsAreInForce
    <3> QED
      BY <3>2, <3>3
  <2>5. ASSUME NEW c \in Calls, handler'[c] = "running"
        PROVE  c \in ToolRequests /\ granted'[c] \in inForce'[SkillOf[c]]
    <3>1. CASE handler[c] = "running"
      <4>1. c \in ToolRequests /\ granted'[c] = granted[c]
        BY <3>1 DEF CallStep, GrantAll, Fetches, ProxyInv, GrantsAreInForce
      <4> QED
        BY <1>0, <2>1, <3>1, <4>1 DEF ProxyInv, GrantsAreInForce
    <3>2. CASE handler[c] # "running"
      <4>1. c \in ToolRequests /\ up /\ Fetches(c) /\ SkillOf[c] \in file \cup cache
        BY <1>0, <1>1, <2>5, <3>2, HandlersAndFiles
      <4>2. granted'[c] = Fetched(SkillOf[c])
        BY <2>5, <4>1 DEF CallStep, GrantAll
      <4> QED
        BY <1>0, <2>3, <4>1, <4>2
    <3> QED
      BY <3>1, <3>2
  <2> QED
    BY <1>0, <1>3, <2>2, <2>4, <2>5 DEF GrantsAreInForce
<1> QED
  BY <1>2, <1>3

\* Every step keeps the invariant.
LEMMA ProxyStep == CallInv /\ ProxyInv /\ [ProxyNext]_lvars => ProxyInv'
<1> SUFFICES ASSUME CallInv, ProxyInv, [ProxyNext]_lvars
             PROVE  ProxyInv'
  OBVIOUS
<1> USE DEF ProxyInv
<1>0. /\ running \subseteq Calls /\ tokens \subseteq Calls
      /\ ToolRequests \subseteq Calls
  BY DEF CallInv, TypeOK, Calls
<1>1. CASE CallStep
  BY <1>1, CallStepTypes, CallStepConns, CallStepForce
<1>2. ASSUME NEW s \in Skills, Rewrite(s)
      PROVE  ProxyInv'
  <2>1. UNCHANGED << up, handler, file, cache, cached, granted, conns >>
    BY <1>2 DEF Rewrite, vars, supervisor, world
  <2>2. PICK written \in CapSets :
          /\ content' = [content EXCEPT ![s] = written]
          /\ inForce' = [inForce EXCEPT ![s] = @ \cup {written}]
    BY <1>2 DEF Rewrite
  <2>3. ProxyTypes'
    BY <2>1, <2>2 DEF ProxyTypes
  <2>4. ConnsFollowGrants'
    BY <2>1 DEF ConnsFollowGrants
  <2>5. file \subseteq Skills /\ cache \subseteq Skills
        /\ \A c \in ToolRequests : SkillOf[c] \in Skills
    BY CallsAssumption DEF CallInv, TypeOK
  <2>6. GrantsAreInForce'
    BY <2>1, <2>2, <2>5 DEF GrantsAreInForce, ProxyTypes
  <2> QED
    BY <2>3, <2>4, <2>6
<1>3. ASSUME NEW k \in Conns, NEW c \in ToolRequests, Authenticate(k, c)
      PROVE  ProxyInv'
  <2>1. /\ UNCHANGED << up, handler, file, cache, content, cached, granted, inForce >>
        /\ conns' = [conns EXCEPT ![k] = [at |-> "authenticated", call |-> c]]
        /\ c \in tokens
    BY <1>3 DEF Authenticate, vars, supervisor, world
  <2>2. handler[c] # "none"
    BY <2>1 DEF CallInv, TokenDiesWithChild
  <2>3. ProxyTypes'
    BY <2>1 DEF ProxyTypes, Connection
  <2>4. ConnsFollowGrants'
    BY <2>1, <2>2 DEF ConnsFollowGrants, ProxyTypes, Closed
  <2>5. GrantsAreInForce'
    BY <2>1 DEF GrantsAreInForce
  <2> QED
    BY <2>3, <2>4, <2>5
<1>4. ASSUME NEW k \in Conns, NEW d \in Targeted, Connect(k, d)
      PROVE  ProxyInv'
  <2> DEFINE open == [at |-> "open", call |-> conns[k].call, to |-> d]
  <2>1. /\ UNCHANGED << up, handler, file, cache, content, cached, granted, inForce >>
        /\ conns' = [conns EXCEPT ![k] = open]
        /\ conns[k].at = "authenticated"
        /\ CheckTarget(granted[conns[k].call], d)
    BY <1>4 DEF Connect, vars, supervisor, world
  <2>2. conns[k] # Closed /\ conns[k].call \in ToolRequests /\ d \in Endpoint
    BY <2>1, ProxyAssumption DEF ProxyTypes, Connection, Closed
  <2>3. ProxyTypes'
    BY <2>1, <2>2 DEF ProxyTypes, Connection
  <2>4. ConnsFollowGrants'
    BY <2>1, <2>2 DEF ConnsFollowGrants, ProxyTypes
  <2>5. GrantsAreInForce'
    BY <2>1 DEF GrantsAreInForce
  <2> QED
    BY <2>3, <2>4, <2>5
<1>5. ASSUME NEW k \in Conns, Disconnect(k)
      PROVE  ProxyInv'
  <2>1. /\ UNCHANGED << up, handler, file, cache, content, cached, granted, inForce >>
        /\ conns' = [conns EXCEPT ![k] = Closed]
    BY <1>5 DEF Disconnect, vars, supervisor, world
  <2>2. ProxyTypes'
    BY <2>1 DEF ProxyTypes, Connection
  <2>3. ConnsFollowGrants'
    BY <2>1 DEF ConnsFollowGrants, ProxyTypes, Closed
  <2>4. GrantsAreInForce'
    BY <2>1 DEF GrantsAreInForce
  <2> QED
    BY <2>2, <2>3, <2>4
<1>6. CASE UNCHANGED lvars
  BY <1>6 DEF lvars, pvars, vars, supervisor, world, ProxyTypes, ConnsFollowGrants,
     GrantsAreInForce
<1> QED
  BY <1>1, <1>2, <1>3, <1>4, <1>5, <1>6 DEF ProxyNext

LEMMA ProxyCorrect == ProxySpec => [](CallInv /\ ProxyInv)
  BY ProxyInitial, ProxyStep, CallsCorrect, PTL DEF ProxySpec

-----------------------------------------------------------------------------
(* The properties.                                                         *)

\* The types of the proxy's variables hold in every reachable state.
THEOREM ProxyTypeCorrect == ProxySpec => []ProxyTypeOK
<1>1. ProxyInv => ProxyTypeOK
  BY DEF ProxyInv, ProxyTypes, Connection, Closed, ProxyTypeOK
<1> QED
  BY <1>1, ProxyCorrect, PTL

\* What a call was granted is a set of capabilities.
LEMMA GrantsAreCapabilities ==
  ASSUME ProxyInv
  PROVE  granted \in [ToolRequests -> SUBSET Capability]
BY ProxyAssumption DEF ProxyInv, ProxyTypes

\* Connections stay within what their call started with, and a call starts
\* with one approval that was in force.
THEOREM ConnectionsWithinConsent == ProxySpec => []ConnectedWithinConsent
<1>1. ASSUME ProxyInv
      PROVE  ConnectedWithinConsent
  <2>1. ASSUME NEW k \in Conns, conns[k].at = "open"
        PROVE  \E cap \in granted[conns[k].call] : Speaks(cap, conns[k].to)
    <3>1. conns[k].call \in ToolRequests /\ conns[k].to \in Endpoint
      BY <1>1, <2>1 DEF ProxyInv, ProxyTypes, Connection, Closed
    <3>2. granted[conns[k].call] \in SUBSET Capability
      BY <1>1, <3>1, GrantsAreCapabilities
    <3>3. CheckTarget(granted[conns[k].call], conns[k].to)
      BY <1>1, <2>1 DEF ProxyInv, ConnsFollowGrants
    <3> QED
      BY <3>1, <3>2, <3>3, TargetsAreSpokenOf
  <2> QED
    BY <1>1, <2>1 DEF ConnectedWithinConsent, ProxyInv, GrantsAreInForce, Calls
<1> QED
  BY <1>1, ProxyCorrect, PTL
=============================================================================
