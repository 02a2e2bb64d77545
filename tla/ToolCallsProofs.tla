--------------------------- MODULE ToolCallsProofs ---------------------------
(***************************************************************************)
(* The invariants of a tool call's life, for every set of calls and        *)
(* skills, and that ToolCalls implements CallContract.                     *)
(***************************************************************************)
EXTENDS ToolCalls, TLAPS

-----------------------------------------------------------------------------
(* Types.                                                                  *)

\* What the operations on the socket's queues do, element by element.
LEMMA SequenceFacts ==
  ASSUME NEW S, NEW s \in Seq(S)
  PROVE  /\ \A e \in S : /\ Append(s, e) \in Seq(S)
                         /\ Len(Append(s, e)) = Len(s) + 1
                         /\ \A i \in 1 .. Len(s) : Append(s, e)[i] = s[i]
                         /\ Append(s, e)[Len(s) + 1] = e
         /\ s # << >> => /\ Head(s) \in S
                         /\ Head(s) = s[1]
                         /\ Len(s) \in Nat \ {0}
                         /\ Tail(s) \in Seq(S)
                         /\ Len(Tail(s)) = Len(s) - 1
                         /\ \A i \in 1 .. Len(s) - 1 : Tail(s)[i] = s[i + 1]
         /\ \A n \in 0 .. Len(s) : /\ SubSeq(s, 1, n) \in Seq(S)
                                   /\ Len(SubSeq(s, 1, n)) = n
                                   /\ \A i \in 1 .. n : SubSeq(s, 1, n)[i] = s[i]
         /\ Len(s) \in Nat
         /\ \A i \in 1 .. Len(s) : s[i] \in S
OBVIOUS

\* A response is a call.
LEMMA RespondType ==
  ASSUME TypeOK, NEW c \in Calls
  PROVE  Respond(c) \in Seq(Calls)
BY DEF Respond, TypeOK
\* Rejecting the pending calls changes nobody else.
LEMMA RejectedType ==
  ASSUME TypeOK
  PROVE  Rejected \in [Calls -> CallerStates]
BY DEF Rejected, TypeOK, CallerStates

\* The initial state has its types.
LEMMA TypeInit == Init => TypeOK
BY CallsAssumption DEF Init, TypeOK, CallerStates, HandlerStates, Calls

\* Steps of the plugin keep the types.
LEMMA TypePlugin ==
  ASSUME TypeOK, PluginNext
  PROVE  TypeOK'
<1> USE DEF TypeOK, plugin, socket, supervisor, world, CallerStates
<1>1. ASSUME NEW c \in Calls, Send(c)
      PROVE  TypeOK'
  BY <1>1 DEF Send
<1>2. ASSUME NEW c \in Calls, Refused(c)
      PROVE  TypeOK'
  BY <1>2 DEF Refused
<1>3. ASSUME NEW c \in Calls, Timeout(c)
      PROVE  TypeOK'
  BY <1>3 DEF Timeout
<1>4. CASE Receive
  <2>1. Head(responses) \in Calls /\ Tail(responses) \in Seq(Calls)
    BY <1>4, SequenceFacts DEF Receive
  <2> QED
    BY <1>4, <2>1 DEF Receive
<1>5. CASE ConnectionEnds
  BY <1>5, RejectedType DEF ConnectionEnds
<1>6. CASE ConnectionErrors
  BY <1>6 DEF ConnectionErrors
<1>7. CASE Close
  BY <1>7, RejectedType DEF Close
<1>8. CASE Reconnect
  BY <1>8, RejectedType DEF Reconnect
<1> QED
  BY <1>1, <1>2, <1>3, <1>4, <1>5, <1>6, <1>7, <1>8 DEF PluginNext

\* Steps of the supervisor and the user keep the types.
LEMMA TypeSupervisor ==
  ASSUME TypeOK, SupervisorNext
  PROVE  TypeOK'
<1> USE DEF TypeOK, plugin, socket, supervisor, world, HandlerStates
<1>0. /\ ToolRequests \subseteq Calls
      /\ AuditRequests \subseteq Calls
      /\ \A c \in ToolRequests : SkillOf[c] \in Skills
  BY CallsAssumption DEF Calls
<1>a. \A c \in Calls : Take(c) => requests' \in Seq(Calls)
  BY SequenceFacts DEF Take
<1>b. \A c \in Calls : Record(c) => /\ recorded' \in [Calls -> Nat]
                                   /\ unwritten' \subseteq Calls
  BY DEF Record
<1>c. \A c \in ToolRequests : TakeApproved(c) => cache' \subseteq Skills
  BY <1>0 DEF TakeApproved, Cached
<1>1. CASE HandleAudit
  <2>1. PICK c \in AuditRequests :
          /\ Take(c)
          /\ handler' = [handler EXCEPT ![c] = "done"]
          /\ Record(c)
          /\ responses' = Respond(c)
          /\ UNCHANGED << plugin, wire, up, cache, tokens, file, running, known >>
    BY <1>1 DEF HandleAudit
  <2>2. /\ requests' \in Seq(Calls) /\ responses' \in Seq(Calls)
        /\ recorded' \in [Calls -> Nat] /\ unwritten' \subseteq Calls
    BY <2>1, <1>0, <1>a, <1>b, RespondType
  <2> QED
    BY <2>1, <2>2, <1>0
<1>2. CASE HandleBadName
  BY <1>2, <1>0, <1>a, RespondType, CallsAssumption DEF HandleBadName
<1>3. CASE HandleUnapproved
  BY <1>3, <1>0, <1>a, <1>b, RespondType DEF HandleUnapproved
<1>4. CASE StartChild
  BY <1>4, <1>0, <1>a, <1>c DEF StartChild, TakeApproved
<1>5. CASE ConfigFails
  BY <1>5, <1>0, <1>a, <1>c DEF ConfigFails, TakeApproved
<1>6. CASE SpawnThrows
  BY <1>6, <1>0, <1>a, <1>b, <1>c, RespondType DEF SpawnThrows, TakeApproved
<1>7. ASSUME NEW c \in Calls, ChildEnds(c)
      PROVE  TypeOK'
  BY <1>7, <1>b, RespondType DEF ChildEnds
<1>8. ASSUME NEW c \in Calls, OrphanEnds(c)
      PROVE  TypeOK'
  BY <1>8 DEF OrphanEnds
<1>9. ASSUME NEW c \in Calls, TokenExpires(c)
      PROVE  TypeOK'
  BY <1>9 DEF TokenExpires
<1>10. CASE Crash
  <2>1. responses' \in Seq(Calls)
    BY <1>10, SequenceFacts DEF Crash
  <2>2. wire' \in {"up", "clientClosed", "serverClosed", "serverReset"}
    BY <1>10 DEF Crash
  <2>3. handler' \in [Calls -> HandlerStates]
    BY <1>10 DEF Crash
  <2>4. up' \in BOOLEAN /\ tokens' \subseteq Calls /\ cache' \subseteq Skills
    BY <1>10 DEF Crash
  <2>5. requests' = << >>
    BY <1>10 DEF Crash
  <2>6. requests' \in Seq(Calls)
    BY <2>5
  <2>7. UNCHANGED << plugin, world >>
    BY <1>10 DEF Crash
  <2> QED
    BY <2>1, <2>2, <2>3, <2>4, <2>6, <2>7
<1>11. CASE Restart
  BY <1>11 DEF Restart
<1> QED
  BY <1>1, <1>2, <1>3, <1>4, <1>5, <1>6, <1>7, <1>8, <1>9, <1>10, <1>11
     DEF SupervisorNext

\* The types survive approvals given and removed by the user.
LEMMA TypeUser ==
  ASSUME TypeOK, UserNext
  PROVE  TypeOK'
BY DEF UserNext, Approve, Remove, TypeOK, plugin, socket, supervisor

\* Every step keeps the types.
LEMMA TypeStep == TypeOK /\ [Next]_vars => TypeOK'
<1> SUFFICES ASSUME TypeOK, [Next]_vars
             PROVE  TypeOK'
  OBVIOUS
<1>1. CASE UNCHANGED vars
  BY <1>1 DEF vars, plugin, socket, supervisor, world, TypeOK
<1> QED
  BY <1>1, TypePlugin, TypeSupervisor, TypeUser DEF Next

\* Type invariance, for every set of calls, skills and names.
THEOREM TypeCorrect == Spec => []TypeOK
BY TypeInit, TypeStep, PTL DEF Spec
-----------------------------------------------------------------------------
(* The pending map.                                                        *)

\* No call is pending at first, and none waits.
LEMMA WaitingInit == Init => PendingIsWaiting
BY DEF Init, PendingIsWaiting, Waiting

\* Every step keeps the client's table and the callers together.
LEMMA WaitingStep == TypeOK /\ PendingIsWaiting /\ [Next]_vars => PendingIsWaiting'
<1> SUFFICES ASSUME TypeOK, PendingIsWaiting, [Next]_vars
             PROVE  PendingIsWaiting'
  OBVIOUS
<1> USE DEF PendingIsWaiting, Waiting
<1>0. caller \in [Calls -> CallerStates]
  BY DEF TypeOK
<1>1. ASSUME NEW c \in Calls, Send(c)
      PROVE  PendingIsWaiting'
  BY <1>0, <1>1 DEF Send
<1>2. ASSUME NEW c \in Calls, Refused(c)
      PROVE  PendingIsWaiting'
  BY <1>0, <1>2 DEF Refused
<1>3. ASSUME NEW c \in Calls, Timeout(c)
      PROVE  PendingIsWaiting'
  BY <1>0, <1>3 DEF Timeout
<1>4. CASE Receive
  BY <1>0, <1>4 DEF Receive
<1>5. CASE ConnectionEnds
  BY <1>0, <1>5 DEF ConnectionEnds, Rejected
<1>6. CASE ConnectionErrors
  BY <1>6 DEF ConnectionErrors
<1>7. CASE Close
  BY <1>0, <1>7 DEF Close, Rejected
<1>8. CASE Reconnect
  BY <1>0, <1>8 DEF Reconnect, Rejected
<1>9. CASE SupervisorNext \/ UserNext
  <2>1. UNCHANGED << pending, caller >>
    BY <1>9 DEF SupervisorNext, UserNext, HandleAudit, HandleBadName,
       HandleUnapproved, StartChild, ConfigFails, SpawnThrows, ChildEnds,
       OrphanEnds, TokenExpires, Crash, Restart, Approve, Remove, plugin
  <2> QED
    BY <2>1
<1>10. CASE UNCHANGED vars
  BY <1>10 DEF vars, plugin
<1> QED
  BY <1>1, <1>2, <1>3, <1>4, <1>5, <1>6, <1>7, <1>8, <1>9, <1>10
     DEF Next, PluginNext

\* The map of pending calls holds exactly the calls someone waits for.
THEOREM PendingCorrect == Spec => []PendingIsWaiting
<1>1. Init => TypeOK /\ PendingIsWaiting
  BY TypeInit, WaitingInit
<1>2. TypeOK /\ PendingIsWaiting /\ [Next]_vars => (TypeOK /\ PendingIsWaiting)'
  BY TypeStep, WaitingStep
<1> QED
  BY <1>1, <1>2, PTL DEF Spec

-----------------------------------------------------------------------------
(* Requests, handlers, records and responses.                              *)

\* A request on the socket is of a call somebody made and no handler has
\* seen, and it is there once.
RequestsAreNew ==
  /\ \A i \in 1 .. Len(requests) :
       /\ handler[requests[i]] = "none"
       /\ caller[requests[i]] # "idle"
  /\ \A i, j \in 1 .. Len(requests) : requests[i] = requests[j] => i = j

\* Without a call there is no handler.
IdleIsUnknown ==
  \A c \in Calls : caller[c] = "idle" => handler[c] = "none"

\* The log was given the entry of each call whose handler ended with an
\* answer, the refused names excepted, and of no other call: it has it once,
\* or it lost it.
Audited(c) == handler[c] \in {"done", "threw"} /\ c \notin BadNames

RecordsFollowHandlers ==
  \A c \in Calls :
    /\ c \in unwritten => Audited(c)
    /\ recorded[c] = IF Audited(c) /\ c \notin unwritten THEN 1 ELSE 0

\* Only such a handler answers.
AnswersFollowHandlers ==
  /\ \A i \in 1 .. Len(responses) : handler[responses[i]] \in {"done", "threw"}
  /\ \A c \in Calls : caller[c] = "answered" => handler[c] \in {"done", "threw"}

\* A refused name starts no child.
RefusedNeverRun ==
  \A c \in BadNames : handler[c] # "running"

ExchangeInv ==
  /\ RequestsAreNew
  /\ IdleIsUnknown
  /\ RefusedNeverRun
  /\ RecordsFollowHandlers
  /\ AnswersFollowHandlers

\* At first nothing is asked, handled, recorded or answered.
LEMMA ExchangeInit == Init => ExchangeInv
BY CallsAssumption
   DEF Init, ExchangeInv, RequestsAreNew, IdleIsUnknown, RecordsFollowHandlers, Audited,
   AnswersFollowHandlers, RefusedNeverRun, Calls

\* Steps of the plugin: no handler moves and nothing is recorded; a queue
\* grows by a call that was idle, or shrinks.
LEMMA ExchangePlugin ==
  ASSUME TypeOK, ExchangeInv, PluginNext
  PROVE  ExchangeInv'
<1> USE DEF ExchangeInv, RequestsAreNew, IdleIsUnknown, RecordsFollowHandlers,
            Audited, AnswersFollowHandlers, RefusedNeverRun, supervisor, world
<1>0. /\ caller \in [Calls -> CallerStates]
      /\ requests \in Seq(Calls) /\ responses \in Seq(Calls)
  BY DEF TypeOK
<1>1. ASSUME NEW c \in Calls, Send(c)
      PROVE  ExchangeInv'
  <2>1. requests' = Append(requests, c) /\ Len(requests) \in Nat
    BY <1>0, <1>1, SequenceFacts DEF Send
  <2>2. /\ Len(requests') = Len(requests) + 1
        /\ \A i \in 1 .. Len(requests) : requests'[i] = requests[i]
        /\ requests'[Len(requests) + 1] = c
        /\ \A i \in 1 .. Len(requests) : requests[i] \in Calls
    BY <1>0, <2>1, SequenceFacts
  <2>3. /\ caller[c] = "idle"
        /\ caller' = [caller EXCEPT ![c] = "waiting"]
        /\ UNCHANGED << handler, recorded, unwritten, responses >>
    BY <1>1 DEF Send
  <2>4. \A i \in 1 .. Len(requests') :
          \/ i \in 1 .. Len(requests) /\ requests'[i] = requests[i] /\ requests[i] # c
          \/ i = Len(requests) + 1 /\ requests'[i] = c
    BY <2>1, <2>2, <2>3
  <2>5. RequestsAreNew'
    <3>1. ASSUME NEW i \in 1 .. Len(requests')
          PROVE  handler'[requests'[i]] = "none" /\ caller'[requests'[i]] # "idle"
      <4>1. CASE requests'[i] = c
        BY <1>0, <2>3, <4>1
      <4>2. CASE i \in 1 .. Len(requests) /\ requests'[i] = requests[i]
        BY <1>0, <2>2, <2>3, <4>2
      <4> QED
        BY <2>4, <4>1, <4>2
    <3>2. ASSUME NEW i \in 1 .. Len(requests'), NEW j \in 1 .. Len(requests'),
                 requests'[i] = requests'[j]
          PROVE  i = j
      BY <2>4, <3>2
    <3> QED
      BY <3>1, <3>2
  <2> QED
    BY <1>0, <2>3, <2>5
<1>2. ASSUME NEW c \in Calls, Refused(c)
      PROVE  ExchangeInv'
  <2>1. \A i \in 1 .. Len(requests) : requests[i] \in Calls
    BY <1>0, SequenceFacts
  <2>2. /\ \E o \in {"refused", "timedOut"} : caller' = [caller EXCEPT ![c] = o]
        /\ UNCHANGED << handler, recorded, unwritten, requests, responses >>
    BY <1>2 DEF Refused, socket
  <2>3. RequestsAreNew'
    BY <1>0, <2>1, <2>2
  <2>4. IdleIsUnknown' /\ RefusedNeverRun' /\ RecordsFollowHandlers'
    BY <1>0, <2>2
  <2>5. AnswersFollowHandlers'
    BY <1>0, <2>2
  <2> QED
    BY <2>3, <2>4, <2>5
<1>3. ASSUME NEW c \in Calls, Timeout(c)
      PROVE  ExchangeInv'
  <2>1. \A i \in 1 .. Len(requests) : requests[i] \in Calls
    BY <1>0, SequenceFacts
  <2>2. /\ \E o \in {"refused", "timedOut"} : caller' = [caller EXCEPT ![c] = o]
        /\ UNCHANGED << handler, recorded, unwritten, requests, responses >>
    BY <1>3 DEF Timeout, socket
  <2>3. RequestsAreNew'
    BY <1>0, <2>1, <2>2
  <2>4. IdleIsUnknown' /\ RefusedNeverRun' /\ RecordsFollowHandlers'
    BY <1>0, <2>2
  <2>5. AnswersFollowHandlers'
    BY <1>0, <2>2
  <2> QED
    BY <2>3, <2>4, <2>5
<1>4. CASE Receive
  <2> DEFINE c == Head(responses)
  <2>1. /\ responses # << >> /\ responses' = Tail(responses)
        /\ UNCHANGED << requests, handler, recorded, unwritten >>
        /\ \/ caller' = [caller EXCEPT ![c] = "answered"]
           \/ caller' = caller
    BY <1>4 DEF Receive
  <2>2. /\ c \in Calls /\ c = responses[1] /\ Len(responses) \in Nat \ {0}
        /\ Len(responses') = Len(responses) - 1
        /\ \A i \in 1 .. Len(responses) - 1 : responses'[i] = responses[i + 1]
        /\ \A i \in 1 .. Len(requests) : requests[i] \in Calls
    BY <1>0, <2>1, SequenceFacts
  <2>3. handler[c] \in {"done", "threw"}
    BY <2>2
  <2> HIDE DEF c
  <2>4. RequestsAreNew'
    BY <1>0, <2>1, <2>2
  <2>5. AnswersFollowHandlers'
    BY <1>0, <2>1, <2>2, <2>3
  <2> QED
    BY <1>0, <2>1, <2>2, <2>3, <2>4, <2>5
<1>5. CASE ConnectionEnds \/ ConnectionErrors \/ Close \/ Reconnect
  <2>1. /\ caller' \in {Rejected, caller}
        /\ UNCHANGED << requests, handler, recorded, unwritten >>
        /\ responses' \in {responses, << >>}
    BY <1>5 DEF ConnectionEnds, ConnectionErrors, Close, Reconnect, socket
  <2>2. /\ \A i \in 1 .. Len(requests) : requests[i] \in Calls
        /\ \A c \in Calls : /\ caller'[c] = "idle" => caller[c] = "idle"
                            /\ caller'[c] = "answered" => caller[c] = "answered"
    BY <1>0, <2>1, SequenceFacts DEF Rejected
  <2>3. RequestsAreNew'
    BY <2>1, <2>2
  <2>4. AnswersFollowHandlers'
    BY <2>1, <2>2
  <2> QED
    BY <2>1, <2>2, <2>3, <2>4
<1> QED
  BY <1>1, <1>2, <1>3, <1>4, <1>5 DEF PluginNext
\* What Respond adds to the queue.
LEMMA RespondElements ==
  ASSUME TypeOK, NEW c \in Calls, NEW i \in 1 .. Len(Respond(c))
  PROVE  Respond(c)[i] = c \/ (i \in 1 .. Len(responses) /\ Respond(c)[i] = responses[i])
<1>1. responses \in Seq(Calls)
  BY DEF TypeOK
<1>2. CASE wire = "up"
  BY <1>1, <1>2, SequenceFacts DEF Respond
<1>3. CASE wire # "up"
  BY <1>3 DEF Respond
<1> QED
  BY <1>2, <1>3

\* Taking a request off the socket: its call is new to the supervisor, and
\* what stays on the socket are other calls.
LEMMA Taken ==
  ASSUME TypeOK, RequestsAreNew, NEW c \in Calls, Take(c), NEW h,
         caller' = caller, handler' = [handler EXCEPT ![c] = h]
  PROVE  /\ handler[c] = "none"
         /\ caller[c] # "idle"
         /\ RequestsAreNew'
<1>0. /\ requests \in Seq(Calls) /\ handler \in [Calls -> HandlerStates]
      /\ requests # << >> /\ c = Head(requests) /\ requests' = Tail(requests)
  BY DEF TypeOK, Take
<1>1. /\ Len(requests) \in Nat \ {0} /\ c = requests[1]
      /\ Len(requests') = Len(requests) - 1
      /\ \A i \in 1 .. Len(requests) - 1 : requests'[i] = requests[i + 1]
      /\ \A i \in 1 .. Len(requests) : requests[i] \in Calls
  BY <1>0, SequenceFacts
<1>2. \A i \in 1 .. Len(requests') :
        /\ i + 1 \in 1 .. Len(requests)
        /\ requests'[i] = requests[i + 1]
        /\ requests[i + 1] # c
  BY <1>1 DEF RequestsAreNew
<1>3. ASSUME NEW i \in 1 .. Len(requests')
      PROVE  handler'[requests'[i]] = "none" /\ caller'[requests'[i]] # "idle"
  BY <1>0, <1>1, <1>2 DEF RequestsAreNew
<1>4. ASSUME NEW i \in 1 .. Len(requests'), NEW j \in 1 .. Len(requests'),
             requests'[i] = requests'[j]
      PROVE  i = j
  BY <1>1, <1>2, <1>4 DEF RequestsAreNew
<1> QED
  BY <1>1, <1>3, <1>4 DEF RequestsAreNew

\* The common shape of the supervisor's steps: one handler moves to h, and
\* records and answers exactly if h says so.
LEMMA HandlerSteps ==
  ASSUME TypeOK, ExchangeInv, NEW c \in Calls, NEW h \in HandlerStates,
         handler[c] \in {"none", "running"}, caller[c] # "idle", RequestsAreNew',
         h = "running" => c \notin BadNames,
         caller' = caller, handler' = [handler EXCEPT ![c] = h],
         IF h \in {"done", "threw"} /\ c \notin BadNames
           THEN Record(c) ELSE UNCHANGED << recorded, unwritten >>,
         responses' = IF h \in {"done", "threw"} THEN Respond(c) ELSE responses
  PROVE  ExchangeInv'
<1>0. /\ handler \in [Calls -> HandlerStates] /\ recorded \in [Calls -> Nat]
      /\ responses \in Seq(Calls)
  BY DEF TypeOK
<1>1. \A i \in 1 .. Len(responses) : responses[i] \in Calls
  BY <1>0, SequenceFacts
<1>2. \A d \in Calls : handler'[d] = IF d = c THEN h ELSE handler[d]
  BY <1>0
<1>3. IdleIsUnknown'
  BY <1>2 DEF ExchangeInv, IdleIsUnknown
<1>4. RecordsFollowHandlers'
  <2>1. recorded[c] = 0 /\ c \notin unwritten
    BY DEF ExchangeInv, RecordsFollowHandlers, Audited
  <2>2. \A d \in Calls \ {c} : /\ recorded'[d] = recorded[d]
                               /\ d \in unwritten' <=> d \in unwritten
    BY <1>0 DEF Record
  <2>3. CASE h \in {"done", "threw"} /\ c \notin BadNames
    <3>1. \/ recorded'[c] = 1 /\ c \notin unwritten'
          \/ recorded'[c] = 0 /\ c \in unwritten'
      BY <1>0, <2>1, <2>3 DEF Record
    <3> QED
      BY <1>2, <2>2, <2>3, <3>1 DEF ExchangeInv, RecordsFollowHandlers, Audited
  <2>4. CASE ~(h \in {"done", "threw"} /\ c \notin BadNames)
    BY <1>2, <2>1, <2>2, <2>4 DEF ExchangeInv, RecordsFollowHandlers, Audited
  <2> QED
    BY <2>3, <2>4
<1>5. AnswersFollowHandlers'
  <2>1. \A d \in Calls :
          handler[d] \in {"done", "threw"} => handler'[d] \in {"done", "threw"}
    BY <1>2
  <2>2. ASSUME NEW i \in 1 .. Len(responses')
        PROVE  handler'[responses'[i]] \in {"done", "threw"}
    <3>1. CASE h \in {"done", "threw"}
      <4>1. responses' = Respond(c)
        BY <3>1
      <4>2. \/ responses'[i] = c
            \/ i \in 1 .. Len(responses) /\ responses'[i] = responses[i]
        BY <4>1, RespondElements
      <4> QED
        BY <1>1, <1>2, <2>1, <3>1, <4>2 DEF ExchangeInv, AnswersFollowHandlers
    <3>2. CASE h \notin {"done", "threw"}
      BY <1>1, <2>1, <3>2 DEF ExchangeInv, AnswersFollowHandlers
    <3> QED
      BY <3>1, <3>2
  <2> QED
    BY <2>1, <2>2 DEF ExchangeInv, AnswersFollowHandlers
<1>6. RefusedNeverRun'
  BY <1>2, CallsAssumption DEF ExchangeInv, RefusedNeverRun, Calls
<1> QED
  BY <1>3, <1>4, <1>5, <1>6 DEF ExchangeInv

\* The two instances: the handler ends with an answer, or without one.
LEMMA HandlerAnswers ==
  ASSUME TypeOK, ExchangeInv, NEW c \in Calls, NEW h \in {"done", "threw"},
         handler[c] \in {"none", "running"}, caller[c] # "idle", RequestsAreNew',
         caller' = caller, handler' = [handler EXCEPT ![c] = h],
         IF c \in BadNames THEN UNCHANGED << recorded, unwritten >> ELSE Record(c),
         responses' = Respond(c)
  PROVE  ExchangeInv'
<1>1. /\ IF h \in {"done", "threw"} /\ c \notin BadNames
           THEN Record(c) ELSE UNCHANGED << recorded, unwritten >>
      /\ responses' = IF h \in {"done", "threw"} THEN Respond(c) ELSE responses
      /\ h # "running" /\ h \in HandlerStates
  BY DEF HandlerStates
<1> QED
  BY <1>1, HandlerSteps

\* A handler that starts a child or fails before one keeps the exchange.
LEMMA HandlerMoves ==
  ASSUME TypeOK, ExchangeInv, NEW c \in Calls \ BadNames, NEW h \in {"running", "failed"},
         handler[c] \in {"none", "running"}, caller[c] # "idle", RequestsAreNew',
         caller' = caller, handler' = [handler EXCEPT ![c] = h],
         UNCHANGED << recorded, unwritten, responses >>
  PROVE  ExchangeInv'
<1>1. /\ IF h \in {"done", "threw"} /\ c \notin BadNames
           THEN Record(c) ELSE UNCHANGED << recorded, unwritten >>
      /\ responses' = IF h \in {"done", "threw"} THEN Respond(c) ELSE responses
      /\ h \in HandlerStates
  BY DEF HandlerStates
<1> QED
  BY <1>1, HandlerSteps

\* A step that leaves calls, queues, handlers and records alone.
LEMMA ExchangeUnchanged ==
  ASSUME ExchangeInv,
         UNCHANGED << caller, requests, responses, handler, recorded, unwritten >>
  PROVE  ExchangeInv'
BY DEF ExchangeInv, RequestsAreNew, IdleIsUnknown, RecordsFollowHandlers, Audited,
   AnswersFollowHandlers, RefusedNeverRun

\* Steps of the supervisor keep the exchange.
LEMMA ExchangeSupervisor ==
  ASSUME TypeOK, ExchangeInv, SupervisorNext
  PROVE  ExchangeInv'
<1>0. /\ ToolRequests \subseteq Calls /\ AuditRequests \subseteq Calls
      /\ BadNames \subseteq ToolRequests
      /\ \A c \in AuditRequests : c \notin BadNames
      /\ RequestsAreNew
  BY CallsAssumption DEF Calls, ExchangeInv
<1>1. CASE HandleAudit
  <2>1. PICK c \in AuditRequests :
          /\ Take(c) /\ caller' = caller
          /\ handler' = [handler EXCEPT ![c] = "done"]
          /\ Record(c) /\ responses' = Respond(c)
    BY <1>1 DEF HandleAudit, plugin
  <2>2. handler[c] = "none" /\ caller[c] # "idle" /\ RequestsAreNew'
    BY <1>0, <2>1, Taken
  <2> QED
    BY <1>0, <2>1, <2>2, HandlerAnswers
<1>2. CASE HandleBadName
  <2>1. PICK c \in BadNames :
          /\ Take(c) /\ caller' = caller
          /\ handler' = [handler EXCEPT ![c] = "done"]
          /\ UNCHANGED << recorded, unwritten >> /\ responses' = Respond(c)
    BY <1>2 DEF HandleBadName, plugin, world
  <2>2. handler[c] = "none" /\ caller[c] # "idle" /\ RequestsAreNew'
    BY <1>0, <2>1, Taken
  <2> QED
    BY <1>0, <2>1, <2>2, HandlerAnswers
<1>3. CASE HandleUnapproved
  <2>1. PICK c \in ToolRequests \ BadNames :
          /\ Take(c) /\ caller' = caller
          /\ handler' = [handler EXCEPT ![c] = "done"]
          /\ Record(c) /\ responses' = Respond(c)
    BY <1>3 DEF HandleUnapproved, plugin
  <2>2. handler[c] = "none" /\ caller[c] # "idle" /\ RequestsAreNew'
    BY <1>0, <2>1, Taken
  <2> QED
    BY <1>0, <2>1, <2>2, HandlerAnswers
<1>4. CASE StartChild
  <2>1. PICK c \in ToolRequests \ BadNames :
          /\ Take(c) /\ caller' = caller
          /\ handler' = [handler EXCEPT ![c] = "running"]
          /\ UNCHANGED << recorded, unwritten, responses >>
    BY <1>4 DEF StartChild, TakeApproved, plugin
  <2>2. handler[c] = "none" /\ caller[c] # "idle" /\ RequestsAreNew'
    BY <1>0, <2>1, Taken
  <2> QED
    BY <1>0, <2>1, <2>2, HandlerMoves
<1>5. CASE ConfigFails
  <2>1. PICK c \in ToolRequests \ BadNames :
          /\ Take(c) /\ caller' = caller
          /\ handler' = [handler EXCEPT ![c] = "failed"]
          /\ UNCHANGED << recorded, unwritten, responses >>
    BY <1>5 DEF ConfigFails, TakeApproved, plugin, world
  <2>2. handler[c] = "none" /\ caller[c] # "idle" /\ RequestsAreNew'
    BY <1>0, <2>1, Taken
  <2> QED
    BY <1>0, <2>1, <2>2, HandlerMoves
<1>6. CASE SpawnThrows
  <2>1. PICK c \in ToolRequests \ BadNames :
          /\ Take(c) /\ caller' = caller
          /\ handler' = [handler EXCEPT ![c] = "threw"]
          /\ Record(c) /\ responses' = Respond(c)
    BY <1>6 DEF SpawnThrows, TakeApproved, plugin
  <2>2. handler[c] = "none" /\ caller[c] # "idle" /\ RequestsAreNew'
    BY <1>0, <2>1, Taken
  <2> QED
    BY <1>0, <2>1, <2>2, HandlerAnswers
<1>7. ASSUME NEW c \in Calls, ChildEnds(c)
      PROVE  ExchangeInv'
  <2>1. /\ handler[c] = "running" /\ caller' = caller /\ requests' = requests
        /\ handler' = [handler EXCEPT ![c] = "done"]
        /\ Record(c) /\ responses' = Respond(c)
    BY <1>7 DEF ChildEnds, plugin
  <2>2. c \notin BadNames
    BY <2>1 DEF ExchangeInv, RefusedNeverRun
  <2>3. caller[c] # "idle"
    BY <2>1 DEF ExchangeInv, IdleIsUnknown
  <2>4. RequestsAreNew'
    BY <1>0, <2>1 DEF RequestsAreNew, TypeOK
  <2> QED
    BY <2>1, <2>2, <2>3, <2>4, HandlerAnswers
<1>8. CASE Crash
  <2>1. /\ requests' = << >> /\ UNCHANGED << caller, recorded, unwritten >>
        /\ handler' = [c \in Calls |->
                         IF handler[c] = "running" THEN "lost" ELSE handler[c]]
        /\ \E n \in 0 .. Len(responses) : responses' = SubSeq(responses, 1, n)
    BY <1>8 DEF Crash, plugin, world
  <2>2. \A c \in Calls : handler'[c] \in {"done", "threw"} <=>
                         handler[c] \in {"done", "threw"}
    BY <2>1 DEF TypeOK
  <2>3. \A i \in 1 .. Len(responses') :
          i \in 1 .. Len(responses) /\ responses'[i] = responses[i]
                                   /\ responses[i] \in Calls
    BY <2>1, SequenceFacts DEF TypeOK
  <2>4. RequestsAreNew'
    BY <2>1 DEF RequestsAreNew
  <2>5. IdleIsUnknown'
    BY <2>1 DEF ExchangeInv, IdleIsUnknown
  <2>6. RecordsFollowHandlers'
    BY <2>1, <2>2 DEF ExchangeInv, RecordsFollowHandlers, Audited
  <2>7. AnswersFollowHandlers'
    BY <2>1, <2>2, <2>3 DEF ExchangeInv, AnswersFollowHandlers
  <2>8. RefusedNeverRun'
    BY <1>0, <2>1 DEF ExchangeInv, RefusedNeverRun
  <2> QED
    BY <2>4, <2>5, <2>6, <2>7, <2>8 DEF ExchangeInv
<1>9. ASSUME NEW c \in Calls, OrphanEnds(c) \/ TokenExpires(c)
      PROVE  ExchangeInv'
  BY <1>9, ExchangeUnchanged
     DEF OrphanEnds, TokenExpires, plugin, socket, supervisor, world
<1>10. CASE Restart
  BY <1>10, ExchangeUnchanged DEF Restart, plugin, socket
<1> QED
  BY <1>1, <1>2, <1>3, <1>4, <1>5, <1>6, <1>7, <1>8, <1>9, <1>10 DEF SupervisorNext
\* Every step keeps the exchange.
LEMMA ExchangeStep == TypeOK /\ ExchangeInv /\ [Next]_vars => ExchangeInv'
<1> SUFFICES ASSUME TypeOK, ExchangeInv, [Next]_vars
             PROVE  ExchangeInv'
  OBVIOUS
<1>1. CASE UserNext
  BY <1>1, ExchangeUnchanged DEF UserNext, Approve, Remove, plugin, socket, supervisor
<1>2. CASE UNCHANGED vars
  BY <1>2, ExchangeUnchanged DEF vars, plugin, socket, supervisor, world
<1> QED
  BY <1>1, <1>2, ExchangePlugin, ExchangeSupervisor DEF Next

\* The invariant of the exchange, from which the next theorems follow.
THEOREM ExchangeCorrect == Spec => [](TypeOK /\ ExchangeInv)
<1>1. Init => TypeOK /\ ExchangeInv
  BY TypeInit, ExchangeInit
<1>2. TypeOK /\ ExchangeInv /\ [Next]_vars => (TypeOK /\ ExchangeInv)'
  BY TypeStep, ExchangeStep
<1> QED
  BY <1>1, <1>2, PTL DEF Spec

\* An answer implies that the log was given the entry of the call: it has it,
\* or its one write failed; and no call has two entries.
THEOREM RecordsCorrect == Spec => []AnsweredMeansAudited
<1>1. TypeOK /\ ExchangeInv => AnsweredMeansAudited
  BY DEF ExchangeInv, RecordsFollowHandlers, Audited, AnswersFollowHandlers,
     AnsweredMeansAudited
<1> QED
  BY <1>1, ExchangeCorrect, PTL

-----------------------------------------------------------------------------
(* Tokens and approvals.                                                   *)

\* Every step leaves tokens to running children only.
LEMMA TokenStep ==
  TypeOK /\ ExchangeInv /\ TokenDiesWithChild /\ [Next]_vars => TokenDiesWithChild'
<1> SUFFICES ASSUME TypeOK, ExchangeInv, TokenDiesWithChild, [Next]_vars
             PROVE  TokenDiesWithChild'
  OBVIOUS
<1>0. /\ handler \in [Calls -> HandlerStates] /\ tokens \subseteq Calls
      /\ ToolRequests \subseteq Calls /\ AuditRequests \subseteq Calls
      /\ BadNames \subseteq ToolRequests
  BY CallsAssumption DEF TypeOK, Calls
<1>t. ASSUME NEW c \in Calls, Take(c)
      PROVE  up /\ c \notin tokens
  <2>1. requests \in Seq(Calls) /\ requests # << >> /\ c = Head(requests) /\ up
    BY <1>t DEF Take, TypeOK
  <2>2. handler[c] = "none"
    BY <2>1, SequenceFacts DEF ExchangeInv, RequestsAreNew
  <2> QED
    BY <2>1, <2>2 DEF TokenDiesWithChild
<1>1. CASE HandleAudit
  BY <1>0, <1>1, <1>t DEF HandleAudit, TokenDiesWithChild
<1>2. CASE HandleBadName
  BY <1>0, <1>2, <1>t DEF HandleBadName, TokenDiesWithChild, world
<1>3. CASE HandleUnapproved
  BY <1>0, <1>3, <1>t DEF HandleUnapproved, TokenDiesWithChild
<1>4. CASE StartChild
  BY <1>0, <1>4, <1>t DEF StartChild, TakeApproved, TokenDiesWithChild
<1>5. CASE ConfigFails
  BY <1>0, <1>5, <1>t DEF ConfigFails, TakeApproved, TokenDiesWithChild, world
<1>6. CASE SpawnThrows
  BY <1>0, <1>6, <1>t DEF SpawnThrows, TakeApproved, TokenDiesWithChild
<1>7. ASSUME NEW c \in Calls, ChildEnds(c) \/ OrphanEnds(c) \/ TokenExpires(c)
      PROVE  TokenDiesWithChild'
  BY <1>0, <1>7 DEF ChildEnds, OrphanEnds, TokenExpires, TokenDiesWithChild,
     supervisor, world
<1>8. CASE Crash
  BY <1>8 DEF Crash, TokenDiesWithChild
<1>9. CASE Restart
  BY <1>9 DEF Restart, TokenDiesWithChild
<1>10. CASE PluginNext \/ UserNext \/ UNCHANGED vars
  <2>1. UNCHANGED << up, handler, tokens, running >>
    BY <1>10 DEF PluginNext, Send, Refused, Receive, Timeout, ConnectionEnds,
       ConnectionErrors, Close, Reconnect, UserNext, Approve, Remove, vars,
       supervisor, world
  <2> QED
    BY <2>1 DEF TokenDiesWithChild
<1> QED
  BY <1>1, <1>2, <1>3, <1>4, <1>5, <1>6, <1>7, <1>8, <1>9, <1>10
     DEF Next, SupervisorNext

\* A proxy token lives no longer than its child and its supervisor.
THEOREM TokensCorrect == Spec => []TokenDiesWithChild
<1>1. Init => TokenDiesWithChild
  BY DEF Init, TokenDiesWithChild
<1> QED
  BY <1>1, TokenStep, ExchangeCorrect, PTL DEF Spec

\* Whatever the supervisor reads or holds of an approval was known since its
\* start, and a supervisor that is down runs no handler.
ApprovalInv ==
  /\ OnlyKnownSkillsRun
  /\ file \cup cache \subseteq known
  /\ ~up => \A c \in ToolRequests : handler[c] # "running"

\* Every step keeps running children to skills that were approved.
LEMMA ApprovalStep ==
  TypeOK /\ ApprovalInv /\ [Next]_vars => ApprovalInv'
<1> SUFFICES ASSUME TypeOK, ApprovalInv, [Next]_vars
             PROVE  ApprovalInv'
  OBVIOUS
<1> USE DEF ApprovalInv, OnlyKnownSkillsRun
<1>0. /\ handler \in [Calls -> HandlerStates]
      /\ ToolRequests \subseteq Calls /\ AuditRequests \subseteq Calls
      /\ BadNames \subseteq ToolRequests
  BY CallsAssumption DEF TypeOK, Calls
<1>1. CASE HandleAudit
  BY <1>0, <1>1 DEF HandleAudit, Take
<1>2. CASE HandleBadName
  BY <1>0, <1>2 DEF HandleBadName, Take, world
<1>3. CASE HandleUnapproved
  BY <1>0, <1>3 DEF HandleUnapproved, Take
<1>4. CASE StartChild
  BY <1>0, <1>4 DEF StartChild, TakeApproved, Take, Approved, Cached
<1>5. CASE ConfigFails
  BY <1>0, <1>5 DEF ConfigFails, TakeApproved, Take, Approved, Cached, world
<1>6. CASE SpawnThrows
  BY <1>0, <1>6 DEF SpawnThrows, TakeApproved, Take, Approved, Cached
<1>7. ASSUME NEW c \in Calls, ChildEnds(c) \/ OrphanEnds(c) \/ TokenExpires(c)
      PROVE  ApprovalInv'
  BY <1>0, <1>7 DEF ChildEnds, OrphanEnds, TokenExpires, supervisor, world
<1>8. CASE Crash
  BY <1>0, <1>8 DEF Crash, world
<1>9. CASE Restart
  BY <1>9 DEF Restart
<1>10. CASE UserNext
  BY <1>10 DEF UserNext, Approve, Remove, supervisor
<1>11. CASE PluginNext \/ UNCHANGED vars
  <2>1. UNCHANGED << supervisor, world >>
    BY <1>11 DEF PluginNext, Send, Refused, Receive, Timeout, ConnectionEnds,
       ConnectionErrors, Close, Reconnect, vars
  <2> QED
    BY <2>1 DEF supervisor, world
<1> QED
  BY <1>1, <1>2, <1>3, <1>4, <1>5, <1>6, <1>7, <1>8, <1>9, <1>10, <1>11
     DEF Next, SupervisorNext

\* A skill runs only under an approval that existed at the supervisor's start
\* or was written since.
THEOREM ApprovalsCorrect == Spec => []OnlyKnownSkillsRun
<1>1. Init => TypeOK /\ ApprovalInv
  BY TypeInit DEF Init, ApprovalInv, OnlyKnownSkillsRun, Calls
<1>2. TypeOK /\ ApprovalInv /\ [Next]_vars => (TypeOK /\ ApprovalInv)'
  BY TypeStep, ApprovalStep
<1>3. ApprovalInv => OnlyKnownSkillsRun
  BY DEF ApprovalInv
<1> QED
  BY <1>1, <1>2, <1>3, PTL DEF Spec
-----------------------------------------------------------------------------
(* The contract.                                                           *)

\* The abstract state: what each caller knows, and the calls in the log.
Status == [c \in Calls |-> Outcome(caller[c])]
Logged == { c \in Calls : recorded[c] > 0 }

\* The initial states are initial states of the contract.
LEMMA ContractInit == Init => Contract!Init
BY DEF Init, Contract!Init, Outcome

\* A step of the supervisor that gives the log an entry audits a call.
LEMMA RecordStep ==
  ASSUME TypeOK, ExchangeInv, NEW c \in Calls, handler[c] \in {"none", "running"},
         caller[c] # "idle", caller' = caller, Record(c)
  PROVE  Contract!Audit(c)
<1>1. recorded \in [Calls -> Nat] /\ caller \in [Calls -> CallerStates]
  BY DEF TypeOK
<1>2. recorded[c] = 0 /\ c \notin unwritten
  BY DEF ExchangeInv, RecordsFollowHandlers, Audited
<1>3. Status[c] # "idle"
  BY <1>1 DEF Status, Outcome
<1>4. c \notin Logged
  BY <1>2 DEF Logged
<1>5. \/ Logged' = Logged \cup {c} /\ unwritten' = unwritten
      \/ unwritten' = unwritten \cup {c} /\ Logged' = Logged
  BY <1>1, <1>2 DEF Logged, Record
<1>6. Status' = Status
  BY DEF Status
<1> QED
  BY <1>2, <1>3, <1>4, <1>5, <1>6 DEF Contract!Audit, Status, Logged

\* A step that tells no caller anything and writes no entry.
LEMMA ContractStutter ==
  ASSUME UNCHANGED << caller, recorded, unwritten >>
  PROVE  UNCHANGED Contract!cvars
BY DEF Contract!cvars

\* The steps of the plugin tell a caller what the contract allows.
LEMMA ContractPlugin ==
  ASSUME TypeOK, PendingIsWaiting, ExchangeInv, PluginNext
  PROVE  [Contract!Next]_Contract!cvars
<1>0. caller \in [Calls -> CallerStates] /\ pending \subseteq Calls
  BY DEF TypeOK
<1>w. \A c \in Calls : c \in pending <=> caller[c] = "waiting"
  BY DEF PendingIsWaiting, Waiting
<1>l. recorded' = recorded => Logged' = Logged
  BY DEF Logged
<1>u. recorded' = recorded /\ unwritten' = unwritten
  BY DEF PluginNext, Send, Refused, Timeout, Receive, ConnectionEnds, ConnectionErrors,
     Close, Reconnect, world
<1>1. ASSUME NEW c \in Calls, Send(c)
      PROVE  Contract!Next
  <2>1. Status[c] = "idle" /\ Status' = [Status EXCEPT ![c] = "waiting"]
    BY <1>0, <1>1 DEF Send, Status, Outcome
  <2>2. Logged' = Logged
    BY <1>1, <1>l, <1>u DEF Send, world
  <2>3. Contract!Request(c)
    BY <1>u, <2>1, <2>2 DEF Contract!Request, Status, Logged
  <2> QED
    BY <2>3 DEF Contract!Next
<1>2. ASSUME NEW c \in Calls, Refused(c)
      PROVE  Contract!Next
  <2>1. Status[c] = "idle" /\ Status' = [Status EXCEPT ![c] = "failed"]
    BY <1>0, <1>2 DEF Refused, Status, Outcome
  <2>2. Logged' = Logged
    BY <1>2, <1>l, <1>u DEF Refused, world
  <2>3. Contract!Request(c)
    BY <1>u, <2>1, <2>2 DEF Contract!Request, Status, Logged
  <2> QED
    BY <2>3 DEF Contract!Next
<1>3. ASSUME NEW c \in Calls, Timeout(c)
      PROVE  Contract!Next
  <2>1. /\ Status[c] = "waiting"
        /\ Status' = [d \in Calls |-> IF d \in {c} THEN "failed" ELSE Status[d]]
    BY <1>0, <1>w, <1>3 DEF Timeout, Status, Outcome
  <2>2. Logged' = Logged
    BY <1>3, <1>l, <1>u DEF Timeout, world
  <2>3. Contract!Fail({c})
    BY <1>u, <2>1, <2>2 DEF Contract!Fail, Status, Logged
  <2> QED
    BY <2>3 DEF Contract!Next
<1>4. CASE Receive
  <2> DEFINE c == Head(responses)
  <2>1. responses \in Seq(Calls) /\ responses # << >> /\ recorded' = recorded
    BY <1>4 DEF TypeOK, Receive, world
  <2>2. c \in Calls /\ handler[c] \in {"done", "threw"}
    BY <2>1, SequenceFacts DEF ExchangeInv, AnswersFollowHandlers
  <2>3. c \in Logged \cup unwritten \cup BadNames
    BY <2>2 DEF ExchangeInv, RecordsFollowHandlers, Audited, Logged
  <2>4. CASE c \in pending
    <3>1. caller' = [caller EXCEPT ![c] = "answered"]
      BY <1>4, <2>4 DEF Receive
    <3>2. Status[c] = "waiting" /\ Status' = [Status EXCEPT ![c] = "answered"]
      BY <1>0, <1>w, <2>2, <2>4, <3>1 DEF Status, Outcome
    <3>3. Contract!Answer(c)
      BY <1>l, <1>u, <2>1, <2>3, <3>2 DEF Contract!Answer, Status, Logged
    <3> QED
      BY <2>2, <3>3 DEF Contract!Next
  <2>5. CASE c \notin pending
    BY <1>4, <2>5, <1>u, ContractStutter DEF Receive
  <2> QED
    BY <2>4, <2>5
<1>5. CASE ConnectionErrors
  BY <1>5, <1>u, ContractStutter DEF ConnectionErrors
<1>6. CASE ConnectionEnds \/ Close \/ Reconnect
  <2>1. caller' = Rejected /\ recorded' = recorded
    BY <1>6 DEF ConnectionEnds, Close, Reconnect, world
  <2>2. CASE pending = {}
    <3>1. caller' = caller
      BY <1>0, <2>1, <2>2 DEF Rejected
    <3> QED
      BY <1>u, <3>1, ContractStutter
  <2>3. CASE pending # {}
    <3>1. /\ \A c \in pending : Status[c] = "waiting"
          /\ Status' = [c \in Calls |-> IF c \in pending THEN "failed" ELSE Status[c]]
      BY <1>0, <1>w, <2>1 DEF Rejected, Status, Outcome
    <3>2. Contract!Fail(pending)
      BY <1>l, <1>u, <2>1, <2>3, <3>1 DEF Contract!Fail, Status, Logged
    <3> QED
      BY <1>0, <3>2 DEF Contract!Next
  <2> QED
    BY <2>2, <2>3
<1> QED
  BY <1>1, <1>2, <1>3, <1>4, <1>5, <1>6 DEF PluginNext

\* The steps of the supervisor record a call or leave the abstract state alone.
LEMMA ContractSupervisor ==
  ASSUME TypeOK, ExchangeInv, SupervisorNext
  PROVE  [Contract!Next]_Contract!cvars
<1>0. /\ ToolRequests \subseteq Calls /\ AuditRequests \subseteq Calls
      /\ BadNames \subseteq ToolRequests
  BY CallsAssumption DEF Calls
<1>r. ASSUME NEW c \in Calls, handler[c] \in {"none", "running"},
             caller[c] # "idle", caller' = caller, Record(c)
      PROVE  Contract!Next
  BY <1>r, RecordStep DEF Contract!Next
<1>t. ASSUME NEW c \in Calls, Take(c)
      PROVE  handler[c] = "none" /\ caller[c] # "idle"
  <2>1. requests \in Seq(Calls) /\ requests # << >> /\ c = Head(requests)
    BY <1>t DEF Take, TypeOK
  <2> QED
    BY <2>1, SequenceFacts DEF ExchangeInv, RequestsAreNew
<1>1. CASE HandleAudit
  BY <1>0, <1>1, <1>r, <1>t DEF HandleAudit, plugin
<1>2. CASE HandleUnapproved
  BY <1>0, <1>2, <1>r, <1>t DEF HandleUnapproved, plugin
<1>3. CASE SpawnThrows
  BY <1>0, <1>3, <1>r, <1>t DEF SpawnThrows, TakeApproved, plugin
<1>4. ASSUME NEW c \in Calls, ChildEnds(c)
      PROVE  Contract!Next
  <2>1. /\ handler[c] = "running" /\ caller' = caller /\ Record(c)
        /\ caller[c] # "idle"
    BY <1>4 DEF ChildEnds, plugin, ExchangeInv, IdleIsUnknown
  <2> QED
    BY <2>1, <1>r
<1>5. CASE \/ HandleBadName \/ StartChild \/ ConfigFails \/ Crash \/ Restart
           \/ \E c \in Calls : OrphanEnds(c) \/ TokenExpires(c)
  BY <1>5, ContractStutter DEF HandleBadName, StartChild, ConfigFails, Crash, Restart,
     OrphanEnds, TokenExpires, plugin, world
<1> QED
  BY <1>1, <1>2, <1>3, <1>4, <1>5 DEF SupervisorNext

\* Every step is a step of the contract or leaves it alone.
LEMMA ContractStep ==
  TypeOK /\ PendingIsWaiting /\ ExchangeInv /\ [Next]_vars
    => [Contract!Next]_Contract!cvars
<1> SUFFICES ASSUME TypeOK, PendingIsWaiting, ExchangeInv, [Next]_vars
             PROVE  [Contract!Next]_Contract!cvars
  OBVIOUS
<1>1. CASE UserNext \/ UNCHANGED vars
  BY <1>1, ContractStutter DEF UserNext, Approve, Remove, vars, plugin, world
<1> QED
  BY <1>1, ContractPlugin, ContractSupervisor DEF Next

\* The exchange between client and supervisor implements the contract of a
\* call, for every set of calls.
THEOREM ContractKept == Spec => KeepsContract
BY ContractInit, ContractStep, ExchangeCorrect, PendingCorrect, PTL
   DEF Spec, KeepsContract, Contract!Spec
=============================================================================
