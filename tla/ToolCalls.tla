----------------------------- MODULE ToolCalls -----------------------------
(***************************************************************************)
(* The life of a tool call, from the plugin's SupervisorClient             *)
(* (src/plugin/ipc.ts) over the unix socket to the supervisor              *)
(* (src/supervisor/main.ts, core.ts), which looks the approval up          *)
(* (approvals.ts), runs the skill in a sandboxed child (worker.ts) under a *)
(* proxy token (proxy.ts: TokenRegistry), records the outcome in the audit *)
(* log and answers.                                                        *)
(*                                                                         *)
(* Both programs run JavaScript on one thread, so a handler is one step    *)
(* from the event that starts it to the point where it waits.  In the      *)
(* supervisor that point is the child's `close` event only: the lookup,    *)
(* the sandbox config, the token and spawn() follow the request without a  *)
(* pause, and revoke, audit record and answer follow `close` likewise.     *)
(*                                                                         *)
(* The supervisor can die at any moment: it is killed, or it throws where  *)
(* nothing catches (an `error` event of a child or of its stdin has no     *)
(* listener).  Its children live on.  A gateway process connects once and  *)
(* never again.                                                            *)
(*                                                                         *)
(* A write of the audit log may fail.  log() swallows the error (audit.ts) *)
(* and the handler goes on as if the entry were there.  The log's files    *)
(* are AuditLog's; here an entry is written or it is not.                  *)
(***************************************************************************)
EXTENDS Integers, Sequences

CONSTANTS
  ToolRequests,    \* calls of SupervisorClient.call()
  AuditRequests,   \* calls of SupervisorClient.recordAudit()
  Skills,          \* the installed skills
  SkillOf,         \* SkillOf[c]: the skill a tool call names
  BadNames         \* tool calls whose skill or tool name is refused

Calls == ToolRequests \cup AuditRequests

ASSUME CallsAssumption ==
  /\ ToolRequests \cap AuditRequests = {}
  /\ SkillOf \in [ToolRequests -> Skills]
  /\ BadNames \subseteq ToolRequests

VARIABLES
  (* the plugin: SupervisorClient *)
  conn,        \* this.conn: "open", "dead" after its end, "null"
  pending,     \* this.pending
  caller,      \* what became of each call for the one who made it
  (* the socket *)
  wire,        \* "up", "clientClosed", "serverClosed", or "serverReset"
  requests,    \* lines sent and not yet read by the supervisor
  responses,   \* lines sent and not yet read by the client
  (* the supervisor *)
  up,          \* it runs
  handler,     \* the handler of each call: where it is, how it ended
  cache,       \* ApprovalStore.cache: skills it holds an approval of
  tokens,      \* TokenRegistry.entries, by the call the token was issued for
  (* files and processes *)
  file,        \* skills whose approval file exists
  running,     \* calls whose sandboxed process runs
  recorded,    \* audit entries per call
  unwritten,   \* history: calls whose entry could not be written
  known        \* history: skills approved at or since the supervisor's start

plugin     == << conn, pending, caller >>
socket     == << wire, requests, responses >>
supervisor == << up, handler, cache, tokens >>
world      == << file, running, recorded, unwritten, known >>

vars == << plugin, socket, supervisor, world >>

CallerStates ==
  {"idle", "waiting", "answered", "refused", "timedOut", "dropped"}

HandlerStates ==
  { "none",       \* no request for the call has been read
    "running",    \* it awaits the `close` event of the child
    "done",       \* it answered after the child's end, or without a child
    "threw",      \* spawn() threw: it answered, but revoked no token
    "failed",     \* it threw: no answer and no entry
    "lost" }      \* it died with the supervisor: no answer and no entry

Init ==
  /\ conn = "open"
  /\ wire = "up"
  /\ up = TRUE
  /\ pending = {}
  /\ caller = [c \in Calls |-> "idle"]
  /\ requests = << >>
  /\ responses = << >>
  /\ handler = [c \in Calls |-> "none"]
  /\ file \in SUBSET Skills
  /\ cache = file
  /\ known = file
  /\ tokens = {}
  /\ running = {}
  /\ recorded = [c \in Calls |-> 0]
  /\ unwritten = {}

-----------------------------------------------------------------------------
(* The plugin's side.                                                      *)

Waiting == { c \in Calls : caller[c] = "waiting" }

\* call() and recordAudit() on an open connection: a timer is armed, the call
\* enters the map and the line goes out.
Send(c) ==
  /\ caller[c] = "idle"
  /\ conn = "open"
  /\ wire = "up"
  /\ pending' = pending \cup {c}
  /\ caller' = [caller EXCEPT ![c] = "waiting"]
  /\ requests' = Append(requests, c)
  /\ UNCHANGED << conn, wire, responses, supervisor, world >>

\* The same without a usable connection.  With this.conn null the call throws;
\* on a socket that has ended or whose peer is gone the write reports an
\* error, which takes the call out of the map again.  A broken pipe is also an
\* `error` event, and that sets this.conn to null.
Refused(c) ==
  /\ caller[c] = "idle"
  /\ conn # "open" \/ wire # "up"
  /\ caller' = [caller EXCEPT ![c] = "refused"]
  /\ conn' \in IF conn = "dead" THEN {"dead", "null"} ELSE {"null"}
  /\ UNCHANGED << pending, socket, supervisor, world >>

\* Mutant of Receive: a late answer reaches a caller that was given up.
ReceiveLate ==
  /\ conn = "open"
  /\ responses # << >>
  /\ pending' = pending \ {Head(responses)}
  /\ caller' = [caller EXCEPT ![Head(responses)] = "answered"]
  /\ responses' = Tail(responses)
  /\ UNCHANGED << conn, wire, requests, supervisor, world >>

\* A response line: the call it names is resolved if it still waits; a late
\* answer is ignored.
Receive ==
  /\ conn = "open"
  /\ responses # << >>
  /\ LET c == Head(responses)
     IN  IF c \in pending
           THEN /\ pending' = pending \ {c}
                /\ caller' = [caller EXCEPT ![c] = "answered"]
           ELSE UNCHANGED << pending, caller >>
  /\ responses' = Tail(responses)
  /\ UNCHANGED << conn, wire, requests, supervisor, world >>

\* Mutant of Timeout: the entry is deleted, its promise is not rejected.
TimeoutSilently(c) ==
  /\ c \in pending
  /\ pending' = pending \ {c}
  /\ UNCHANGED << conn, caller, socket, supervisor, world >>

\* The timer of a call, 300 s or 30 s after it was sent.
Timeout(c) ==
  /\ c \in pending
  /\ pending' = pending \ {c}
  /\ caller' = [caller EXCEPT ![c] = "timedOut"]
  /\ UNCHANGED << conn, socket, supervisor, world >>

\* Mutants of Rejected: the map is cleared first, so nothing is rejected; the
\* record of the calls is rebuilt from the map.
RejectedNone == caller

RejectedOnly == [c \in pending |-> "dropped"]

\* Every pending call is rejected.
Rejected == [c \in Calls |-> IF c \in pending THEN "dropped" ELSE caller[c]]

\* `end`: the supervisor's end was closed in an orderly way.  this.conn keeps
\* pointing at the finished socket.
ConnectionEnds ==
  /\ conn = "open"
  /\ wire = "serverClosed"
  /\ responses = << >>
  /\ caller' = Rejected
  /\ pending' = {}
  /\ conn' = "dead"
  /\ UNCHANGED << socket, supervisor, world >>

\* `error`: the supervisor died with requests unread (ECONNRESET).  The
\* handler of connect() sets this.conn to null and leaves the map alone, and
\* no `end` follows.
ConnectionErrors ==
  /\ conn = "open"
  /\ wire = "serverReset"
  /\ responses = << >>
  /\ conn' = "null"
  /\ UNCHANGED << pending, caller, socket, supervisor, world >>

\* cleanup(): close() of the client.  What was sent can still be read.
Close ==
  /\ conn # "null" \/ pending # {}
  /\ caller' = Rejected
  /\ pending' = {}
  /\ conn' = "null"
  /\ wire' = IF wire = "up" THEN "clientClosed" ELSE wire
  /\ responses' = << >>
  /\ UNCHANGED << requests, supervisor, world >>

\* A new gateway process registers the plugin and connects; calls of the old
\* one are gone.  `wire` can stand for the new connection once the supervisor
\* holds nothing of the old, and sc start stops it when the gateway exits: a
\* supervisor rarely meets a second gateway.
Reconnect ==
  /\ up
  /\ wire # "up"
  /\ requests = << >>
  /\ \A c \in Calls : handler[c] # "running"
  /\ conn' = "open"
  /\ wire' = "up"
  /\ caller' = Rejected
  /\ pending' = {}
  /\ responses' = << >>
  /\ UNCHANGED << requests, supervisor, world >>

-----------------------------------------------------------------------------
(* The supervisor's side.                                                  *)

\* The supervisor's side of the connection is the one of the process that
\* accepted it: a restarted supervisor has no connection to the plugin.
Connected == wire \in {"up", "clientClosed"}

\* log(): the entry is written; or the write fails, which only stderr and
\* the health of the log are told.  There is no second attempt.
Record(c) ==
  \/ /\ recorded' = [recorded EXCEPT ![c] = @ + 1]
     /\ UNCHANGED unwritten
  \/ /\ unwritten' = unwritten \cup {c}
     /\ UNCHANGED recorded

\* conn.write(): the line is lost if the client has closed its end.
Respond(c) == IF wire = "up" THEN Append(responses, c) ELSE responses

\* ApprovalStore.get(): the file if it can be read, else what the cache holds.
Approved(s) == s \in file \cup cache
Cached(s) == IF s \in file THEN cache \cup {s} ELSE cache

\* The supervisor takes the next line off the socket.
Take(c) ==
  /\ up
  /\ Connected
  /\ requests # << >>
  /\ c = Head(requests)
  /\ requests' = Tail(requests)

\* An audit record of the plugin: written, then acknowledged.
HandleAudit ==
  \E c \in AuditRequests :
    /\ Take(c)
    /\ handler' = [handler EXCEPT ![c] = "done"]
    /\ Record(c)
    /\ responses' = Respond(c)
    /\ UNCHANGED << plugin, wire, up, cache, tokens, file, running, known >>

\* A tool call with a malformed name is answered and not recorded.
HandleBadName ==
  \E c \in BadNames :
    /\ Take(c)
    /\ handler' = [handler EXCEPT ![c] = "done"]
    /\ responses' = Respond(c)
    /\ UNCHANGED << plugin, wire, up, cache, tokens, world >>

\* A tool call of a skill without an approval: recorded as blocked.
HandleUnapproved ==
  \E c \in ToolRequests \ BadNames :
    /\ Take(c)
    /\ ~Approved(SkillOf[c])
    /\ handler' = [handler EXCEPT ![c] = "done"]
    /\ Record(c)
    /\ responses' = Respond(c)
    /\ UNCHANGED << plugin, wire, up, cache, tokens, file, running, known >>

\* The common part of an approved tool call.
TakeApproved(c) ==
  /\ Take(c)
  /\ Approved(SkillOf[c])
  /\ cache' = Cached(SkillOf[c])

\* The sandbox starts: a token is issued, spawn() succeeds.
StartChild ==
  \E c \in ToolRequests \ BadNames :
    /\ TakeApproved(c)
    /\ handler' = [handler EXCEPT ![c] = "running"]
    /\ tokens' = tokens \cup {c}
    /\ running' = running \cup {c}
    /\ UNCHANGED << plugin, wire, responses, up, file, recorded, unwritten, known >>

\* writeAsrtConfig() throws, outside the try of executeInSandbox: the promise
\* is rejected, main.ts prints the error, nothing is recorded or answered.
ConfigFails ==
  \E c \in ToolRequests \ BadNames :
    /\ TakeApproved(c)
    /\ handler' = [handler EXCEPT ![c] = "failed"]
    /\ UNCHANGED << plugin, wire, responses, up, tokens, world >>

\* Mutant of SpawnThrows: the failure is answered without an audit record.
SpawnThrowsUnrecorded ==
  \E c \in ToolRequests \ BadNames :
    /\ TakeApproved(c)
    /\ handler' = [handler EXCEPT ![c] = "threw"]
    /\ tokens' = tokens \cup {c}
    /\ responses' = Respond(c)
    /\ UNCHANGED << plugin, wire, up, file, running, recorded, unwritten, known >>

\* spawn() throws: the catch answers, and the token stays in the registry.
SpawnThrows ==
  \E c \in ToolRequests \ BadNames :
    /\ TakeApproved(c)
    /\ handler' = [handler EXCEPT ![c] = "threw"]
    /\ tokens' = tokens \cup {c}
    /\ Record(c)
    /\ responses' = Respond(c)
    /\ UNCHANGED << plugin, wire, up, file, running, known >>

\* Mutant of ChildEnds: without a client the handler stops before the revoke.
ChildEndsUnheard(c) ==
  /\ c \in running
  /\ handler[c] = "running"
  /\ running' = running \ {c}
  /\ tokens' = IF wire = "up" THEN tokens \ {c} ELSE tokens
  /\ handler' = [handler EXCEPT ![c] = "done"]
  /\ Record(c)
  /\ responses' = Respond(c)
  /\ UNCHANGED << plugin, wire, requests, up, cache, file, known >>

\* `close` of the child: revoke, record, answer.
ChildEnds(c) ==
  /\ c \in running
  /\ handler[c] = "running"
  /\ running' = running \ {c}
  /\ tokens' = tokens \ {c}
  /\ handler' = [handler EXCEPT ![c] = "done"]
  /\ Record(c)
  /\ responses' = Respond(c)
  /\ UNCHANGED << plugin, wire, requests, up, cache, file, known >>

\* A child that outlived its supervisor ends: nobody hears of it.
OrphanEnds(c) ==
  /\ c \in running
  /\ handler[c] = "lost"
  /\ running' = running \ {c}
  /\ UNCHANGED << plugin, socket, supervisor, file, recorded, unwritten, known >>

\* Mutant of TokenExpires: the timer belongs to the child.
TokenExpiresWithChild(c) ==
  /\ c \in tokens
  /\ c \in running
  /\ tokens' = tokens \ {c}
  /\ UNCHANGED << plugin, socket, up, handler, cache, world >>

\* The ten-minute timer of a token.
TokenExpires(c) ==
  /\ c \in tokens
  /\ tokens' = tokens \ {c}
  /\ UNCHANGED << plugin, socket, up, handler, cache, world >>

\* The process ends: a signal (shutdown() waits for no handler) or an `error`
\* event nobody listens to - of a child that cannot be spawned, or of the
\* stdin of one that ended before it read its input.  Its memory is gone and
\* so are answers it had not handed to the kernel.  What it had not read is
\* never read; the kernel may tell the client so by a reset.
Crash ==
  /\ up
  /\ up' = FALSE
  /\ handler' = [c \in Calls |->
                   IF handler[c] = "running" THEN "lost" ELSE handler[c]]
  /\ tokens' = {}
  /\ cache' = {}
  /\ wire' \in CASE wire # "up"       -> {wire}
                 [] requests = << >>  -> {"serverClosed"}
                 [] OTHER             -> {"serverClosed", "serverReset"}
  /\ \E n \in 0..Len(responses) : responses' = SubSeq(responses, 1, n)
  /\ requests' = << >>
  /\ UNCHANGED << plugin, world >>

\* Mutant of Restart: the cache survives, as from a snapshot of its own.
RestartKeepsCache ==
  /\ ~up
  /\ up' = TRUE
  /\ cache' = file \cup known
  /\ known' = file
  /\ UNCHANGED << plugin, socket, handler, tokens, file, running, recorded, unwritten >>

\* main() of a new process: loadAll() reads the approvals.
Restart ==
  /\ ~up
  /\ up' = TRUE
  /\ cache' = file
  /\ known' = file
  /\ UNCHANGED << plugin, socket, handler, tokens, file, running, recorded, unwritten >>

-----------------------------------------------------------------------------
(* The user, through the chat prompt or the command line.                  *)

Approve(s) ==
  /\ s \notin file
  /\ file' = file \cup {s}
  /\ known' = known \cup {s}
  /\ UNCHANGED << plugin, socket, supervisor, running, recorded, unwritten >>

Remove(s) ==
  /\ s \in file
  /\ file' = file \ {s}
  /\ UNCHANGED << plugin, socket, supervisor, running, recorded, unwritten, known >>

-----------------------------------------------------------------------------
PluginNext ==
  \/ \E c \in Calls : Send(c) \/ Refused(c) \/ Timeout(c)
  \/ Receive
  \/ ConnectionEnds
  \/ ConnectionErrors
  \/ Close
  \/ Reconnect

SupervisorNext ==
  \/ HandleAudit
  \/ HandleBadName
  \/ HandleUnapproved
  \/ StartChild
  \/ ConfigFails
  \/ SpawnThrows
  \/ \E c \in Calls : ChildEnds(c) \/ OrphanEnds(c) \/ TokenExpires(c)
  \/ Crash
  \/ Restart

UserNext == \E s \in Skills : Approve(s) \/ Remove(s)

Next == PluginNext \/ SupervisorNext \/ UserNext

Spec == Init /\ [][Next]_vars

-----------------------------------------------------------------------------
(* Properties.                                                             *)

\* The types of all variables.
TypeOK ==
  /\ conn \in {"open", "dead", "null"}
  /\ pending \subseteq Calls
  /\ caller \in [Calls -> CallerStates]
  /\ wire \in {"up", "clientClosed", "serverClosed", "serverReset"}
  /\ requests \in Seq(Calls)
  /\ responses \in Seq(Calls)
  /\ up \in BOOLEAN
  /\ handler \in [Calls -> HandlerStates]
  /\ cache \subseteq Skills
  /\ tokens \subseteq Calls
  /\ file \subseteq Skills
  /\ running \subseteq Calls
  /\ recorded \in [Calls -> Nat]
  /\ unwritten \subseteq Calls
  /\ known \subseteq Skills

\* The pending map holds exactly the calls someone still waits for, through
\* answers, timers, ends of the connection and close(): no caller is left
\* without a timer and no entry without a caller (ipc.ts).
PendingIsWaiting == pending = Waiting

\* A failed write is the only way to be answered without an audit entry: the
\* outcome of every call with an acceptable name was handed to the log once
\* before its caller could learn it, by whichever path the handler ended, and
\* the log then has one entry of it or none, never two (core.ts:
\* handleToolCall; main.ts: handleConnection; audit.ts: write).
AnsweredMeansAudited ==
  \A c \in Calls :
    /\ recorded[c] = 0 \/ (recorded[c] = 1 /\ c \notin unwritten)
    /\ caller[c] = "answered" =>
         recorded[c] = 1 \/ c \in unwritten \/ c \in BadNames

\* A proxy token is good only while its call's child runs, whatever became of
\* the caller, the connection or the supervisor meanwhile; the exception is a
\* call whose spawn threw (worker.ts, proxy.ts: TokenRegistry).
TokenDiesWithChild ==
  \A c \in tokens :
    /\ up
    /\ handler[c] = "running" => c \in running
    /\ handler[c] \in {"running", "threw"}

\* A skill runs only if its approval file existed when the supervisor started
\* or was written since: the cache never brings an approval back that was
\* removed before a restart (approvals.ts: loadAll, get).
OnlyKnownSkillsRun ==
  \A c \in ToolRequests : handler[c] = "running" => SkillOf[c] \in known

\* Whoever calls the supervisor learns something in the end: the answer, or
\* that it was given up (ipc.ts: the timers and the `end` handler).
CallsSettle ==
  \A c \in Calls : (caller[c] = "waiting") ~> (caller[c] # "waiting")

\* No token stays valid for ever, not even one nothing revokes
\* (proxy.ts: issue).
TokensExpire == \A c \in Calls : (c \in tokens) ~> (c \notin tokens)

-----------------------------------------------------------------------------
(* The contract: what the caller knows and what the log holds.             *)

Outcome(s) ==
  IF s \in {"idle", "waiting", "answered"} THEN s ELSE "failed"

Contract == INSTANCE CallContract WITH
  Unaudited <- BadNames,
  status    <- [c \in Calls |-> Outcome(caller[c])],
  recorded  <- { c \in Calls : recorded[c] > 0 },
  lost      <- unwritten

\* The exchange over the socket keeps the contract of a call: at most one
\* outcome per caller, told after the log was given its entry, which is
\* recorded at most once or lost for good.
KeepsContract == Contract!Spec
=============================================================================
