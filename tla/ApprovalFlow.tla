---------------------------- MODULE ApprovalFlow ----------------------------
(***************************************************************************)
(* How the user's decisions about one skill become files, and the files    *)
(* what the skill may do.  The plugin's gate (src/plugin/approval-gate.ts) *)
(* opens prompts in the chat and, when they are answered, writes the       *)
(* approval and the deny list (src/plugin/approval-files.ts); `sc approve` *)
(* and `sc skill remove` (src/cli/commands/approve.ts, plugin.ts) write    *)
(* the same approval from another process; the supervisor reads it for     *)
(* every call (src/supervisor/approvals.ts: ApprovalStore).                *)
(*                                                                         *)
(* The plugin runs on one thread: the gate and the answer to a prompt are  *)
(* each one callback, but a prompt stays open between them for minutes,    *)
(* and inside the answer the other processes run between two calls to the  *)
(* file system.  writeFileSync is two of those: it truncates, then fills.  *)
(* `job` and `cli` hold what is left to do of the callback or command.     *)
(*                                                                         *)
(* A capability entry is its permission: a network target, a file target,  *)
(* or AnyNet, the network capability without a scope.  A manifest whose    *)
(* skill was removed reads as version 0 with no capabilities.              *)
(***************************************************************************)
EXTENDS Integers

CONSTANTS
  Calls,           \* tool calls of the skill, as the gateway makes them
  NetTargets,      \* hosts a sandbox violation can name
  FileTargets,     \* paths and programs a sandbox violation can name
  Internal,        \* the hosts among them the sandbox never opens
  AnyNet,          \* the unrestricted network permission
  Manifest,        \* Manifest[v]: the permissions version v declares
  GatewayStops     \* whether the gateway can die

Targets == NetTargets \cup FileTargets
Permissions == Targets \cup {AnyNet}
Versions == DOMAIN Manifest

ASSUME FlowAssumption ==
  /\ AnyNet \notin Targets
  /\ NetTargets \cap FileTargets = {}
  /\ Internal \subseteq NetTargets
  /\ Manifest \in [Versions -> SUBSET Permissions]
  /\ Versions \subseteq Nat \ {0}
  /\ GatewayStops \in BOOLEAN

VARIABLES
  installed,   \* the version in the skill's directory, 0 if there is none
  file,        \* the approval file
  denied,      \* the targets of the deny list file
  denyTorn,    \* TRUE while that file is truncated
  cache,       \* the supervisor's cached approval
  violations,  \* pendingViolations: which call hit which target
  stage,       \* where each call stands
  prompt,      \* the prompt a call waits for, with what its closure captured
  policy,      \* the permissions the sandbox of each call was built from
  job,         \* the rest of the plugin's callback
  cli,         \* the rest of the command line's command
  asked,       \* history: the calls whose violation the gate took
  consented,   \* history: permissions the user ever agreed to
  never        \* history: targets in the deny list, as far as it was written

vars == << installed, file, denied, denyTorn, cache, violations, stage, prompt,
           policy, job, cli, asked, consented, never >>

history   == << asked, consented, never >>
calls     == << violations, stage, prompt, policy >>
denyList  == << denied, denyTorn >>

Absent == [state |-> "absent", version |-> 0, grants |-> {}]
Torn   == [state |-> "torn",   version |-> 0, grants |-> {}]
Written(v, grants) == [state |-> "written", version |-> v, grants |-> grants]

Idle == [op |-> "none", content |-> Absent, grant |-> {}]

Stages == {"new", "prompted", "passed", "running", "done", "blocked"}

Capabilities(v) == IF v \in Versions THEN Manifest[v] ELSE {}

\* What buildAsrtConfig() makes of an approval: the hosts and paths that are
\* named, less the internal hosts.  A capability without a scope names none.
Sandbox(grants) == grants \ ({AnyNet} \cup Internal)

\* What an approval says to its reader.
Covers(grants, t) == t \in grants \/ (t \in NetTargets /\ AnyNet \in grants)

Init ==
  /\ installed \in Versions
  /\ file = Absent
  /\ denied = {}
  /\ denyTorn = FALSE
  /\ cache = Absent
  /\ violations = {}
  /\ stage = [c \in Calls |-> "new"]
  /\ prompt = [c \in Calls |-> Idle]
  /\ policy = [c \in Calls |-> {}]
  /\ job = Idle
  /\ cli = Idle
  /\ asked = {}
  /\ consented = {}
  /\ never = {}

-----------------------------------------------------------------------------
(* before_tool_call: the gate.                                             *)

\* The plugin's thread is free and the gateway asks about call c.
Enters(c) ==
  /\ job.op = "none"
  /\ stage[c] = "new"

\* Mutants of GateViolation: the entry stays in the map; the deny list is not
\* asked.
GateViolationKeeps(c) ==
  /\ Enters(c)
  /\ \E w \in violations :
       /\ asked' = asked \cup {w.call}
       /\ IF ~denyTorn /\ w.target \in denied
            THEN /\ stage' = [stage EXCEPT ![c] = "blocked"]
                 /\ UNCHANGED prompt
            ELSE /\ stage' = [stage EXCEPT ![c] = "prompted"]
                 /\ prompt' = [prompt EXCEPT ![c] =
                      [op |-> "violation", content |-> Absent, grant |-> {w.target}]]
  /\ UNCHANGED << installed, file, denyList, cache, violations, policy,
                  job, cli, consented, never >>

GateViolationAsks(c) ==
  /\ Enters(c)
  /\ \E w \in violations :
       /\ violations' = violations \ {w}
       /\ asked' = asked \cup {w.call}
       /\ prompt' = [prompt EXCEPT ![c] =
            [op |-> "violation", content |-> Absent, grant |-> {w.target}]]
  /\ stage' = [stage EXCEPT ![c] = "prompted"]
  /\ UNCHANGED << installed, file, denyList, cache, policy, job, cli,
                  consented, never >>

\* A pending violation of the tool is taken: the one the call's last result
\* names, else the first.  Either the deny list settles it or the user is
\* asked.  A deny list that does not parse denies nothing.
GateViolation(c) ==
  /\ Enters(c)
  /\ \E w \in violations :
       /\ violations' = violations \ {w}
       /\ asked' = asked \cup {w.call}
       /\ IF ~denyTorn /\ w.target \in denied
            THEN /\ stage' = [stage EXCEPT ![c] = "blocked"]
                 /\ UNCHANGED prompt
            ELSE /\ stage' = [stage EXCEPT ![c] = "prompted"]
                 /\ prompt' = [prompt EXCEPT ![c] =
                      [op |-> "violation", content |-> Absent, grant |-> {w.target}]]
  /\ UNCHANGED << installed, file, denyList, cache, policy, job, cli,
                  consented, never >>

\* No violation is taken: there is none of the call's tool, whatever waits for
\* other tools of the skill, or its last result names one that is gone.  And an
\* approval file exists, whatever it holds.
GatePasses(c) ==
  /\ Enters(c)
  /\ file.state # "absent"
  /\ stage' = [stage EXCEPT ![c] = "passed"]
  /\ UNCHANGED << installed, file, denyList, cache, violations, prompt,
                  policy, job, cli, history >>

\* Nor here.  First use: the manifest's capabilities are read now and shown.
GateAsks(c) ==
  /\ Enters(c)
  /\ file.state = "absent"
  /\ stage' = [stage EXCEPT ![c] = "prompted"]
  /\ prompt' = [prompt EXCEPT ![c] =
       [op |-> "first", content |-> Written(installed, Capabilities(installed)),
        grant |-> {}]]
  /\ UNCHANGED << installed, file, denyList, cache, violations, policy,
                  job, cli, history >>

-----------------------------------------------------------------------------
(* onResolution: the answer to a prompt.                                   *)

\* The prompt of c closes; its call goes on if the user allowed it.
Closes(c, kind, outcome) ==
  /\ job.op = "none"
  /\ stage[c] = "prompted"
  /\ prompt[c].op = kind
  /\ prompt' = [prompt EXCEPT ![c] = Idle]
  /\ stage' = [stage EXCEPT ![c] = outcome]
  /\ UNCHANGED << installed, file, denyList, cache, violations, policy,
                  cli, asked >>

AllowFirst(c) ==
  /\ Closes(c, "first", "passed")
  /\ job' = [op |-> "truncate", content |-> prompt[c].content, grant |-> {}]
  /\ consented' = consented \cup prompt[c].content.grants
  /\ UNCHANGED never

\* "allow" adds the target, "allow-all" lifts the scope of the network
\* capability; for another kind of violation "allow-all" does nothing.
AllowViolation(c) ==
  /\ Closes(c, "violation", "passed")
  /\ \E grant \in {prompt[c].grant}
                    \cup (IF prompt[c].grant \subseteq NetTargets THEN {{AnyNet}} ELSE {}) :
       /\ job' = [op |-> "update", content |-> Absent, grant |-> grant]
       /\ consented' = consented \cup grant
  /\ UNCHANGED never

Never(c) ==
  /\ Closes(c, "violation", "blocked")
  /\ job' = [op |-> "deny", content |-> Absent, grant |-> prompt[c].grant]
  /\ UNCHANGED << consented, never >>

\* "deny", another word, or no answer within 240 s.
Deny(c) ==
  /\ \E kind \in {"first", "violation"} : Closes(c, kind, "blocked")
  /\ UNCHANGED << job, consented, never >>

-----------------------------------------------------------------------------
(* updateSkillCapabilities(), addToDenyList(), writeFileSync().            *)

\* The approval with one more permission: nothing to add under an unscoped
\* network capability, and AnyNet replaces the scope.
Extended(grants, more) ==
  IF more = {AnyNet} THEN (grants \ NetTargets) \cup {AnyNet}
  ELSE IF \A t \in more : Covers(grants, t) THEN grants
  ELSE grants \cup more

\* existsSync and readFileSync: without a file that parses the update is
\* given up, and the answer is lost.
ReadForUpdate ==
  /\ job.op = "update"
  /\ job' = IF file.state = "written"
              THEN [job EXCEPT !.op = "truncate",
                      !.content = Written(file.version,
                                          Extended(file.grants, job.grant))]
              ELSE Idle
  /\ UNCHANGED << installed, file, denyList, cache, calls, cli, history >>

\* The first half of writeFileSync, of the plugin or of the command line.
Truncate ==
  /\ \/ /\ job.op = "truncate"
        /\ job' = [job EXCEPT !.op = "fill"]
        /\ UNCHANGED cli
     \/ /\ cli.op = "truncate"
        /\ cli' = [cli EXCEPT !.op = "fill"]
        /\ UNCHANGED job
  /\ file' = Torn
  /\ UNCHANGED << installed, denyList, cache, calls, history >>

\* The second half, through the descriptor that was opened by the first: a
\* file removed in between stays removed, and over what another process wrote
\* in between the text may end in a remnant of the longer one.
Filled(content) ==
  CASE file.state = "absent"  -> {Absent}
    [] file.state = "torn"    -> {content}
    [] file.state = "written" -> {content, Torn}

Fill ==
  /\ job.op = "fill"
  /\ file' \in Filled(job.content)
  /\ job' = Idle
  /\ UNCHANGED << installed, denyList, cache, calls, cli, history >>

\* addToDenyList(): the list is read and truncated, then filled again.
TruncateDenyList ==
  /\ job.op = "deny"
  /\ denyTorn' = TRUE
  /\ denied' = IF denyTorn THEN job.grant ELSE denied \cup job.grant
  /\ job' = [job EXCEPT !.op = "fillDeny"]
  /\ UNCHANGED << installed, file, cache, calls, cli, history >>

FillDenyList ==
  /\ job.op = "fillDeny"
  /\ denyTorn' = FALSE
  /\ job' = Idle
  /\ never' = never \cup job.grant
  /\ UNCHANGED << installed, file, denied, cache, calls, cli, asked,
                  consented >>

-----------------------------------------------------------------------------
(* The supervisor: ApprovalStore.get() and the sandbox of a call.          *)

\* An approval that parses is used and cached; else the cached one is used.
Run(c) ==
  /\ stage[c] = "passed"
  /\ LET approval == IF file.state = "written" THEN file ELSE cache
     IN  /\ cache' = approval
         /\ IF approval.state = "absent"
              THEN /\ stage' = [stage EXCEPT ![c] = "blocked"]
                   /\ UNCHANGED policy
              ELSE /\ stage' = [stage EXCEPT ![c] = "running"]
                   /\ policy' = [policy EXCEPT ![c] = Sandbox(approval.grants)]
  /\ UNCHANGED << installed, file, denyList, violations, prompt, job, cli,
                  history >>

\* The settings of a sandbox are a temporary file, removed when its child ends.
Forget(ended) == policy' = [c \in Calls |-> IF c \in ended THEN {} ELSE policy[c]]

\* Mutant of Answer: a denial without a host is kept as one of any host.
AnswerWithoutTarget(c) ==
  /\ job.op = "none"
  /\ stage[c] = "running"
  /\ stage' = [stage EXCEPT ![c] = "done"]
  /\ violations' = violations \cup {[call |-> c, target |-> AnyNet]}
  /\ Forget({c})
  /\ UNCHANGED << installed, file, denyList, cache, prompt, job, cli, history >>

\* The answer reaches the shadow tool, which keeps the violation if any.  The
\* worker reads it from what the child printed: any target, also one the call
\* was allowed and that refused it (ECONNREFUSED, ENOTFOUND).
Answer(c) ==
  /\ job.op = "none"
  /\ stage[c] = "running"
  /\ stage' = [stage EXCEPT ![c] = "done"]
  /\ \/ UNCHANGED violations
     \/ \E t \in Targets : violations' = violations \cup {[call |-> c, target |-> t]}
  /\ Forget({c})
  /\ UNCHANGED << installed, file, denyList, cache, prompt, job, cli, history >>

\* loadAll() of a new supervisor.
SupervisorRestarts ==
  /\ cache' = IF file.state = "written" THEN file ELSE Absent
  /\ UNCHANGED << installed, file, denyList, calls, job, cli, history >>

\* The gateway dies with its prompts, its map and the callback in progress; what
\* the calls that still run do is nobody's business here any more.
GatewayDies ==
  /\ GatewayStops
  /\ stage' = [c \in Calls |-> IF stage[c] \in {"new", "done"}
                                 THEN stage[c] ELSE "blocked"]
  /\ prompt' = [c \in Calls |-> Idle]
  /\ violations' = {}
  /\ job' = Idle
  /\ Forget(Calls)
  /\ never' = IF denyTorn THEN {} ELSE never
  /\ UNCHANGED << installed, file, denyList, cache, cli, asked, consented >>

-----------------------------------------------------------------------------
(* The command line.                                                       *)

\* `sc approve`: the manifest is read and shown.  A skill without
\* capabilities is not approved, a file that does not parse ends the command.
CliAsks ==
  /\ cli.op = "none"
  /\ Capabilities(installed) # {}
  /\ file.state # "torn"
  /\ cli' = [op |-> "ask", content |-> Written(installed, Capabilities(installed)),
             grant |-> {}]
  /\ UNCHANGED << installed, file, denyList, cache, calls, job, history >>

\* Mutant of CliApproves: "edit" writes all that was shown.
CliApprovesAll ==
  /\ cli.op = "ask"
  /\ \E grants \in SUBSET cli.content.grants :
       /\ cli' = [cli EXCEPT !.op = "truncate"]
       /\ consented' = consented \cup grants
  /\ UNCHANGED << installed, file, denyList, cache, calls, job, asked, never >>

\* All, some ("edit"), or none of what was shown.
CliApproves ==
  /\ cli.op = "ask"
  /\ \E grants \in SUBSET cli.content.grants :
       /\ cli' = [op |-> "truncate", content |-> Written(cli.content.version, grants),
                  grant |-> {}]
       /\ consented' = consented \cup grants
  /\ UNCHANGED << installed, file, denyList, cache, calls, job, asked, never >>

CliDeclines ==
  /\ cli.op = "ask"
  /\ cli' = Idle
  /\ UNCHANGED << installed, file, denyList, cache, calls, job, history >>

\* writeApproval() ends: what the user had allowed before is replaced.
CliFills ==
  /\ cli.op = "fill"
  /\ file' \in Filled(cli.content)
  /\ cli' = Idle
  /\ UNCHANGED << installed, denyList, cache, calls, job, history >>

\* `sc skill remove`: the directory goes first, then the approval.
CliRemoves ==
  /\ cli.op = "none"
  /\ installed # 0
  /\ installed' = 0
  /\ cli' = [Idle EXCEPT !.op = "remove"]
  /\ UNCHANGED << file, denyList, cache, calls, job, history >>

CliRemovesApproval ==
  /\ cli.op = "remove"
  /\ file' = Absent
  /\ cli' = Idle
  /\ UNCHANGED << installed, denyList, cache, calls, job, history >>

\* `sc skill add` after a removal, or a linked skill whose source changes.
Installs ==
  /\ cli.op = "none"
  /\ \E v \in Versions :
       /\ v > installed
       /\ installed' = v
  /\ UNCHANGED << file, denyList, cache, calls, job, cli, history >>

-----------------------------------------------------------------------------
PluginNext ==
  \/ \E c \in Calls :
       \/ GateViolation(c)
       \/ GatePasses(c)
       \/ GateAsks(c)
       \/ AllowFirst(c)
       \/ AllowViolation(c)
       \/ Never(c)
       \/ Deny(c)
       \/ Answer(c)
  \/ ReadForUpdate
  \/ Fill
  \/ TruncateDenyList
  \/ FillDenyList
  \/ GatewayDies

SupervisorNext ==
  \/ \E c \in Calls : Run(c)
  \/ SupervisorRestarts

CliNext ==
  \/ CliAsks
  \/ CliApproves
  \/ CliDeclines
  \/ CliFills
  \/ CliRemoves
  \/ CliRemovesApproval
  \/ Installs

Next == PluginNext \/ SupervisorNext \/ CliNext \/ Truncate

Spec == Init /\ [][Next]_vars

-----------------------------------------------------------------------------
(* Properties.                                                             *)

File == {Absent, Torn} \cup
        { Written(v, g) : v \in Versions \cup {0}, g \in SUBSET Permissions }

Task(ops) ==
  [op : ops \cup {"none"}, content : File, grant : SUBSET Permissions]

\* The types of all variables.
TypeOK ==
  /\ installed \in Versions \cup {0}
  /\ file \in File
  /\ denied \subseteq Targets
  /\ denyTorn \in BOOLEAN
  /\ cache \in File
  /\ violations \subseteq [call : Calls, target : Targets]
  /\ stage \in [Calls -> Stages]
  /\ prompt \in [Calls -> Task({"first", "violation"})]
  /\ policy \in [Calls -> SUBSET Permissions]
  /\ job \in Task({"update", "truncate", "fill", "deny", "fillDeny"})
  /\ cli \in Task({"ask", "truncate", "fill", "remove"})
  /\ asked \subseteq Calls
  /\ consented \subseteq Permissions
  /\ never \subseteq Targets

\* A call never runs with a permission the user has not agreed to, however
\* prompts, updates, torn files, the cache and the command line interleave.
RunsWithinConsent ==
  \A c \in Calls :
    stage[c] = "running" => policy[c] \subseteq consented

\* A violation is put to the user at most once: no two open prompts, and no
\* prompt and pending entry, stem from one call.
AskedOnce ==
  \A w \in violations : w.call \notin asked

\* Once the user said "never" for a target, and the answer is on disk, no
\* prompt about that target opens again (test/plugin-approval-flow.test.ts,
\* over any sequence of answers and restarts of the gateway), unless a gateway
\* that died while it wrote the deny list left a torn one.
NeverAskedAgain ==
  [][\A c \in Calls :
       /\ stage[c] = "new"
       /\ stage'[c] = "prompted"
       /\ prompt'[c].op = "violation"
       => prompt'[c].grant \cap never = {}]_vars

\* Claim of the prompt ("allow-all" - allow all outbound network for this
\* skill) and of `sc approve` ("UNRESTRICTED - no limits on this capability"):
\* a call starts with every host its approval covers.
ApprovedHostsAreOpen ==
  [][\A c \in Calls :
       /\ stage[c] = "passed"
       /\ stage'[c] = "running"
       /\ file.state = "written"
       => \A h \in NetTargets \ Internal :
            Covers(file.grants, h) => h \in policy'[c]]_vars
=============================================================================
