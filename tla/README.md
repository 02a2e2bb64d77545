# Sharkcage in TLA+

Sharkcage runs the skills (tools) of an OpenClaw gateway in kernel sandboxes.
A plugin inside the gateway asks the user what a skill may do, a supervisor
process runs each tool call under that approval and records it in a
hash-chained audit log, and the `sc` command line installs, starts, stops,
approves, updates and inspects all of it.  This directory models those parts
in TLA+, checks them with TLC and proves what matters most with TLAPS.

Paths below are relative to the repository; `supervisor/core.ts` is
`src/supervisor/core.ts`.

## 1. The system

| Component | State it keeps | Operations | Talks to |
|---|---|---|---|
| Audit log (`supervisor/audit.ts`) | `seq`, `lastHash`, `lastWriteError`; `audit.jsonl` and its archives | `open`, `write` (via `log`, `logProxy`, `recordAuditEntry`), rotation, pruning | the disk |
| Audit reader (`supervisor/audit-reader.ts`, `cli/commands/audit.ts`) | none | entries, integrity summary, statistics | the log's files, from another process |
| IPC client (`plugin/ipc.ts`) | `conn`, the map `pending` with timers | `connect`, `call`, `recordAudit`, `close`, data/end/error events | supervisor, unix socket |
| Supervisor (`supervisor/main.ts`, `core.ts`) | connections | one handler per request line; boot, shutdown | approvals, worker, audit log |
| Approval store (`supervisor/approvals.ts`) | `cache` | `loadAll`, `get` | approval files |
| Worker (`supervisor/worker.ts`) | one child per call | sandbox config, token, spawn, end of the child | `srt`, token registry |
| Token registry and localhost proxy (`supervisor/proxy.ts`) | tokens with expiry timers; connections with what was looked up for them | `issue`, `revoke`, `lookup`; SOCKS5 authentication and rules | skills, services on localhost |
| Sandbox policy (`supervisor/sandbox.ts`, `capabilities.ts`) | none | approval to sandbox config, environment and proxy rules | worker, proxy |
| Skill map and hooks (`plugin/skill-map.ts`, `plugin/index.ts`) | `toolToSkill`; the shadow tools registered once | `load`, `getSkill`, `getAllMappings`; the hooks around a tool call; `add` in the chat | plugin directory, gate, supervisor |
| Approval gate (`plugin/approval-gate.ts`) | `pendingViolations`, the open prompts with what their closures captured | `before_tool_call`, answers, `getPendingViolation` | approval files, user |
| Approval files (`plugin/approval-files.ts`) | `approvals/<skill>.json`, `denied/<skill>.json` | `updateSkillCapabilities`, `addToDenyList`, `isDenied` | disk |
| `sc approve`, `sc skill add`, `remove` (`cli/commands/approve.ts`, `plugin.ts`) | the plugin directory | install, infer, review, approve, remove | the same files, from other processes |
| Launcher (`cli/commands/start.ts`, `stop.ts`) | the two processes, `shuttingDown`, the PID file | re-exec, register the plugin, start, wait, restart, shut down | supervisor, gateway |
| Init (`cli/commands/init.ts`) | `install.json`, `gateway.json`, `openclaw.json`, accounts, sudoers, systemd unit | account, configuration and ownership steps | sudo, OpenClaw's wizard |
| Upgrade, self-update (`cli/commands/upgrade.ts`, `selfupdate.ts`) | `install.json`, source tree, `node_modules`, the build | replace OpenClaw with rollback; move to the newest release | git, npm, tsc |
| Session backend (`plugin/asrt-backend.ts`) | one policy file per session | create, exec, files, remove | `srt` |
| Sign, trust, verify | key and trust files | sequential commands | disk |
| Rest: config, user, status, inference, scanner, dashboard, install scripts | - | printing, text matching, editing one file | - |

What is hard about them:

- **Crashes and partial failures.**  The audit log is a sequence of system
  calls (rename, truncate, unlink, append) and an in-memory pointer into it;
  every one can fail, or be the last before a crash.  The supervisor can die
  with children running, requests unread and answers half sent.  An update is
  a checkout, an npm run, a compilation and a manifest, in that order, and
  nothing resumes one that stopped.
- **Stale state.**  A first-use prompt captures the manifest and writes it
  minutes later.  The approval store falls back to a cache.  `sc audit` lists
  files first and reads them afterwards.  Four commands hold copies of the
  install manifest or of OpenClaw's configuration while they work, and write
  the copy back.  The plugin routes by a table made at start and asks by one
  that may have been loaded again.
- **Interleaving processes without locks.**  Plugin, command line and
  supervisor share the approval file through read-modify-write and
  `writeFileSync`, which is a truncation and a write.  Two starts, or a start
  and a stop, can overlap.
- **Timers racing events.**  Every call has a timer, an answer, and three ways
  its connection can end; every token has a timer and a revocation; the
  restart of a supervisor is a timer that a stop can precede or follow.

What makes each component correct is stated where its module is described.

## 2. Modules

| Module | What it is | Extends |
|---|---|---|
| `AuditTrail` | abstract: the records kept in a line that parses, those reported as written, those pruned | |
| `AuditLog` | the log on its disk, one action per system call; implements `AuditTrail` | |
| `AuditReader` | `sc audit` beside the writer, one action per file it reads | `AuditLog` |
| `CallContract` | abstract: what the caller of a tool call and the operator are promised | |
| `ToolCalls` | client, socket, supervisor, worker, tokens and approval store; implements `CallContract` | |
| `ProxyPolicy` | what capabilities let through the proxy: `buildAllowedTargets`, `checkTarget` (operators) | |
| `LocalhostProxy` | the proxy's connections beside the calls; implements `ToolCalls` | `ToolCalls`, `ProxyPolicy` |
| `ApprovalFlow` | gate, prompts, approval and deny-list files, command line, supervisor's view | |
| `SkillRegistry` | plugin directory, skill map, shadow tools and hooks, `add` and `remove` | |
| `Launcher` | `sc start` and `sc stop` over processes, PID file and socket | |
| `InstallFiles` | the files, accounts and copies of a release that the set-up commands share | |
| `Provision` | `sc init`, and what `sc start` does before the gateway runs | `InstallFiles` |
| `Releases` | `sc upgrade` and `sc selfupdate` | `InstallFiles` |
| `Installation` | all four commands at once | `Provision`, `Releases` |
| `AuditLogProofs`, `AuditReaderProofs`, `ToolCallsProofs`, `LocalhostProxyProofs`, `ApprovalFlowProofs`, `SkillRegistryProofs`, `LauncherProofs`, `InstallationProofs` | theorems about the module of that name | it |
| `MCAuditLog`, `MCAuditReader`, `MCToolCalls`, `MCLocalhostProxy`, `MCApprovalFlow`, `MCSkillRegistry`, `MCLauncher`, `MCInstallation` | instances for TLC | it |

An operator that a comment calls a *mutant* is a faulty variant of the
definition below it, kept to show that a property notices the fault.  Nothing
refers to it.

### AuditLog

`write()` is synchronous, so inside the supervisor it is atomic; what can come
between two of its system calls is a crash or an error.  `pc` walks through one
call: `BeginWrite` (envelope, size test), `Rotate` (rename to an archive named
by the time, new empty file), `Scan` and `PruneOne`* (`pruneArchives`),
`AppendOk` / `AppendFails`.  `Crash` drops the memory at any point, `Open`
rebuilds it from the last line of the active file, as `open()` does.  The
constant `Faults` selects what the environment may do: crash, failing calls,
appends that stop half-way or report an error after the line is in the file,
archives that cannot be removed, a wall clock that steps back (archive names
then sort wrongly).

A line is `[hash, seq, prev]`: the fields the chain is made of.  The hash is
the number of the write that computed it.  `Appended` glues a line to a
fragment without newline, as `O_APPEND` does.  `Files`, `ExpectedPrev`,
`Broken` are the summary's computations (`getAuditIntegritySummary`), and
`Readable` is the set of records in lines that parse, over all files.  What
`getAuditEntries` shows of them is less (section 5).

Correct means: what the reader calls intact really is.  `NoSilentGap` (two
lines the summary counts as linked have no successful write between them) and
`SeqFollowsChain` (linked lines have consecutive numbers) hold under every
fault; the clock that steps back is covered by their proofs.
`CleanLogIsComplete` (nothing broken means nothing lost), `RetainNewest` and
`PruneRestoresBound` (what pruning takes and leaves) hold if the clock does not
step back and, for the last, if removals succeed.

`AuditTrail` says what all this amounts to without a word about files.  Its
state is the set of records in a line that parses (`kept`, here
`Readable(Files)`), of those whose write reported success, and of those pruned.  A record is
written (`Write`), or glued to what an interrupted write left behind (`Glue`),
which may take the newest record with it if that was never reported; and
`Prune` removes a run of consecutive records.  So a record that is kept after
its success stays until it is pruned, and records appear in the order of their
writes.  `KeepsTrail` is the refinement; it holds if the clock does not step
back.  That a success may be missing (`Glue` with `committed' # committed`) is
what the code does: the append after a torn one is unreadable.

### AuditReader

`sc audit` is another process: `ShowEntries` reads the active file,
`ListFiles` takes the directory listing, `SkipGone` drops a name whose file is
gone when `existsSync` looks, `StartWalk` ends these tests, and `ReadArchive` and
`ReadActive` read the files one by one while the supervisor goes on.  A rotation
may rename the active file between listing and reading.
`RacingReaderSeesNoFalseLink` and `ReadOnceInOrder` hold; that a clean summary
is complete does not (section 5).

### ToolCalls and CallContract

Handlers run to their next wait, so a supervisor's action is everything from
reading a request to the spawn (`StartChild`), or everything from the child's
`close` to the answer (`ChildEnds`: revoke, record, respond).  The failures the
code distinguishes are actions of their own: refused name, no approval, sandbox
config that cannot be written (`ConfigFails`), `spawn` that throws
(`SpawnThrows`).  `Record`, the hand-over of the entry to the log, succeeds or
fails: a failed write is swallowed (`audit.ts:149`) and the handler answers all
the same, an audit record with `ok`.  The history `unwritten` holds the calls
whose entry was lost this way.  On the plugin's side `Send`, `Refused`, `Receive`, `Timeout`
and the three ends of a connection: `ConnectionEnds` (`end`),
`ConnectionErrors` (`error`), `Close`; `Reconnect` is a new gateway process.
`Crash` covers signals and uncaught
errors; `Restart` is a new process with an empty token registry and a cache
loaded from the files.  `wire` separates the ends: after `clientClosed` the
supervisor still serves what was sent, after `serverReset` no `end` event
follows.  `Approve` and `Remove` are the user's acts on the approval file as
this module sees it: one step; `ApprovalFlow` has their detail.

`CallContract` knows only what a caller knows (`status`), what is in the log
(`recorded`) and what was lost on its way there (`lost`).  `KeepsContract` is the
refinement: `status` is `caller` with the three ways to fail identified,
`recorded` the calls with an entry, `lost` is `unwritten`.  The contract does not
promise that an answered call is in the log; it promises that its entry was
given to the log, once, before the caller could learn the outcome.

Correct means: the pending map and the callers agree (`PendingIsWaiting`); a call
that was answered has its entry, once, unless the write of it failed, and nothing
else than a failed write loses it (`AnsweredMeansAudited`); a
token lives no longer than its child or its supervisor (`TokenDiesWithChild`);
the cache does not resurrect approvals across restarts (`OnlyKnownSkillsRun`);
every caller learns an outcome (`CallsSettle`); no token is valid for ever
(`TokensExpire`).

### ProxyPolicy and LocalhostProxy

`ProxyPolicy` holds the pure part: `AllowedTargets` (`buildAllowedTargets`) and
`CheckTarget` (`checkTarget`).  An endpoint is a host and a port, with port 0
for a scope that names none; the resource map, the service variables and the
internal hosts are constants, so what is proved holds for every table.  A host is
what was written: `checkTarget` compares strings and knows `localhost` and `::1`
as other names of `127.0.0.1`, and every further name of that address (upper
case, `0.0.0.0`, a mapped IPv6 address, a name that resolves to it) is a host of
its own, in the code and here.  So nothing is claimed about what the supervisor's
own ports are safe from (section 5).

`LocalhostProxy` gives the approvals of `ToolCalls` contents, in the file
(`content`) and in the cache (`cached`), and connections.  `CallStep` is any
step of `ToolCalls`, with the fetch of the approval it makes: the sandbox and the
token of a call are made from one `get()`.  `Authenticate`
looks the token up and keeps what it found on the connection; `Connect` is the
ruleset, a later event; `Disconnect` either end.  Between them the call may
end, the token be revoked or expire and the approval be rewritten (`Rewrite`)
or removed; the token is not looked up again, and a descendant of the skill
may hold the socket after the skill has ended.

Correct means: connections stay within the approval their call started with
(`ConnectedWithinConsent`).

### ApprovalFlow

One skill.  `stage` is where each tool call stands: `new`, `prompted`,
`passed` (the gate let it through), `running`, `done`, `blocked`.  The gate is
`GateViolation`, `GatePasses` or `GateAsks` (a call of another tool of the skill
takes no violation of the first, so that the last two need no empty list); an
answer closes the prompt and
starts a `job`, the rest of the callback, which goes on one file-system call
at a time: `ReadForUpdate`, `Truncate`, `Fill`, `TruncateDenyList`,
`FillDenyList`.  While a job runs the plugin's thread is busy (`job.op =
"none"` guards its other actions) but the supervisor (`Run`,
`SupervisorRestarts`) and the command line (`CliAsks` ... `Installs`) go on.
`file` is absent, torn (truncated, or with a remnant of a longer text) or
written.  A prompt keeps what its closure captured in `prompt[c].content`.
The permission `AnyNet` is the network capability without a scope.  A
violation may name any target, since the worker reads it from what the child
printed: a host that was allowed and refused the connection is reported as well.

Correct means: no call runs with a permission the user never agreed to
(`RunsWithinConsent`); a violation leads to one prompt at most (`AskedOnce`);
"never" silences a target for good (`NeverAskedAgain`).

### SkillRegistry

Several skills, and the tools they claim.  A package stands for the contents
of a directory; `DirOf` is the directory `add` gives it (from the URL or the
path) and `NameOf` the name in its manifest, which need not agree: the map and
the approval prompt go by the name, the removal and `sc approve` by the
directory.  Removal asks, then deletes the directory, then the approval
(`TermRemove`, `TermRemoveSkill`, `TermRemoveApproval`).  Terminals (`TermAdd`
... `TermQuit`) and the gateway's own `add`
(`ChatAdd`, `ChatInfer`, `ChatAddSucceeds`, `ChatAddEnds`, `ChatTimesOut`) go
step by step; `execFileSync` holds the gateway's thread (`Free`).  `Load` is
`SkillMap.load()` with its `Map.set` per tool; `Owner` is `getSkill()`;
`Register` makes the shadow tools from the map once.  A call goes through
`Blocked`, `Passes` or `Prompts`, `Allowed` or `Denied`, `Runs`, `Ends`.

Correct means: a tool belongs to the skill the documented rule says, on any
directory (`OwnerIsLastClaim`); until a reload, gate and route name the same
skill (`GateAndRouteAgree`) and a call is recorded once (`RecordedOnce`); and an
approval holds what a user was shown (`ApprovalWasShown`).  The last relates
every approval to a history, `asked[n]`: what questions about the name `n` have
displayed, forgotten when a removal of `n` finishes except for questions that are
still open.  A prompt captures the manifest when it opens, `sc approve` when it
asks, and the directory may be edited, removed and filled again before the
answer; what the answer writes must be what was displayed, and a finished
removal must leave the next skill of that name nothing but open questions.
`GateAndRouteAgree` and `RecordedOnce` exclude a reloaded map, for which the code
does something else (section 5).

### Launcher

One action is what a run of `sc start` does between two waits: `Start` (test
and removal of the PID file, spawn), `SocketReady`, `HttpReady` (which writes
the PID file and registers the handlers), then `Interrupt`, `SupervisorExit`,
`Restart` (the 2 s timer), `GatewayExit`, `ForceKill` (the 3 s timer).
`StartFails` and `Hangup` end a launcher and leave its detached children.
`sc stop` is `StopBegins` (PID file, signals), `StopSweeps` (by name and by
port), `StopCleans` (the files).  The children are external except for what
the supervisor does to the socket file: `SupervisorListens` removes and binds
it and comes to grief afterwards if the proxy's port is taken, `Terminated`
removes it, `Dies` leaves it.  The waits ask whether *somebody* answers, not
whether the launcher's own child does.  An exit event that nobody listens for
yet is lost (`noticed` without effect); the replacement has no handler at all.

Correct means: a shutdown ends all the launcher ever started, the replacement
included (`ShutdownLeavesNothing`); the socket leads to the current supervisor
(`SocketIsServed`); a launcher does not go on without its gateway
(`NoneWithoutGateway`); `sc stop` leaves nothing, although sweeping the
supervisor makes a launcher start another one (`StopLeavesNothing`; only the
gateway's exit, which shuts that launcher down, saves it).  The last three
exclude overlaps (a start that meets something running or stopping, a stop
that meets a start): the code does not lock, and section 5 says what happens
then.

### InstallFiles, Provision, Releases, Installation

`InstallFiles` is what the set-up commands share, beginning with what
`install.sh` leaves: `install.json` (`manifest`), `gateway.json`,
`openclaw.json` (`config`: absent, without or with the plugin and its sandbox
backend), the owner of the directory, the accounts and sudoers rules of the
host, the systemd unit, and the release in five copies (checked-out source,
dependencies, OpenClaw, compiled plugin, the copy of it that OpenClaw loads).  Releases are numbers in the order of
their publication.  A command works as one account and its writes fail in a
directory of another; a command killed between truncation and write leaves a
file nobody can parse (`TornManifest`, the value `torn` of `config`), and so does
`copyFileSync` in the rollback.  The history `copied` says whether the last `cp`
into the directory OpenClaw loads reported an error, which `sc selfupdate` does
not look at.  Of OpenClaw it is assumed that its wizard leaves a file that parses
and that it does not come up, or pass `openclaw config get`, on a torn one.

`Provision` is `sc init` from `InitBegin` to `InitChown`, one step between two
calls that another process can see, with every `sudo` that may refuse, and the
part of `sc start` before the gateway runs: `StartBegin` (re-execution),
`StartReadConfig`, `StartRegister` and, seconds later, `StartGateway`.
`Releases` is `sc upgrade` with its health check and rollback and
`sc selfupdate`.  `Installation` lets all four run at once, one run of each at
a time, any number of runs one after the other.

Correct means: no file, unit or rule names an account the host does not have
(`AccountsExist`); a manifest that names the checked-out release says the truth
about dependencies, build and what OpenClaw loads, the copy that failed unread
excepted (`ManifestNamesWholeRelease`); the registration is lost only to a writer
that read the file before, or with the whole file to a write that was cut short
(`RegistrationLostOnlyToStaleCopy`: `StaleCopy`, `CutShort`).

## 3. Runs

| Run | Instance | What it shows |
|---|---|---|
| `audit_chain` | 3 lines per file, 1 archive, 7 writes, all faults but the clock | `TypeOK`, `ChainInv`, `NoSilentGap`, `SeqFollowsChain`, `CleanLogIsComplete`, `KeepsTrail` |
| `reader_race` | 1 line per file, 1 archive, 5 writes; crash, failing and partial appends | the reader's properties, `RetainNewest`, `PruneRestoresBound` |
| `calls_safe` | 2 tool calls of one skill, an audit record, writes that fail | the invariants of `ToolCalls` and `KeepsContract` |
| `calls_live` | a tool call and a refused one, 2 approvals of 2 and 3 capabilities, 2 connections, 4 targets; timers that fire | `ConnectedWithinConsent`, `CallsSettle`, `TokensExpire` |
| `flow_safe` | 3 calls, a host and a path, 2 versions of the manifest, gateway deaths | `TypeOK`, `RunsWithinConsent`, `AskedOnce` |
| `flow_never` | 4 calls, one host, gateway deaths | `NeverAskedAgain` |
| `registry_safe` | 4 packages in 3 names (two versions of a linked skill, a repository without a manifest, one whose directory and manifest differ), 2 tools, one of them native, 1 call, 1 terminal and the chat | `TypeOK`, `GateAndRouteAgree`, `OwnerIsLastClaim`, `RecordedOnce`, `ApprovalWasShown` |
| `launcher_stop` | 2 runs of `sc start`, any number of `sc stop`, 2 crashes | `TypeOK`, `ShutdownLeavesNothing`, `SocketIsServed`, `NoneWithoutGateway`, `StopLeavesNothing` |
| `install_safe` | 1 account, 2 releases, 2 versions of OpenClaw, any 2 commands at a time | `TypeOK`, `AccountsExist`, `ManifestNamesWholeRelease`, `RegistrationLostOnlyToStaleCopy` |
| `flow_unscoped`, `registry_pinned`, `install_bare` | small instances | one claim each that the code does not keep (section 5) |

Why the bounds suffice.  *Audit*: a record glued to a torn line *behind* a good
one, the case that separates the chain from its last well-formed line, needs
three lines per file; seven writes then rotate twice and prune.  With one line
per file and one archive, five writes leave two stale archives behind after
crashes, which is what separates "the oldest" from "all beyond the limit", and
let the reader meet several rotations.  *Calls*: two calls of one skill are
enough to have one token revoked while the other lives, and responses arriving
out of request order; the audit record is the request without a child, and the
refused call, which is neither recorded nor started, is in `calls_live`.
*Proxy*: two approvals are what rewriting needs; they cover a proxied service with
and without a variable, an internal wildcard and a scoped external host; two
connections let one be open under an approval while the other authenticates; the
targets are a supervisor port, an internal host, a host of the scope and a
loopback service.  *Flow*: the shortest history in
which a question could be asked again has four calls (two run and hit the same
target, a third is asked and answered "never", a fourth meets the remaining
violation).  Calls are interchangeable, so `flow_*` use symmetry; all their
properties are safety properties.  *Registry*: two skills that declare one
tool, a wildcard that matches a native one, and two versions in one directory
are the collisions the code has a rule for.  *Launcher*: two launchers are what
an overlap or a retry after a failed start needs; two crashes let a supervisor
and its replacement, or a supervisor and a gateway, die in one history.
`sc stop` is not bounded.  "In the end" is stated of settled states (no signal,
exit event, timer or command on its way), as an invariant.  *Installation*: two
releases make one a manifest can still name while the other is being installed;
`MaxOverlap = 2` is enough for every lost update, which takes one command that
holds a copy and one that writes; `sc start` counts for as long as its gateway
runs.  Runs of one command repeat without bound.
The proofs lift all of these bounds.

`CHECK_DEADLOCK FALSE` is in the configurations whose model may stop: when its
bounded supply of writes, calls or launchers is used up or, in `Installation`,
when a failed `npm ci` has left nothing to run `sc` with.  The registry never
stops, and its deadlock check is on.  The longest runs take about a minute and a
quarter with two workers (`install_safe`, `registry_safe`).

**Fairness.**  Only `FairProxySpec` has any: weak fairness of `Timeout` and
`TokenExpires` per call (`ProxyTimers`), because `setTimeout` callbacks run once
their time has come as long as the process lives.  Nothing else is fair: a
child may run for ever, a connection may stay open, answers may never come, a
dead supervisor may stay dead.

## 4. Proofs

`AuditLogProofs` proves, for every file size, number of archives, number of
writes and set of faults the statement admits (from `AuditAssumption` only):

| Theorem | Statement |
|---|---|
| `TypeCorrect` | `Spec => []TypeOK` |
| `ChainCorrect` | `Spec => []ChainInv` |
| `LinkedMeansComplete` | `Spec => []NoSilentGap` |
| `LinkedMeansConsecutive` | `Spec => []SeqFollowsChain` |
| `NewestRetained` | `ClockIsSteady => (Spec => []RetainNewest)` |
| `BoundRestored` | `"unlink" \notin Faults => (Spec => PruneRestoresBound)` |
| `CleanMeansComplete` | `ClockIsSteady => (Spec => []CleanLogIsComplete)` |
| `TrailKept` | `ClockIsSteady => (Spec => KeepsTrail)`, that is, `AuditLog` implements `AuditTrail` |

`NoSilentGap` is not inductive: it speaks of lines that are adjacent for the
reader, and adjacency changes with every rotation, pruning and glued line.
The invariant drops the files' order and speaks of the *set* of lines on disk.
`ChainInv` has four parts: the write in progress has the next number and links
to `lastHash` (`PendingIsNew`); if `lastHash` is set, no successful write is
newer (`MemoryIsCurrent`); neither is one newer than a well-formed last line
of the active file, which is what `open()` takes over (`TailIsCurrent`); and
so each line that names a predecessor skips no successful write
(`LinesAreLinked`).  Steps only ever add the new line or `Malformed` to the
set, or remove lines from it, and lemmas state just that for each system call
(rename, removal of an archive, append, torn append).  `TypeOK` is needed for
the shape of lines and for `cursor`.

The other theorems have a premise on `Faults` and invariants of their own.
While the clock does not step back (`ClockIsSteady`), the files are in the order
they were written (`FilesSorted`): a rotation puts the active file behind all
archives, and a removal only thins them out.  `pruneArchives()` stays below the
archives to keep (`CursorIsStale`, which needs no premise), so what it removes
is older than what it leaves (`PrunedIsOld`), also where failed removals left
older archives behind.  If removals succeed, `CursorIsStale` is an equation, and
at its end at most `maxArchives` are left.

`CleanLogIsComplete` speaks of the whole log, so it needs to know where a record
that is missing has left a mark.  `TraceInv` says: every successful record is
in a line that parses, or was pruned, or there is a file with a line that does not parse or
a newer record, after which all records are newer (`Traceable`).  A fragment
without newline is never a success yet (`FragmentIsPending`), so gluing spoils
the new record only, and leaves a line that does not parse.  Pruning a file
that bears the mark leaves one that does, since the newest archive is not
stale and no archive is empty (`FilesHaveLines`).  If nothing is broken, a
missing record `c` with an older one on disk then has a newer one as well; the
least of the newer ones, `h`, expects a predecessor older than `c`, because the
walk meets the records in order (`MetInOrder`, `WalkExpects`), and by
`LinesAreLinked` no success lies between the two.

`TrailKept` shows that every step of the log is one step of `AuditTrail` or a
stutter.  A rotation renumbers nothing (`RotatedFiles`); a removal takes the
records of one file, and since the files are sorted these are all those between
its least and its greatest (`TrailPrune`); an append after a newline adds the
newest record; after a fragment it takes the last record of the active file
with it, which is the newest kept and not yet a success (`TrailAppend`).
`LeastNumber` and `GreatestNumber` come from the well-foundedness of `<` on
`Nat`.

`ToolCallsProofs` proves, for every set of skills, calls, refused names and
initial approvals (from `CallsAssumption` only):

| Theorem | Statement |
|---|---|
| `TypeCorrect` | `Spec => []TypeOK` |
| `PendingCorrect` | `Spec => []PendingIsWaiting` |
| `ExchangeCorrect` | `Spec => [](TypeOK /\ ExchangeInv)` |
| `RecordsCorrect` | `Spec => []AnsweredMeansAudited` |
| `TokensCorrect` | `Spec => []TokenDiesWithChild` |
| `ApprovalsCorrect` | `Spec => []OnlyKnownSkillsRun` |
| `ContractKept` | `Spec => KeepsContract`, that is, `ToolCalls` implements `CallContract` |

`AnsweredMeansAudited` relates a caller to the log, and an answer is given
long before it is received: it may wait in `responses` while its handler is
gone and its supervisor dead.  `ExchangeInv` follows a call along its way: a
request on the socket is new and there once (`RequestsAreNew`), nobody handles
a call nobody made (`IdleIsUnknown`), a refused name never gets a child
(`RefusedNeverRun`), a handler that ended with an answer has handed its entry to the log, which has
it once or lost it to a failed write, and no other handler has
(`RecordsFollowHandlers`), and only these answer
(`AnswersFollowHandlers`).  Without the first, a request read twice would be
recorded twice.  `ApprovalInv` adds to `OnlyKnownSkillsRun` that the files and
the cache hold known approvals only, and that a dead supervisor runs nothing.
`ContractKept` shows that every action is, under these invariants, one step of
`CallContract` or a stutter: `status` moves once, from waiting, and only after
`recorded` or `lost` has.

`ApprovalFlowProofs` proves, for every number of calls, every manifest, set of
targets and versions (from `FlowAssumption` only):

| Theorem | Statement |
|---|---|
| `TypeCorrect` | `Spec => []TypeOK` |
| `ConsentCorrect` | `Spec => []RunsWithinConsent` |
| `AskedOnceCorrect` | `Spec => []AskedOnce` |
| `NeverCorrect` | `Spec => NeverAskedAgain` |

`TypeOK` needs `DenialsNameTargets`: the deny list is typed as a set of
targets, and the permission without a scope must not get there.  `ConsentInv`
looks for permissions wherever they wait: in the file, the cache, the plugin's
job, the command line's write, the running sandboxes.  What an open prompt
displays is not in it; it joins `consented` with the answer.  `AskInv`: a
violation stems from a finished call, there is one of each call, and it leaves
the list when it is asked about.  `NeverInv`: what was written as "never" is
in the deny list, and the list is torn only while it is being filled - or was
left torn by a gateway that died, after which nothing counts as "never" until
the list is written again.

`AuditReaderProofs` proves, from `AuditAssumption` only:

| Theorem | Statement |
|---|---|
| `LogBesideReader` | `ReaderSpec => Spec`: the command only reads, so what is proved of the log holds beside it |
| `ReaderTypeCorrect` | `ReaderSpec => []ReaderTypeOK` |
| `RacingReaderCorrect` | `ReaderSpec => []RacingReaderSeesNoFalseLink` |
| `WalkInOrder` | `ClockIsSteady => (ReaderSpec => []ReadOnceInOrder)` |

The link theorem of the log carries over to lines that were read at different
times because it is a fact about single lines that the writer never takes back
(`SeenStaysLinked`): a line on disk is older than the write in progress, so a
record that succeeds later is newer than it.  `WalkInOrder` adds the order to
this (`WalkInv`): what was read is older than the active file and than every
archive whose name is still to be read (`SeenInOrder`), because names and
contents of the archives sort alike (`NamesAscend`, `FilesSorted`) - an
archive that was removed is dropped from the list or ends the command, so what
is left is still ascending (`RemovalAscends`), and a new one is newer than the
list.

`LocalhostProxyProofs` proves, for any hosts, services, tables, approvals and
connections (from the assumptions of `ToolCalls`, `ProxyPolicy` and
`LocalhostProxy`):

| Theorem | Statement |
|---|---|
| `CallsWithProxy` | `ProxySpec => Spec`: the composition implements `ToolCalls` |
| `ProxyTypeCorrect` | `ProxySpec => []ProxyTypeOK` |
| `ConnectionsWithinConsent` | `ProxySpec => []ConnectedWithinConsent` |

The first makes the invariants of `ToolCalls` available (`CallInv`).  `ProxyInv`
says what a connection depends on: its target passes `CheckTarget` for what its
call was granted (`ConnsFollowGrants`), and what a running handler was granted,
and what file and cache hold, was approved since the supervisor's start
(`GrantsAreInForce`).  A grant never changes once its handler has started, which
is why rewriting the approval cannot widen a connection.  What the rules make of
a host is left to `CheckTarget` as it is: the theorem holds for any table and any
spelling, and says nothing of what a wildcard lets through (section 5).

`SkillRegistryProofs` proves, for any packages, names, tools, calls and
terminals (from `RegistryAssumption` only):

| Theorem | Statement |
|---|---|
| `TypesCorrect` | `Spec => []TypeOK` |
| `LoadCorrect` | `Spec => OwnerIsLastClaim` |
| `GateCorrect` | `Spec => []GateAndRouteAgree` |
| `RecordedCorrect` | `Spec => RecordedOnce` |
| `ConsentCorrect` | `Spec => []ApprovalWasShown` |

`RegistryInv`: before a reload the map's direct entries are the registration
(`MapIsRegistered`), calls are alive in a gateway only (`CallsNeedGateway`), and
a running call's count says which way it was started (`RecordedAtStart`).  These
three hold for any map `load()` may give.

`ConsentCorrect` rests on `AskedInv`: every question that is still open, in the
gateway's prompt or in a terminal, shows what `asked` has of its name.  A step
writes an approval only as the answer to an open question (`ApprovalStep`), and
only `TermRemoveApproval` makes `asked` forget; it deletes the approval in the
same step, and keeps what is open.

What it does give is a recursion over the directories, and the library's
induction theorems are of no use here because they take an operator as their
parameter. `CountUp` replaces them: a set of numbers that contains 0 and, with
every number below `N`, the next one, contains all up to `N`, because a least
counterexample would exist otherwise (`<` is well-founded on `Nat`). With it
`LoadDescribes` shows of the map after `n` directories that a direct entry is
the claim of the last directory that declares the tool (`DirectTurn`), and
that the first wildcard that fits a tool is that of the first directory whose
wildcard does (`WildTurn`); at the last directory that is `LoadCorrect`.
`TypesCorrect` rests on the same induction for the type of the map.

`LauncherProofs` proves, for any number of launchers and crashes:

| Theorem | Statement |
|---|---|
| `LauncherTypeCorrect` | `Spec => []TypeOK` |
| `ShutdownCorrect` | `Spec => []ShutdownLeavesNothing` |
| `SocketCorrect` | `Spec => []SocketIsServed` |
| `GatewayCorrect` | `Spec => []NoneWithoutGateway` |
| `StopCorrect` | `Spec => []StopLeavesNothing` |

How far a launcher is says how far its processes are (`BornInOrder`), and a
replacement follows a dead supervisor, so what a shutdown signals is all there
is.  The rest holds without overlaps, and rests on `Alone`: a launcher at work
is the only one, and nothing is left of the others.  It is not obvious to keep,
because a start may follow a failed one that left processes behind, or a stop
whose sweep is not over; `SweptInv` says what the sweep has seen to, and
`SocketInv` that no signal is under way to a launcher nobody stops.

`InstallationProofs` proves, for any accounts, releases, versions and overlap:

| Theorem | Statement |
|---|---|
| `InstallTypeCorrect` | `Spec => []TypeOK` |
| `AccountsCorrect` | `Spec => []AccountsExist` |
| `ManifestCorrect` | `Spec => []ManifestNamesWholeRelease` |
| `RegistrationCorrect` | `Spec => RegistrationLostOnlyToStaleCopy` |

The difficulty is that any copy of a file may be written back at any time.  So
the invariant speaks of `Copies`, the manifest in the file and every one a
command holds: their accounts exist (`AccountsInv`), none names a later release
than the one checked out, and one that names it was made when it was whole
(`ReleaseInv`).  While an update is at work no copy names its release at all.  Whole is
`Compiled` and, unless the last `cp` failed, copied (`Whole`): a copy made after
a `cp` that failed unread counts as whole for as long as `copied` remembers it.
`sc upgrade` gives up its copy of the manifest when it rolls back
(`UpgradeForgets`).  For the registration the invariant needs only that what
`sc init` holds of `openclaw.json` parsed when it was read (`ConfigInv`); the rest
is one step (`RegistrationStep`): of all writers, only one with a copy without
the registration and one that is cut short take it out.

Every safety property that a passing run checks is stated by one of these
theorems; `ProxyTypeOK` is proved and in no run.  The liveness properties
(`CallsSettle`, `TokensExpire`) need fairness and `ENABLED`, which are beyond
the prover; they stay with TLC.

## 5. Where the code departs from what it says

Each of these has a run whose counterexample is a behaviour of the code.

- `flow_unscoped`: "allow-all" deletes the scope of the network capability; the
  sandbox config reads a missing scope as no host (`supervisor/sandbox.ts:67`),
  while the proxy's rules and the prompts read it as all.
- `registry_pinned`: the gate looks only at whether an approval exists
  (`plugin/approval-gate.ts:116`), so a new version of a skill passes on the
  approval of the old one; `docs/capabilities.md:49` calls approvals
  version-pinned.
- `install_bare`: the registration of the plugin is done once, some seconds
  before the gateway is launched (`cli/commands/start.ts:81`); it swallows every
  failure, its own write's included (`start.ts:380`), and nothing looks at the
  result.  A copy of `openclaw.json` written back in between takes it out, and a
  write that was cut short leaves a file that `sc init` has OpenClaw's wizard
  make anew: the gateway runs without the sandbox backend.

Seen in the models and not kept as runs.

*Audit.*  After the first pruning the oldest line kept names a predecessor that
is gone, and the summary reports it as broken from then on
(`audit-reader.ts:71`; `docs/security.md:78`).  A rotation between
`listAuditFiles()` and the reads hides a whole file from a summary that then
reports nothing broken (`audit-reader.ts:55`).  `sc audit --all` shows the
active file only.  An append after a torn one is unreadable although its write
succeeded (`audit.ts:144`).  `getAuditEntries()` and `getAuditStats()` return
nothing while the active file is missing (`audit-reader.ts:93`, `:121`), as it is
after a rotation that was cut short behind its rename, although the archives hold
the records; when it is there they show a tail and skip files of more than 100 MB.
So `KeepsTrail` is about what the files hold, not about what these two show.  A
write that fails is swallowed (`audit.ts:149`): the call is answered all the same,
an audit record even with `ok: true` (`main.ts:130`), and the entry never comes,
against "every tool call recorded" in `docs/security.md:133`.  The properties of
`ToolCalls` therefore speak of entries given to the log (`lost`).

*Calls.*  `writeAsrtConfig()` runs outside the `try` of `executeInSandbox`
(`worker.ts:106`): when it throws, the call is neither recorded nor answered.
The client connects once; after the supervisor is restarted, direct tool calls
run and are no longer recorded.  A removed approval is still served from a
running supervisor's cache (`approvals.ts:55`).

*Approvals.*  A second first-use prompt, answered late, writes the manifest's
capabilities over the approval and drops what was allowed at run time
(`approval-gate.ts:133`).  A removal between the read and the write of an update
is undone by the write (`approval-files.ts:109`).  "never" does not take a host
out of an approval that has it (`approval-gate.ts:108`).

*Skills.*  A native tool that a wildcard matches, or that a skill claims after a
reload, runs in the gateway and is recorded by nobody: the hook takes it for
the supervisor's (`index.ts:208`; `docs/security.md:133` "every tool call
recorded").  A shadow tool whose mapping a reload dropped is recorded twice,
which `index.ts:206` means to avoid.  A call of a skill's tool that the
security hook blocks is not recorded.  `sc skill remove` deletes the directory and
the approval of the name it is given, while approvals given in the chat go by the
manifest's name: where the two differ the approval stays, in spite of "This
deletes the skill and its approval" (`cli/commands/plugin.ts:309`), and the next
skill of that manifest name has it.  So does a skill whose question was open when
another one of its name was removed: the answer is written afterwards.
An `add` in the chat whose verification finds something leaves the skill
installed and the map as it was.  A skill whose directory has another name than
its manifest is asked about without capabilities.

*Proxy.*  The first target of `buildAllowedTargets` (`proxy.ts:102`) is never
accepted, because `checkTarget` blocks port 18800 first.  A `network.external`
wildcard lets internal hosts through the proxy, and the supervisor's own ports
under any name of loopback but the three that `checkTarget` knows
(`proxy.ts:169`-`175`).  The static domains on `localhost` of the resource map are
always removed by the sandbox's filter, which has blind spots of its own: the
pattern that strips a port turns `::1` into `:` (`sandbox.ts:29`), and a domain
with a path or a trailing dot is compared as it is.

*Launcher.*  Two starts that overlap both come up, because the PID file is
written long after it is tested (`start.ts:84`): the second supervisor takes the
socket over and dies for the proxy's port, and the second launcher is satisfied
by the first one's gateway.  A supervisor is replaced once only, because the
replacement has no exit handler (`start.ts:184`, against "Monitor both processes,
restart on failure" in line 10), and an exit before line 179 is never heard.  A
launcher killed while its restart timer is pending or just after leaves a
supervisor that no PID file names.

*Installation.*  With a service account, `gateway.json` is written as that
account before the directory is its own, so the first hardening fails
(`init.ts:289`).  A missing sudoers rule is never repaired, because an account
that is in the manifest is taken to be set up.  After a failed update "Already
on latest" is the answer to the next one, which looks at the commit alone; the
exit status of `cp` is not read (`selfupdate.ts:172`), so a manifest can name the
new release over the plugin of the old one.  `openclaw.json` is truncated by each
of its writers (`init.ts:327`, `start.ts:380`, `upgrade.ts:190`), and one that dies
there takes registration and configuration with it.  A failed `npm ci` may
leave no `tsx` to run `sc` with.  `sc upgrade` with an unreadable manifest
installs into the current directory (`upgrade.ts:107`), and its rollback prints
success whatever npm answered (`upgrade.ts:154`).  A command's older copy of
`install.json` undoes what another recorded.

Outside the models: `sc start` writes violations to
`$HOME/.config/sharkcage/data/audit.jsonl` if that file exists
(`cli/log-prefix.ts:45`), which is not the audit log of `supervisor/audit.ts`
although the comment says so; a multi-byte character that arrives in two chunks
of the socket is corrupted, because each chunk is decoded by itself
(`supervisor/main.ts:115`).

## 6. Not modelled

The session backend (`plugin/asrt-backend.ts`): each operation is one `srt`
command under a policy file that is written once per session, and sessions
share nothing but that file's name; two scope keys that differ in special
characters only share one policy (line 132), `remove` joins its flags to
`-r-f`, which `rm` rejects and `allowFailure` hides (line 360), and `writeFile`
truncates first (line 350).  Manifest inference, the security scanner and
message scrubbing are regular expressions over text; what inference declares
and that a scan may refuse are choices in `SkillRegistry`.  Sign, trust and
verify are sequential commands over files and signatures.  Dashboard, API and
status print what is there; config and user edit one file.

Abstracted away: SOCKS5 framing, JSON framing of partial lines, formatting and
logging.  Of `buildAsrtConfig` and `buildScopedEnv` only what reaches the sandbox of
the permissions of an approval is modelled (`ApprovalFlow`); the static domains,
the variables and the filter over host spellings are a pure function over
strings, and a property of its result would repeat its last line.  What a write
to the audit log leaves behind when it fails is `AuditLog`'s; `ToolCalls` knows
that the entry is lost.  `ToolCalls` has one supervisor at a time; what overlapping
starts do to the socket is in `Launcher`, which in turn does not look into the
calls, leaves out PIDs that are reused, systemd (its stop command is `sc stop`)
and the installation of missing dependencies before the first spawn.
`ApprovalFlow` has one skill with permissions, `SkillRegistry` several whose
permissions are their package.  In `SkillRegistry` a shadow tool that has the
name of a native tool is taken to replace it, which is OpenClaw's doing.  Its
`Load` is one step: `SkillMap.load()` is synchronous, so nothing in the gateway runs
beside it; a command in a terminal that changes a second directory between the
reading of two is not interleaved, and gives a map that a load before or after
it gives for each directory taken alone.
`Installation` has one run of each command at a time, and running `install.sh`
again is another beginning.

## 7. What could follow

A model of PIDs that are reused would need assumptions about the host.  A
module for the session backend is worth writing once its sessions share more
than a file name.
