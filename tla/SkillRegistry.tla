--------------------------- MODULE SkillRegistry ---------------------------
(***************************************************************************)
(* Which skill a tool belongs to, and who asks, runs and records its call. *)
(* Three parties read and write the plugin directory and the approvals at  *)
(* their own pace: `sc skill add`, `sc skill remove` and `sc approve` in   *)
(* terminals (src/cli/commands/plugin.ts, approve.ts), the same `add` run  *)
(* by the gateway for a chat message (src/plugin/index.ts, hook 4), and    *)
(* the gateway, which keeps a map of tools to skills (skill-map.ts) and    *)
(* routes each skill tool through a shadow tool registered once per        *)
(* process.                                                                *)
(*                                                                         *)
(* A package stands for the contents of a skill directory, its version and *)
(* capabilities included.  The supervisor is up: what becomes of a call    *)
(* sent to it is ToolCalls' subject.  Scanning of the message text, the    *)
(* dashboard and the webhook of index.ts keep no state and are left out.   *)
(***************************************************************************)
EXTENDS Integers, Sequences, SequencesExt

CONSTANTS
  MaxName,     \* names of directories and skills, in readdir order
  Packages,    \* what can be installed
  DirOf,       \* the directory `add` gives a package
  NameOf,      \* the name in its plugin.json
  ToolsOf,     \* the tools plugin.json declares, or AnyTool
  ManifestOf,  \* "good", "broken", or "missing": add infers one
  Linked,      \* packages added by path: the directory is a symlink
  Tools,       \* tool names
  Native,      \* those the gateway has of its own
  Matches,     \* Matches[n]: the tools named n_<something>
  Scanned,     \* tools whose parameters the security hook scans
  Calls,       \* tool calls
  ToolOf,      \* the tool each of them names
  Terminals,   \* terminals with a user
  None,        \* nothing
  Unseen,      \* a manifest that could not be read
  AnyTool      \* plugin.json has no "tools" field

Names == 1 .. MaxName

ASSUME RegistryAssumption ==
  /\ MaxName \in Nat \ {0}
  /\ DirOf \in [Packages -> Names]
  /\ NameOf \in [Packages -> Names]
  /\ \A p \in Packages : ToolsOf[p] = AnyTool \/ ToolsOf[p] \subseteq Tools
  /\ ManifestOf \in [Packages -> {"good", "broken", "missing"}]
  /\ Linked \subseteq Packages
  /\ Native \subseteq Tools /\ Scanned \subseteq Tools
  /\ Matches \in [Names -> SUBSET Tools]
  /\ ToolOf \in [Calls -> Tools]
  /\ None \notin Packages \cup Names \cup {Unseen}

VARIABLES
  (* the files *)
  dirs,        \* plugins/<name>: the package in it, or None
  manifest,    \* names whose directory holds a plugin.json
  approvals,   \* approvals/<name>.json: the package it was given for, or None
  (* the commands *)
  term,        \* the sc command in each terminal
  chat,        \* the `add` the gateway runs, and whether it still waits
  (* the gateway process *)
  up,          \* it runs
  map,         \* SkillMap.toolToSkill
  shadow,      \* shadow tools: the skill each was registered for, or None
  reloaded,    \* the map was loaded again after registration
  status,      \* where each call is
  shown,       \* what the open question about it showed
  records,     \* audit entries of each call
  asked        \* history: what the open questions about each name show, and its
               \* approval if such a question showed it since the last removal

files    == << dirs, manifest, approvals >>
commands == << term, chat >>
gateway  == << up, map, shadow, reloaded >>
calls    == << status, shown, records >>

vars == << files, commands, gateway, calls, asked >>

Content == Packages \cup {Unseen, None}

CallStates == {"idle", "prompted", "cleared", "running", "done", "refused"}

Idle == [at |-> "idle", name |-> None, seen |-> None]

-----------------------------------------------------------------------------
(* SkillMap.                                                               *)

\* The package in directory n whose manifest the program can parse, or None.
Readable(n) ==
  IF dirs[n] # None /\ n \in manifest /\ ManifestOf[dirs[n]] # "broken"
    THEN dirs[n] ELSE None

\* A generated manifest lists no tools.
Declared(p) == IF ManifestOf[p] = "missing" THEN AnyTool ELSE ToolsOf[p]

EmptyMap == [direct |-> [t \in Tools |-> None], wild |-> << >>]

\* Mutant of Enter: the skill that claimed a tool first keeps it.
EnterKeeping(mp, p) ==
  IF p = None THEN mp
  ELSE IF Declared(p) = AnyTool
    THEN [mp EXCEPT !.wild =
            IF NameOf[p] \in ToSet(@) THEN @ ELSE Append(@, NameOf[p])]
    ELSE [mp EXCEPT !.direct =
            [t \in Tools |-> IF t \in Declared(p) /\ @[t] = None
                               THEN NameOf[p] ELSE @[t]]]

\* One turn of load()'s loop: Map.set() of each declared tool, or of the key
\* <name>_*, which keeps its place when it is already there.
Enter(mp, p) ==
  IF p = None THEN mp
  ELSE IF Declared(p) = AnyTool
    THEN [mp EXCEPT !.wild =
            IF NameOf[p] \in ToSet(@) THEN @ ELSE Append(@, NameOf[p])]
    ELSE [mp EXCEPT !.direct =
            [t \in Tools |-> IF t \in Declared(p) THEN NameOf[p] ELSE @[t]]]

\* load(): the directories in readdir order.
Load ==
  LET after[n \in 0 .. MaxName] ==
        IF n = 0 THEN EmptyMap ELSE Enter(after[n - 1], Readable(n))
  IN  after[MaxName]

Hits(t) == { i \in DOMAIN map.wild : t \in Matches[map.wild[i]] }

\* Mutant of Owner: the wildcards are tried first.
OwnerWildFirst(t) ==
  IF Hits(t) # {} THEN map.wild[Min(Hits(t))] ELSE map.direct[t]

\* getSkill(): a direct entry, else the first wildcard that matches.
Owner(t) ==
  CASE map.direct[t] # None -> map.direct[t]
    [] map.direct[t] = None /\ Hits(t) # {} -> map.wild[Min(Hits(t))]
    [] OTHER -> None

-----------------------------------------------------------------------------
Init ==
  /\ dirs = [n \in Names |-> None]
  /\ manifest = {}
  /\ approvals = [n \in Names |-> None]
  /\ term = [x \in Terminals |-> Idle]
  /\ chat = [at |-> "idle", name |-> None, waits |-> FALSE]
  /\ up = FALSE
  /\ map = EmptyMap
  /\ shadow = [t \in Tools |-> None]
  /\ reloaded = FALSE
  /\ status = [c \in Calls |-> "idle"]
  /\ shown = [c \in Calls |-> None]
  /\ records = [c \in Calls |-> 0]
  /\ asked = [n \in Names |-> {}]

-----------------------------------------------------------------------------
(* The commands.                                                           *)


\* git clone or ln -s into a directory that does not exist.
Unpack(p) ==
  /\ dirs[DirOf[p]] = None
  /\ dirs' = [dirs EXCEPT ![DirOf[p]] = p]
  /\ manifest' = IF ManifestOf[p] = "missing" THEN manifest \ {DirOf[p]}
                                              ELSE manifest \cup {DirOf[p]}

\* The rest of add up to the questions: a missing manifest is generated.  The
\* directory may have been removed meanwhile: then nothing is written.
Infer(n) ==
  manifest' = IF dirs[n] = None THEN manifest ELSE manifest \cup {n}

\* sc skill add in a terminal.
TermAdd(x, p) ==
  /\ term[x] = Idle
  /\ Unpack(p)
  /\ term' = [term EXCEPT ![x] = [at |-> "added", name |-> DirOf[p], seen |-> None]]
  /\ UNCHANGED << approvals, chat, gateway, calls >>

\* The manifest is read and verified; approve shows its capabilities.  An
\* unreadable one ends the command, and so do a finding of verify and "n":
\* all leave the skill installed.
TermReview(x) ==
  /\ term[x].at = "added"
  /\ Infer(term[x].name)
  /\ term' \in { [term EXCEPT ![x] = Idle],
                 [term EXCEPT ![x].at = "asked", ![x].seen = dirs[term[x].name]] }
  /\ dirs[term[x].name] = None \/ ManifestOf[dirs[term[x].name]] = "broken"
       => term'[x] = Idle
  /\ UNCHANGED << dirs, approvals, chat, gateway, calls >>

\* sc approve on its own: the manifest is read, the question asked.
TermAsk(x, n) ==
  /\ term[x] = Idle
  /\ Readable(n) # None
  /\ term' = [term EXCEPT ![x] = [at |-> "asked", name |-> n, seen |-> dirs[n]]]
  /\ UNCHANGED << files, chat, gateway, calls >>

\* writeApproval(), under the name of the directory.
TermApprove(x) ==
  /\ term[x].at = "asked"
  /\ approvals' = [approvals EXCEPT ![term[x].name] = term[x].seen]
  /\ term' = [term EXCEPT ![x] = Idle]
  /\ UNCHANGED << dirs, manifest, chat, gateway, calls >>

\* sc skill remove: the directory is there, and the user is asked.
TermRemove(x, n) ==
  /\ term[x] = Idle
  /\ dirs[n] # None
  /\ term' = [term EXCEPT ![x] = [at |-> "removing", name |-> n, seen |-> None]]
  /\ UNCHANGED << files, chat, gateway, calls >>

\* Answered "y": the directory goes first, with force, so that one that is gone
\* by now is no error.
TermRemoveSkill(x) ==
  /\ term[x].at = "removing"
  /\ dirs' = [dirs EXCEPT ![term[x].name] = None]
  /\ manifest' = manifest \ {term[x].name}
  /\ term' = [term EXCEPT ![x] =
                [at |-> "removed", name |-> term[x].name, seen |-> None]]
  /\ UNCHANGED << approvals, chat, gateway, calls >>

\* Then the approval of the same name.
TermRemoveApproval(x) ==
  /\ term[x].at = "removed"
  /\ approvals' = [approvals EXCEPT ![term[x].name] = None]
  /\ term' = [term EXCEPT ![x] = Idle]
  /\ UNCHANGED << dirs, manifest, chat, gateway, calls >>

\* The user answers "n" or interrupts the command.
TermQuit(x) ==
  /\ term[x] # Idle
  /\ term' = [term EXCEPT ![x] = Idle]
  /\ UNCHANGED << files, chat, gateway, calls >>

\* The author edits the directory a linked skill points at.
Edit(p) ==
  /\ p \in Linked
  /\ dirs[DirOf[p]] \in Linked \ {p}
  /\ dirs' = [dirs EXCEPT ![DirOf[p]] = p]
  /\ UNCHANGED << manifest, approvals, commands, gateway, calls >>

-----------------------------------------------------------------------------
(* The gateway.  execFileSync() holds its only thread.                     *)

Free == up /\ ~chat.waits

\* register(), once per process.
Register ==
  /\ ~up
  /\ up' = TRUE
  /\ map' = Load
  /\ shadow' = map'.direct
  /\ UNCHANGED << reloaded, files, commands, calls >>

\* The process ends and its calls with it; an `add` it started runs on.
GatewayEnds ==
  /\ up
  /\ up' = FALSE
  /\ map' = EmptyMap
  /\ shadow' = [t \in Tools |-> None]
  /\ reloaded' = FALSE
  /\ chat' = [chat EXCEPT !.waits = FALSE]
  /\ status' = [c \in Calls |-> IF status[c] \in {"prompted", "cleared", "running"}
                                  THEN "refused" ELSE status[c]]
  /\ shown' = [c \in Calls |-> None]
  /\ UNCHANGED << files, term, records >>

\* inbound_claim: sc skill add with no terminal.  A plain name is a path in the
\* gateway's directory, so that a skill can be linked too.
ChatAdd(p) ==
  /\ Free
  /\ chat.at = "idle"
  /\ Unpack(p)
  /\ chat' = [at |-> "added", name |-> DirOf[p], waits |-> TRUE]
  /\ UNCHANGED << approvals, term, gateway, calls >>

\* Its end.  With exit code 0 the map is loaded again if the gateway still
\* waits; a finding of verify ends it with 1, and then the skill stays
\* installed and the map as it was.
ChatAddEnds ==
  /\ chat.at = "added"
  /\ Infer(chat.name)
  /\ chat' = [at |-> "idle", name |-> None, waits |-> FALSE]
  /\ UNCHANGED << dirs, approvals, term, up, map, shadow, reloaded, calls >>

\* The same with exit code 0; what load() reads includes the new manifest.
ChatAddSucceeds ==
  /\ chat.at = "added"
  /\ chat.waits
  /\ chat.name \in manifest \/ dirs[chat.name] = None
  /\ map' = Load
  /\ reloaded' = TRUE
  /\ chat' = [at |-> "idle", name |-> None, waits |-> FALSE]
  /\ UNCHANGED << files, term, up, shadow, calls >>

\* writeFileSync() of a generated manifest, before the command goes on.
ChatInfer ==
  /\ chat.at = "added"
  /\ chat.name \notin manifest
  /\ dirs[chat.name] # None
  /\ manifest' = manifest \cup {chat.name}
  /\ UNCHANGED << dirs, approvals, commands, gateway, calls >>

\* The sixty seconds are over: execFileSync() kills the command and throws.
ChatTimesOut ==
  /\ chat.waits
  /\ chat' = [at |-> "idle", name |-> None, waits |-> FALSE]
  /\ UNCHANGED << files, term, gateway, calls >>

-----------------------------------------------------------------------------
(* The hooks of a tool call.                                               *)

\* The gateway has the tool: its own, or a shadow tool.
Callable(c) == Free /\ (ToolOf[c] \in Native \/ shadow[ToolOf[c]] # None)

\* Priority 200: the security hook blocks it.
Blocked(c) ==
  /\ Callable(c)
  /\ status[c] = "idle"
  /\ ToolOf[c] \in Scanned
  /\ status' = [status EXCEPT ![c] = "refused"]
  /\ records' = IF Owner(ToolOf[c]) = None THEN [records EXCEPT ![c] = @ + 1]
                                           ELSE records
  /\ UNCHANGED << files, commands, gateway, shown >>

\* Priority 150: a tool of no skill, or of one whose approval file exists.
Passes(c) ==
  /\ Callable(c)
  /\ status[c] = "idle"
  /\ LET s == Owner(ToolOf[c])
     IN  s # None => approvals[s] # None
  /\ status' = [status EXCEPT ![c] = "cleared"]
  /\ UNCHANGED << files, commands, gateway, shown, records >>

\* No approval: the capabilities are read from plugins/<skill>/plugin.json,
\* whichever package is there, and shown.
Prompts(c) ==
  /\ Callable(c)
  /\ status[c] = "idle"
  /\ Owner(ToolOf[c]) # None
  /\ LET s == Owner(ToolOf[c])
     IN  /\ approvals[s] = None
         /\ shown' = [shown EXCEPT ![c] =
              [skill |-> s,
               what  |-> IF Readable(s) = None THEN Unseen ELSE Readable(s)]]
  /\ status' = [status EXCEPT ![c] = "prompted"]
  /\ UNCHANGED << files, commands, gateway, records >>

\* Mutant of Allowed: the file gets the name of the skill, not the manifest.
AllowedByName(c) ==
  /\ Free
  /\ status[c] = "prompted"
  /\ approvals' = [approvals EXCEPT ![shown[c].skill] = shown[c].skill]
  /\ status' = [status EXCEPT ![c] = "cleared"]
  /\ shown' = [shown EXCEPT ![c] = None]
  /\ UNCHANGED << dirs, manifest, commands, gateway, records >>

\* Mutant of Allowed: the manifest is read again for the file.
AllowedRereads(c) ==
  /\ Free
  /\ status[c] = "prompted"
  /\ approvals' = [approvals EXCEPT ![shown[c].skill] =
       IF Readable(shown[c].skill) = None THEN Unseen ELSE Readable(shown[c].skill)]
  /\ status' = [status EXCEPT ![c] = "cleared"]
  /\ shown' = [shown EXCEPT ![c] = None]
  /\ UNCHANGED << dirs, manifest, commands, gateway, records >>

\* onResolution with "allow": the file gets what was read for the prompt.
Allowed(c) ==
  /\ Free
  /\ status[c] = "prompted"
  /\ approvals' = [approvals EXCEPT ![shown[c].skill] = shown[c].what]
  /\ status' = [status EXCEPT ![c] = "cleared"]
  /\ shown' = [shown EXCEPT ![c] = None]
  /\ UNCHANGED << dirs, manifest, commands, gateway, records >>

\* Denied, or not answered for four minutes.
Denied(c) ==
  /\ Free
  /\ status[c] = "prompted"
  /\ status' = [status EXCEPT ![c] = "refused"]
  /\ shown' = [shown EXCEPT ![c] = None]
  /\ UNCHANGED << files, commands, gateway, records >>

\* The tool runs: a shadow tool sends the call to the supervisor, which
\* records it whether or not it runs the skill; a native one runs here.
Runs(c) ==
  /\ Free
  /\ status[c] = "cleared"
  /\ status' = [status EXCEPT ![c] = "running"]
  /\ records' = IF shadow[ToolOf[c]] # None THEN [records EXCEPT ![c] = @ + 1]
                                            ELSE records
  /\ UNCHANGED << files, commands, gateway, shown >>

\* Mutant of Ends: every call is recorded by the hook.
EndsRecordingAll(c) ==
  /\ Free
  /\ status[c] = "running"
  /\ status' = [status EXCEPT ![c] = "done"]
  /\ records' = [records EXCEPT ![c] = @ + 1]
  /\ UNCHANGED << files, commands, gateway, shown >>

\* after_tool_call: the tools of skills are left to the supervisor.
Ends(c) ==
  /\ Free
  /\ status[c] = "running"
  /\ status' = [status EXCEPT ![c] = "done"]
  /\ records' = IF Owner(ToolOf[c]) = None THEN [records EXCEPT ![c] = @ + 1]
                                           ELSE records
  /\ UNCHANGED << files, commands, gateway, shown >>

-----------------------------------------------------------------------------
CommandNext ==
  \/ \E x \in Terminals :
       \/ \E p \in Packages : TermAdd(x, p)
       \/ \E n \in Names : TermAsk(x, n) \/ TermRemove(x, n)
       \/ TermReview(x)
       \/ TermApprove(x)
       \/ TermRemoveSkill(x)
       \/ TermQuit(x)
  \/ \E p \in Packages : Edit(p)

GatewayNext ==
  \/ Register
  \/ GatewayEnds
  \/ \E p \in Packages : ChatAdd(p)
  \/ ChatInfer
  \/ ChatAddEnds
  \/ ChatAddSucceeds
  \/ ChatTimesOut

CallNext ==
  \E c \in Calls :
     Blocked(c) \/ Passes(c) \/ Prompts(c) \/ Allowed(c) \/ Denied(c)
       \/ Runs(c) \/ Ends(c)

\* What the open questions about n show.
Open(n) ==
  { term[x].seen : x \in { y \in Terminals : term[y].at = "asked" /\ term[y].name = n } }
    \cup { shown[c].what : c \in { d \in Calls : /\ status[d] = "prompted"
                                               /\ shown[d].skill = n } }

\* The history of a step that ends the removal of the names in `removed`.
Remember(removed) ==
  asked' = [n \in Names |->
    Open(n)' \cup IF n \in removed THEN {} ELSE asked[n] \cap {approvals'[n]}]

Next ==
  \/ (CommandNext \/ GatewayNext \/ CallNext) /\ Remember({})
  \/ \E x \in Terminals : TermRemoveApproval(x) /\ Remember({term[x].name})

Spec == Init /\ [][Next]_vars

-----------------------------------------------------------------------------
(* Properties.                                                             *)

\* The types of the files, the commands, the gateway and the calls.
SystemTypeOK ==
  /\ dirs \in [Names -> Packages \cup {None}]
  /\ manifest \subseteq Names
  /\ approvals \in [Names -> Content]
  /\ term \in [Terminals -> [at   : {"idle", "added", "asked", "removing",
                                     "removed"},
                             name : Names \cup {None},
                             seen : Packages \cup {None}]]
  /\ chat \in [at : {"idle", "added"}, name : Names \cup {None}, waits : BOOLEAN]
  /\ up \in BOOLEAN
  /\ map \in [direct : [Tools -> Names \cup {None}], wild : Seq(Names)]
  /\ shadow \in [Tools -> Names \cup {None}]
  /\ reloaded \in BOOLEAN
  /\ status \in [Calls -> CallStates]
  /\ shown \in [Calls -> {None} \cup [skill : Names, what : Packages \cup {Unseen}]]
  /\ records \in [Calls -> Nat]

\* The types of all variables.
TypeOK == SystemTypeOK /\ asked \in [Names -> SUBSET Content]

\* What load() has to compute, said without its loop: a declared tool belongs
\* to the last directory that declares it; a tool nobody declares, to the
\* first directory whose wildcard fits.  Checked on the map a reload gives
\* (skill-map.ts: load, getSkill).
OwnerIsLastClaim ==
  [][map' # map /\ up' =>
     \A t \in Tools :
       LET claims == { n \in Names : /\ Readable(n) # None
                                     /\ Declared(Readable(n)) # AnyTool
                                     /\ t \in Declared(Readable(n)) }
           fits   == { n \in Names : /\ Readable(n) # None
                                     /\ Declared(Readable(n)) = AnyTool
                                     /\ t \in Matches[NameOf[Readable(n)]] }
           owner  == Owner(t)'
       IN  /\ claims # {} =>
                \E n \in claims : /\ \A k \in claims : k <= n
                                  /\ owner = NameOf[Readable(n)]
           /\ claims = {} /\ fits # {} =>
                \E n \in fits : /\ \A k \in fits : n <= k
                                /\ owner = NameOf[Readable(n)]
           /\ claims \cup fits = {} => owner = None]_vars

\* Between two loads of the map the gate asks about the skill the call will
\* be routed to: the user never approves one skill and runs another, although
\* the prompt uses getSkill() and the route getAllMappings() (index.ts).
GateAndRouteAgree ==
  up /\ ~reloaded =>
    \A t \in Tools : shadow[t] # None => Owner(t) = shadow[t]

\* A call that runs to its end is recorded exactly once, by the supervisor or
\* by the hook, if the map was not reloaded since registration and the tool
\* is not one of the gateway's own that a wildcard claims (index.ts:
\* after_tool_call).
RecordedOnce ==
  [][\A c \in Calls :
       LET t == ToolOf[c]
       IN  /\ status[c] = "running" /\ status'[c] = "done"
           /\ ~reloaded
           /\ shadow[t] = None => Owner(t) = None
           => records'[c] = 1]_vars

\* An approval holds what a question about its name showed a user, and a
\* question that no finished removal of that name came after, unless it was
\* still open then.  Edits while a question is open, answers in the chat beside
\* `sc skill remove` and a removal killed half-way leave nothing else to the
\* next skill of that name (approval-gate.ts: onResolution; approve.ts;
\* plugin.ts: pluginRemove).  A skill whose manifest has another name than its
\* directory is approved under the one and removed under the other.
ApprovalWasShown ==
  \A n \in Names : approvals[n] # None => approvals[n] \in asked[n]

\* Packages of one directory are versions with capabilities of their own.
\* Claim of the documentation ("Version-pinned. New version with new
\* capabilities -> user prompted for new ones only."): a call passes without a
\* question only if the approval was given for what is installed.
VersionPinned ==
  [][\A c \in Calls :
       LET s == Owner(ToolOf[c])
       IN  status[c] = "idle" /\ status'[c] = "cleared" /\ s # None
             => approvals[s] = dirs[s]]_vars

=============================================================================
