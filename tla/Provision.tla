----------------------------- MODULE Provision -----------------------------
(***************************************************************************)
(* `sc init` (src/cli/commands/init.ts) and what `sc start` does before    *)
(* and while it spawns the gateway (start.ts): which account it continues  *)
(* as, and the registration of the plugin and of the sandbox backend in    *)
(* OpenClaw's configuration.                                               *)
(*                                                                         *)
(* Each command is a process that reads a file once and writes it later; a *)
(* step is what it does between two calls another process can see.  sudo,  *)
(* useradd and systemctl may refuse.  The UI of the wizard is a choice of  *)
(* the account to run as: a name, none, or what is configured.             *)
(* Launcher models the processes after this point.                         *)
(***************************************************************************)
EXTENDS InstallFiles

VARIABLES
  init,      \* the run of `sc init`: where it stands, the manifest it loaded,
             \* the account that is asked for, the configuration it read, the
             \* account it ends up with
  start,     \* the run of `sc start`: where it stands, its account
  running    \* the gateway: none, or launched "sandboxed", or "bare", without the
             \* plugin and its sandbox backend

setup == << init, start, running >>

NoCopy   == [ok |-> FALSE, user |-> None, ref |-> 1]
NoInit   == [at |-> "idle", m |-> NoCopy, wants |-> None, c |-> "absent",
             user |-> None]
NoStart  == [at |-> "idle", as |-> None]

\* What the wizard's answer or the options ask for.
Answers == Accounts \cup {"none", "keep"}

InitStages == {"idle", "onboard", "read", "ui", "user", "create", "record",
               "sudoers", "check", "service", "gateway", "chown"}

InitRuns  == [at : InitStages, m : Manifests, wants : Accounts \cup {None},
              c : Configs, user : Accounts \cup {None}]
StartRuns == [at : {"idle", "read", "register", "launch"},
              as : Accounts \cup {Admin, None}]

SetupTypeOK ==
  /\ init \in InitRuns
  /\ start \in StartRuns
  /\ running \in {"nothing", "sandboxed", "bare"}

SetupInit ==
  /\ init = NoInit
  /\ start = NoStart
  /\ running = "nothing"

InitAt(a)  == init' = [init EXCEPT !.at = a]
InitEnds   == init' = NoInit
StartAt(a) == start' = [start EXCEPT !.at = a]

-----------------------------------------------------------------------------
(* sc init.                                                                *)

\* Past ensureServiceUser only the account it returned counts.
WithUser(u) == [NoInit EXCEPT !.at = "service", !.user = u]

\* The account the openclaw.json of this install is written as.
ConfigAccount == IF init.m.user = None THEN Admin ELSE init.m.user

\* requireManifest() exits without a readable manifest; OpenClaw's wizard comes
\* first when openclaw.json does not parse or is not there.
InitBegin ==
  /\ CanRun
  /\ init.at = "idle"
  /\ manifest.ok
  /\ init' = [NoInit EXCEPT !.at = IF config \in Parsable THEN "read" ELSE "onboard",
                            !.m = manifest]
  /\ UNCHANGED << files, start, running >>

\* OpenClaw's own wizard; init exits when it fails.  What it makes of a file
\* that a rollback has put there meanwhile is left open.
InitOnboard ==
  /\ init.at = "onboard"
  /\ \/ /\ owner = ConfigAccount
        /\ config' \in {"plain"} \cup ({config} \cap Parsable)
        /\ InitAt("read")
     \/ UNCHANGED config /\ InitEnds
  /\ UNCHANGED << manifest, gateway, host, release, newest, start, running >>

\* ensureLoopbackControlUiAuth reads openclaw.json and, when a gateway on the
\* loopback interface lacks a field, writes back what it read with that field.
\* A file that does not parse is left alone.
InitReadConfig ==
  /\ init.at = "read"
  /\ \/ InitAt("user")
     \/ /\ config \in Parsable
        /\ init' = [init EXCEPT !.c = config, !.at = "ui"]
  /\ UNCHANGED << files, start, running >>

\* Mutant of InitAllowUi: the file is written anew instead of extended.
InitRewritesConfig ==
  /\ init.at = "ui"
  /\ owner = ConfigAccount
  /\ config' = "plain"
  /\ init' = [init EXCEPT !.at = "user", !.c = "absent"]
  /\ UNCHANGED << manifest, gateway, host, release, newest, start, running >>

InitAllowUi ==
  /\ init.at = "ui"
  /\ \/ /\ owner = ConfigAccount
        /\ config' = init.c
        /\ init' = [init EXCEPT !.at = "user", !.c = "absent"]
     \/ UNCHANGED config /\ InitEnds
  /\ UNCHANGED << manifest, gateway, host, release, newest, start, running >>

\* Mutant of InitUser: "what is configured" is not looked up.
InitTakesAnswer(answer) ==
  /\ init.at = "user"
  /\ init' = IF answer \in Accounts
               THEN [init EXCEPT !.at = "create", !.wants = answer]
               ELSE WithUser(answer)
  /\ UNCHANGED << files, start, running >>

\* resolveServiceUser, which asks, and the start of ensureServiceUser: an account
\* that is there and in the manifest is taken to be set up.
InitUser(answer) ==
  /\ init.at = "user"
  /\ init' =
       IF answer \in Accounts
         THEN IF answer \in accounts /\ init.m.user = answer
                THEN WithUser(answer)
                ELSE [init EXCEPT !.at = "create", !.wants = answer]
         ELSE WithUser(IF answer = "keep" /\ gateway.file = "written"
                         THEN gateway.user ELSE None)
  /\ UNCHANGED << files, start, running >>

\* sudo -v, then useradd unless the account exists; a refusal goes to the catch.
InitCreateUser ==
  /\ init.at = "create"
  /\ \/ accounts' = accounts \cup {init.wants} /\ InitAt("record")
     \/ UNCHANGED accounts /\ InitAt("check")
  /\ UNCHANGED << etc, owner, sudoers, unit, release, newest, start, running >>

\* manifest.serviceUser is set in memory before the file is written, and stays
\* set when the write throws.
InitRecordUser ==
  /\ init.at = "record"
  /\ LET m == [init.m EXCEPT !.user = init.wants]
     IN  \/ /\ owner = Admin
            /\ manifest' = m
            /\ init' = [init EXCEPT !.m = m, !.at = "sudoers"]
         \/ /\ owner # Admin
            /\ init' = [init EXCEPT !.m = m, !.at = "check"]
            /\ UNCHANGED manifest
  /\ UNCHANGED << gateway, config, host, release, newest, start, running >>

InitSudoers ==
  /\ init.at = "sudoers"
  /\ \/ sudoers' = sudoers \cup {init.wants}
     \/ UNCHANGED sudoers
  /\ InitAt("check")
  /\ UNCHANGED << etc, owner, accounts, unit, release, newest, start, running >>

\* Mutant of InitCheckUser: what was asked for is returned after a failure too.
InitTrustsUser ==
  /\ init.at = "check"
  /\ init' = WithUser(init.wants)
  /\ UNCHANGED << files, start, running >>

\* The last thing ensureServiceUser does, whatever failed: the account counts
\* if the host knows it.
InitCheckUser ==
  /\ init.at = "check"
  /\ init' = WithUser(IF init.wants \in accounts THEN init.wants ELSE None)
  /\ UNCHANGED << files, start, running >>

\* configureSystemdService: optional, and its failure does not stop init.
InitService ==
  /\ init.at = "service"
  /\ \/ unit' = IF init.user = None THEN Admin ELSE init.user
     \/ UNCHANGED unit
  /\ InitAt("gateway")
  /\ UNCHANGED << etc, owner, accounts, sudoers, release, newest, start, running >>

\* gateway.json is written as the service account, before the directory is
\* that account's; init dies when the write is refused.
InitGateway ==
  /\ init.at = "gateway"
  /\ \/ /\ owner = (IF init.user = None THEN Admin ELSE init.user)
        /\ gateway' = [file |-> "written", user |-> init.user]
        /\ IF init.user = None THEN InitEnds ELSE InitAt("chown")
     \/ UNCHANGED gateway /\ InitEnds
  /\ UNCHANGED << manifest, config, host, release, newest, start, running >>

InitChown ==
  /\ init.at = "chown"
  /\ \/ owner' = init.user
     \/ UNCHANGED owner
  /\ InitEnds
  /\ UNCHANGED << etc, accounts, sudoers, unit, release, newest, start, running >>

\* Killed, also between the truncation of a file and its write.
InitDies ==
  /\ init.at # "idle"
  /\ InitEnds
  /\ \/ UNCHANGED etc
     \/ /\ init.at \in {"onboard", "ui"} /\ owner = ConfigAccount
        /\ config' = "torn"
        /\ UNCHANGED << manifest, gateway >>
     \/ /\ init.at = "record" /\ owner = Admin
        /\ TornManifest
        /\ UNCHANGED << gateway, config >>
     \/ /\ init.at = "gateway"
        /\ owner = (IF init.user = None THEN Admin ELSE init.user)
        /\ gateway' = [file |-> "torn", user |-> None]
        /\ UNCHANGED << manifest, config >>
  /\ UNCHANGED << host, release, newest, start, running >>

-----------------------------------------------------------------------------
(* sc start.                                                               *)

\* Started by the administrator or by systemd; re-executed as the account of
\* gateway.json.  Without that file `sc start` is `sc init` first.
StartBegin ==
  /\ CanRun
  /\ start.at = "idle"
  /\ running = "nothing"
  /\ gateway.file # "absent"
  /\ \E a \in {Admin, unit} \ {None} :
       start' = [NoStart EXCEPT !.at = "read", !.as = RunAs(a)]
  /\ UNCHANGED << files, init, running >>

\* ensureOpenClawPluginRegistered: nothing to do, or a copy to write back.
StartReadConfig ==
  /\ start.at = "read"
  /\ StartAt(IF config = "plain" THEN "register" ELSE "launch")
  /\ UNCHANGED << files, init, running >>

\* Whatever the write throws is caught, and start goes on; the file is
\* truncated by then, unless it could not be opened.
StartRegister ==
  /\ start.at = "register"
  /\ config' \in IF owner = start.as THEN {"registered", "torn"} ELSE {config}
  /\ StartAt("launch")
  /\ UNCHANGED << manifest, gateway, host, release, newest, init, running >>

\* Seconds later, when the supervisor's socket has answered.  OpenClaw does not
\* come up on a configuration that does not parse.
StartGateway ==
  /\ start.at = "launch"
  /\ running' = CASE config = "registered" -> "sandboxed"
                  [] config = "torn"       -> "nothing"
                  [] OTHER                 -> "bare"
  /\ start' = NoStart
  /\ UNCHANGED << files, init >>

\* `sc stop`, or a start that fails or is killed.
Stop ==
  /\ start # NoStart \/ running # "nothing"
  /\ start' = NoStart
  /\ running' = "nothing"
  /\ \/ UNCHANGED config
     \/ start.at = "register" /\ owner = start.as /\ config' = "torn"
  /\ UNCHANGED << manifest, gateway, host, release, newest, init >>

SetupNext ==
  \/ InitBegin \/ InitOnboard \/ InitReadConfig \/ InitAllowUi
  \/ \E answer \in Answers : InitUser(answer)
  \/ InitCreateUser \/ InitRecordUser \/ InitSudoers \/ InitCheckUser
  \/ InitService \/ InitGateway \/ InitChown \/ InitDies
  \/ StartBegin \/ StartReadConfig \/ StartRegister \/ StartGateway \/ Stop
=============================================================================
