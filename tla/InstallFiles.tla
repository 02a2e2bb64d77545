---------------------------- MODULE InstallFiles ----------------------------
(***************************************************************************)
(* The installation that the set-up commands share: what `install.sh`      *)
(* leaves, the files under etc/, OpenClaw's configuration, the accounts of *)
(* the host, and the copies a release exists in (the checked-out source,   *)
(* the dependencies, the compiled plugin, the copy of it that OpenClaw     *)
(* loads).  Provision and Releases are the commands.                       *)
(*                                                                         *)
(* The directory belongs to one account at a time and only that account    *)
(* writes in it; root writes the files outside it through sudo.  A file is *)
(* written by a truncation and a write: a command killed between the two   *)
(* leaves a file nobody can parse.                                         *)
(***************************************************************************)
EXTENDS Naturals

CONSTANTS
  Accounts,     \* names of dedicated service accounts
  Admin,        \* the account that ran install.sh, "installedBy"
  None,
  MaxTag,       \* releases of sharkcage, in order
  MaxOpenClaw,  \* versions of OpenClaw, the last one is what npm offers
  Pinned        \* per release, the OpenClaw version of its package-lock

Tags     == 1 .. MaxTag
Versions == 1 .. MaxOpenClaw

\* No usable copy: dependencies half installed, a build that stopped half-way.
Broken == 0

ASSUME InstallAssumption ==
  /\ MaxTag \in Nat \ {0}
  /\ MaxOpenClaw \in Nat \ {0}
  /\ Pinned \in [Tags -> Versions]
  /\ Admin \notin Accounts
  /\ None \notin Accounts \cup {Admin}

VARIABLES
  manifest,   \* etc/install.json: readable, the service user, the release
  gateway,    \* etc/gateway.json: absent, torn or written; its runAsUser
  config,     \* openclaw.json: absent, torn, or a file that names a gateway mode,
              \* without or with the sharkcage plugin and its sandbox backend
  owner,      \* the account the directory belongs to
  accounts,   \* service accounts that exist on the host
  sudoers,    \* accounts with a rule under /etc/sudoers.d
  unit,       \* the account of the systemd unit, None without one
  source,     \* the release git has checked out
  deps,       \* the release whose dependencies node_modules holds
  openclaw,   \* the version of OpenClaw in node_modules
  build,      \* the release that dist/sharkcage-build was compiled from
  plugin,     \* the release that OpenClaw loads: dist/sharkcage, dist/shared
  copied,     \* history: the last cp into `plugin` reported no error
  newest      \* the newest release that is published

etc     == << manifest, gateway, config >>
host    == << owner, accounts, sudoers, unit >>
release == << source, deps, openclaw, build, plugin, copied >>
files   == << manifest, gateway, config, owner, accounts, sudoers, unit,
              source, deps, openclaw, build, plugin, copied, newest >>

Manifests == [ok : BOOLEAN, user : Accounts \cup {None}, ref : Tags]
Configs   == {"absent", "torn", "plain", "registered"}

\* What JSON.parse accepts.
Parsable  == {"plain", "registered"}

FilesTypeOK ==
  /\ manifest \in Manifests
  /\ gateway \in [file : {"absent", "torn", "written"},
                  user : Accounts \cup {None}]
  /\ config \in Configs
  /\ owner \in Accounts \cup {Admin}
  /\ accounts \subseteq Accounts
  /\ sudoers \subseteq Accounts
  /\ unit \in Accounts \cup {Admin, None}
  /\ source \in Tags
  /\ deps \in Tags \cup {Broken}
  /\ openclaw \in Versions \cup {Broken}
  /\ build \in Tags \cup {Broken}
  /\ plugin \in Tags \cup {Broken}
  /\ copied \in BOOLEAN
  /\ newest \in Tags

\* After install.sh, before the first `sc init`.  Running install.sh again is
\* another beginning.
FilesInit ==
  /\ manifest = [ok |-> TRUE, user |-> None, ref |-> 1]
  /\ gateway = [file |-> "absent", user |-> None]
  /\ config = "absent"
  /\ owner = Admin
  /\ accounts = {}
  /\ sudoers = {}
  /\ unit = None
  /\ source = 1
  /\ deps = 1
  /\ openclaw = Pinned[1]
  /\ build = 1
  /\ plugin = 1
  /\ copied = TRUE
  /\ newest = 1

-----------------------------------------------------------------------------
(* `sc` itself runs from node_modules: bin/sc executes node_modules/.bin/tsx. *)

CanRun == deps # Broken

\* The account `sc start` continues as when `a` starts it.
RunAs(a) ==
  IF gateway.file = "written" /\ gateway.user # None THEN gateway.user ELSE a

\* The manifest as a killed writer leaves it.
TornManifest == manifest' = [manifest EXCEPT !.ok = FALSE]

\* npm install --save openclaw@v in the directory: the tree becomes what
\* package.json asks for, or it stays, or it is left half installed.
NpmInstall(v) ==
  /\ openclaw' = v
  /\ deps' = source

NpmFails ==
  \/ UNCHANGED << deps, openclaw >>
  \/ deps' = Broken /\ openclaw' = Broken

-----------------------------------------------------------------------------
(* The world around the commands.                                          *)

Publish ==
  /\ newest < MaxTag
  /\ newest' = newest + 1
  /\ UNCHANGED << etc, host, release >>

\* The administrator hands the directory over by hand.
HandOver ==
  /\ \E a \in accounts \cup {Admin} : a # owner /\ owner' = a
  /\ UNCHANGED << etc, accounts, sudoers, unit, release, newest >>
=============================================================================
