---------------------------- MODULE Installation ----------------------------
(***************************************************************************)
(* The set-up commands together: `sc init`, `sc start`, `sc upgrade` and   *)
(* `sc selfupdate` are processes of their own, take no lock, and share the *)
(* files of InstallFiles.  One run of each at a time; any number of runs   *)
(* one after the other.                                                    *)
(***************************************************************************)
EXTENDS Provision, Releases, FiniteSets

CONSTANT MaxOverlap   \* bound on commands that run at the same time

ASSUME OverlapAssumption == MaxOverlap \in Nat

vars == << files, setup, updates >>

Init == FilesInit /\ SetupInit /\ UpdatesInit

\* By hand, while no command is about to write as the old owner.
HandedOver == HandOver /\ updates = << NoUpgrade, NoUpdate >>

World == (Publish \/ HandedOver) /\ UNCHANGED << setup, updates >>
Setup == SetupNext /\ UNCHANGED updates
Renew == UpdatesNext /\ UNCHANGED setup

\* `sc start` goes on for as long as the gateway that it launched.
Active ==
  {c \in {"init", "start", "upgrade", "selfupdate"} :
     CASE c = "init"       -> init # NoInit
       [] c = "start"      -> start # NoStart \/ running # "nothing"
       [] c = "upgrade"    -> upgrade # NoUpgrade
       [] c = "selfupdate" -> update # NoUpdate}

Next == (World \/ Setup \/ Renew) /\ Cardinality(Active') <= MaxOverlap

Spec == Init /\ [][Next]_vars

TypeOK == FilesTypeOK /\ SetupTypeOK /\ UpdatesTypeOK

-----------------------------------------------------------------------------
(* Properties.                                                             *)

\* Whatever sudo refused, whichever command was killed and whichever copy of
\* the manifest was written back late: an account that the manifest, the
\* gateway's configuration, the systemd unit or a sudoers rule names, or that
\* owns the directory, exists on the host (init.ts: ensureServiceUser).
AccountsExist ==
  {manifest.user, gateway.user, unit, owner} \cup sudoers
    \subseteq accounts \cup {Admin, None}

\* The manifest never names the release that is checked out before that release
\* is in place: when the two agree, the dependencies are that release's (or
\* visibly missing), the plugin was compiled from it, and OpenClaw loads that
\* plugin, although an update can end anywhere and other commands write back
\* the manifest they loaded earlier.  The one exception is a cp that failed:
\* selfupdate.ts does not read its exit status and writes the manifest.
ManifestNamesWholeRelease ==
  manifest.ref = source =>
    /\ deps \in {source, Broken}
    /\ build = source
    /\ plugin = source \/ ~copied

\* A writer whose copy of openclaw.json is older than the registration: init
\* adding its field, the rollback of an upgrade, or OpenClaw's wizard, which
\* was called when there was nothing to keep.
StaleCopy ==
  \/ init.at = "onboard"
  \/ init.at = "ui" /\ init.c = "plain"
  \/ upgrade.at = "restore" /\ upgrade.backup = "plain"

\* A writer that ends inside its write, or puts back a file that was torn when
\* it was backed up.
CutShort ==
  \/ init.at \in {"onboard", "ui"} /\ init' = NoInit
  \/ start.at = "register"
  \/ upgrade.at = "restore" /\ (upgrade' = NoUpgrade \/ upgrade.backup = "torn")

\* The plugin never leaves OpenClaw's configuration silently to a copy that had
\* it: it goes to a copy that was read before the plugin was there, or the
\* whole file goes, to a write that was cut short (init.ts, start.ts,
\* upgrade.ts: three commands that read the file once and write it later).
RegistrationLostOnlyToStaleCopy ==
  [][config = "registered" /\ config' # "registered" =>
       \/ config' = "plain" /\ StaleCopy
       \/ config' = "torn" /\ CutShort]_vars

\* Every tool call of the AI goes through the sandbox backend (start.ts): a
\* gateway is not launched on a configuration without it.
GatewayIsSandboxed == running # "bare"
=============================================================================
