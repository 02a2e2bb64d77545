------------------------------ MODULE Releases ------------------------------
(***************************************************************************)
(* `sc upgrade` (src/cli/commands/upgrade.ts), which replaces OpenClaw and *)
(* takes it back when the new version does not answer, and `sc selfupdate` *)
(* (selfupdate.ts), which moves the installation to the newest release:    *)
(* checkout, dependencies, compilation, copy, manifest, in this order.     *)
(*                                                                         *)
(* Every call of git, npm or tsc can fail, and the process can be killed   *)
(* after any of them.  Nothing resumes an update: the next one decides by  *)
(* the commit that is checked out.  A command works as the account that    *)
(* owns the directory; as any other its first write fails.                 *)
(***************************************************************************)
EXTENDS InstallFiles

VARIABLES
  upgrade,   \* the run of `sc upgrade`: where it stands, the manifest it loaded,
             \* the version it replaces, the backed-up openclaw.json
  update     \* the run of `sc selfupdate`: where it stands, the manifest it
             \* loaded, the release it installs

updates == << upgrade, update >>

NoManifest == [ok |-> FALSE, user |-> None, ref |-> 1]
NoUpgrade  == [at |-> "idle", m |-> NoManifest, from |-> 1, backup |-> "absent"]
NoUpdate   == [at |-> "idle", m |-> NoManifest, to |-> 1]

UpgradeStages == {"idle", "backup", "install", "health", "record", "restore",
                  "reinstall"}
UpdateStages  == {"idle", "checkout", "deps", "build", "copy", "record"}

Upgrades == [at : UpgradeStages, m : Manifests, from : Versions, backup : Configs]
Updates  == [at : UpdateStages, m : Manifests, to : Tags]

UpdatesTypeOK ==
  /\ upgrade \in Upgrades
  /\ update \in Updates

UpdatesInit == upgrade = NoUpgrade /\ update = NoUpdate

UpgradeAt(a) == upgrade' = [upgrade EXCEPT !.at = a]
UpdateAt(a)  == update' = [update EXCEPT !.at = a]
UpgradeEnds  == upgrade' = NoUpgrade

\* From here on the manifest that was loaded, or the backup, is not used again.
UpgradeFails    == upgrade' = [upgrade EXCEPT !.at = "restore", !.m = NoManifest]
UpgradeSucceeds == upgrade' = [upgrade EXCEPT !.at = "record", !.backup = "absent"]
UpdateEnds   == update' = NoUpdate

-----------------------------------------------------------------------------
(* sc upgrade.                                                             *)

UpgradeBegin ==
  /\ CanRun
  /\ upgrade.at = "idle"
  /\ openclaw \notin {Broken, MaxOpenClaw}
  /\ upgrade' = [NoUpgrade EXCEPT !.at = "backup", !.from = openclaw]
  /\ UNCHANGED << files, update >>

\* The copies under var/backups, then the manifest, read or not.
UpgradeBackup ==
  /\ upgrade.at = "backup"
  /\ upgrade' = [upgrade EXCEPT !.at = "install", !.backup = config,
                                !.m = manifest]
  /\ UNCHANGED << files, update >>

\* npm runs in manifest.installDir; without a manifest, in the directory the
\* command was typed in, which is not the installation's.
UpgradeInstall ==
  /\ upgrade.at = "install"
  /\ \/ /\ upgrade.m.ok
        /\ NpmInstall(MaxOpenClaw)
        /\ UpgradeAt("health")
     \/ /\ ~upgrade.m.ok
        /\ UNCHANGED << deps, openclaw >>
        /\ UpgradeAt("health")
     \/ /\ IF upgrade.m.ok THEN NpmFails ELSE UNCHANGED << deps, openclaw >>
        /\ UpgradeFails
  /\ UNCHANGED << etc, host, source, build, plugin, copied, newest, update >>

\* A wrong version is only warned about; what counts is that `openclaw` runs
\* and accepts its configuration, which a torn one is not.
UpgradeHealth ==
  /\ upgrade.at = "health"
  /\ \/ openclaw # Broken /\ config # "torn" /\ UpgradeSucceeds
     \/ UpgradeFails
  /\ UNCHANGED << files, update >>

\* The manifest as it was loaded before the installation, with a new version;
\* then gateway-sandbox.json is removed, which nothing writes any more.
UpgradeRecord ==
  /\ upgrade.at = "record"
  /\ manifest' = IF upgrade.m.ok THEN upgrade.m ELSE manifest
  /\ UpgradeEnds
  /\ UNCHANGED << gateway, config, host, release, newest, update >>

\* rollback(): the whole of openclaw.json as it was at the backup.
UpgradeRestore ==
  /\ upgrade.at = "restore"
  /\ config' = IF upgrade.backup = "absent" THEN config ELSE upgrade.backup
  /\ upgrade' = [upgrade EXCEPT !.at = "reinstall", !.backup = "absent"]
  /\ UNCHANGED << manifest, gateway, host, release, newest, update >>

\* Where to reinstall is read again; whether npm succeeded is not looked at.
UpgradeReinstall ==
  /\ upgrade.at = "reinstall"
  /\ IF manifest.ok THEN NpmInstall(upgrade.from) \/ NpmFails
                    ELSE UNCHANGED << deps, openclaw >>
  /\ UpgradeEnds
  /\ UNCHANGED << etc, host, source, build, plugin, copied, newest, update >>

\* Killed, also between the truncation of a file and its write or copy.
UpgradeDies ==
  /\ upgrade.at # "idle"
  /\ UpgradeEnds
  /\ \/ UNCHANGED << manifest, config >>
     \/ upgrade.at = "record" /\ upgrade.m.ok /\ TornManifest /\ UNCHANGED config
     \/ /\ upgrade.at = "restore" /\ upgrade.backup # "absent"
        /\ config' = "torn"
        /\ UNCHANGED manifest
  /\ UNCHANGED << gateway, host, release, newest, update >>

-----------------------------------------------------------------------------
(* sc selfupdate.                                                          *)

\* Nothing to do when the newest tag is checked out, however the last update
\* ended.
UpdateBegin ==
  /\ CanRun
  /\ update.at = "idle"
  /\ manifest.ok
  /\ source # newest
  /\ update' = [at |-> "checkout", m |-> manifest, to |-> newest]
  /\ UNCHANGED << files, upgrade >>

\* --force: what `sc upgrade` saved in package.json is gone, and with npm ci
\* OpenClaw is back at the version of the lock.
UpdateCheckout ==
  /\ update.at = "checkout"
  /\ source' = update.to
  /\ UpdateAt("deps")
  /\ UNCHANGED << etc, host, deps, openclaw, build, plugin, copied, newest, upgrade >>

\* Mutant of UpdateDeps: a second failure of npm ci is not looked at.
UpdateDepsUnchecked ==
  /\ update.at = "deps"
  /\ \/ deps' = source /\ openclaw' = Pinned[source]
     \/ UNCHANGED << deps, openclaw >>
  /\ UpdateAt("build")
  /\ UNCHANGED << etc, host, source, build, plugin, copied, newest, upgrade >>

\* npm ci, twice: node_modules is removed and built again from the lock.
UpdateDeps ==
  /\ update.at = "deps"
  /\ \/ deps' = source /\ openclaw' = Pinned[source] /\ UpdateAt("build")
     \/ /\ \/ UNCHANGED << deps, openclaw >>
           \/ deps' = Broken /\ openclaw' = Broken
        /\ UpdateEnds
  /\ UNCHANGED << etc, host, source, build, plugin, copied, newest, upgrade >>

\* tsc writes its output as it goes, also when it ends with an error.
UpdateBuild ==
  /\ update.at = "build"
  /\ \/ build' = source /\ UpdateAt("copy")
     \/ build' \in {build, source, Broken} /\ UpdateEnds
  /\ UNCHANGED << etc, host, source, deps, openclaw, plugin, copied, newest, upgrade >>

\* cp -r, twice, into the directories that OpenClaw loads, then single files.
CopyPlugin ==
  \/ plugin' = build /\ copied' = TRUE
  \/ plugin' \in {plugin, Broken} /\ copied' = FALSE

\* The exit status of cp is not read: after a copy that failed the manifest is
\* written all the same.
UpdateCopy ==
  /\ update.at = "copy"
  /\ CopyPlugin
  /\ UpdateAt("record")
  /\ UNCHANGED << etc, host, source, deps, openclaw, build, newest, upgrade >>

\* The manifest as it was loaded at the start, with the new release.
UpdateRecord ==
  /\ update.at = "record"
  /\ manifest' = [update.m EXCEPT !.ref = update.to]
  /\ UpdateEnds
  /\ UNCHANGED << gateway, config, host, release, newest, upgrade >>

\* Killed, or git or a write refused.
UpdateDies ==
  /\ update.at # "idle"
  /\ UpdateEnds
  /\ \/ UNCHANGED << manifest, plugin, copied >>
     \/ update.at = "copy" /\ CopyPlugin /\ UNCHANGED manifest
     \/ update.at = "record" /\ TornManifest /\ UNCHANGED << plugin, copied >>
  /\ UNCHANGED << gateway, config, host, source, deps, openclaw, build, newest, upgrade >>

UpdatesNext ==
  \/ UpgradeBegin \/ UpgradeBackup \/ UpgradeInstall \/ UpgradeHealth
  \/ UpgradeRecord \/ UpgradeRestore \/ UpgradeReinstall \/ UpgradeDies
  \/ UpdateBegin \/ UpdateCheckout \/ UpdateDeps \/ UpdateBuild \/ UpdateCopy
  \/ UpdateRecord \/ UpdateDies
=============================================================================
