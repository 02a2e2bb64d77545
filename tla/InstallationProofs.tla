------------------------- MODULE InstallationProofs -------------------------
(***************************************************************************)
(* What the set-up commands keep for every number of accounts, releases    *)
(* and overlapping commands.  Every copy of the manifest that a command    *)
(* holds can become the manifest again, so the invariants speak of all of  *)
(* them, not of the file alone.                                            *)
(***************************************************************************)
EXTENDS Installation, TLAPS

\* The manifest and the copies that could be written back.
Copies == {manifest, init.m, upgrade.m, update.m}

-----------------------------------------------------------------------------
(* The invariant.                                                          *)

\* An account is asked for by name from its creation on, and the directory is
\* handed to an account.
InitKnowsAccount ==
  /\ init.at \in {"create", "record", "sudoers", "check"} => init.wants \in Accounts
  /\ init.at = "chown" => init.user # None

\* What init records and gives a rule has been created, what a copy of the
\* manifest names exists, and so does what init continues with.
AccountsInv ==
  /\ AccountsExist
  /\ \A m \in Copies : m.user \in accounts \cup {Admin, None}
  /\ init.user \in accounts \cup {Admin, None}
  /\ init.at \in {"record", "sudoers"} => init.wants \in accounts

\* The copy of openclaw.json that init writes back is one that parsed.
ConfigInv == init.at = "ui" => init.c \in Parsable

\* The release up to the copy, and with it.
Compiled == deps \in {source, Broken} /\ build = source
Whole    == Compiled /\ (plugin = source \/ ~copied)

\* The checked-out release only moves forward; a copy of the manifest that
\* names it can only be made when it is whole.
ReleaseInv ==
  /\ source <= newest /\ update.to <= newest
  /\ \A m \in Copies : m.ref <= source
  /\ \A m \in Copies : m.ref = source => Whole
  /\ update.at = "checkout" => source < update.to
  /\ update.at \in {"deps", "build", "copy", "record"} => source = update.to
  /\ update.at \in {"deps", "build", "copy"} => \A m \in Copies : m.ref # source
  /\ update.at = "build" => deps \in {source, Broken}
  /\ update.at = "copy" => Compiled
  /\ update.at = "record" => Whole

InstallInv ==
  /\ TypeOK
  /\ InitKnowsAccount
  /\ AccountsInv
  /\ ConfigInv
  /\ ReleaseInv

\* The invariant holds at the beginning.
LEMMA InvInit == Init => InstallInv
<1> SUFFICES ASSUME Init
             PROVE  InstallInv
  OBVIOUS
<1> USE InstallAssumption DEF Init, FilesInit, SetupInit, UpdatesInit, NoInit,
                              NoCopy, NoStart, NoManifest, NoUpgrade, NoUpdate
<1>1. TypeOK
  BY DEF TypeOK, FilesTypeOK, SetupTypeOK, UpdatesTypeOK, InitRuns, StartRuns,
     InitStages, Upgrades, Updates, UpgradeStages, UpdateStages, Manifests,
     Configs, Answers, Tags, Versions
<1>2. InitKnowsAccount /\ AccountsInv /\ ConfigInv /\ ReleaseInv
  BY DEF InitKnowsAccount, AccountsInv, AccountsExist, ConfigInv, ReleaseInv,
     Copies, Compiled, Whole, Tags
<1> QED
  BY <1>1, <1>2 DEF InstallInv

\* The shapes of the runs.
LEMMA RunShapes ==
  ASSUME TypeOK
  PROVE  /\ \A a \in InitStages : [init EXCEPT !.at = a] \in InitRuns
         /\ \A u \in Accounts \cup {None} : WithUser(u) \in InitRuns
         /\ NoInit \in InitRuns /\ NoStart \in StartRuns
         /\ \A a \in UpgradeStages : [upgrade EXCEPT !.at = a] \in Upgrades
         /\ \A a \in UpdateStages : [update EXCEPT !.at = a] \in Updates
         /\ NoUpgrade \in Upgrades /\ NoUpdate \in Updates
<1> USE InstallAssumption DEF Manifests, Tags, Versions, Configs, Answers
<1>1. \A a \in InitStages : [init EXCEPT !.at = a] \in InitRuns
  BY DEF TypeOK, SetupTypeOK, InitRuns
<1>2. NoInit \in InitRuns
  BY DEF NoInit, NoCopy, InitRuns, InitStages
<1>3. \A u \in Accounts \cup {None} : WithUser(u) \in InitRuns
  BY <1>2 DEF WithUser, InitRuns, InitStages
<1>4. NoStart \in StartRuns
  BY DEF NoStart, StartRuns
<1>5. /\ \A a \in UpgradeStages : [upgrade EXCEPT !.at = a] \in Upgrades
      /\ \A a \in UpdateStages : [update EXCEPT !.at = a] \in Updates
  BY DEF TypeOK, UpdatesTypeOK, Upgrades, Updates
<1>6. NoUpgrade \in Upgrades /\ NoUpdate \in Updates
  BY DEF NoUpgrade, NoUpdate, NoManifest, Upgrades, Updates, UpgradeStages,
     UpdateStages
<1> QED
  BY <1>1, <1>2, <1>3, <1>4, <1>5, <1>6

\* The types of what the runs carry, and of the manifests made from it.
LEMMA FieldTypes ==
  ASSUME TypeOK
  PROVE  /\ {init.m, upgrade.m, update.m} \subseteq Manifests
         /\ init.c \in Configs /\ {"plain", "registered", "torn"} \subseteq Configs
         /\ init.wants \in Accounts \cup {None}
         /\ init.user \in Accounts \cup {None}
         /\ update.to \in Tags
         /\ upgrade.from \in Versions /\ upgrade.backup \in Configs
         /\ [manifest EXCEPT !.ok = FALSE] \in Manifests
         /\ \A u \in Accounts : [init.m EXCEPT !.user = u] \in Manifests
         /\ \A t \in Tags : [update.m EXCEPT !.ref = t] \in Manifests
<1>1. /\ {init.m, upgrade.m, update.m} \subseteq Manifests
      /\ init.c \in Configs /\ {"plain", "registered", "torn"} \subseteq Configs
      /\ init.wants \in Accounts \cup {None}
      /\ init.user \in Accounts \cup {None}
      /\ update.to \in Tags
      /\ upgrade.from \in Versions /\ upgrade.backup \in Configs
  BY DEF TypeOK, SetupTypeOK, UpdatesTypeOK, InitRuns, Upgrades, Updates,
     Configs
<1>2. [manifest EXCEPT !.ok = FALSE] \in Manifests
  BY DEF TypeOK, FilesTypeOK, Manifests
<1>3. \A u \in Accounts : [init.m EXCEPT !.user = u] \in Manifests
  BY <1>1 DEF Manifests
<1>4. \A t \in Tags : [update.m EXCEPT !.ref = t] \in Manifests
  BY <1>1 DEF Manifests
<1> QED
  BY <1>1, <1>2, <1>3, <1>4

\* What a run of `sc upgrade` forgets when it fails, succeeds or has restored.
LEMMA UpgradeForgets ==
  ASSUME TypeOK,
         \/ UpgradeFails \/ UpgradeSucceeds
         \/ upgrade' = [upgrade EXCEPT !.at = "reinstall", !.backup = "absent"]
  PROVE  /\ upgrade' \in Upgrades
         /\ upgrade'.m = upgrade.m \/ upgrade'.m = [ok |-> FALSE, user |-> None, ref |-> 1]
<1>1. upgrade \in Upgrades
  BY DEF TypeOK, UpdatesTypeOK
<1>2. NoManifest \in Manifests
  BY InstallAssumption DEF NoManifest, Manifests, Tags
<1>3. CASE UpgradeFails
  BY <1>1, <1>2, <1>3 DEF UpgradeFails, Upgrades, UpgradeStages, NoManifest
<1>4. CASE UpgradeSucceeds
  BY <1>1, <1>4 DEF UpgradeSucceeds, Upgrades, UpgradeStages, Configs
<1>5. CASE upgrade' = [upgrade EXCEPT !.at = "reinstall", !.backup = "absent"]
  BY <1>1, <1>5 DEF Upgrades, UpgradeStages, Configs
<1> QED
  BY <1>3, <1>4, <1>5

\* Every step keeps the types of the files.
LEMMA FilesTypeStep ==
  ASSUME InstallInv, [Next]_vars
  PROVE  FilesTypeOK'
<1> USE DEF InstallInv, InitKnowsAccount, TypeOK, FilesTypeOK, files, etc,
            host, release
<1>1. CASE World
  BY <1>1, FieldTypes, InstallAssumption
     DEF World, Publish, HandedOver, HandOver, setup, updates, Tags, Versions
<1>2. CASE Setup
  <2>1. CASE InitBegin
    BY <1>2, <2>1, FieldTypes, InstallAssumption
       DEF InitBegin, Setup, updates, Tags, Versions
  <2>2. CASE InitOnboard
    BY <1>2, <2>2, FieldTypes, InstallAssumption
       DEF InitOnboard, Setup, updates, Tags, Versions
  <2>3. CASE InitReadConfig
    BY <1>2, <2>3, FieldTypes, InstallAssumption
       DEF InitReadConfig, Setup, updates, Tags, Versions
  <2>4. CASE InitAllowUi
    BY <1>2, <2>4, FieldTypes, InstallAssumption
       DEF InitAllowUi, Setup, updates, Tags, Versions
  <2>5. ASSUME NEW answer \in Answers, InitUser(answer)
        PROVE  FilesTypeOK'
    BY <1>2, <2>5, FieldTypes, InstallAssumption
       DEF InitUser, Setup, updates, Tags, Versions
  <2>6. CASE InitCreateUser
    BY <1>2, <2>6, FieldTypes, InstallAssumption
       DEF InitCreateUser, Setup, updates, Tags, Versions
  <2>7. CASE InitRecordUser
    BY <1>2, <2>7, FieldTypes, InstallAssumption
       DEF InitRecordUser, Setup, updates, Tags, Versions
  <2>8. CASE InitSudoers
    BY <1>2, <2>8, FieldTypes, InstallAssumption
       DEF InitSudoers, Setup, updates, Tags, Versions
  <2>9. CASE InitCheckUser
    BY <1>2, <2>9, FieldTypes, InstallAssumption
       DEF InitCheckUser, Setup, updates, Tags, Versions
  <2>10. CASE InitService
    BY <1>2, <2>10, FieldTypes, InstallAssumption
       DEF InitService, Setup, updates, Tags, Versions
  <2>11. CASE InitGateway
    BY <1>2, <2>11, FieldTypes, InstallAssumption
       DEF InitGateway, Setup, updates, Tags, Versions
  <2>12. CASE InitChown
    BY <1>2, <2>12, FieldTypes, InstallAssumption
       DEF InitChown, Setup, updates, Tags, Versions
  <2>13. CASE InitDies
    <3>1. /\ manifest' \in {manifest, [manifest EXCEPT !.ok = FALSE]}
          /\ gateway' \in {gateway, [file |-> "torn", user |-> None]}
      BY <2>13 DEF InitDies, TornManifest
    <3>2. manifest' \in Manifests
      BY <3>1, FieldTypes
    <3>3. gateway' \in [file : {"absent", "torn", "written"}, user : Accounts \cup {None}]
      BY <3>1
    <3>4. config' \in {config, "torn"} /\ UNCHANGED << host, release, newest >>
      BY <2>13 DEF InitDies
    <3> QED
      BY <3>2, <3>3, <3>4 DEF Configs
  <2>14. CASE StartBegin
    BY <1>2, <2>14, FieldTypes, InstallAssumption
       DEF StartBegin, Setup, updates, Tags, Versions
  <2>15. CASE StartReadConfig
    BY <1>2, <2>15, FieldTypes, InstallAssumption
       DEF StartReadConfig, Setup, updates, Tags, Versions
  <2>16. CASE StartRegister
    BY <1>2, <2>16, FieldTypes, InstallAssumption
       DEF StartRegister, Setup, updates, Tags, Versions
  <2>17. CASE StartGateway
    BY <1>2, <2>17, FieldTypes, InstallAssumption
       DEF StartGateway, Setup, updates, Tags, Versions
  <2>18. CASE Stop
    BY <1>2, <2>18, FieldTypes, InstallAssumption
       DEF Stop, Setup, updates, Tags, Versions
  <2> QED
    BY <1>2, <2>1, <2>2, <2>3, <2>4, <2>5, <2>6, <2>7, <2>8, <2>9, <2>10,
       <2>11, <2>12, <2>13, <2>14, <2>15, <2>16, <2>17, <2>18
       DEF Setup, SetupNext
<1>3. CASE Renew
  <2>1. CASE UpgradeBegin
    BY <1>3, <2>1, FieldTypes, InstallAssumption
       DEF UpgradeBegin, Renew, setup, Tags, Versions
  <2>2. CASE UpgradeBackup
    BY <1>3, <2>2, FieldTypes, InstallAssumption
       DEF UpgradeBackup, Renew, setup, Tags, Versions
  <2>3. CASE UpgradeInstall
    BY <1>3, <2>3, FieldTypes, InstallAssumption
       DEF UpgradeInstall, Renew, setup, Tags, Versions, NpmInstall, NpmFails
  <2>4. CASE UpgradeHealth
    BY <1>3, <2>4, FieldTypes, InstallAssumption
       DEF UpgradeHealth, Renew, setup, Tags, Versions
  <2>5. CASE UpgradeRecord
    BY <1>3, <2>5, FieldTypes, InstallAssumption
       DEF UpgradeRecord, Renew, setup, Tags, Versions
  <2>6. CASE UpgradeRestore
    BY <1>3, <2>6, FieldTypes, InstallAssumption
       DEF UpgradeRestore, Renew, setup, Tags, Versions
  <2>7. CASE UpgradeReinstall
    BY <1>3, <2>7, FieldTypes, InstallAssumption
       DEF UpgradeReinstall, Renew, setup, Tags, Versions, NpmInstall, NpmFails
  <2>8. CASE UpgradeDies
    <3>1. /\ manifest' \in {manifest, [manifest EXCEPT !.ok = FALSE]}
          /\ config' \in {config, "torn"}
          /\ UNCHANGED << gateway, host, release, newest >>
      BY <2>8 DEF UpgradeDies, TornManifest
    <3>2. manifest' \in Manifests
      BY <3>1, FieldTypes
    <3>3. config' \in Configs
      BY <3>1 DEF Configs
    <3> QED
      BY <3>1, <3>2, <3>3
  <2>9. CASE UpdateBegin
    BY <1>3, <2>9, FieldTypes, InstallAssumption
       DEF UpdateBegin, Renew, setup, Tags, Versions
  <2>10. CASE UpdateCheckout
    BY <1>3, <2>10, FieldTypes, InstallAssumption
       DEF UpdateCheckout, Renew, setup, Tags, Versions
  <2>11. CASE UpdateDeps
    BY <1>3, <2>11, FieldTypes, InstallAssumption
       DEF UpdateDeps, Renew, setup, Tags, Versions
  <2>12. CASE UpdateBuild
    BY <1>3, <2>12, FieldTypes, InstallAssumption
       DEF UpdateBuild, Renew, setup, Tags, Versions
  <2>13. CASE UpdateRecord
    BY <1>3, <2>13, FieldTypes, InstallAssumption
       DEF UpdateRecord, Renew, setup, Tags, Versions
  <2>14. CASE UpdateDies
    <3>1. /\ manifest' \in {manifest, [manifest EXCEPT !.ok = FALSE]}
          /\ plugin' \in {plugin, build, Broken} /\ copied' \in {copied, TRUE, FALSE}
          /\ UNCHANGED << gateway, config, host, source, deps, openclaw, build, newest >>
      BY <2>14 DEF UpdateDies, CopyPlugin, TornManifest
    <3>2. manifest' \in Manifests
      BY <3>1, FieldTypes
    <3>3. plugin' \in Tags \cup {Broken} /\ copied' \in BOOLEAN
      BY <3>1
    <3> QED
      BY <3>1, <3>2, <3>3
  <2>15. CASE UpdateCopy
    BY <1>3, <2>15, FieldTypes, InstallAssumption
       DEF UpdateCopy, CopyPlugin, Renew, setup, Tags, Versions
  <2> QED
    BY <1>3, <2>1, <2>2, <2>3, <2>4, <2>5, <2>6, <2>7, <2>8, <2>9, <2>10,
       <2>11, <2>12, <2>13, <2>14, <2>15
       DEF Renew, UpdatesNext
<1>4. CASE UNCHANGED vars
  BY <1>4 DEF vars, setup, updates, Tags, Versions
<1> QED
  BY <1>1, <1>2, <1>3, <1>4 DEF Next

\* Every step keeps the types of init and start.
LEMMA SetupTypeStep ==
  ASSUME InstallInv, [Next]_vars
  PROVE  SetupTypeOK'
<1> USE DEF InstallInv, InitKnowsAccount, TypeOK, SetupTypeOK
<1>1. CASE World
  BY <1>1, RunShapes
     DEF World, Publish, HandedOver, HandOver, setup, updates, InitStages,
         files
<1>2. CASE Setup
  <2>1. CASE InitBegin
    <3>1. /\ \E a \in {"onboard", "read"} :
            init' = [NoInit EXCEPT !.at = a, !.m = manifest]
          /\ manifest \in Manifests
      BY <2>1, FieldTypes DEF InitBegin, FilesTypeOK
    <3>2. init' \in InitRuns
      <4>1. NoInit \in InitRuns
        BY RunShapes
      <4> QED
        BY <3>1, <4>1 DEF InitRuns, InitStages
    <3>3. UNCHANGED << start, running >>
      BY <1>2, <2>1 DEF InitBegin
    <3> QED
      BY <3>2, <3>3
  <2>2. CASE InitOnboard
    BY <1>2, <2>2, RunShapes
       DEF InitOnboard, Setup, updates, InitAt, InitEnds, InitStages, files
  <2>3. CASE InitReadConfig
    <3>1. /\ \/ init' = [init EXCEPT !.at = "user"]
             \/ init' = [init EXCEPT !.c = config, !.at = "ui"]
          /\ config \in Configs /\ init \in InitRuns
      BY <2>3, FieldTypes DEF InitReadConfig, FilesTypeOK, InitAt
    <3>2. init' \in InitRuns
      BY <3>1 DEF InitRuns, InitStages
    <3>3. UNCHANGED << start, running >>
      BY <1>2, <2>3 DEF InitReadConfig
    <3> QED
      BY <3>2, <3>3
  <2>4. CASE InitAllowUi
    <3>1. /\ \/ init' = [init EXCEPT !.at = "user", !.c = "absent"]
             \/ init' = NoInit
          /\ "absent" \in Configs /\ init \in InitRuns
      BY <2>4, FieldTypes DEF InitAllowUi, FilesTypeOK, InitEnds, Configs
    <3>2. init' \in InitRuns
      <4>1. NoInit \in InitRuns
        BY RunShapes
      <4> QED
        BY <3>1, <4>1 DEF InitRuns, InitStages
    <3>3. UNCHANGED << start, running >>
      BY <1>2, <2>4 DEF InitAllowUi
    <3> QED
      BY <3>2, <3>3
  <2>5. ASSUME NEW answer \in Answers, InitUser(answer)
        PROVE  SetupTypeOK'
    <3>1. \/ \E u \in Accounts \cup {None} : init' = WithUser(u)
          \/ /\ answer \in Accounts /\ init \in InitRuns
             /\ init' = [init EXCEPT !.at = "create", !.wants = answer]
      BY <2>5 DEF InitUser, FilesTypeOK
    <3>2. init' \in InitRuns
      <4>1. \A u \in Accounts \cup {None} : WithUser(u) \in InitRuns
        BY RunShapes
      <4>2. CASE \E u \in Accounts \cup {None} : init' = WithUser(u)
        BY <4>1, <4>2
      <4>3. CASE ~\E u \in Accounts \cup {None} : init' = WithUser(u)
        BY <3>1, <4>3 DEF InitRuns, InitStages
      <4> QED
        BY <4>2, <4>3
    <3>3. UNCHANGED << start, running >>
      BY <1>2, <2>5 DEF InitUser
    <3> QED
      BY <3>2, <3>3
  <2>6. CASE InitCreateUser
    BY <1>2, <2>6, RunShapes
       DEF InitCreateUser, Setup, updates, InitAt, InitStages, files
  <2>7. CASE InitRecordUser
    <3> DEFINE m == [init.m EXCEPT !.user = init.wants]
    <3>1. \/ init' = [init EXCEPT !.m = m, !.at = "sudoers"]
          \/ init' = [init EXCEPT !.m = m, !.at = "check"]
      BY <2>7 DEF InitRecordUser
    <3>2. m \in Manifests
      BY <2>7, FieldTypes DEF InitRecordUser
    <3> HIDE DEF m
    <3>3. init' \in InitRuns
      BY <3>1, <3>2 DEF InitRuns, InitStages
    <3>4. UNCHANGED << start, running >>
      BY <2>7 DEF InitRecordUser
    <3> QED
      BY <3>3, <3>4
  <2>8. CASE InitSudoers
    BY <1>2, <2>8, RunShapes
       DEF InitSudoers, Setup, updates, InitAt, InitStages, files
  <2>9. CASE InitCheckUser
    BY <1>2, <2>9, RunShapes
       DEF InitCheckUser, Setup, updates, InitStages, files
  <2>10. CASE InitService
    BY <1>2, <2>10, RunShapes
       DEF InitService, Setup, updates, InitAt, InitStages, files
  <2>11. CASE InitGateway
    BY <1>2, <2>11, RunShapes
       DEF InitGateway, Setup, updates, InitAt, InitEnds, InitStages, files
  <2>12. CASE InitChown
    BY <1>2, <2>12, RunShapes
       DEF InitChown, Setup, updates, InitEnds, InitStages, files
  <2>13. CASE InitDies
    BY <1>2, <2>13, RunShapes
       DEF InitDies, Setup, updates, InitEnds, InitStages, files
  <2>14. CASE StartBegin
    <3>1. /\ \E a \in Accounts \cup {Admin} :
               start' = [NoStart EXCEPT !.at = "read", !.as = RunAs(a)]
          /\ \A a \in Accounts \cup {Admin} : RunAs(a) \in Accounts \cup {Admin}
      BY <2>14 DEF StartBegin, FilesTypeOK, RunAs
    <3>2. start' \in StartRuns
      <4>1. NoStart \in StartRuns
        BY RunShapes
      <4> QED
        BY <3>1, <4>1 DEF StartRuns
    <3>3. UNCHANGED << init, running >>
      BY <2>14 DEF StartBegin
    <3> QED
      BY <3>2, <3>3
  <2>15. CASE StartReadConfig
    <3>1. start' \in StartRuns
      BY <2>15, RunShapes DEF StartReadConfig, StartRuns, FilesTypeOK, StartAt
    <3>2. UNCHANGED init /\ running' = running
      BY <1>2, <2>15 DEF StartReadConfig
    <3> QED
      BY <3>1, <3>2
  <2>16. CASE StartRegister
    <3>1. start' \in StartRuns
      BY <2>16, RunShapes DEF StartRegister, StartRuns, FilesTypeOK, StartAt
    <3>2. UNCHANGED init /\ running' = running
      BY <1>2, <2>16 DEF StartRegister
    <3> QED
      BY <3>1, <3>2
  <2>17. CASE StartGateway
    BY <1>2, <2>17, RunShapes
       DEF StartGateway, Setup, updates, InitStages, files
  <2>18. CASE Stop
    BY <1>2, <2>18, RunShapes DEF Stop, Setup, updates, InitStages, files
  <2> QED
    BY <1>2, <2>1, <2>2, <2>3, <2>4, <2>5, <2>6, <2>7, <2>8, <2>9, <2>10,
       <2>11, <2>12, <2>13, <2>14, <2>15, <2>16, <2>17, <2>18
       DEF Setup, SetupNext
<1>3. CASE Renew
  <2>1. CASE UpgradeBegin
    BY <1>3, <2>1, RunShapes DEF UpgradeBegin, Renew, setup, InitStages, files
  <2>2. CASE UpgradeBackup
    BY <1>3, <2>2, RunShapes DEF UpgradeBackup, Renew, setup, InitStages, files
  <2>3. CASE UpgradeInstall
    BY <1>3, <2>3, RunShapes
       DEF UpgradeInstall, Renew, setup, InitStages, files
  <2>4. CASE UpgradeHealth
    BY <1>3, <2>4, RunShapes DEF UpgradeHealth, Renew, setup, InitStages, files
  <2>5. CASE UpgradeRecord
    BY <1>3, <2>5, RunShapes DEF UpgradeRecord, Renew, setup, InitStages, files
  <2>6. CASE UpgradeRestore
    BY <1>3, <2>6, RunShapes
       DEF UpgradeRestore, Renew, setup, InitStages, files
  <2>7. CASE UpgradeReinstall
    BY <1>3, <2>7, RunShapes
       DEF UpgradeReinstall, Renew, setup, InitStages, files
  <2>8. CASE UpgradeDies
    BY <1>3, <2>8, RunShapes DEF UpgradeDies, Renew, setup, InitStages, files
  <2>9. CASE UpdateBegin
    BY <1>3, <2>9, RunShapes DEF UpdateBegin, Renew, setup, InitStages, files
  <2>10. CASE UpdateCheckout
    BY <1>3, <2>10, RunShapes
       DEF UpdateCheckout, Renew, setup, InitStages, files
  <2>11. CASE UpdateDeps
    BY <1>3, <2>11, RunShapes DEF UpdateDeps, Renew, setup, InitStages, files
  <2>12. CASE UpdateBuild
    BY <1>3, <2>12, RunShapes DEF UpdateBuild, Renew, setup, InitStages, files
  <2>13. CASE UpdateRecord
    BY <1>3, <2>13, RunShapes DEF UpdateRecord, Renew, setup, InitStages, files
  <2>14. CASE UpdateDies
    BY <1>3, <2>14, RunShapes DEF UpdateDies, Renew, setup, InitStages, files
  <2>15. CASE UpdateCopy
    BY <1>3, <2>15, RunShapes DEF UpdateCopy, CopyPlugin, Renew, setup, InitStages, files
  <2> QED
    BY <1>3, <2>1, <2>2, <2>3, <2>4, <2>5, <2>6, <2>7, <2>8, <2>9, <2>10,
       <2>11, <2>12, <2>13, <2>14, <2>15
       DEF Renew, UpdatesNext
<1>4. CASE UNCHANGED vars
  BY <1>4 DEF vars, setup, updates, InitStages, files
<1> QED
  BY <1>1, <1>2, <1>3, <1>4 DEF Next

\* Every step keeps the types of the updates.
LEMMA UpdatesTypeStep ==
  ASSUME InstallInv, [Next]_vars
  PROVE  UpdatesTypeOK'
<1> USE DEF InstallInv, TypeOK, UpdatesTypeOK
<1>1. CASE World
  BY <1>1, RunShapes
     DEF World, Publish, HandedOver, HandOver, setup, updates, UpgradeStages,
         UpdateStages, files
<1>2. CASE Setup
  <2>1. CASE InitBegin
    BY <1>2, <2>1, RunShapes
       DEF InitBegin, Setup, updates, UpgradeStages, UpdateStages, files
  <2>2. CASE InitOnboard
    BY <1>2, <2>2, RunShapes
       DEF InitOnboard, Setup, updates, UpgradeStages, UpdateStages, files
  <2>3. CASE InitReadConfig
    BY <1>2, <2>3, RunShapes
       DEF InitReadConfig, Setup, updates, UpgradeStages, UpdateStages, files
  <2>4. CASE InitAllowUi
    BY <1>2, <2>4, RunShapes
       DEF InitAllowUi, Setup, updates, UpgradeStages, UpdateStages, files
  <2>5. ASSUME NEW answer \in Answers, InitUser(answer)
        PROVE  UpdatesTypeOK'
    BY <1>2, <2>5, RunShapes
       DEF InitUser, Setup, updates, UpgradeStages, UpdateStages, files
  <2>6. CASE InitCreateUser
    BY <1>2, <2>6, RunShapes
       DEF InitCreateUser, Setup, updates, UpgradeStages, UpdateStages, files
  <2>7. CASE InitRecordUser
    BY <1>2, <2>7, RunShapes
       DEF InitRecordUser, Setup, updates, UpgradeStages, UpdateStages, files
  <2>8. CASE InitSudoers
    BY <1>2, <2>8, RunShapes
       DEF InitSudoers, Setup, updates, UpgradeStages, UpdateStages, files
  <2>9. CASE InitCheckUser
    BY <1>2, <2>9, RunShapes
       DEF InitCheckUser, Setup, updates, UpgradeStages, UpdateStages, files
  <2>10. CASE InitService
    BY <1>2, <2>10, RunShapes
       DEF InitService, Setup, updates, UpgradeStages, UpdateStages, files
  <2>11. CASE InitGateway
    BY <1>2, <2>11, RunShapes
       DEF InitGateway, Setup, updates, UpgradeStages, UpdateStages, files
  <2>12. CASE InitChown
    BY <1>2, <2>12, RunShapes
       DEF InitChown, Setup, updates, UpgradeStages, UpdateStages, files
  <2>13. CASE InitDies
    BY <1>2, <2>13, RunShapes
       DEF InitDies, Setup, updates, UpgradeStages, UpdateStages, files
  <2>14. CASE StartBegin
    BY <1>2, <2>14, RunShapes
       DEF StartBegin, Setup, updates, UpgradeStages, UpdateStages, files
  <2>15. CASE StartReadConfig
    BY <1>2, <2>15, RunShapes
       DEF StartReadConfig, Setup, updates, UpgradeStages, UpdateStages, files
  <2>16. CASE StartRegister
    BY <1>2, <2>16, RunShapes
       DEF StartRegister, Setup, updates, UpgradeStages, UpdateStages, files
  <2>17. CASE StartGateway
    BY <1>2, <2>17, RunShapes
       DEF StartGateway, Setup, updates, UpgradeStages, UpdateStages, files
  <2>18. CASE Stop
    BY <1>2, <2>18, RunShapes
       DEF Stop, Setup, updates, UpgradeStages, UpdateStages, files
  <2> QED
    BY <1>2, <2>1, <2>2, <2>3, <2>4, <2>5, <2>6, <2>7, <2>8, <2>9, <2>10,
       <2>11, <2>12, <2>13, <2>14, <2>15, <2>16, <2>17, <2>18
       DEF Setup, SetupNext
<1>3. CASE Renew
  <2>1. CASE UpgradeBegin
    <3>1. upgrade' \in Upgrades
      BY <2>1, RunShapes DEF UpgradeBegin, Upgrades, UpgradeStages, FilesTypeOK
    <3>2. UNCHANGED update
      BY <1>3, <2>1 DEF UpgradeBegin
    <3> QED
      BY <3>1, <3>2
  <2>2. CASE UpgradeBackup
    <3>1. upgrade' \in Upgrades
      BY <2>2, RunShapes
         DEF UpgradeBackup, Upgrades, UpgradeStages, FilesTypeOK
    <3>2. UNCHANGED update
      BY <1>3, <2>2 DEF UpgradeBackup
    <3> QED
      BY <3>1, <3>2
  <2>3. CASE UpgradeInstall
    BY <1>3, <2>3, RunShapes, UpgradeForgets
       DEF UpgradeInstall, UpgradeAt, UpgradeStages
  <2>4. CASE UpgradeHealth
    BY <1>3, <2>4, RunShapes, UpgradeForgets
       DEF UpgradeHealth, UpgradeAt, UpgradeStages
  <2>5. CASE UpgradeRecord
    BY <1>3, <2>5, RunShapes
       DEF UpgradeRecord, Renew, setup, UpgradeEnds, UpgradeStages,
           UpdateStages, files
  <2>6. CASE UpgradeRestore
    BY <1>3, <2>6, RunShapes, UpgradeForgets
       DEF UpgradeRestore, UpgradeAt, UpgradeStages
  <2>7. CASE UpgradeReinstall
    BY <1>3, <2>7, RunShapes
       DEF UpgradeReinstall, Renew, setup, UpgradeEnds, UpgradeStages,
           UpdateStages, files
  <2>8. CASE UpgradeDies
    BY <1>3, <2>8, RunShapes
       DEF UpgradeDies, Renew, setup, UpgradeEnds, UpgradeStages, UpdateStages,
           files
  <2>9. CASE UpdateBegin
    <3>1. update' \in Updates
      BY <2>9, RunShapes DEF UpdateBegin, Updates, UpdateStages, FilesTypeOK
    <3>2. UNCHANGED upgrade
      BY <1>3, <2>9 DEF UpdateBegin
    <3> QED
      BY <3>1, <3>2
  <2>10. CASE UpdateCheckout
    BY <1>3, <2>10, RunShapes
       DEF UpdateCheckout, Renew, setup, UpdateAt, UpgradeStages, UpdateStages,
           files
  <2>11. CASE UpdateDeps
    BY <1>3, <2>11, RunShapes
       DEF UpdateDeps, Renew, setup, UpdateAt, UpdateEnds, UpgradeStages,
           UpdateStages, files
  <2>12. CASE UpdateBuild
    BY <1>3, <2>12, RunShapes
       DEF UpdateBuild, Renew, setup, UpdateAt, UpdateEnds, UpgradeStages,
           UpdateStages, files
  <2>13. CASE UpdateRecord
    BY <1>3, <2>13, RunShapes
       DEF UpdateRecord, Renew, setup, UpdateEnds, UpgradeStages, UpdateStages,
           files
  <2>14. CASE UpdateDies
    BY <1>3, <2>14, RunShapes
       DEF UpdateDies, Renew, setup, UpdateEnds, UpgradeStages, UpdateStages,
           files
  <2>15. CASE UpdateCopy
    BY <1>3, <2>15, RunShapes
       DEF UpdateCopy, CopyPlugin, Renew, setup, UpdateAt, UpdateEnds, UpgradeStages,
           UpdateStages, files
  <2> QED
    BY <1>3, <2>1, <2>2, <2>3, <2>4, <2>5, <2>6, <2>7, <2>8, <2>9, <2>10,
       <2>11, <2>12, <2>13, <2>14, <2>15
       DEF Renew, UpdatesNext
<1>4. CASE UNCHANGED vars
  BY <1>4 DEF vars, setup, updates, UpgradeStages, UpdateStages, files
<1> QED
  BY <1>1, <1>2, <1>3, <1>4 DEF Next

\* The account that `sc init` works on is known from its creation on.
LEMMA KnowsStep ==
  ASSUME InstallInv, [Next]_vars
  PROVE  InitKnowsAccount'
<1> USE DEF InstallInv, InitKnowsAccount, TypeOK, SetupTypeOK, InitRuns,
            InitStages, InitAt, InitEnds, StartAt, UpgradeAt, UpdateAt,
            UpgradeEnds, UpdateEnds, NoInit, NoCopy, NoStart, NoManifest,
            NoUpgrade, NoUpdate, files, etc, host, release
<1>1. CASE World
  BY <1>1, InstallAssumption
     DEF World, Publish, HandedOver, HandOver, setup, updates, Answers
<1>2. CASE Setup
  <2>1. CASE InitBegin
    BY <1>2, <2>1, InstallAssumption DEF InitBegin, Setup, updates, Answers
  <2>2. CASE InitOnboard
    BY <1>2, <2>2, InstallAssumption DEF InitOnboard, Setup, updates, Answers
  <2>3. CASE InitReadConfig
    BY <1>2, <2>3, InstallAssumption
       DEF InitReadConfig, Setup, updates, Answers
  <2>4. CASE InitAllowUi
    <3>1. \/ /\ init'.at = "user" /\ init'.c = "absent" /\ config' = init.c
             /\ init'.m = init.m /\ init'.wants = init.wants /\ init'.user = init.user
          \/ init' = NoInit /\ config' = config
      BY <2>4
         DEF InitAllowUi, InitEnds, TypeOK, SetupTypeOK, InitRuns, InitStages
    <3>2. QED
      BY <1>2, <2>4, <3>1, InstallAssumption
         DEF InitAllowUi, Setup, updates, Answers
  <2>5. ASSUME NEW answer \in Answers, InitUser(answer)
        PROVE  InitKnowsAccount'
    BY <1>2, <2>5, InstallAssumption
       DEF InitUser, Setup, updates, Answers, WithUser
  <2>6. CASE InitCreateUser
    BY <1>2, <2>6, InstallAssumption
       DEF InitCreateUser, Setup, updates, Answers
  <2>7. CASE InitRecordUser
    BY <1>2, <2>7, InstallAssumption
       DEF InitRecordUser, Setup, updates, Answers
  <2>8. CASE InitSudoers
    BY <1>2, <2>8, InstallAssumption DEF InitSudoers, Setup, updates, Answers
  <2>9. CASE InitCheckUser
    BY <1>2, <2>9, InstallAssumption
       DEF InitCheckUser, Setup, updates, Answers, WithUser
  <2>10. CASE InitService
    BY <1>2, <2>10, InstallAssumption DEF InitService, Setup, updates, Answers
  <2>11. CASE InitGateway
    BY <1>2, <2>11, InstallAssumption DEF InitGateway, Setup, updates, Answers
  <2>12. CASE InitChown
    BY <1>2, <2>12, InstallAssumption DEF InitChown, Setup, updates, Answers
  <2>13. CASE InitDies
    BY <1>2, <2>13, InstallAssumption DEF InitDies, Setup, updates, Answers
  <2>14. CASE StartBegin
    BY <1>2, <2>14, InstallAssumption DEF StartBegin, Setup, updates, Answers
  <2>15. CASE StartReadConfig
    BY <1>2, <2>15, InstallAssumption
       DEF StartReadConfig, Setup, updates, Answers
  <2>16. CASE StartRegister
    BY <1>2, <2>16, InstallAssumption
       DEF StartRegister, Setup, updates, Answers
  <2>17. CASE StartGateway
    BY <1>2, <2>17, InstallAssumption DEF StartGateway, Setup, updates, Answers
  <2>18. CASE Stop
    BY <1>2, <2>18, InstallAssumption DEF Stop, Setup, updates, Answers
  <2> QED
    BY <1>2, <2>1, <2>2, <2>3, <2>4, <2>5, <2>6, <2>7, <2>8, <2>9, <2>10,
       <2>11, <2>12, <2>13, <2>14, <2>15, <2>16, <2>17, <2>18
       DEF Setup, SetupNext
<1>3. CASE Renew
  <2>1. CASE UpgradeBegin
    BY <1>3, <2>1, InstallAssumption DEF UpgradeBegin, Renew, setup, Answers
  <2>2. CASE UpgradeBackup
    BY <1>3, <2>2, InstallAssumption DEF UpgradeBackup, Renew, setup, Answers
  <2>3. CASE UpgradeInstall
    BY <1>3, <2>3, InstallAssumption DEF UpgradeInstall, Renew, setup, Answers
  <2>4. CASE UpgradeHealth
    BY <1>3, <2>4, InstallAssumption DEF UpgradeHealth, Renew, setup, Answers
  <2>5. CASE UpgradeRecord
    BY <1>3, <2>5, InstallAssumption DEF UpgradeRecord, Renew, setup, Answers
  <2>6. CASE UpgradeRestore
    BY <1>3, <2>6, InstallAssumption DEF UpgradeRestore, Renew, setup, Answers
  <2>7. CASE UpgradeReinstall
    BY <1>3, <2>7, InstallAssumption
       DEF UpgradeReinstall, Renew, setup, Answers
  <2>8. CASE UpgradeDies
    BY <1>3, <2>8, InstallAssumption DEF UpgradeDies, Renew, setup, Answers
  <2>9. CASE UpdateBegin
    BY <1>3, <2>9, InstallAssumption DEF UpdateBegin, Renew, setup, Answers
  <2>10. CASE UpdateCheckout
    BY <1>3, <2>10, InstallAssumption DEF UpdateCheckout, Renew, setup, Answers
  <2>11. CASE UpdateDeps
    BY <1>3, <2>11, InstallAssumption DEF UpdateDeps, Renew, setup, Answers
  <2>12. CASE UpdateBuild
    BY <1>3, <2>12, InstallAssumption DEF UpdateBuild, Renew, setup, Answers
  <2>13. CASE UpdateRecord
    BY <1>3, <2>13, InstallAssumption DEF UpdateRecord, Renew, setup, Answers
  <2>14. CASE UpdateDies
    BY <1>3, <2>14, InstallAssumption DEF UpdateDies, Renew, setup, Answers
  <2>15. CASE UpdateCopy
    BY <1>3, <2>15, InstallAssumption DEF UpdateCopy, CopyPlugin, Renew, setup, Answers
  <2> QED
    BY <1>3, <2>1, <2>2, <2>3, <2>4, <2>5, <2>6, <2>7, <2>8, <2>9, <2>10,
       <2>11, <2>12, <2>13, <2>14, <2>15
       DEF Renew, UpdatesNext
<1>4. CASE UNCHANGED vars
  BY <1>4 DEF vars, setup, updates, Answers
<1> QED
  BY <1>1, <1>2, <1>3, <1>4 DEF Next

\* No account is named before it is created.
LEMMA AccountsStep ==
  ASSUME InstallInv, [Next]_vars
  PROVE  AccountsInv'
<1> USE DEF InstallInv, InitKnowsAccount, AccountsInv, AccountsExist, Copies,
            TypeOK, FilesTypeOK, SetupTypeOK, InitRuns, StartRuns, InitStages,
            UpdatesTypeOK, Upgrades, Updates, UpgradeStages, UpdateStages,
            InitAt, InitEnds, StartAt, UpgradeAt, UpdateAt, UpgradeEnds,
            UpdateEnds, NoInit, NoCopy, NoStart, NoManifest, NoUpgrade,
            NoUpdate, files, etc, host, release
<1>1. CASE World
  BY <1>1, InstallAssumption
     DEF World, Publish, HandedOver, HandOver, setup, updates, Manifests
<1>2. CASE Setup
  <2>1. CASE InitBegin
    BY <1>2, <2>1, InstallAssumption DEF InitBegin, Setup, updates, Manifests
  <2>2. CASE InitOnboard
    BY <1>2, <2>2, InstallAssumption DEF InitOnboard, Setup, updates, Manifests
  <2>3. CASE InitReadConfig
    <3>1. /\ init'.at \in {"user", "ui"} /\ init'.c \in {init.c, config}
          /\ init'.at = "ui" => init'.c = config
          /\ init'.m = init.m /\ init'.wants = init.wants /\ init'.user = init.user
      BY <2>3
         DEF InitReadConfig, InitAt, TypeOK, SetupTypeOK, InitRuns, InitStages
    <3>2. QED
      BY <1>2, <2>3, <3>1, InstallAssumption
         DEF InitReadConfig, Setup, updates, Manifests
  <2>4. CASE InitAllowUi
    <3>1. \/ /\ init'.at = "user" /\ init'.c = "absent" /\ config' = init.c
             /\ init'.m = init.m /\ init'.wants = init.wants /\ init'.user = init.user
          \/ init' = NoInit /\ config' = config
      BY <2>4
         DEF InitAllowUi, InitEnds, TypeOK, SetupTypeOK, InitRuns, InitStages
    <3>2. QED
      BY <1>2, <2>4, <3>1, InstallAssumption
         DEF InitAllowUi, Setup, updates, Manifests
  <2>5. ASSUME NEW answer \in Answers, InitUser(answer)
        PROVE  AccountsInv'
    BY <1>2, <2>5, InstallAssumption
       DEF InitUser, Setup, updates, WithUser, Manifests
  <2>6. CASE InitCreateUser
    BY <1>2, <2>6, InstallAssumption
       DEF InitCreateUser, Setup, updates, Manifests
  <2>7. CASE InitRecordUser
    <3> DEFINE m == [init.m EXCEPT !.user = init.wants]
    <3>1. \/ /\ owner = Admin /\ manifest' = m
             /\ init' = [init EXCEPT !.m = m, !.at = "sudoers"]
          \/ manifest' = manifest /\ init' = [init EXCEPT !.m = m, !.at = "check"]
      BY <2>7 DEF InitRecordUser
    <3>2. m \in Manifests /\ m.user = init.wants /\ m.ref = init.m.ref
      BY <2>7
         DEF InitRecordUser, TypeOK, SetupTypeOK, InitRuns, InitStages,
             Manifests
    <3> HIDE DEF m
    <3>3. /\ init'.m = m /\ init'.wants = init.wants /\ init'.user = init.user
          /\ init'.at \in {"sudoers", "check"}
      BY <3>1 DEF TypeOK, SetupTypeOK, InitRuns, InitStages
    <3>4. /\ manifest' \in {manifest, m}
          /\ UNCHANGED << accounts, gateway, unit, owner, sudoers, upgrade,
                          update, source, newest, deps, build, plugin, copied >>
      BY <1>2, <2>7, <3>1 DEF InitRecordUser, Setup, updates
    <3>5. init.at = "record"
      BY <2>7 DEF InitRecordUser
    <3>6. QED
      BY <3>2, <3>3, <3>4, <3>5, InstallAssumption DEF Manifests
  <2>8. CASE InitSudoers
    BY <1>2, <2>8, InstallAssumption DEF InitSudoers, Setup, updates, Manifests
  <2>9. CASE InitCheckUser
    BY <1>2, <2>9, InstallAssumption
       DEF InitCheckUser, Setup, updates, WithUser, Manifests
  <2>10. CASE InitService
    BY <1>2, <2>10, InstallAssumption
       DEF InitService, Setup, updates, Manifests
  <2>11. CASE InitGateway
    BY <1>2, <2>11, InstallAssumption
       DEF InitGateway, Setup, updates, Manifests
  <2>12. CASE InitChown
    BY <1>2, <2>12, InstallAssumption DEF InitChown, Setup, updates, Manifests
  <2>13. CASE InitDies
    BY <1>2, <2>13, InstallAssumption
       DEF InitDies, Setup, updates, TornManifest, Manifests
  <2>14. CASE StartBegin
    BY <1>2, <2>14, InstallAssumption DEF StartBegin, Setup, updates, Manifests
  <2>15. CASE StartReadConfig
    BY <1>2, <2>15, InstallAssumption
       DEF StartReadConfig, Setup, updates, Manifests
  <2>16. CASE StartRegister
    BY <1>2, <2>16, InstallAssumption
       DEF StartRegister, Setup, updates, Manifests
  <2>17. CASE StartGateway
    BY <1>2, <2>17, InstallAssumption
       DEF StartGateway, Setup, updates, Manifests
  <2>18. CASE Stop
    BY <1>2, <2>18, InstallAssumption DEF Stop, Setup, updates, Manifests
  <2> QED
    BY <1>2, <2>1, <2>2, <2>3, <2>4, <2>5, <2>6, <2>7, <2>8, <2>9, <2>10,
       <2>11, <2>12, <2>13, <2>14, <2>15, <2>16, <2>17, <2>18
       DEF Setup, SetupNext
<1>3. CASE Renew
  <2>1. CASE UpgradeBegin
    BY <1>3, <2>1, InstallAssumption DEF UpgradeBegin, Renew, setup, Manifests
  <2>2. CASE UpgradeBackup
    BY <1>3, <2>2, InstallAssumption DEF UpgradeBackup, Renew, setup, Manifests
  <2>3. CASE UpgradeInstall
    BY <1>3, <2>3, UpgradeForgets, InstallAssumption
       DEF UpgradeInstall, Renew, setup, Manifests
  <2>4. CASE UpgradeHealth
    BY <1>3, <2>4, UpgradeForgets, InstallAssumption
       DEF UpgradeHealth, Renew, setup, Manifests
  <2>5. CASE UpgradeRecord
    BY <1>3, <2>5, InstallAssumption DEF UpgradeRecord, Renew, setup, Manifests
  <2>6. CASE UpgradeRestore
    BY <1>3, <2>6, InstallAssumption
       DEF UpgradeRestore, Renew, setup, Manifests
  <2>7. CASE UpgradeReinstall
    BY <1>3, <2>7, InstallAssumption
       DEF UpgradeReinstall, Renew, setup, Manifests
  <2>8. CASE UpgradeDies
    BY <1>3, <2>8, InstallAssumption
       DEF UpgradeDies, Renew, setup, TornManifest, Manifests
  <2>9. CASE UpdateBegin
    BY <1>3, <2>9, InstallAssumption DEF UpdateBegin, Renew, setup, Manifests
  <2>10. CASE UpdateCheckout
    BY <1>3, <2>10, InstallAssumption
       DEF UpdateCheckout, Renew, setup, Manifests
  <2>11. CASE UpdateDeps
    BY <1>3, <2>11, InstallAssumption DEF UpdateDeps, Renew, setup, Manifests
  <2>12. CASE UpdateBuild
    BY <1>3, <2>12, InstallAssumption DEF UpdateBuild, Renew, setup, Manifests
  <2>13. CASE UpdateRecord
    BY <1>3, <2>13, InstallAssumption DEF UpdateRecord, Renew, setup, Manifests
  <2>14. CASE UpdateDies
    BY <1>3, <2>14, InstallAssumption
       DEF UpdateDies, Renew, setup, TornManifest, Manifests
  <2>15. CASE UpdateCopy
    BY <1>3, <2>15, InstallAssumption DEF UpdateCopy, CopyPlugin, Renew, setup, Manifests
  <2> QED
    BY <1>3, <2>1, <2>2, <2>3, <2>4, <2>5, <2>6, <2>7, <2>8, <2>9, <2>10,
       <2>11, <2>12, <2>13, <2>14, <2>15
       DEF Renew, UpdatesNext
<1>4. CASE UNCHANGED vars
  BY <1>4 DEF vars, setup, updates, Manifests
<1> QED
  BY <1>1, <1>2, <1>3, <1>4 DEF Next

\* No step gives init a copy of openclaw.json that does not parse.
LEMMA ConfigStep ==
  ASSUME InstallInv, [Next]_vars
  PROVE  ConfigInv'
<1> USE DEF InstallInv, ConfigInv, TypeOK, FilesTypeOK, SetupTypeOK, InitRuns,
            StartRuns, InitStages, UpdatesTypeOK, Upgrades, Updates,
            UpgradeStages, UpdateStages, InitAt, InitEnds, StartAt, UpgradeAt,
            UpdateAt, UpgradeEnds, UpdateEnds, NoInit, NoCopy, NoStart,
            NoManifest, NoUpgrade, NoUpdate, files, etc, host, release
<1>1. CASE World
  BY <1>1, InstallAssumption
     DEF World, Publish, HandedOver, HandOver, setup, updates
<1>2. CASE Setup
  <2>1. CASE InitBegin
    BY <1>2, <2>1, InstallAssumption DEF InitBegin, Setup, updates
  <2>2. CASE InitOnboard
    BY <1>2, <2>2, InstallAssumption DEF InitOnboard, Setup, updates
  <2>3. CASE InitReadConfig
    BY <1>2, <2>3, InstallAssumption DEF InitReadConfig, Setup, updates
  <2>4. CASE InitAllowUi
    <3>1. \/ /\ init'.at = "user" /\ init'.c = "absent" /\ config' = init.c
             /\ init'.m = init.m /\ init'.wants = init.wants /\ init'.user = init.user
          \/ init' = NoInit /\ config' = config
      BY <2>4
         DEF InitAllowUi, InitEnds, TypeOK, SetupTypeOK, InitRuns, InitStages
    <3>2. QED
      BY <1>2, <2>4, <3>1, InstallAssumption DEF InitAllowUi, Setup, updates
  <2>5. ASSUME NEW answer \in Answers, InitUser(answer)
        PROVE  ConfigInv'
    BY <1>2, <2>5, InstallAssumption DEF InitUser, Setup, updates, WithUser
  <2>6. CASE InitCreateUser
    BY <1>2, <2>6, InstallAssumption DEF InitCreateUser, Setup, updates
  <2>7. CASE InitRecordUser
    BY <1>2, <2>7, InstallAssumption DEF InitRecordUser, Setup, updates
  <2>8. CASE InitSudoers
    BY <1>2, <2>8, InstallAssumption DEF InitSudoers, Setup, updates
  <2>9. CASE InitCheckUser
    BY <1>2, <2>9, InstallAssumption
       DEF InitCheckUser, Setup, updates, WithUser
  <2>10. CASE InitService
    BY <1>2, <2>10, InstallAssumption DEF InitService, Setup, updates
  <2>11. CASE InitGateway
    BY <1>2, <2>11, InstallAssumption DEF InitGateway, Setup, updates
  <2>12. CASE InitChown
    BY <1>2, <2>12, InstallAssumption DEF InitChown, Setup, updates
  <2>13. CASE InitDies
    BY <1>2, <2>13, InstallAssumption DEF InitDies, Setup, updates
  <2>14. CASE StartBegin
    BY <1>2, <2>14, InstallAssumption DEF StartBegin, Setup, updates
  <2>15. CASE StartReadConfig
    BY <1>2, <2>15, InstallAssumption DEF StartReadConfig, Setup, updates
  <2>16. CASE StartRegister
    BY <1>2, <2>16, InstallAssumption DEF StartRegister, Setup, updates
  <2>17. CASE StartGateway
    BY <1>2, <2>17, InstallAssumption DEF StartGateway, Setup, updates
  <2>18. CASE Stop
    BY <1>2, <2>18, InstallAssumption DEF Stop, Setup, updates
  <2> QED
    BY <1>2, <2>1, <2>2, <2>3, <2>4, <2>5, <2>6, <2>7, <2>8, <2>9, <2>10,
       <2>11, <2>12, <2>13, <2>14, <2>15, <2>16, <2>17, <2>18
       DEF Setup, SetupNext
<1>3. CASE Renew
  <2>1. CASE UpgradeBegin
    BY <1>3, <2>1, InstallAssumption DEF UpgradeBegin, Renew, setup
  <2>2. CASE UpgradeBackup
    BY <1>3, <2>2, InstallAssumption DEF UpgradeBackup, Renew, setup
  <2>3. CASE UpgradeInstall
    BY <1>3, <2>3, InstallAssumption DEF UpgradeInstall, Renew, setup
  <2>4. CASE UpgradeHealth
    BY <1>3, <2>4, InstallAssumption DEF UpgradeHealth, Renew, setup
  <2>5. CASE UpgradeRecord
    BY <1>3, <2>5, InstallAssumption DEF UpgradeRecord, Renew, setup
  <2>6. CASE UpgradeRestore
    BY <1>3, <2>6, InstallAssumption DEF UpgradeRestore, Renew, setup
  <2>7. CASE UpgradeReinstall
    BY <1>3, <2>7, InstallAssumption DEF UpgradeReinstall, Renew, setup
  <2>8. CASE UpgradeDies
    BY <1>3, <2>8, InstallAssumption DEF UpgradeDies, Renew, setup
  <2>9. CASE UpdateBegin
    BY <1>3, <2>9, InstallAssumption DEF UpdateBegin, Renew, setup
  <2>10. CASE UpdateCheckout
    BY <1>3, <2>10, InstallAssumption DEF UpdateCheckout, Renew, setup
  <2>11. CASE UpdateDeps
    BY <1>3, <2>11, InstallAssumption DEF UpdateDeps, Renew, setup
  <2>12. CASE UpdateBuild
    BY <1>3, <2>12, InstallAssumption DEF UpdateBuild, Renew, setup
  <2>13. CASE UpdateRecord
    BY <1>3, <2>13, InstallAssumption DEF UpdateRecord, Renew, setup
  <2>14. CASE UpdateDies
    BY <1>3, <2>14, InstallAssumption DEF UpdateDies, Renew, setup
  <2>15. CASE UpdateCopy
    BY <1>3, <2>15, InstallAssumption DEF UpdateCopy, CopyPlugin, Renew, setup
  <2> QED
    BY <1>3, <2>1, <2>2, <2>3, <2>4, <2>5, <2>6, <2>7, <2>8, <2>9, <2>10,
       <2>11, <2>12, <2>13, <2>14, <2>15
       DEF Renew, UpdatesNext
<1>4. CASE UNCHANGED vars
  BY <1>4 DEF vars, setup, updates
<1> QED
  BY <1>1, <1>2, <1>3, <1>4 DEF Next

\* Nothing that concerns the release changes, and copies only come from copies.
LEMMA SameRelease ==
  ASSUME InstallInv, UNCHANGED << source, newest, deps, build, plugin, copied, update >>,
         manifest'.ref = manifest.ref \/ manifest'.ref = upgrade.m.ref,
         init'.m.ref = init.m.ref \/ init'.m.ref = 1,
         upgrade'.m.ref = upgrade.m.ref \/ upgrade'.m.ref = 1
  PROVE  ReleaseInv'
BY InstallAssumption
   DEF InstallInv, ReleaseInv, Copies, Compiled, Whole, TypeOK, FilesTypeOK, SetupTypeOK,
       UpdatesTypeOK, InitRuns, StartRuns, Upgrades, Updates, Manifests, Tags,
       Broken

\* No step gives the manifest a release that is not whole.
LEMMA ReleaseStep ==
  ASSUME InstallInv, [Next]_vars
  PROVE  ReleaseInv'
<1> USE DEF InstallInv, ReleaseInv, Copies, Compiled, Whole, TypeOK, FilesTypeOK,
            SetupTypeOK, InitRuns, StartRuns, InitStages, UpdatesTypeOK,
            Upgrades, Updates, UpgradeStages, UpdateStages, InitAt, InitEnds,
            StartAt, UpgradeAt, UpdateAt, UpgradeEnds, UpdateEnds, NoInit,
            NoCopy, NoStart, NoManifest, NoUpgrade, NoUpdate, files, etc, host,
            release
<1>1. CASE World
  BY <1>1, InstallAssumption
     DEF World, Publish, HandedOver, HandOver, setup, updates, Manifests, Tags,
         Broken
<1>2. CASE Setup
  <2>1. CASE InitBegin
    BY <1>2, <2>1, InstallAssumption
       DEF InitBegin, Setup, updates, Manifests, Tags, Broken
  <2>2. CASE InitOnboard
    BY <1>2, <2>2, InstallAssumption
       DEF InitOnboard, Setup, updates, Manifests, Tags, Broken
  <2>3. CASE InitReadConfig
    <3>1. /\ init'.at \in {"user", "ui"} /\ init'.c \in {init.c, config}
          /\ init'.at = "ui" => init'.c = config
          /\ init'.m = init.m /\ init'.wants = init.wants /\ init'.user = init.user
      BY <2>3
         DEF InitReadConfig, InitAt, TypeOK, SetupTypeOK, InitRuns, InitStages
    <3>2. QED
      BY <1>2, <2>3, <3>1, InstallAssumption
         DEF InitReadConfig, Setup, updates, Manifests, Tags, Broken
  <2>4. CASE InitAllowUi
    <3>1. \/ /\ init'.at = "user" /\ init'.c = "absent" /\ config' = init.c
             /\ init'.m = init.m /\ init'.wants = init.wants /\ init'.user = init.user
          \/ init' = NoInit /\ config' = config
      BY <2>4
         DEF InitAllowUi, InitEnds, TypeOK, SetupTypeOK, InitRuns, InitStages
    <3>2. QED
      BY <1>2, <2>4, <3>1, InstallAssumption
         DEF InitAllowUi, Setup, updates, Manifests, Tags, Broken
  <2>5. ASSUME NEW answer \in Answers, InitUser(answer)
        PROVE  ReleaseInv'
    BY <1>2, <2>5, InstallAssumption
       DEF InitUser, Setup, updates, WithUser, Manifests, Tags, Broken
  <2>6. CASE InitCreateUser
    <3>1. /\ UNCHANGED << source, newest, deps, build, plugin, copied, update >>
          /\ manifest'.ref = manifest.ref \/ manifest'.ref = upgrade.m.ref
          /\ init'.m.ref = init.m.ref \/ init'.m.ref = 1
          /\ upgrade'.m.ref = upgrade.m.ref \/ upgrade'.m.ref = 1
      BY <1>2, <2>6, InstallAssumption
         DEF InitCreateUser, Setup, Renew, setup, updates, Manifests
    <3> QED
      BY <3>1, SameRelease
  <2>7. CASE InitRecordUser
    <3> DEFINE m == [init.m EXCEPT !.user = init.wants]
    <3>1. \/ /\ owner = Admin /\ manifest' = m
             /\ init' = [init EXCEPT !.m = m, !.at = "sudoers"]
          \/ manifest' = manifest /\ init' = [init EXCEPT !.m = m, !.at = "check"]
      BY <2>7 DEF InitRecordUser
    <3>2. m \in Manifests /\ m.user = init.wants /\ m.ref = init.m.ref
      BY <2>7
         DEF InitRecordUser, InitKnowsAccount, TypeOK, SetupTypeOK, InitRuns,
             InitStages, Manifests
    <3> HIDE DEF m
    <3>3. /\ init'.m = m /\ init'.wants = init.wants /\ init'.user = init.user
          /\ init'.at \in {"sudoers", "check"}
      BY <3>1 DEF TypeOK, SetupTypeOK, InitRuns, InitStages
    <3>4. /\ manifest' \in {manifest, m}
          /\ UNCHANGED << accounts, gateway, unit, owner, sudoers, upgrade,
                          update, source, newest, deps, build, plugin, copied >>
      BY <1>2, <2>7, <3>1 DEF InitRecordUser, Setup, updates
    <3>5. init.at = "record"
      BY <2>7 DEF InitRecordUser
    <3>6. QED
      BY <3>2, <3>3, <3>4, <3>5, InstallAssumption DEF Manifests, Tags, Broken
  <2>8. CASE InitSudoers
    BY <1>2, <2>8, InstallAssumption
       DEF InitSudoers, Setup, updates, Manifests, Tags, Broken
  <2>9. CASE InitCheckUser
    BY <1>2, <2>9, InstallAssumption
       DEF InitCheckUser, Setup, updates, WithUser, Manifests, Tags, Broken
  <2>10. CASE InitService
    BY <1>2, <2>10, InstallAssumption
       DEF InitService, Setup, updates, Manifests, Tags, Broken
  <2>11. CASE InitGateway
    <3>1. /\ UNCHANGED << source, newest, deps, build, plugin, copied, update >>
          /\ manifest'.ref = manifest.ref \/ manifest'.ref = upgrade.m.ref
          /\ init'.m.ref = init.m.ref \/ init'.m.ref = 1
          /\ upgrade'.m.ref = upgrade.m.ref \/ upgrade'.m.ref = 1
      BY <1>2, <2>11, InstallAssumption
         DEF InitGateway, Setup, Renew, setup, updates, Manifests
    <3> QED
      BY <3>1, SameRelease
  <2>12. CASE InitChown
    BY <1>2, <2>12, InstallAssumption
       DEF InitChown, Setup, updates, Manifests, Tags, Broken
  <2>13. CASE InitDies
    BY <1>2, <2>13, InstallAssumption
       DEF InitDies, Setup, updates, TornManifest, Manifests, Tags, Broken
  <2>14. CASE StartBegin
    BY <1>2, <2>14, InstallAssumption
       DEF StartBegin, Setup, updates, Manifests, Tags, Broken
  <2>15. CASE StartReadConfig
    BY <1>2, <2>15, InstallAssumption
       DEF StartReadConfig, Setup, updates, Manifests, Tags, Broken
  <2>16. CASE StartRegister
    BY <1>2, <2>16, InstallAssumption
       DEF StartRegister, Setup, updates, Manifests, Tags, Broken
  <2>17. CASE StartGateway
    BY <1>2, <2>17, InstallAssumption
       DEF StartGateway, Setup, updates, Manifests, Tags, Broken
  <2>18. CASE Stop
    BY <1>2, <2>18, InstallAssumption
       DEF Stop, Setup, updates, Manifests, Tags, Broken
  <2> QED
    BY <1>2, <2>1, <2>2, <2>3, <2>4, <2>5, <2>6, <2>7, <2>8, <2>9, <2>10,
       <2>11, <2>12, <2>13, <2>14, <2>15, <2>16, <2>17, <2>18
       DEF Setup, SetupNext
<1>3. CASE Renew
  <2>1. CASE UpgradeBegin
    BY <1>3, <2>1, InstallAssumption
       DEF UpgradeBegin, Renew, setup, Manifests, Tags, Broken
  <2>2. CASE UpgradeBackup
    BY <1>3, <2>2, InstallAssumption
       DEF UpgradeBackup, Renew, setup, Manifests, Tags, Broken
  <2>3. CASE UpgradeInstall
    <3>1. \/ deps' = deps \/ deps' = source \/ deps' = Broken
      BY <2>3 DEF UpgradeInstall, NpmInstall, NpmFails
    <3>2. /\ UNCHANGED << source, newest, build, plugin, copied, manifest, init, update >>
          /\ upgrade'.m.ref = upgrade.m.ref \/ upgrade'.m.ref = 1
      BY <1>3, <2>3, UpgradeForgets DEF UpgradeInstall, Renew, setup
    <3> QED
      BY <3>1, <3>2, InstallAssumption DEF Manifests, Tags, Broken
  <2>4. CASE UpgradeHealth
    <3>1. upgrade'.m.ref = upgrade.m.ref \/ upgrade'.m.ref = 1
      BY <2>4, UpgradeForgets DEF UpgradeHealth
    <3>2. UNCHANGED << source, newest, deps, build, plugin, copied, update, manifest, init >>
      BY <1>3, <2>4 DEF UpgradeHealth, Renew, setup
    <3> QED
      BY <3>1, <3>2, SameRelease
  <2>5. CASE UpgradeRecord
    BY <1>3, <2>5, InstallAssumption
       DEF UpgradeRecord, Renew, setup, Manifests, Tags, Broken
  <2>6. CASE UpgradeRestore
    BY <1>3, <2>6, InstallAssumption
       DEF UpgradeRestore, Renew, setup, Manifests, Tags, Broken
  <2>7. CASE UpgradeReinstall
    BY <1>3, <2>7, InstallAssumption
       DEF UpgradeReinstall, Renew, setup, NpmInstall, NpmFails, Manifests,
           Tags, Broken
  <2>8. CASE UpgradeDies
    <3>1. /\ UNCHANGED << source, newest, deps, build, plugin, copied, update >>
          /\ manifest'.ref = manifest.ref \/ manifest'.ref = upgrade.m.ref
          /\ init'.m.ref = init.m.ref \/ init'.m.ref = 1
          /\ upgrade'.m.ref = upgrade.m.ref \/ upgrade'.m.ref = 1
      BY <1>3, <2>8, InstallAssumption
         DEF UpgradeDies, Setup, Renew, setup, updates, TornManifest, Manifests
    <3> QED
      BY <3>1, SameRelease
  <2>9. CASE UpdateBegin
    BY <1>3, <2>9, InstallAssumption
       DEF UpdateBegin, Renew, setup, Manifests, Tags, Broken
  <2>10. CASE UpdateCheckout
    BY <1>3, <2>10, InstallAssumption
       DEF UpdateCheckout, Renew, setup, Manifests, Tags, Broken
  <2>11. CASE UpdateDeps
    BY <1>3, <2>11, InstallAssumption
       DEF UpdateDeps, Renew, setup, Manifests, Tags, Broken
  <2>12. CASE UpdateBuild
    BY <1>3, <2>12, InstallAssumption
       DEF UpdateBuild, Renew, setup, Manifests, Tags, Broken
  <2>13. CASE UpdateRecord
    BY <1>3, <2>13, InstallAssumption
       DEF UpdateRecord, Renew, setup, Manifests, Tags, Broken
  <2>14. CASE UpdateDies
    <3>1. /\ UNCHANGED << source, newest, deps, build, init, upgrade >>
          /\ manifest'.ref = manifest.ref
      BY <1>3, <2>14 DEF UpdateDies, Renew, setup, TornManifest, Manifests
    <3>2. update'.at = "idle" /\ update'.m.ref = 1 /\ update'.to = 1
      BY <2>14 DEF UpdateDies
    <3>3. 1 <= source /\ 1 <= newest /\ 1 <= manifest.ref
      BY InstallAssumption DEF Tags, Manifests
    <3>4. CASE update.at = "copy"
      <4>1. /\ manifest.ref # source /\ init.m.ref # source /\ upgrade.m.ref # source
            /\ update.m.ref # source
        BY <3>4
      <4>2. update.m.ref <= source /\ update.m.ref \in Nat /\ 1 <= update.m.ref
        BY InstallAssumption DEF Tags, Manifests
      <4>3. 1 # source
        BY <4>1, <4>2, InstallAssumption DEF Tags
      <4> QED
        BY <3>1, <3>2, <3>3, <4>1, <4>3
    <3>5. CASE update.at # "copy"
      <4>1. UNCHANGED << plugin, copied >>
        BY <2>14, <3>5 DEF UpdateDies
      <4> HIDE DEF InstallInv, TypeOK
      <4>2. 1 = source => Whole
        BY <3>3, InstallAssumption DEF InstallInv, TypeOK, Tags, Manifests
      <4> QED
        BY <3>1, <3>2, <3>3, <4>1, <4>2 DEF InstallInv
    <3> QED
      BY <3>4, <3>5
  <2>15. CASE UpdateCopy
    BY <1>3, <2>15, InstallAssumption
       DEF UpdateCopy, CopyPlugin, Renew, setup, Manifests, Tags, Broken
  <2> QED
    BY <1>3, <2>1, <2>2, <2>3, <2>4, <2>5, <2>6, <2>7, <2>8, <2>9, <2>10,
       <2>11, <2>12, <2>13, <2>14, <2>15
       DEF Renew, UpdatesNext
<1>4. CASE UNCHANGED vars
  BY <1>4 DEF vars, setup, updates, Manifests, Tags, Broken
<1> QED
  BY <1>1, <1>2, <1>3, <1>4 DEF Next

-----------------------------------------------------------------------------
(* The theorems.                                                           *)

\* The invariant is inductive, and holds in every state.
LEMMA InstallStep ==
  ASSUME InstallInv, [Next]_vars
  PROVE  InstallInv'
BY FilesTypeStep, SetupTypeStep, UpdatesTypeStep, KnowsStep, AccountsStep,
   ConfigStep, ReleaseStep
   DEF InstallInv, TypeOK

LEMMA InstallCorrect == Spec => []InstallInv
<1>1. InstallInv /\ [Next]_vars => InstallInv'
  BY InstallStep
<1> QED
  BY InvInit, <1>1, PTL DEF Spec

\* The types of the files and of the four commands.
THEOREM InstallTypeCorrect == Spec => []TypeOK
<1>1. InstallInv => TypeOK
  BY DEF InstallInv
<1> QED
  BY InstallCorrect, <1>1, PTL

\* No file, unit, rule or directory ever names an account that was not created
\* first, however many commands overlap, fail or are killed (init.ts:
\* ensureServiceUser).
THEOREM AccountsCorrect == Spec => []AccountsExist
<1>1. InstallInv => AccountsExist
  BY DEF InstallInv, AccountsInv
<1> QED
  BY InstallCorrect, <1>1, PTL

\* A manifest that names the checked-out release says the truth about its
\* dependencies and its build, and about the plugin that OpenClaw loads unless
\* the copy of it failed, for any sequence of releases (selfupdate.ts, and
\* every command that saves a manifest it loaded earlier).
THEOREM ManifestCorrect == Spec => []ManifestNamesWholeRelease
<1>1. InstallInv => ManifestNamesWholeRelease
  BY DEF InstallInv, ReleaseInv, Copies, Compiled, Whole, ManifestNamesWholeRelease
<1> QED
  BY InstallCorrect, <1>1, PTL

\* openclaw.json changes from one with the plugin to one without it only by a
\* copy older than the registration, or by a write that was cut short.
LEMMA RegistrationStep ==
  ASSUME InstallInv, [Next]_vars, config = "registered", config' # "registered"
  PROVE  \/ config' = "plain" /\ StaleCopy
         \/ config' = "torn" /\ CutShort
<1> USE DEF files, etc, host, release, StaleCopy, CutShort
<1>1. CASE InitOnboard
  BY <1>1 DEF InitOnboard
<1>2. CASE InitAllowUi
  BY <1>2 DEF InitAllowUi, InstallInv, ConfigInv, Parsable
<1>3. CASE InitDies
  BY <1>3 DEF InitDies, InitEnds
<1>4. CASE StartRegister
  BY <1>4 DEF StartRegister
<1>5. CASE Stop
  BY <1>5 DEF Stop
<1>6. CASE UpgradeRestore
  BY <1>6
     DEF UpgradeRestore, InstallInv, TypeOK, UpdatesTypeOK, Upgrades, Configs
<1>7. CASE UpgradeDies
  BY <1>7 DEF UpgradeDies, UpgradeEnds
<1>8. CASE World
  BY <1>8 DEF World, Publish, HandedOver, HandOver
<1>9. CASE Setup
  BY <1>1, <1>2, <1>3, <1>4, <1>5, <1>9
     DEF Setup, SetupNext, InitBegin, InitReadConfig, InitUser,
         InitCreateUser, InitRecordUser, InitSudoers, InitCheckUser,
         InitService, InitGateway, InitChown, StartBegin, StartReadConfig,
         StartGateway
<1>10. CASE Renew
  BY <1>6, <1>7, <1>10
     DEF Renew, UpdatesNext, UpgradeBegin, UpgradeBackup, UpgradeInstall,
         UpgradeHealth, UpgradeRecord, UpgradeReinstall, UpdateBegin,
         UpdateCheckout, UpdateDeps, UpdateBuild, UpdateCopy, UpdateRecord,
         UpdateDies
<1>11. CASE UNCHANGED vars
  BY <1>11 DEF vars
<1> QED
  BY <1>8, <1>9, <1>10, <1>11 DEF Next

\* The plugin is never lost from openclaw.json silently to a copy that had it:
\* only to one read before it was registered, or, with the whole file, to a
\* write that was cut short (init.ts: ensureLoopbackControlUiAuth; start.ts:
\* ensureOpenClawPluginRegistered; upgrade.ts: rollback).
THEOREM RegistrationCorrect == Spec => RegistrationLostOnlyToStaleCopy
<1> DEFINE Kept == config = "registered" /\ config' # "registered" =>
                     \/ config' = "plain" /\ StaleCopy
                     \/ config' = "torn" /\ CutShort
<1>1. InstallInv /\ [Next]_vars => [Kept]_vars
  BY RegistrationStep
<1> QED
  BY InstallCorrect, <1>1, PTL DEF Spec, RegistrationLostOnlyToStaleCopy
=============================================================================
