----------------------------- MODULE InstallTxn -----------------------------
(***************************************************************************)
(* The installation of a module from a certified candidate on: modules.rs  *)
(* (install_require_tree, publish_require_candidate), settings.rs,         *)
(* module_material_binding.rs (activate_install) and module_uninstall.rs   *)
(* (install_declared_user_service).                                        *)
(*                                                                         *)
(* The module is published first and completed afterwards. A failure up to *)
(* its settings takes the publication back on the spot; from then on the   *)
(* module is recorded as acquired, and its compensation is the uninstall   *)
(* transaction, with settings and whatever else its failures bring.        *)
(***************************************************************************)
EXTENDS UninstallTxn

VARIABLES
    before,  \* history: where each thing was when the command was given
    failed,  \* an operation of the install Lifecycle failed
    verdict  \* what the caller of the install is told; "not_asked" in an uninstall

uninstallVars == <<evidence, removing, local, filed, receipt, undo, cleaned, committed,
                   debts, result>>
installVars == <<before, failed, verdict>>
allVars == <<vars, installVars>>

InstallSteps == {"publish", "settings", "language", "activate", "features", "policy",
                 "lifecycle"}
Verdicts == {"not_asked", "none", "refused", "installed", "rolled_back", "critical"}

\* An earlier uninstall may have kept settings and data on the user's behalf,
\* and may have failed to get rid of the binding or of a unit.
InstallInit ==
    /\ at = "publish" /\ k = 1
    /\ \E kept \in SUBSET (Things \ {"module"}) :
           place = [t \in Things |-> IF t \in kept THEN "active" ELSE "absent"]
    /\ unit \in [UnitSet -> UnitStates] /\ \A u \in UnitSet : unit[u] \in Found(u)
    /\ removing = TRUE /\ local \in BOOLEAN
    /\ evidence = {} /\ filed = {} /\ receipt = <<>> /\ undo = <<>>
    /\ cleaned = 0 /\ committed = FALSE /\ debts = FALSE /\ result = "none"
    /\ before = place
    /\ failed = FALSE
    /\ verdict = "none"

CommandInit ==
    \/ InstallInit
    \/ Init /\ before = place /\ failed = FALSE /\ verdict = "not_asked"
----------------------------------------------------------------------------
(* Publication: publish_require_candidate.                                 *)

\* The directory is renamed into the modules' root. Whatever was prepared until
\* then is deleted with its guards.
Publish ==
    /\ at = "publish"
    /\ \/ at' = "settings" /\ Put("module", "active") /\ UNCHANGED verdict
       \/ at' = "end" /\ verdict' = "refused" /\ UNCHANGED place
    /\ UNCHANGED <<k, unit, uninstallVars, before, failed>>

\* A failure before the acquisition is recorded deletes the directory where it
\* is. A directory half deleted stays there.
Unpublish(settings) ==
    \E end \in {"absent", "torn"} :
        /\ at' = "end"
        /\ place' = [place EXCEPT !["module"] = end, !["settings"] = settings]
        /\ verdict' = IF end = "torn" THEN "critical" ELSE "refused"

\* load_or_create: settings the user kept are validated and left as they are.
InitializeSettings ==
    /\ at = "settings"
    /\ \/ at' = "language" /\ Put("settings", "active") /\ UNCHANGED verdict
       \/ Unpublish(place["settings"])
    /\ UNCHANGED <<k, unit, uninstallVars, before, failed>>

\* Fault: the settings are removed whether the install made them or not.
NewSettings == {"absent", "active"}

\* Settings that the install created go with it, if they can be removed.
SettingsAfter == IF before["settings"] = "active" THEN {"active"} ELSE {"absent", "active"}

SynchronizeLanguage ==
    /\ at = "language"
    /\ \/ at' = "activate" /\ UNCHANGED <<place, verdict>>
       \/ \E settings \in SettingsAfter : Unpublish(settings)
    /\ UNCHANGED <<k, unit, uninstallVars, before, failed>>
----------------------------------------------------------------------------
(* Completion: install_require_tree after record_acquisition.              *)

\* require_install_failure: uninstall_without_lifecycle with remove_settings.
\* It takes its evidence of the installation as it is by now, or cannot.
Compensate ==
    \/ /\ at' = "extras" /\ k' = 1
       /\ evidence' = Captured
       /\ filed' = Filed
       /\ UNCHANGED verdict
    \/ at' = "end" /\ verdict' = "critical" /\ UNCHANGED <<k, evidence, filed>>

atRest == <<removing, local, receipt, undo, cleaned, committed, debts, result>>

\* activate_install never replaces a binding that is active already.
ActivateBinding ==
    /\ at = "activate"
    /\ \/ /\ place["binding"] # "active"
          /\ at' = "features" /\ Put("binding", "active")
          /\ UNCHANGED <<k, evidence, filed, verdict>>
       \/ Compensate /\ UNCHANGED place
    /\ UNCHANGED <<unit, atRest, before, failed>>

ReconcileFeatures ==
    /\ at = "features"
    /\ \/ at' = "policy" /\ UNCHANGED <<k, evidence, filed, verdict>>
       \/ Compensate
    /\ UNCHANGED <<place, unit, atRest, before, failed>>

SyncPolicy ==
    /\ at = "policy"
    /\ \/ at' = "lifecycle" /\ k' = 1 /\ UNCHANGED <<evidence, filed, verdict>>
       \/ Compensate
    /\ UNCHANGED <<place, unit, atRest, before, failed>>

\* install_declared_user_service gives up: a unit it created is disabled and
\* removed unless that fails too; one that was there may have been started.
ServiceLeft(u) == IF unit[u] = "missing" THEN {"missing", "inactive", "active"}
                                         ELSE {unit[u], "active"}

\* An operation of the Lifecycle. Those that depend on a failed one do not run.
\* The installation of a service never waits, so that no deadline abandons it;
\* autostart entries are the business of the module.
InstallService ==
    /\ at = "lifecycle" /\ k <= Len(Units)
    /\ k' = k + 1
    /\ \/ Units[k] \notin Autostarts /\ Become(Units[k], "active") /\ UNCHANGED failed
       \/ /\ Units[k] \notin Autostarts
          /\ \E left \in ServiceLeft(Units[k]) : Become(Units[k], left)
          /\ failed' = TRUE
       \/ (failed \/ Units[k] \in Autostarts) /\ UNCHANGED <<unit, failed>>
    /\ UNCHANGED <<at, place, uninstallVars, before, verdict>>

EndLifecycle ==
    /\ at = "lifecycle" /\ k > Len(Units)
    /\ IF failed THEN Compensate
                 ELSE /\ at' = "end" /\ verdict' = "installed"
                      /\ UNCHANGED <<k, evidence, filed>>
    /\ UNCHANGED <<place, unit, atRest, before, failed>>

\* The compensation has ended: only a complete uninstall is a rollback.
Conclude ==
    /\ at = "end" /\ verdict = "none"
    /\ verdict' = IF result = "done" THEN "rolled_back" ELSE "critical"
    /\ UNCHANGED <<at, k, place, unit, uninstallVars, before, failed>>
----------------------------------------------------------------------------
Publication == Publish \/ InitializeSettings \/ SynchronizeLanguage
Completion == ActivateBinding \/ ReconcileFeatures \/ SyncPolicy \/ InstallService
                  \/ EndLifecycle
Uninstallation == Next /\ UNCHANGED installVars

CommandNext == Publication \/ Completion \/ Uninstallation \/ Conclude

CommandSpec == CommandInit /\ [][CommandNext]_allVars
----------------------------------------------------------------------------
(* Properties.                                                             *)

InstallTypeOK ==
    /\ at \in Steps \cup InstallSteps
    /\ DataOK
    /\ before \in [Things -> Places]
    /\ failed \in BOOLEAN
    /\ verdict \in Verdicts

\* What the caller of an install is told is so (modules.rs, install_require_tree
\* and require_install_failure). An installed module is whole and its services
\* run. A refusal left no module and took nothing that was there. A rollback
\* left nothing in use: no module, settings, data or unit, and of the binding at
\* most pieces in its temporary directory, whichever step failed and however far
\* the services had come.
InstallReportIsTrue ==
    /\ verdict = "installed" =>
        /\ \A t \in {"module", "settings", "binding"} : place[t] = "active"
        /\ \A u \in UnitSet \ Autostarts : unit[u] = "active"
    /\ verdict = "refused" =>
        /\ place["module"] = "absent"
        /\ \A t \in Things : before[t] = "active" => place[t] = "active"
        /\ place["binding"] = before["binding"]
    /\ verdict = "rolled_back" =>
        /\ \A t \in Things \ {"binding"} : place[t] \in {"gone", "absent"}
        /\ place["binding"] \in Dropped \cup {"absent"}
        /\ \A u \in UnitSet : unit[u] = "missing"

=============================================================================
