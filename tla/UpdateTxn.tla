------------------------------ MODULE UpdateTxn ------------------------------
(***************************************************************************)
(* The update transaction of an installed module: modules.rs               *)
(* (update_with_observer and its rollback), module_material_binding.rs     *)
(* (activate_update) and module_uninstall.rs (ManagedServiceCutover), from *)
(* the moment the candidate is staged and certified.                       *)
(*                                                                         *)
(* The module's directory is swapped and its binding, policy, settings and *)
(* features follow, one by one. A failure rolls the directory back, which  *)
(* can itself fail half way; what the rollback left behind decides what    *)
(* becomes of the binding, the features, the policy and the services.      *)
(***************************************************************************)
EXTENDS Naturals, Sequences, SequencesExt, FiniteSets

CONSTANTS
    Units,      \* the declared services of both versions, in plan order
    Transition  \* what the plan does with each of them

UnitSet == {Units[n] : n \in DOMAIN Units}
Transitions == {"keep", "replace", "retire", "add"}
Places == {"active", "backup", "staged", "aside", "gone"}
BindingPlaces == {"active", "absent", "prepared", "previous", "gone"}

ASSUME UnitsAssumption == Units \in Seq(UnitSet) /\ IsInjective(Units)
ASSUME PlanAssumption == Transition \in [UnitSet -> Transitions]

VARIABLES
    at,       \* the operation the transaction is about to perform
    k,        \* the service it is about
    version,  \* where the directory of each version of the module is
    binding,  \* where the material binding of each version is
    bound,    \* whether the installed version had a binding
    governed, \* one of the versions declares platform operations
    policy,   \* the version the platform provider has approved
    settings, \* the version the local settings were reconciled with
    features, \* the version whose features are in Boss's inventory
    unit,     \* each service: its installed definition and its state
    was,      \* ManagedServiceUpdateBaseline: its state before the update
    stopped,  \* ManagedServiceCutover.stopped
    missed,   \* history: restored as they were, with a stop still pending
    rollback, \* LiveUpdateRollbackReport.state
    critical, \* a failure after the first one was reported
    result    \* what the caller is told

before == <<bound, governed, was>>
services == <<unit, stopped, missed>>
told == <<rollback, critical, result>>
vars == <<at, k, version, binding, before, policy, settings, features, services, told>>

Versions == {"old", "new"}
Steps == {"quiesce", "backup", "publish", "bind", "policy", "lifecycle",
          "settings", "features", "finalize", "complete", "rollback_early",
          "rollback_bound", "binding_early", "binding_bound", "inventory",
          "authority", "restore", "end"}
\* "new_assumed" is NewPreserved, claimed of a path that cannot be inspected.
Rollbacks == {"none", "previous_restored", "new_preserved", "new_assumed", "no_active"}
Results == {"none", "updated", "updated_services_incomplete", "aborted"} \cup Rollbacks

Init ==
    /\ at = "quiesce" /\ k = 1
    /\ version = [old |-> "active", new |-> "staged"]
    /\ bound \in BOOLEAN /\ governed \in BOOLEAN
    /\ binding = [old |-> IF bound THEN "active" ELSE "absent", new |-> "prepared"]
    /\ policy = "old" /\ settings = "old" /\ features = "old"
    /\ was \in {w \in [UnitSet -> {"active", "inactive", "absent"}] :
                   \A u \in UnitSet : Transition[u] = "add" => w[u] = "absent"}
    /\ unit = [u \in UnitSet |->
                  [file |-> IF was[u] = "absent" THEN "none" ELSE "old",
                   run |-> IF was[u] = "active" THEN "active" ELSE "inactive"]]
    /\ stopped = {} /\ missed = {}
    /\ rollback = "none" /\ critical = FALSE /\ result = "none"

Step(from, to) == at = from /\ at' = to
Become(u, file, run) == unit' = [unit EXCEPT ![u] = [file |-> file, run |-> run]]
End(outcome) == at' = "end" /\ result' = outcome
----------------------------------------------------------------------------
(* Up to the commit.                                                       *)

\* The runtime could not be deactivated, or a service changed since the plan
\* was certified: nothing was touched.
Refuse ==
    /\ at = "quiesce" /\ k = 1
    /\ End("aborted")
    /\ UNCHANGED <<k, version, binding, before, policy, settings, features,
                   services, rollback, critical>>

\* "stopping" is a stop the manager accepted and has not begun.
Runs == {"active", "stopping", "deactivating", "inactive"}
ReadsActive == {"active", "stopping"}

\* ManagedServiceCutover::quiesce: a service whose stop failed counts as stopped,
\* refused or accepted, begun or not.
Quiesce ==
    /\ at = "quiesce" /\ k <= Len(Units)
    /\ LET u == Units[k] IN
       IF was[u] # "active"
       THEN at' = "quiesce" /\ k' = k + 1 /\ UNCHANGED services
       ELSE /\ stopped' = stopped \cup {u}
            /\ \/ /\ at' = "quiesce" /\ k' = k + 1
                  /\ Become(u, "old", "inactive")
               \/ /\ at' = "restore" /\ k' = Len(Units)
                  /\ \E run \in Runs : Become(u, "old", run)
            /\ UNCHANGED missed
    /\ UNCHANGED <<version, binding, before, policy, settings, features, told>>

\* The user's service manager: a stop it accepted runs, in its own time.
ManagerStops(u) ==
    /\ \/ unit[u].run = "stopping" /\ Become(u, unit[u].file, "deactivating")
       \/ unit[u].run = "deactivating" /\ Become(u, unit[u].file, "inactive")
    /\ UNCHANGED <<at, k, version, binding, before, policy, settings, features,
                   stopped, missed, told>>

BackUp ==
    /\ at = "quiesce" /\ k > Len(Units)
    /\ \/ at' = "publish" /\ version' = [version EXCEPT !.old = "backup"] /\ UNCHANGED k
       \/ at' = "restore" /\ k' = Len(Units) /\ UNCHANGED version
    /\ UNCHANGED <<binding, before, policy, settings, features, services, told>>

\* ModuleInstallStaging::commit; a candidate that is not published is removed.
Publish ==
    /\ \/ Step("publish", "bind") /\ version' = [version EXCEPT !.new = "active"]
       \/ Step("publish", "rollback_early") /\ version' = [version EXCEPT !.new = "gone"]
    /\ UNCHANGED <<k, binding, before, policy, settings, features, services, told>>

Original == IF bound THEN "active" ELSE "absent"
Discarded == IF bound THEN "gone" ELSE "absent"

\* activate_update: the previous binding steps aside for the new one, and comes
\* back if the new one cannot take its place. When it cannot come back either,
\* which is reported CRITICAL, the temporary directory that holds it is dropped.
ActivationFailures ==
    {[now |-> [old |-> Original, new |-> "gone"], lost |-> FALSE],
     [now |-> [old |-> Discarded, new |-> "gone"], lost |-> bound]}

ActivateBinding ==
    /\ \/ /\ Step("bind", "policy")
          /\ binding' = [old |-> IF bound THEN "previous" ELSE "absent", new |-> "active"]
          /\ UNCHANGED critical
       \/ /\ Step("bind", "rollback_early")
          /\ \E f \in ActivationFailures : binding' = f.now /\ critical' = f.lost
    /\ UNCHANGED <<k, version, before, policy, settings, features, services, rollback, result>>

\* platform_policy_lifecycle::sync: a failure may be a lost reply.
SyncPolicy ==
    /\ \/ Step("policy", "lifecycle") /\ policy' = IF governed THEN "new" ELSE policy
       \/ governed /\ Step("policy", "rollback_bound") /\ policy' \in {"old", "new"}
    /\ UNCHANGED <<k, version, binding, before, settings, features, services, told>>

RunLifecycle ==
    /\ Step("lifecycle", "settings") \/ Step("lifecycle", "rollback_bound")
    /\ UNCHANGED <<k, version, binding, before, policy, settings, features, services, told>>

\* Fault: the backup is deleted once the lifecycle has run.
UpdateSettingsWithoutBackup ==
    /\ Step("settings", "features") \/ Step("settings", "rollback_bound")
    /\ settings' = "new"
    /\ version' = [version EXCEPT !.old = "gone"]
    /\ UNCHANGED <<k, binding, before, policy, features, services, told>>

\* settings::update_from_default. Nothing takes it back.
UpdateSettings ==
    /\ \/ Step("settings", "features") /\ settings' = "new"
       \/ Step("settings", "rollback_bound") /\ UNCHANGED settings
    /\ UNCHANGED <<k, version, binding, before, policy, features, services, told>>

ReconcileFeatures ==
    /\ \/ Step("features", "finalize") /\ features' = "new"
       \/ Step("features", "rollback_bound") /\ UNCHANGED features
    /\ UNCHANGED <<k, version, binding, before, policy, settings, services, told>>

\* The previous binding and the backup are destroyed; a backup that cannot be
\* deleted stays.
Finalize ==
    /\ Step("finalize", "complete")
    /\ binding' = [binding EXCEPT !.old = IF bound THEN "gone" ELSE "absent"]
    /\ \E left \in {"gone", "backup"} : version' = [version EXCEPT !.old = left]
    /\ k' = 1
    /\ UNCHANGED <<before, policy, settings, features, services, told>>
----------------------------------------------------------------------------
(* Rollback.                                                               *)

Report(state, old, new) == rollback' = state /\ version' = [old |-> old, new |-> new]

\* rollback_live_update_paths: new aside, old back, and the new one back again
\* when the old one does not come.
RollBackPaths ==
    IF version.new = "active"
    THEN \/ \E left \in {"gone", "aside"} : Report("previous_restored", "active", left)
         \/ Report("new_preserved", "backup", "active")
         \/ Report("no_active", "backup", "aside")
         \/ Report("new_assumed", "backup", "active")
    ELSE \/ Report("previous_restored", "active", version.new)
         \/ Report("no_active", "backup", version.new)
         \/ Report("new_assumed", "backup", version.new)

RollBack ==
    /\ Step("rollback_early", "binding_early") \/ Step("rollback_bound", "binding_bound")
    /\ RollBackPaths
    /\ UNCHANGED <<k, binding, before, policy, settings, features, services, critical, result>>

\* finalize_active_material_binding_absence
Unbind(b) == [old |-> IF b.old = "active" THEN "gone" ELSE b.old,
              new |-> IF b.new = "active" THEN "gone" ELSE b.new]

\* The binding was never activated: it follows the previous module, or goes.
SyncEarlyBinding ==
    /\ Step("binding_early", "inventory")
    /\ \/ rollback = "previous_restored" /\ UNCHANGED <<binding, critical>>
       \/ /\ rollback # "previous_restored"
          /\ \/ binding' = Unbind(binding) /\ UNCHANGED critical
             \/ critical' = TRUE /\ UNCHANGED binding
    /\ UNCHANGED <<k, version, before, policy, settings, features, services, rollback, result>>

\* Fault: the binding is rolled back whatever version of the module survived.
BoundOutcomesAlwaysBack ==
    {[now |-> [old |-> Original, new |-> "gone"], failed |-> FALSE]}

\* What becomes of an activated binding. A rollback that fails is tried again
\* when its guard is dropped; then its temporary directory is deleted.
BoundOutcomes ==
    LET finalized == [old |-> Discarded, new |-> "active"] IN
    CASE rollback = "previous_restored" ->
            {[now |-> [old |-> Original, new |-> "gone"], failed |-> f] : f \in BOOLEAN} \cup
            {[now |-> [old |-> Discarded, new |-> where], failed |-> TRUE] :
                where \in {"active", "gone"}}
      [] rollback \in {"new_preserved", "new_assumed"} ->
            {[now |-> finalized, failed |-> FALSE]}
      [] OTHER -> {[now |-> Unbind(finalized), failed |-> FALSE],
                   [now |-> finalized, failed |-> TRUE]}

SyncActivatedBinding ==
    /\ Step("binding_bound", "inventory")
    /\ \E o \in BoundOutcomes : binding' = o.now /\ critical' = (critical \/ o.failed)
    /\ UNCHANGED <<k, version, before, policy, settings, features, services, rollback, result>>

\* The features of the version that is found installed, or none.
SyncFeatures ==
    /\ Step("inventory", "authority")
    /\ \/ \E v \in Versions : /\ rollback # "no_active" /\ version[v] = "active"
                              /\ features' = v
          /\ UNCHANGED critical
       \/ rollback = "no_active" /\ features' = "none" /\ UNCHANGED critical
       \/ critical' = TRUE /\ UNCHANGED features
    /\ UNCHANGED <<k, version, binding, before, policy, settings, services, rollback, result>>

\* Fault: the policy of the new version is left in force.
AuthorityUnchecked ==
    /\ rollback = "previous_restored"
    /\ Step("authority", "restore")
    /\ k' = Len(Units)
    /\ UNCHANGED <<policy, critical, result>>

\* restore_services_after_module_update_failure: services come back on the
\* previous version only, and only under its own policy.
RestoreAuthority ==
    \/ /\ rollback = "previous_restored"
       /\ Step("authority", "restore")
       /\ policy' = "old"
       /\ k' = Len(Units)
       /\ UNCHANGED <<critical, result>>
    \/ /\ rollback = "previous_restored" /\ governed
       /\ at = "authority" /\ End(rollback)
       /\ policy' \in {policy, "old"}
       /\ critical' = TRUE
       /\ UNCHANGED k
    \/ /\ rollback # "previous_restored"
       /\ at = "authority" /\ End(rollback)
       /\ critical' = (critical \/ stopped # {})
       /\ UNCHANGED <<k, policy>>

Authority ==
    /\ RestoreAuthority
    /\ UNCHANGED <<version, binding, before, settings, features, services, rollback>>

\* reactivate_certified_service: one that reads active needs no start.
Reactivated(u) ==
    \/ unit[u].run \in ReadsActive /\ UNCHANGED unit
    \/ unit[u].run = "inactive" /\ Become(u, unit[u].file, "active")

\* What it leaves of a service it gives up: a start that was asked for may come.
Unrestored(u) == UNCHANGED unit \/ (unit[u].run = "inactive" /\ Become(u, unit[u].file, "active"))

\* restore_original: last first, each on its own.
RestoreService ==
    /\ at = "restore" /\ k > 0
    /\ k' = k - 1
    /\ LET u == Units[k] IN
       \/ /\ u \in stopped /\ Reactivated(u)
          /\ missed' = missed \cup {v \in {u} : unit[v].run = "stopping"}
          /\ UNCHANGED critical
       \/ u \in stopped /\ Unrestored(u) /\ critical' = TRUE /\ UNCHANGED missed
       \/ u \notin stopped /\ UNCHANGED <<unit, missed, critical>>
    /\ UNCHANGED <<at, version, binding, before, policy, settings, features,
                   stopped, rollback, result>>

Restored ==
    /\ at = "restore" /\ k = 0
    /\ End(IF rollback = "none" THEN "aborted" ELSE rollback)
    /\ UNCHANGED <<k, version, binding, before, policy, settings, features,
                   services, rollback, critical>>
----------------------------------------------------------------------------
(* ManagedServiceCutover::complete, after the commit.                      *)

\* Where the plan takes a service.
Target(u) ==
    CASE Transition[u] = "keep" ->
            [file |-> unit[u].file,
             run |-> IF was[u] = "active" THEN "active" ELSE unit[u].run]
      [] Transition[u] = "retire" -> [file |-> "none", run |-> "inactive"]
      [] OTHER -> [file |-> "new",
                   run |-> IF was[u] = "inactive" THEN unit[u].run ELSE "active"]

\* The first service that fails ends the reconciliation, half replaced perhaps.
CompleteService ==
    /\ at = "complete" /\ k <= Len(Units)
    /\ LET u == Units[k] IN
       \/ /\ unit' = [unit EXCEPT ![u] = Target(u)]
          /\ k' = k + 1
          /\ UNCHANGED <<at, result>>
       \/ /\ \E file \in {unit[u].file, Target(u).file}, run \in {unit[u].run, Target(u).run} :
                 Become(u, file, run)
          /\ End("updated_services_incomplete")
          /\ UNCHANGED k
    /\ UNCHANGED <<version, binding, before, policy, settings, features, stopped,
                   missed, rollback, critical>>

Completed ==
    /\ at = "complete" /\ k > Len(Units)
    /\ End("updated")
    /\ UNCHANGED <<k, version, binding, before, policy, settings, features,
                   services, rollback, critical>>
----------------------------------------------------------------------------
Forward == Refuse \/ Quiesce \/ BackUp \/ Publish \/ ActivateBinding \/ SyncPolicy
               \/ RunLifecycle \/ UpdateSettings \/ ReconcileFeatures \/ Finalize
Backward == RollBack \/ SyncEarlyBinding \/ SyncActivatedBinding \/ SyncFeatures
                \/ Authority \/ RestoreService \/ Restored

Manager == \E u \in UnitSet : ManagerStops(u)

Next == Forward \/ Backward \/ CompleteService \/ Completed \/ Manager

Spec == Init /\ [][Next]_vars
----------------------------------------------------------------------------
(* Properties.                                                             *)

TypeOK ==
    /\ at \in Steps /\ k \in 0..(Len(Units) + 1)
    /\ version \in [old : Places, new : Places]
    /\ binding \in [old : BindingPlaces, new : BindingPlaces]
    /\ bound \in BOOLEAN /\ governed \in BOOLEAN /\ critical \in BOOLEAN
    /\ policy \in Versions /\ settings \in Versions /\ features \in Versions \cup {"none"}
    /\ unit \in [UnitSet -> [file : Versions \cup {"none"},
                             run : Runs]]
    /\ was \in [UnitSet -> {"active", "inactive", "absent"}]
    /\ stopped \subseteq {u \in UnitSet : was[u] = "active"} /\ missed \subseteq stopped
    /\ rollback \in Rollbacks /\ result \in Results

Committed == at = "complete" \/ result \in {"updated", "updated_services_incomplete"}

\* "Never start a previous process over a new module version": until the
\* commit, a stopped service starts only when the previous module is back in
\* place and, where the platform governs it, under its own policy.
ServicesFollowModule ==
    [][~Committed => \A u \in UnitSet :
          unit[u].run # "active" /\ unit'[u].run = "active" =>
              version.old = "active" /\ policy = "old"]_vars

\* The known-good version is destroyed last: before the commit it is installed
\* or in its backup, whatever failed and whatever failed in the rollback.
KnownGoodSurvives == ~Committed => version.old \in {"active", "backup"}

\* What the caller is told is what is on disk: of the two versions the one that
\* was named is installed and, unless the report is CRITICAL, the binding (where
\* there was one) and the features are that version's, and the services are as
\* they were, but for those that were restored while their stop was still
\* pending; no update that had begun leaves such a one.
OutcomeIsTrue ==
    /\ result \in {"aborted", "previous_restored"} =>
        /\ version.old = "active" /\ version.new # "active"
        /\ ~critical => /\ binding.old = Original /\ binding.new # "active"
                        /\ features = "old" /\ policy = "old"
                        /\ \A u \in UnitSet \ missed : unit[u].run = "active" <=> was[u] = "active"
    /\ result = "previous_restored" => missed = {}
    /\ result = "new_preserved" =>
        /\ version.old # "active" /\ version.new = "active"
        /\ ~critical => binding.old # "active" /\ features = "new" /\ stopped = {}
    /\ result = "no_active" =>
        /\ "active" \notin {version.old, version.new}
        /\ ~critical => "active" \notin {binding.old, binding.new} /\ features = "none"
    /\ result = "updated" =>
        /\ version.new = "active" /\ binding.new = "active" /\ binding.old # "active"
        /\ features = "new" /\ settings = "new" /\ (governed => policy = "new")
        /\ \A u \in UnitSet :
              CASE Transition[u] = "retire" -> unit[u].file = "none"
                [] Transition[u] = "keep" -> unit[u].run = "active" <=> was[u] = "active"
                [] OTHER -> /\ unit[u].file = "new"
                            /\ unit[u].run = "active" <=> was[u] # "inactive"
=============================================================================
