--------------------------- MODULE UpdateTxnProofs ---------------------------
(***************************************************************************)
(* Proofs about the update transaction, for any services and any plan.     *)
(*                                                                         *)
(* The inductive invariant says, step by step, what the transaction has    *)
(* done and undone: where the two versions are, which binding is in place, *)
(* what the features, the settings and the policy follow, and how far the  *)
(* services have come. What the caller is told is the last line of each.   *)
(***************************************************************************)
EXTENDS UpdateTxn, TLAPS

\* Services are visited by an index that is in range where it is used.
Indexed ==
    /\ at \in {"quiesce", "complete"} => k >= 1
    /\ at = "restore" => k <= Len(Units)

Typed == TypeOK /\ Indexed

Unbound == {"quiesce", "publish", "bind"}
Swapped == {"bind", "policy", "lifecycle", "settings", "features", "finalize", "rollback_bound"}
RolledBack == {"binding_early", "binding_bound", "inventory", "authority"}

\* Where the two versions of the module are, by the step and by the report.
VersionsPlaced ==
    /\ result # "none" => at = "end"
    /\ rollback # "none" => at \in RolledBack \cup {"restore", "end"}
    /\ at = "restore" => rollback \in {"none", "previous_restored"}
    /\ at = "publish" => version.old = "backup" /\ version.new = "staged"
    /\ at = "quiesce" \/ (at = "restore" /\ rollback = "none") \/ result = "aborted" =>
          version.old = "active" /\ version.new = "staged"
    /\ at \in Swapped => version.old = "backup" /\ version.new = "active"
    /\ at = "complete" \/ result = "updated" => version.new = "active"
    /\ rollback = "previous_restored" => version.old = "active" /\ version.new # "active"
    /\ rollback = "new_preserved" => version.old # "active" /\ version.new = "active"
    /\ rollback = "no_active" => version.old # "active" /\ version.new # "active"
    /\ result \in Rollbacks \ {"none"} => rollback = result
    /\ KnownGoodSurvives

\* Which binding is in place, by the step and by the report.
BindingsPlaced ==
    /\ at \in Unbound \cup {"rollback_early", "binding_early"} => binding.new # "active"
    /\ (at = "restore" /\ rollback = "none") \/ result = "aborted" =>
          binding.new # "active" /\ binding.old = Original
    /\ at \in Unbound => binding.old = Original
    /\ at \in {"rollback_early", "binding_early"} /\ ~critical => binding.old = Original
    /\ at \in (Swapped \ {"bind"}) \cup {"binding_bound", "complete"} \/ result = "updated" =>
          binding.new = "active" /\ binding.old # "active"
    /\ at \in {"inventory", "authority", "restore", "end"} /\ ~critical =>
          /\ rollback = "previous_restored" => binding.new # "active" /\ binding.old = Original
          /\ rollback = "new_preserved" => binding.old # "active"
          /\ rollback = "no_active" => "active" \notin {binding.old, binding.new}

\* Which version the features, the settings and the policy are of.
StateFollows ==
    /\ at \in {"quiesce", "restore"} => policy = "old"
    /\ at \in {"lifecycle", "settings", "features", "finalize", "complete"} \/ result = "updated" =>
          (governed => policy = "new")
    /\ at \in {"features", "finalize", "complete"} \/ result = "updated" => settings = "new"
    /\ at \in Unbound \cup {"policy", "lifecycle", "settings", "features"} => features = "old"
    /\ at \in {"finalize", "complete"} \/ result = "updated" => features = "new"
    /\ (at = "restore" /\ rollback = "none") \/ result = "aborted" =>
          features = "old" /\ policy = "old"
    /\ at \in {"authority", "restore", "end"} /\ ~critical =>
          /\ rollback = "previous_restored" => features = "old"
          /\ rollback = "new_preserved" => features = "new"
          /\ rollback = "no_active" => features = "none"
    /\ at = "end" /\ ~critical /\ rollback = "previous_restored" => policy = "old"

\* A service is as the baseline found it, or as the plan wants it.
Restarted(u) == unit[u].run = "active" <=> was[u] = "active"
Reconciled(u) ==
    CASE Transition[u] = "retire" -> unit[u].file = "none"
      [] Transition[u] = "keep" -> Restarted(u)
      [] OTHER -> unit[u].file = "new" /\ (unit[u].run = "active" <=> was[u] # "inactive")

\* A stop can only be pending when its failure made the transaction abort.
Pending(u) == unit[u].run \in {"stopping", "deactivating"}
PendingKnown ==
    /\ \A u \in UnitSet : Pending(u) => u \in stopped
    /\ (\E u \in UnitSet : Pending(u)) \/ missed # {} =>
          rollback = "none" /\ (at = "restore" \/ result = "aborted")

\* How far the services have been stopped, brought back or reconciled.
ServicesKnown ==
    /\ at \notin {"complete", "end"} => \A u \in UnitSet \ stopped : Restarted(u)
    /\ at = "quiesce" => stopped \subseteq {Units[n] : n \in 1..(k - 1)}
    /\ at = "complete" => \A n \in 1..Len(Units) :
          IF n < k THEN Reconciled(Units[n]) ELSE (Units[n] \notin stopped => Restarted(Units[n]))
    /\ at = "restore" /\ ~critical => \A n \in 1..Len(Units) :
          n > k => Restarted(Units[n]) \/ Units[n] \in missed
    /\ result \in {"aborted", "previous_restored"} /\ ~critical =>
          \A u \in UnitSet \ missed : Restarted(u)
    /\ result = "new_preserved" /\ ~critical => stopped = {}
    /\ result = "updated" => \A u \in UnitSet : Reconciled(u)

UnitTypes == [UnitSet -> [file : Versions \cup {"none"},
                         run : Runs]]

\* The plan is a finite sequence.
LEMMA UnitsLength == Len(Units) \in Nat
  BY UnitsAssumption

\* Every position of the plan names a service.
LEMMA UnitAt == \A n \in 1..Len(Units) : Units[n] \in UnitSet
  BY UnitsAssumption

USE DEF Places, BindingPlaces, Versions, Steps, Rollbacks, Results, Step, End,
        told, services, before, Runs, ReadsActive

\* One service changes, and all of them keep their types.
LEMMA UnitBecomes ==
    ASSUME unit \in UnitTypes, NEW u \in UnitSet,
           NEW file \in Versions \cup {"none"},
           NEW run \in Runs, Become(u, file, run)
    PROVE  unit' \in UnitTypes
  BY DEF Become, UnitTypes

\* The types hold before the first step.
LEMMA InitTyped == Init => Typed
<1> SUFFICES ASSUME Init PROVE Typed
  OBVIOUS
<1>0. Indexed
  BY UnitsLength DEF Init, Indexed
<1>1. k \in 0..(Len(Units) + 1)
  BY UnitsLength DEF Init
<1>2. was \in [UnitSet -> {"active", "inactive", "absent"}]
  BY DEF Init
<1>3. unit \in UnitTypes
  BY <1>2 DEF Init, UnitTypes
<1>4. bound \in BOOLEAN /\ governed \in BOOLEAN /\ critical \in BOOLEAN
  BY Zenon DEF Init
<1>5. binding \in [old : BindingPlaces, new : BindingPlaces]
  <2>1. \E b \in {"active", "absent"} : binding = [old |-> b, new |-> "prepared"]
    BY Zenon DEF Init
  <2> QED
    BY <2>1
<1> QED
  BY <1>0, <1>1, <1>2, <1>3, <1>4, <1>5 DEF Init, Typed, TypeOK, UnitTypes

\* The index stays in the range in which it is used.
LEMMA IndexStep == Typed /\ Next => Indexed'
<1> SUFFICES ASSUME Typed, Next PROVE Indexed'
  OBVIOUS
<1>1. k \in Nat /\ Len(Units) \in Nat
  BY UnitsLength DEF Typed, TypeOK
<1> QED
  BY <1>1 DEF Typed, Indexed, Next, Forward, Backward, Refuse, Quiesce, BackUp,
    Publish, ActivateBinding, SyncPolicy, RunLifecycle, UpdateSettings,
    ReconcileFeatures, Finalize, RollBack, SyncEarlyBinding, SyncActivatedBinding,
    SyncFeatures, Authority, RestoreAuthority, RestoreService, Restored,
    CompleteService, Completed, Manager, ManagerStops

\* Every step keeps the types.
LEMMA TypeStep == Typed /\ Next => TypeOK'
<1> SUFFICES ASSUME TypeOK, Indexed, Next PROVE TypeOK'
  BY DEF Typed
<1>a. CASE Refuse
  BY <1>a DEF Refuse, TypeOK
<1>b. CASE Quiesce
  <2> DEFINE u == Units[k]
  <2>1. k \in 1..Len(Units)
    BY <1>b, UnitsLength DEF Quiesce, TypeOK, Indexed
  <2>2. u \in UnitSet
    BY <2>1, UnitAt
  <2>3. k' \in 0..(Len(Units) + 1)
    BY <1>b, <2>1, UnitsLength DEF Quiesce
  <2>4. unit' \in UnitTypes
    <3>1. unit \in UnitTypes
      BY DEF TypeOK, UnitTypes
    <3>2. \/ unit' = unit
          \/ \E run \in Runs : Become(u, "old", run)
      BY <1>b DEF Quiesce
    <3> QED
      BY <3>1, <3>2, <2>2, UnitBecomes
  <2>5. stopped' \subseteq {v \in UnitSet : was'[v] = "active"} /\ missed' \subseteq stopped'
    BY <1>b, <2>2 DEF Quiesce, TypeOK
  <2>6. at' \in Steps
    BY <1>b DEF Quiesce
  <2> QED
    BY <1>b, <2>3, <2>4, <2>5, <2>6 DEF Quiesce, TypeOK, UnitTypes
<1>c. CASE BackUp
  BY <1>c, UnitsLength DEF BackUp, TypeOK
<1>d. CASE Publish
  BY <1>d DEF Publish, TypeOK
<1>e. CASE ActivateBinding
  <2>1. critical' \in BOOLEAN
    <3>1. \A f \in ActivationFailures : f.lost = FALSE \/ f.lost = bound
      BY DEF ActivationFailures
    <3>2. critical' = critical \/ critical' = FALSE \/ critical' = bound
      BY <1>e, <3>1, Zenon DEF ActivateBinding
    <3> QED
      BY <3>2, Zenon DEF TypeOK
  <2>2. binding' \in [old : BindingPlaces, new : BindingPlaces]
    <3>1. \A f \in ActivationFailures : f.now \in [old : BindingPlaces, new : BindingPlaces]
      BY DEF ActivationFailures, Original, Discarded
    <3> QED
      BY <1>e, <3>1 DEF ActivateBinding
  <2> QED
    BY <1>e, <2>1, <2>2 DEF ActivateBinding, TypeOK
<1>f. CASE SyncPolicy
  BY <1>f DEF SyncPolicy, TypeOK
<1>g. CASE RunLifecycle
  BY <1>g DEF RunLifecycle, TypeOK
<1>h. CASE UpdateSettings
  BY <1>h DEF UpdateSettings, TypeOK
<1>i. CASE ReconcileFeatures
  BY <1>i DEF ReconcileFeatures, TypeOK
<1>j. CASE Finalize
  BY <1>j, UnitsLength DEF Finalize, TypeOK
<1>k. CASE RollBack
  BY <1>k DEF RollBack, RollBackPaths, Report, TypeOK
<1>l. CASE SyncEarlyBinding
  <2>1. critical' \in BOOLEAN
    BY <1>l, Zenon DEF SyncEarlyBinding, Unbind, TypeOK
  <2> QED
    BY <1>l, <2>1, UnitsLength DEF SyncEarlyBinding, Unbind, TypeOK
<1>m. CASE SyncActivatedBinding
  BY <1>m DEF SyncActivatedBinding, BoundOutcomes, Original, Discarded, Unbind, TypeOK
<1>n. CASE SyncFeatures
  <2>1. critical' \in BOOLEAN
    BY <1>n, Zenon DEF SyncFeatures, TypeOK
  <2> QED
    BY <1>n, <2>1, UnitsLength DEF SyncFeatures, TypeOK
<1>o. CASE Authority
  <2>1. critical' \in BOOLEAN
    BY <1>o, Zenon DEF Authority, RestoreAuthority, TypeOK
  <2>2. at' \in Steps /\ k' \in 0..(Len(Units) + 1)
    BY <1>o, UnitsLength DEF Authority, RestoreAuthority, TypeOK
  <2>3. policy' \in Versions /\ result' \in Results
    BY <1>o DEF Authority, RestoreAuthority, TypeOK
  <2> QED
    BY <1>o, <2>1, <2>2, <2>3 DEF Authority, TypeOK
<1>p. CASE RestoreService
  <2> DEFINE u == Units[k]
  <2>1. k \in 1..Len(Units) /\ k' \in 0..(Len(Units) + 1)
    BY <1>p, UnitsLength DEF RestoreService, TypeOK, Indexed
  <2>2. u \in UnitSet
    BY <2>1, UnitAt
  <2>3. unit' \in UnitTypes
    <3>1. unit \in UnitTypes
      BY DEF TypeOK, UnitTypes
    <3>2. unit' = unit \/ Become(u, unit[u].file, "active")
      BY <1>p DEF RestoreService, Reactivated, Unrestored
    <3>3. unit[u].file \in Versions \cup {"none"}
      BY <2>2, <3>1 DEF UnitTypes
    <3> QED
      BY <3>1, <3>2, <3>3, <2>2, UnitBecomes
  <2>4. critical' \in BOOLEAN
    BY <1>p, Zenon DEF RestoreService, TypeOK
  <2>5. missed' \subseteq stopped'
    BY <1>p DEF RestoreService, TypeOK
  <2> QED
    BY <1>p, <2>1, <2>3, <2>4, <2>5 DEF RestoreService, TypeOK, UnitTypes
<1>q. CASE Restored
  <2>1. at' \in Steps /\ result' \in Results
    BY <1>q DEF Restored, TypeOK
  <2> QED
    BY <1>q, <2>1 DEF Restored, TypeOK
<1>r. CASE CompleteService
  <2> DEFINE u == Units[k]
  <2>1. k \in 1..Len(Units)
    BY <1>r, UnitsLength DEF CompleteService, TypeOK, Indexed
  <2>2. k' \in 0..(Len(Units) + 1) /\ at' \in Steps /\ result' \in Results
    BY <1>r, <2>1, UnitsLength DEF CompleteService, TypeOK
  <2>3. u \in UnitSet
    BY <2>1, UnitAt
  <2>4. unit \in UnitTypes
    BY DEF TypeOK, UnitTypes
  <2>5. unit' \in UnitTypes
    <3>1. Target(u) \in [file : Versions \cup {"none"}, run : Runs]
      BY <2>3, <2>4 DEF Target, UnitTypes
    <3>2. CASE unit' = [unit EXCEPT ![u] = Target(u)]
      BY <2>3, <2>4, <3>1, <3>2 DEF UnitTypes
    <3>3. CASE \E file \in {unit[u].file, Target(u).file}, run \in {unit[u].run, Target(u).run} :
                  Become(u, file, run)
      <4>1. /\ {unit[u].file, Target(u).file} \subseteq Versions \cup {"none"}
            /\ {unit[u].run, Target(u).run} \subseteq Runs
        BY <2>3, <2>4, <3>1 DEF UnitTypes
      <4> QED
        BY <2>3, <2>4, <3>3, <4>1, UnitBecomes
    <3> QED
      BY <1>r, <3>2, <3>3 DEF CompleteService
  <2> QED
    BY <1>r, <2>2, <2>5 DEF CompleteService, TypeOK, UnitTypes
<1>s. CASE Completed
  BY <1>s DEF Completed, TypeOK
<1>t. CASE Manager
  <2>1. PICK u \in UnitSet : ManagerStops(u)
    BY <1>t DEF Manager
  <2>2. unit' \in UnitTypes
    <3>1. unit \in UnitTypes
      BY DEF TypeOK, UnitTypes
    <3>2. unit[u].file \in Versions \cup {"none"}
      BY <2>1, <3>1 DEF UnitTypes
    <3>3. \E run \in Runs : Become(u, unit[u].file, run)
      BY <2>1 DEF ManagerStops
    <3> QED
      BY <3>1, <3>2, <3>3, UnitBecomes
  <2> QED
    BY <2>1, <2>2 DEF ManagerStops, TypeOK, UnitTypes
<1> QED
  BY <1>a, <1>b, <1>c, <1>d, <1>e, <1>f, <1>g, <1>h, <1>i, <1>j, <1>k, <1>l,
     <1>m, <1>n, <1>o, <1>p, <1>q, <1>r, <1>s, <1>t DEF Next, Forward, Backward

\* A certified candidate is staged beside the installed version.
LEMMA VersionsInit == Init => VersionsPlaced
  BY DEF Init, VersionsPlaced, Swapped, RolledBack, KnownGoodSurvives, Committed

\* Where the two versions are follows the step, through every rollback.
LEMMA VersionsStep == Typed /\ VersionsPlaced /\ Next => VersionsPlaced'
<1> SUFFICES ASSUME Typed, VersionsPlaced, Next PROVE VersionsPlaced'
  OBVIOUS
<1> USE DEF VersionsPlaced, Swapped, RolledBack, KnownGoodSurvives, Committed
<1>0. /\ version \in [old : Places, new : Places]
      /\ rollback \in Rollbacks /\ result \in Results
  BY DEF Typed, TypeOK
<1>1. CASE Refuse \/ Quiesce
  BY <1>0, <1>1 DEF Refuse, Quiesce
<1>2. CASE BackUp \/ Publish
  <2>1. CASE BackUp
    <3>1. \/ version'.old = "backup" /\ version'.new = version.new /\ at' = "publish"
          \/ version' = version /\ at' = "restore"
      BY <1>0, <2>1 DEF BackUp
    <3> QED
      BY <1>0, <2>1, <3>1 DEF BackUp
  <2>2. CASE Publish
    <3>1. /\ version'.old = version.old
          /\ \/ version'.new = "active" /\ at' = "bind"
             \/ version'.new = "gone" /\ at' = "rollback_early"
      BY <1>0, <2>2 DEF Publish
    <3> QED
      BY <1>0, <2>2, <3>1 DEF Publish
  <2> QED
    BY <1>2, <2>1, <2>2
<1>3. CASE ActivateBinding \/ SyncPolicy \/ RunLifecycle \/ UpdateSettings \/ ReconcileFeatures
  BY <1>0, <1>3 DEF ActivateBinding, SyncPolicy, RunLifecycle, UpdateSettings, ReconcileFeatures
<1>4. CASE Finalize
  BY <1>0, <1>4 DEF Finalize
<1>5. CASE RollBack
  BY <1>0, <1>5 DEF RollBack, RollBackPaths, Report
<1>6. CASE SyncEarlyBinding \/ SyncActivatedBinding \/ SyncFeatures
  BY <1>0, <1>6 DEF SyncEarlyBinding, SyncActivatedBinding, SyncFeatures
<1>7. CASE Authority
  BY <1>0, <1>7 DEF Authority, RestoreAuthority
<1>8. CASE RestoreService \/ Restored
  BY <1>0, <1>8 DEF RestoreService, Restored
<1>9. CASE CompleteService \/ Completed
  BY <1>0, <1>9 DEF CompleteService, Completed
<1>10. CASE Manager
  BY <1>0, <1>10 DEF Manager, ManagerStops
<1> QED
  BY <1>1, <1>2, <1>3, <1>4, <1>5, <1>6, <1>7, <1>8, <1>9, <1>10 DEF Next, Forward, Backward

\* The candidate's binding is prepared and not in place.
LEMMA BindingsInit == Init => BindingsPlaced
  BY DEF Init, BindingsPlaced, Unbound, Swapped, RolledBack, Original

\* Which binding is in place follows the step and, unless CRITICAL, the rollback.
LEMMA BindingsStep == Typed /\ VersionsPlaced /\ BindingsPlaced /\ Next => BindingsPlaced'
<1> SUFFICES ASSUME Typed, VersionsPlaced, BindingsPlaced, Next PROVE BindingsPlaced'
  OBVIOUS
<1> USE DEF BindingsPlaced, Unbound, Swapped, RolledBack, Original
<1>0. /\ rollback \in Rollbacks /\ result \in Results /\ critical \in BOOLEAN
      /\ binding \in [old : BindingPlaces, new : BindingPlaces]
  BY DEF Typed, TypeOK
<1>1. CASE Refuse \/ Quiesce \/ BackUp \/ Publish
  BY <1>0, <1>1 DEF Refuse, Quiesce, BackUp, Publish, VersionsPlaced
<1>2. CASE ActivateBinding
  <2>1. CASE Step("bind", "policy")
    BY <1>0, <1>2, <2>1 DEF ActivateBinding, VersionsPlaced
  <2>2. CASE Step("bind", "rollback_early")
    <3>1. PICK f \in ActivationFailures : binding' = f.now /\ critical' = f.lost
      BY <1>2, <2>2 DEF ActivateBinding
    <3>2. f.now.new # "active" /\ (f.lost \/ f.now.old = Original)
      BY DEF ActivationFailures, Discarded
    <3>3. critical' \/ binding'.old = Original
      BY <3>1, <3>2, Zenon
    <3> QED
      BY <1>0, <1>2, <2>2, <3>1, <3>2, <3>3 DEF ActivateBinding, VersionsPlaced
  <2> QED
    BY <1>2, <2>1, <2>2 DEF ActivateBinding
<1>3. CASE SyncPolicy \/ RunLifecycle \/ UpdateSettings \/ ReconcileFeatures
  BY <1>0, <1>3 DEF SyncPolicy, RunLifecycle, UpdateSettings, ReconcileFeatures, VersionsPlaced
<1>4. CASE Finalize
  BY <1>0, <1>4 DEF Finalize, VersionsPlaced
<1>5. CASE RollBack
  BY <1>0, <1>5 DEF RollBack, RollBackPaths, Report, VersionsPlaced
<1>6. CASE SyncEarlyBinding \/ SyncActivatedBinding
  <2>1. CASE SyncEarlyBinding
    <3>1. Unbind(binding).old # "active" /\ Unbind(binding).new # "active"
      BY DEF Unbind
    <3>2. \/ binding' = binding /\ critical' = critical /\ rollback = "previous_restored"
          \/ /\ binding' = Unbind(binding) /\ critical' = critical
             /\ rollback # "previous_restored"
          \/ critical' = TRUE
      BY <2>1 DEF SyncEarlyBinding
    <3>3. /\ at = "binding_early" /\ at' = "inventory" /\ rollback' = rollback
          /\ result' = result /\ bound' = bound
      BY <2>1 DEF SyncEarlyBinding
    <3>4. result # "aborted" /\ result # "updated"
      BY <3>3 DEF VersionsPlaced
    <3> HIDE DEF Original
    <3>5. Original' = Original
      BY <3>3 DEF Original
    <3> QED
      BY <1>0, <3>1, <3>2, <3>3, <3>4, <3>5
  <2>2. CASE SyncActivatedBinding
    <3> DEFINE finalized == [old |-> Discarded, new |-> "active"]
    <3>1. /\ Discarded # "active"
          /\ Unbind(finalized).old # "active" /\ Unbind(finalized).new # "active"
      BY DEF Unbind, Discarded
    <3>2. PICK o \in BoundOutcomes : binding' = o.now /\ critical' = (critical \/ o.failed)
      BY <2>2 DEF SyncActivatedBinding
    <3>3. o.failed => critical'
      BY <3>2, Zenon
    <3>4. ~o.failed =>
            /\ rollback = "previous_restored" => o.now.new # "active" /\ o.now.old = Original
            /\ rollback = "new_preserved" => o.now.old # "active"
            /\ rollback = "no_active" => "active" \notin {o.now.old, o.now.new}
      <4>1. CASE rollback = "previous_restored"
        BY <4>1 DEF BoundOutcomes
      <4>2. CASE rollback = "new_preserved"
        BY <3>1, <4>2 DEF BoundOutcomes
      <4>3. CASE rollback = "no_active"
        BY <3>1, <4>3 DEF BoundOutcomes
      <4> QED
        BY <4>1, <4>2, <4>3
    <3>5. critical' \/ ~o.failed
      BY <3>3
    <3>6. /\ at = "binding_bound" /\ at' = "inventory" /\ rollback' = rollback
          /\ result' = result /\ bound' = bound
      BY <2>2 DEF SyncActivatedBinding
    <3>7. critical' \/
            /\ rollback = "previous_restored" => binding'.new # "active" /\ binding'.old = Original
            /\ rollback = "new_preserved" => binding'.old # "active"
            /\ rollback = "no_active" => "active" \notin {binding'.old, binding'.new}
      BY <3>2, <3>4, <3>5
    <3> QED
      BY <3>6, <3>7 DEF VersionsPlaced
  <2> QED
    BY <1>6, <2>1, <2>2
<1>7. CASE SyncFeatures
  BY <1>0, <1>7 DEF SyncFeatures, VersionsPlaced
<1>8. CASE Authority
  BY <1>0, <1>8 DEF Authority, RestoreAuthority, VersionsPlaced
<1>9. CASE RestoreService \/ Restored
  BY <1>0, <1>9 DEF RestoreService, Restored, VersionsPlaced
<1>10. CASE CompleteService \/ Completed
  BY <1>0, <1>10 DEF CompleteService, Completed, VersionsPlaced
<1>11. CASE Manager
  BY <1>0, <1>11 DEF Manager, ManagerStops, VersionsPlaced
<1> QED
  BY <1>1, <1>2, <1>3, <1>4, <1>5, <1>6, <1>7, <1>8, <1>9, <1>10, <1>11 DEF Next, Forward, Backward

\* Features, settings and policy are those of the installed version.
LEMMA StateInit == Init => StateFollows
  BY DEF Init, StateFollows, Unbound

\* Features, settings and policy follow the step and, unless CRITICAL, the rollback.
LEMMA StateStep == Typed /\ VersionsPlaced /\ StateFollows /\ Next => StateFollows'
<1> SUFFICES ASSUME Typed, VersionsPlaced, StateFollows, Next PROVE StateFollows'
  OBVIOUS
<1> USE DEF StateFollows, Unbound
<1>0. /\ rollback \in Rollbacks /\ result \in Results /\ critical \in BOOLEAN
      /\ version \in [old : Places, new : Places]
  BY DEF Typed, TypeOK
<1>1. CASE Refuse \/ Quiesce \/ BackUp \/ Publish
  BY <1>0, <1>1 DEF Refuse, Quiesce, BackUp, Publish, VersionsPlaced
<1>2. CASE ActivateBinding
  BY <1>0, <1>2 DEF ActivateBinding, ActivationFailures, VersionsPlaced
<1>3. CASE SyncPolicy \/ RunLifecycle \/ UpdateSettings \/ ReconcileFeatures
  BY <1>0, <1>3 DEF SyncPolicy, RunLifecycle, UpdateSettings, ReconcileFeatures, VersionsPlaced
<1>4. CASE Finalize
  BY <1>0, <1>4 DEF Finalize, VersionsPlaced
<1>5. CASE RollBack
  BY <1>0, <1>5 DEF RollBack, RollBackPaths, Report, VersionsPlaced
<1>6. CASE SyncEarlyBinding \/ SyncActivatedBinding
  BY <1>0, <1>6 DEF SyncEarlyBinding, SyncActivatedBinding, BoundOutcomes, Unbind, Original, Discarded
<1>7. CASE SyncFeatures
  BY <1>0, <1>7 DEF SyncFeatures, VersionsPlaced
<1>8. CASE Authority
  BY <1>0, <1>8 DEF Authority, RestoreAuthority, VersionsPlaced
<1>9. CASE RestoreService \/ Restored
  BY <1>0, <1>9 DEF RestoreService, Restored, VersionsPlaced
<1>10. CASE CompleteService \/ Completed
  BY <1>0, <1>10 DEF CompleteService, Completed, VersionsPlaced
<1>11. CASE Manager
  BY <1>0, <1>11 DEF Manager, ManagerStops, VersionsPlaced
<1> QED
  BY <1>1, <1>2, <1>3, <1>4, <1>5, <1>6, <1>7, <1>8, <1>9, <1>10, <1>11 DEF Next, Forward, Backward

\* Every service has a position in the plan.
LEMMA UnitIndex == \A u \in UnitSet : \E n \in 1..Len(Units) : Units[n] = u
  BY UnitsAssumption DEF UnitSet

\* Two positions of the plan name two services.
LEMMA UnitsDistinct == \A m, n \in 1..Len(Units) : Units[m] = Units[n] => m = n
  BY UnitsAssumption DEF IsInjective

\* No stop is pending before the first step.
LEMMA PendingInit == Init => PendingKnown
<1> SUFFICES ASSUME Init PROVE PendingKnown
  OBVIOUS
<1>1. \A u \in UnitSet : ~Pending(u)
  BY DEF Init, Pending
<1> QED
  BY <1>1 DEF Init, PendingKnown

\* Where no service changes, a stop is as pending as it was.
LEMMA PendingSame ==
    unit' = unit => \A u \in UnitSet : Pending(u)' <=> Pending(u)
  BY DEF Pending

\* A stop left pending is followed by the restoration and the abort.
LEMMA PendingStep == Typed /\ VersionsPlaced /\ PendingKnown /\ Next => PendingKnown'
<1> SUFFICES ASSUME Typed, VersionsPlaced, PendingKnown, Next PROVE PendingKnown'
  OBVIOUS
<1>0. unit \in UnitTypes /\ k \in Nat /\ Len(Units) \in Nat
  BY UnitsLength DEF Typed, TypeOK, UnitTypes
<1>1. CASE Quiesce
  <2> DEFINE u == Units[k]
  <2>1. k \in 1..Len(Units) /\ u \in UnitSet
    BY <1>0, <1>1, UnitAt DEF Quiesce, Typed, Indexed
  <2>2. /\ at = "quiesce" /\ rollback' = rollback /\ rollback = "none" /\ missed = {}
        /\ \A v \in UnitSet : ~Pending(v)
    BY <1>1 DEF Quiesce, PendingKnown, VersionsPlaced, RolledBack
  <2>3. CASE unit' = unit /\ stopped' = stopped /\ missed' = missed
    BY <2>2, <2>3, PendingSame DEF PendingKnown
  <2>4. CASE /\ stopped' = stopped \cup {u} /\ missed' = missed /\ at' = "quiesce"
             /\ Become(u, "old", "inactive")
    <3>1. \A v \in UnitSet : ~Pending(v)'
      BY <1>0, <2>1, <2>2, <2>4 DEF Become, UnitTypes, Pending
    <3> QED
      BY <2>2, <2>4, <3>1 DEF PendingKnown
  <2>5. CASE /\ stopped' = stopped \cup {u} /\ missed' = missed /\ at' = "restore"
             /\ \E run \in Runs : Become(u, "old", run)
    <3>1. \A v \in UnitSet : v # u => ~Pending(v)'
      BY <1>0, <2>1, <2>2, <2>5 DEF Become, UnitTypes, Pending
    <3> QED
      BY <2>2, <2>5, <3>1 DEF PendingKnown
  <2> QED
    BY <1>1, <2>3, <2>4, <2>5 DEF Quiesce
<1>2. CASE RestoreService
  <2> DEFINE u == Units[k]
  <2>1. k \in 1..Len(Units) /\ u \in UnitSet
    BY <1>0, <1>2, UnitAt DEF RestoreService, Typed, Indexed
  <2>2. /\ at = "restore" /\ at' = "restore" /\ stopped' = stopped /\ rollback' = rollback
        /\ unit' = unit \/ (unit[u].run = "inactive" /\ Become(u, unit[u].file, "active"))
    BY <1>2 DEF RestoreService, Reactivated, Unrestored
  <2>3. \A v \in UnitSet : Pending(v)' => Pending(v)
    BY <1>0, <2>1, <2>2 DEF Become, UnitTypes, Pending
  <2>4. missed' = missed \/ Pending(u)
    BY <1>2 DEF RestoreService, Pending
  <2> QED
    BY <2>1, <2>2, <2>3, <2>4 DEF PendingKnown
<1>3. CASE CompleteService
  <2>0. k \in 1..Len(Units)
    BY <1>0, <1>3 DEF CompleteService, Typed, Indexed
  <2>1. PICK u \in UnitSet : u = Units[k]
    BY <2>0, UnitAt
  <2>2. at = "complete" /\ missed' = missed /\ result = "none"
    BY <1>3 DEF CompleteService, VersionsPlaced
  <2>3. missed = {} /\ \A v \in UnitSet : ~Pending(v)
    BY <2>2 DEF PendingKnown
  <2>4. ~Pending(u)'
    <3>1. Target(u).run \notin {"stopping", "deactivating"}
      BY <2>1, <2>3 DEF Target, Pending
    <3>2. unit'[u].run \in {unit[u].run, Target(u).run}
      BY <1>0, <1>3, <2>1 DEF CompleteService, Become, UnitTypes
    <3> QED
      BY <2>1, <2>3, <3>1, <3>2 DEF Pending
  <2>5. \A v \in UnitSet : v # u => unit'[v] = unit[v]
    BY <1>0, <1>3, <2>1 DEF CompleteService, Become, UnitTypes
  <2>6. \A v \in UnitSet : ~Pending(v)'
    BY <2>3, <2>4, <2>5 DEF Pending
  <2> QED
    BY <2>2, <2>3, <2>6 DEF PendingKnown
<1>4. CASE Manager
  <2>1. PICK u \in UnitSet : ManagerStops(u)
    BY <1>4 DEF Manager
  <2>2. Pending(u)
    BY <2>1 DEF ManagerStops, Pending
  <2>3. \A v \in UnitSet : Pending(v)' => Pending(v)
    BY <1>0, <2>1, <2>2 DEF ManagerStops, Become, UnitTypes, Pending
  <2> QED
    BY <2>1, <2>2, <2>3 DEF ManagerStops, PendingKnown
<1>5. CASE ~Manager /\ unit' = unit /\ stopped' = stopped /\ missed' = missed
  <2>1. \A u \in UnitSet : Pending(u)' <=> Pending(u)
    BY <1>5, PendingSame
  <2>2. CASE at \notin {"restore", "end"}
    <3>1. missed = {} /\ \A u \in UnitSet : ~Pending(u)
      BY <2>2 DEF PendingKnown, VersionsPlaced
    <3> QED
      BY <1>5, <2>1, <3>1 DEF PendingKnown
  <2>3. CASE at = "end"
    BY <1>5, <2>3 DEF Next, Forward, Backward, Refuse, Quiesce, BackUp, Publish,
       ActivateBinding, SyncPolicy, RunLifecycle, UpdateSettings, ReconcileFeatures,
       Finalize, RollBack, SyncEarlyBinding, SyncActivatedBinding, SyncFeatures, Authority,
       RestoreAuthority, RestoreService, Restored, CompleteService, Completed
  <2>4. CASE at = "restore"
    <3>0. Restored \/ RestoreService
      BY <1>5, <2>4 DEF Next, Forward, Backward, Refuse, Quiesce, BackUp, Publish,
       ActivateBinding, SyncPolicy, RunLifecycle, UpdateSettings, ReconcileFeatures,
       Finalize, RollBack, SyncEarlyBinding, SyncActivatedBinding, SyncFeatures, Authority,
       RestoreAuthority, CompleteService, Completed
    <3>1. RestoreService => at' = "restore" /\ rollback' = rollback
      BY DEF RestoreService
    <3>2. Restored => rollback' = rollback /\ (rollback = "none" => result' = "aborted")
      BY DEF Restored
    <3> QED
      BY <1>5, <2>1, <2>4, <3>0, <3>1, <3>2 DEF PendingKnown
  <2> QED
    BY <2>2, <2>3, <2>4
<1>6. \/ Quiesce \/ RestoreService \/ CompleteService \/ Manager
      \/ ~Manager /\ unit' = unit /\ stopped' = stopped /\ missed' = missed
  BY DEF Next, Forward, Backward, Refuse, BackUp, Publish, ActivateBinding, SyncPolicy,
     RunLifecycle, UpdateSettings, ReconcileFeatures, Finalize, RollBack,
     SyncEarlyBinding, SyncActivatedBinding, SyncFeatures, Authority, Restored, Completed
<1> QED
  BY <1>1, <1>2, <1>3, <1>4, <1>5, <1>6

\* Every service is as the baseline found it.
LEMMA ServicesInit == Init => ServicesKnown
<1> SUFFICES ASSUME Init PROVE ServicesKnown
  OBVIOUS
<1>1. \A u \in UnitSet : Restarted(u)
  BY DEF Init, Restarted
<1> QED
  BY <1>1 DEF Init, ServicesKnown

\* Services are stopped, restarted or reconciled up to the index, and not beyond.
LEMMA ServicesStep ==
    Typed /\ VersionsPlaced /\ PendingKnown /\ ServicesKnown /\ Next => ServicesKnown'
<1> SUFFICES ASSUME Typed, VersionsPlaced, PendingKnown, ServicesKnown, Next PROVE ServicesKnown'
  OBVIOUS
<1>0. /\ rollback \in Rollbacks /\ result \in Results /\ critical \in BOOLEAN
      /\ k \in Nat /\ Len(Units) \in Nat
      /\ unit \in UnitTypes
      /\ stopped \subseteq {u \in UnitSet : was[u] = "active"}
  BY UnitsLength DEF Typed, TypeOK, UnitTypes
<1>1. CASE Refuse
  BY <1>0, <1>1 DEF Refuse, ServicesKnown, VersionsPlaced, Restarted
<1>2. CASE Quiesce
  <2> DEFINE u == Units[k]
  <2>1. k \in 1..Len(Units) /\ u \in UnitSet
    BY <1>0, <1>2, UnitAt DEF Quiesce, Typed, Indexed
  <2>2. at = "quiesce" /\ result' = result /\ result = "none" /\ was' = was
    BY <1>2 DEF Quiesce, VersionsPlaced
  <2>3. u \in stopped' \/ was[u] # "active"
    BY <1>2 DEF Quiesce
  <2>4. /\ stopped' \subseteq stopped \cup {u} /\ stopped \subseteq stopped'
        /\ \A v \in UnitSet \ stopped' : unit'[v] = unit[v]
    BY <1>0, <1>2, <2>1 DEF Quiesce, Become, UnitTypes
  <2>5. \/ at' = "quiesce" /\ k' = k + 1
        \/ at' = "restore" /\ k' = Len(Units)
    BY <1>2 DEF Quiesce
  <2>6. \A v \in UnitSet \ stopped' : Restarted(v)'
    BY <2>2, <2>4 DEF ServicesKnown, Restarted
  <2>7. at' = "quiesce" => stopped' \subseteq {Units[n] : n \in 1..(k' - 1)}
    <3>1. \A n \in 1..(k - 1) : n \in 1..((k + 1) - 1)
      BY <1>0
    <3>2. k \in 1..((k + 1) - 1)
      BY <2>1
    <3>3. stopped \subseteq {Units[n] : n \in 1..(k - 1)}
      BY <2>2 DEF ServicesKnown
    <3> QED
      BY <2>4, <2>5, <3>1, <3>2, <3>3
  <2>8. at' = "restore" => \A n \in 1..Len(Units) : ~(n > k')
    BY <1>0, <2>5
  <2> QED
    BY <2>2, <2>5, <2>6, <2>7, <2>8 DEF ServicesKnown
<1>3. CASE BackUp
  BY <1>0, <1>3 DEF BackUp, ServicesKnown, VersionsPlaced, Restarted
<1>4. CASE Publish \/ ActivateBinding \/ SyncPolicy \/ RunLifecycle \/ UpdateSettings
           \/ ReconcileFeatures \/ RollBack
  BY <1>0, <1>4 DEF Publish, ActivateBinding, SyncPolicy, RunLifecycle, UpdateSettings,
     ReconcileFeatures, RollBack, RollBackPaths, Report, ServicesKnown, VersionsPlaced, Restarted
<1>5. CASE Finalize
  <2>1. /\ at = "finalize" /\ at' = "complete" /\ k' = 1 /\ result' = result /\ result = "none"
        /\ unit' = unit /\ was' = was /\ stopped' = stopped
    BY <1>5 DEF Finalize, VersionsPlaced
  <2>2. \A n \in 1..Len(Units) : ~(n < k') /\ Units[n] \in UnitSet
    BY <1>0, <2>1, UnitAt
  <2> QED
    BY <2>1, <2>2 DEF ServicesKnown, Restarted
<1>6. CASE SyncEarlyBinding \/ SyncActivatedBinding \/ SyncFeatures
  BY <1>0, <1>6 DEF SyncEarlyBinding, SyncActivatedBinding, SyncFeatures, ServicesKnown, VersionsPlaced, Restarted
<1>7. CASE Authority
  <2>1. /\ at = "authority" /\ result = "none"
        /\ unit' = unit /\ was' = was /\ stopped' = stopped
    BY <1>7 DEF Authority, RestoreAuthority, VersionsPlaced
  <2>2. \A u \in UnitSet \ stopped : Restarted(u)'
    BY <2>1 DEF ServicesKnown, Restarted
  <2>3. CASE at' = "restore" /\ k' = Len(Units) /\ result' = result
    <3>1. \A n \in 1..Len(Units) : ~(n > k')
      BY <1>0, <2>3
    <3> QED
      BY <2>1, <2>2, <2>3, <3>1 DEF ServicesKnown
  <2>4. CASE at' = "end" /\ result' = rollback /\ critical' = TRUE
    BY <1>0, <2>4 DEF ServicesKnown
  <2>5. CASE /\ at' = "end" /\ result' = rollback /\ rollback # "previous_restored"
             /\ critical' = (critical \/ stopped # {})
    <3>1. ~critical' => stopped = {}
      BY <2>5, Zenon
    <3> QED
      BY <1>0, <2>1, <2>5, <3>1 DEF ServicesKnown
  <2> QED
    BY <1>7, <2>3, <2>4, <2>5 DEF Authority, RestoreAuthority
<1>8. CASE RestoreService
  <2>0. k \in 1..Len(Units)
    BY <1>0, <1>8 DEF RestoreService, Typed, Indexed
  <2>1. PICK u \in UnitSet : u = Units[k]
    BY <2>0, UnitAt
  <2>2. /\ at = "restore" /\ at' = "restore" /\ k' = k - 1 /\ result' = result /\ result = "none"
        /\ was' = was /\ stopped' = stopped
    BY <1>8 DEF RestoreService, VersionsPlaced
  <2>3. CASE u \notin stopped
    <3>1. unit' = unit /\ critical' = critical /\ missed' = missed
      BY <1>8, <2>1, <2>3 DEF RestoreService
    <3>2. \A n \in 1..Len(Units) : n > k' => n > k \/ n = k
      BY <1>0, <2>2
    <3>3. \A v \in UnitSet : Restarted(v) <=> Restarted(v)'
      BY <2>2, <3>1 DEF Restarted
    <3>4. Restarted(u)
      BY <2>1, <2>2, <2>3 DEF ServicesKnown
    <3> QED
      BY <2>1, <2>2, <3>1, <3>2, <3>3, <3>4, UnitAt DEF ServicesKnown
  <2>4. CASE /\ u \in stopped /\ Reactivated(u) /\ critical' = critical
             /\ missed' = missed \cup {v \in {u} : unit[v].run = "stopping"}
    <3>1. was[u] = "active" /\ (unit'[u].run = "active" \/ u \in missed')
      BY <1>0, <2>1, <2>4 DEF Reactivated, Become, UnitTypes
    <3>2. \A v \in UnitSet : v # u => unit'[v] = unit[v]
      BY <1>0, <2>1, <2>4 DEF Reactivated, Become, UnitTypes
    <3>3. \A v \in UnitSet : v # u => (Restarted(v) <=> Restarted(v)')
      BY <2>2, <3>2 DEF Restarted
    <3>4. Restarted(u)' \/ u \in missed'
      BY <2>2, <3>1 DEF Restarted
    <3>5. \A n \in 1..Len(Units) : n > k' => n > k \/ n = k
      BY <1>0, <2>2
    <3>6. missed \subseteq missed'
      BY <2>4
    <3>7. \A n \in 1..Len(Units) :
              ~critical' /\ n > k' => Restarted(Units[n])' \/ Units[n] \in missed'
      BY <2>1, <2>2, <2>4, <3>3, <3>4, <3>5, <3>6, UnitAt DEF ServicesKnown
    <3>8. \A v \in UnitSet \ stopped' : Restarted(v)'
      BY <2>2, <2>4, <3>3 DEF ServicesKnown
    <3> QED
      BY <2>2, <3>7, <3>8 DEF ServicesKnown
  <2>5. CASE u \in stopped /\ critical' = TRUE /\ Unrestored(u)
    <3>1. \A v \in UnitSet : v # u => unit'[v] = unit[v]
      BY <1>0, <2>1, <2>5 DEF Unrestored, Become, UnitTypes
    <3>2. \A v \in UnitSet \ stopped' : Restarted(v)'
      BY <2>2, <2>5, <3>1 DEF ServicesKnown, Restarted
    <3> QED
      BY <2>2, <2>5, <3>2 DEF ServicesKnown
  <2> QED
    BY <1>8, <2>1, <2>3, <2>4, <2>5 DEF RestoreService
<1>9. CASE Restored
  BY <1>0, <1>9, UnitIndex DEF Restored, ServicesKnown, VersionsPlaced, Restarted
<1>10. CASE CompleteService
  <2>0. k \in 1..Len(Units)
    BY <1>0, <1>10 DEF CompleteService, Typed, Indexed
  <2>1. PICK u \in UnitSet : u = Units[k]
    BY <2>0, UnitAt
  <2>2. at = "complete" /\ result = "none" /\ was' = was /\ stopped' = stopped
    BY <1>10 DEF CompleteService, VersionsPlaced
  <2>3. CASE unit' = [unit EXCEPT ![u] = Target(u)] /\ k' = k + 1 /\ at' = at /\ result' = result
    <3>1. \A v \in UnitSet : v # u => unit'[v] = unit[v]
      BY <1>0, <2>1, <2>3 DEF UnitTypes
    <3>2. \A n \in 1..Len(Units) : n # k => Units[n] # u /\ Units[n] \in UnitSet
      BY <2>0, <2>1, UnitsDistinct, UnitAt
    <3>3. Reconciled(u)'
      <4>1. unit'[u] = Target(u)
        BY <1>0, <2>1, <2>3 DEF UnitTypes
      <4>2. was[u] # "active" => unit[u].run # "active"
        <5>1. ~(k < k) /\ (was[u] # "active" => u \notin stopped)
          BY <1>0, <2>0, <2>1
        <5> QED
          BY <2>0, <2>1, <2>2, <5>1 DEF ServicesKnown, Restarted
      <4>3. CASE Transition[u] = "retire"
        BY <4>1, <4>3 DEF Reconciled, Target
      <4>4. CASE Transition[u] = "keep"
        BY <2>2, <4>1, <4>2, <4>4 DEF Reconciled, Restarted, Target
      <4>5. CASE Transition[u] \notin {"retire", "keep"}
        BY <2>2, <4>1, <4>2, <4>5 DEF Reconciled, Target
      <4> QED
        BY <4>3, <4>4, <4>5
    <3>4. \A n \in 1..Len(Units) : n < k' => n < k \/ n = k
      BY <1>0, <2>3
    <3>5. \A n \in 1..Len(Units) : ~(n < k') => n # k /\ ~(n < k)
      BY <1>0, <2>0, <2>3
    <3>6. \A v \in UnitSet : v # u => (Reconciled(v) <=> Reconciled(v)') /\ (Restarted(v) <=> Restarted(v)')
      BY <2>2, <3>1 DEF Reconciled, Restarted
    <3>7. \A n \in 1..Len(Units) : n < k' => Reconciled(Units[n])'
      BY <2>1, <2>2, <3>2, <3>3, <3>4, <3>6 DEF ServicesKnown
    <3>8. \A n \in 1..Len(Units) : ~(n < k') => (Units[n] \notin stopped' => Restarted(Units[n])')
      BY <2>2, <3>2, <3>5, <3>6 DEF ServicesKnown
    <3> QED
      BY <2>2, <2>3, <3>7, <3>8 DEF ServicesKnown
  <2>4. CASE at' = "end" /\ result' = "updated_services_incomplete"
    BY <2>4 DEF ServicesKnown
  <2> QED
    BY <1>10, <2>1, <2>3, <2>4 DEF CompleteService
<1>11. CASE Completed
  <2>1. /\ at = "complete" /\ at' = "end" /\ result' = "updated" /\ k > Len(Units)
        /\ unit' = unit /\ was' = was
    BY <1>11 DEF Completed
  <2>2. \A n \in 1..Len(Units) : Reconciled(Units[n])
    BY <1>0, <2>1 DEF ServicesKnown
  <2>3. \A u \in UnitSet : Reconciled(u)'
    BY <2>1, <2>2, UnitIndex DEF Reconciled, Restarted
  <2> QED
    BY <2>1, <2>3 DEF ServicesKnown
<1>12. CASE Manager
  <2>1. PICK u \in UnitSet : ManagerStops(u)
    BY <1>12 DEF Manager
  <2>2. /\ Pending(u) /\ u \in stopped /\ was[u] = "active" /\ rollback = "none"
        /\ at = "restore" \/ result = "aborted"
    BY <1>0, <2>1 DEF ManagerStops, Pending, PendingKnown
  <2>3. /\ at' = at /\ k' = k /\ result' = result /\ critical' = critical /\ was' = was
        /\ stopped' = stopped /\ missed' = missed /\ rollback' = rollback
        /\ \A v \in UnitSet : v # u => unit'[v] = unit[v]
    BY <1>0, <2>1 DEF ManagerStops, Become, UnitTypes
  <2>4. at \in {"restore", "end"} /\ result \in {"none", "aborted"}
    BY <2>2 DEF VersionsPlaced
  <2>5. ~Restarted(u)
    BY <2>2 DEF Pending, Restarted
  <2>6. \A v \in UnitSet : v # u => (Restarted(v) <=> Restarted(v)')
    BY <2>3 DEF Restarted
  <2>7. \A v \in UnitSet \ stopped' : at # "end" => Restarted(v)'
    BY <2>2, <2>3, <2>4, <2>6 DEF ServicesKnown
  <2>8. at = "restore" /\ ~critical => \A n \in 1..Len(Units) :
            n > k => Restarted(Units[n])' \/ Units[n] \in missed
    BY <2>5, <2>6, UnitAt DEF ServicesKnown
  <2>9. result = "aborted" /\ ~critical => \A v \in UnitSet \ missed : Restarted(v)'
    BY <2>5, <2>6 DEF ServicesKnown
  <2> QED
    BY <2>3, <2>4, <2>7, <2>8, <2>9 DEF ServicesKnown
<1> QED
  BY <1>1, <1>2, <1>3, <1>4, <1>5, <1>6, <1>7, <1>8, <1>9, <1>10, <1>11, <1>12 DEF Next, Forward, Backward
----------------------------------------------------------------------------
IInv == Typed /\ VersionsPlaced /\ BindingsPlaced /\ StateFollows
            /\ PendingKnown /\ ServicesKnown

\* The inductive invariant holds throughout.
THEOREM Invariant == Spec => []IInv
<1>1. Init => IInv
  BY InitTyped, VersionsInit, BindingsInit, StateInit, PendingInit, ServicesInit DEF IInv
<1>2. IInv /\ [Next]_vars => IInv'
  <2> SUFFICES ASSUME IInv, [Next]_vars PROVE IInv'
    OBVIOUS
  <2>1. CASE Next
    BY <2>1, TypeStep, IndexStep, VersionsStep, BindingsStep, StateStep, PendingStep, ServicesStep
       DEF IInv, Typed
  <2>2. CASE UNCHANGED vars
    BY <2>2 DEF vars, IInv, Typed, TypeOK, Indexed, VersionsPlaced, KnownGoodSurvives,
       Committed, BindingsPlaced, Original, StateFollows, PendingKnown, Pending,
       ServicesKnown, Restarted, Reconciled
  <2> QED
    BY <2>1, <2>2
<1> QED
  BY <1>1, <1>2, PTL DEF Spec

\* Type correctness of the update transaction.
THEOREM TypeInvariant == Spec => []TypeOK
<1>1. IInv => TypeOK
  BY DEF IInv, Typed
<1> QED
  BY <1>1, Invariant, PTL

\* Until the commit the known-good version is installed or in its backup
\* (update_with_observer, rollback_live_update_paths).
THEOREM KnownGoodIsSafe == Spec => []KnownGoodSurvives
<1>1. IInv => KnownGoodSurvives
  BY DEF IInv, VersionsPlaced
<1> QED
  BY <1>1, Invariant, PTL

\* What update_with_observer tells its caller is what is there.
THEOREM ReportsAreTrue == Spec => []OutcomeIsTrue
<1>1. IInv => OutcomeIsTrue
  <2> SUFFICES ASSUME IInv PROVE OutcomeIsTrue
    OBVIOUS
  <2> USE DEF IInv, VersionsPlaced, BindingsPlaced, StateFollows, ServicesKnown
  <2>1. result \in {"aborted", "previous_restored"} =>
          /\ version.old = "active" /\ version.new # "active"
          /\ ~critical => /\ binding.old = Original /\ binding.new # "active"
                          /\ features = "old" /\ policy = "old"
                          /\ \A u \in UnitSet \ missed : unit[u].run = "active" <=> was[u] = "active"
    BY DEF Restarted
  <2>6. result = "previous_restored" => missed = {}
    BY DEF PendingKnown
  <2>2. result = "new_preserved" =>
          /\ version.old # "active" /\ version.new = "active"
          /\ ~critical => binding.old # "active" /\ features = "new" /\ stopped = {}
    OBVIOUS
  <2>3. result = "no_active" =>
          /\ "active" \notin {version.old, version.new}
          /\ ~critical => "active" \notin {binding.old, binding.new} /\ features = "none"
    OBVIOUS
  <2>4. result = "updated" =>
          /\ version.new = "active" /\ binding.new = "active" /\ binding.old # "active"
          /\ features = "new" /\ settings = "new" /\ (governed => policy = "new")
    OBVIOUS
  <2>5. ASSUME result = "updated", NEW u \in UnitSet
        PROVE  CASE Transition[u] = "retire" -> unit[u].file = "none"
                 [] Transition[u] = "keep" -> unit[u].run = "active" <=> was[u] = "active"
                 [] OTHER -> /\ unit[u].file = "new"
                             /\ unit[u].run = "active" <=> was[u] # "inactive"
    BY <2>5 DEF Reconciled, Restarted
  <2> QED
    BY <2>1, <2>2, <2>3, <2>4, <2>5, <2>6 DEF OutcomeIsTrue
<1> QED
  BY <1>1, Invariant, PTL

\* Until the commit a service is started only over the previous version and,
\* where the platform governs it, under the policy of that version
\* (restore_services_after_module_update_failure).
THEOREM ServicesStartOverTheirVersion == Spec => ServicesFollowModule
<1>1. ASSUME IInv, Next, ~Committed, NEW u \in UnitSet,
             unit[u].run # "active", unit'[u].run = "active"
      PROVE  version.old = "active" /\ policy = "old"
  <2>0. ~Manager
    <3> SUFFICES ASSUME NEW v \in UnitSet, ManagerStops(v) PROVE FALSE
      BY DEF Manager
    <3>1. unit \in UnitTypes
      BY <1>1 DEF IInv, Typed, TypeOK, UnitTypes
    <3> QED
      BY <1>1, <3>1 DEF ManagerStops, Become, UnitTypes
  <2>1. at \in {"quiesce", "restore"}
    <3>1. unit' # unit
      BY <1>1
    <3>2. Quiesce \/ RestoreService \/ CompleteService \/ Manager
      BY <1>1, <3>1 DEF Next, Forward, Backward, Refuse, BackUp, Publish, ActivateBinding,
         SyncPolicy, RunLifecycle, UpdateSettings, ReconcileFeatures, Finalize, RollBack,
         SyncEarlyBinding, SyncActivatedBinding, SyncFeatures, Authority, Restored, Completed
    <3> QED
      BY <1>1, <3>2, <2>0 DEF Quiesce, RestoreService, CompleteService, Committed
  <2> QED
    BY <1>1, <2>1 DEF IInv, VersionsPlaced, StateFollows
<1>2. IInv /\ [Next]_vars =>
        [~Committed => \A u \in UnitSet :
            unit[u].run # "active" /\ unit'[u].run = "active" =>
                version.old = "active" /\ policy = "old"]_vars
  BY <1>1
<1> QED
  BY <1>2, Invariant, PTL DEF Spec, ServicesFollowModule
=============================================================================
