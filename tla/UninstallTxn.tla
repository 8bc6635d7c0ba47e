---------------------------- MODULE UninstallTxn ----------------------------
(***************************************************************************)
(* The uninstall transaction of a module: modules.rs (uninstall_internal,  *)
(* uninstall_after_extras), module_uninstall.rs (services, StagedCleanup)  *)
(* and module_material_binding.rs (StagedMaterialBindingRemoval).          *)
(*                                                                         *)
(* Services are quiesced, then the module's directory, its data, settings  *)
(* and material binding are moved aside one by one and Boss's configuration*)
(* is cleaned. Until the commit every failure is undone in an order of its *)
(* own; after it nothing may come back. Every operation of the file system,*)
(* of the manager and of the configuration may fail, undoing included.     *)
(***************************************************************************)
EXTENDS Naturals, Sequences, SequencesExt, FiniteSets

CONSTANTS
    Units,        \* the extras of the desktop user, in their order: services
    Autostarts,   \* and, among them, the XDG autostart entries
    Required,     \* those whose absence is an error
    Directories,  \* the declared data directories, in their order
    UserChoice,   \* directories that go only when the user removes settings
    ConfigWrites  \* how many settings remove_module_state writes, one by one

UnitSet == {Units[k] : k \in DOMAIN Units}
DirectorySet == {Directories[k] : k \in DOMAIN Directories}

ASSUME OrderAssumption == /\ Units \in Seq(UnitSet) /\ IsInjective(Units)
                          /\ Directories \in Seq(DirectorySet) /\ IsInjective(Directories)
ASSUME NamesAssumption == DirectorySet \cap {"module", "settings", "binding"} = {}
ASSUME ExtrasAssumption == Autostarts \subseteq UnitSet /\ Required \subseteq UnitSet
ASSUME ChoiceAssumption == UserChoice \subseteq DirectorySet
ASSUME WritesAssumption == ConfigWrites \in Nat \ {0}

VARIABLES
    at,        \* the operation the transaction is about to perform
    k,         \* its index among services, directories or settings
    place,     \* where each thing is
    evidence,  \* UninstallRecoveryEvidence: what was there
    removing,  \* the user asked for the removal of settings
    local,     \* module_has_local_state: the user has settings worth keeping
    filed,     \* history: the services that had a unit file at the start
    unit,      \* the state of each service, as the manager knows it
    receipt,   \* UninstallServiceRecovery: services found active before a stop
    undo,      \* what the failed step still has to put back, in order
    cleaned,   \* settings of Boss's configuration already rewritten
    committed, \* commit_started
    debts,     \* whether a step of the aftermath, or a recovery, failed
    result     \* what the caller is told

reversible == <<place, undo>>
manager == <<unit, receipt>>
asked == <<evidence, removing, local, filed>>
vars == <<at, k, place, asked, manager, undo, cleaned, committed, debts, result>>

Things == {"module", "settings", "binding"} \cup DirectorySet
Places == {"absent", "active", "staged", "torn", "gone"}
\* "stopping" is a stop the manager accepted and has not begun: the unit still
\* reads active. "missing" is a unit without a file: retired, or never installed.
\* An autostart entry is a file and no more.
Found(u) == IF u \in Autostarts THEN {"inactive", "missing"}
                               ELSE {"active", "inactive", "missing"}
UnitStates == {"active", "stopping", "deactivating", "inactive", "missing"}
ReadsActive == {"active", "stopping"}
Results == {"none", "restored", "unrestored", "integrity_lost", "done", "incomplete"}
Steps == {"extras", "stop_wait", "directories", "binding", "config", "undoing",
          "recovery", "delete_module", "delete_settings", "delete_directories",
          "retire", "end"}

\* remove_local_settings and cleanup_directories
RemovesSettings == removing \/ ~local
Cleanup == {d \in DirectorySet : d \in UserChoice => removing}

\* What StagedCleanup puts back, last first; a directory it did not move is not
\* touched.
StagedData == Reverse(Directories)

\* UninstallRecoveryEvidence::capture
Captured == {t \in Things : place[t] = "active" /\ (t \in UserChoice => removing)}
Filed == {u \in UnitSet : unit[u] # "missing"}

Init ==
    /\ at = "extras" /\ k = 1
    /\ removing \in BOOLEAN /\ local \in BOOLEAN
    /\ \E absent \in SUBSET (Things \ {"module"}) :
           place = [t \in Things |-> IF t \in absent THEN "absent" ELSE "active"]
    /\ evidence = Captured
    /\ unit \in [UnitSet -> UnitStates] /\ \A u \in UnitSet : unit[u] \in Found(u)
    /\ filed = Filed
    /\ receipt = <<>>
    /\ undo = <<>>
    /\ cleaned = 0
    /\ committed = FALSE
    /\ debts = FALSE
    /\ result = "none"

Step(from, to) == at = from /\ at' = to
Put(t, where) == place' = [place EXCEPT ![t] = where]
Become(u, state) == unit' = [unit EXCEPT ![u] = state]

\* A step before the commit fails: its error path puts things back in order.
Fail(from, order) == Step(from, "undoing") /\ undo' = order
----------------------------------------------------------------------------
(* Quiescence: run_extras.                                                 *)

\* capture_prior_service_state, then the stop. The receipt is written first. A
\* service that is changing its state, or is not what was declared, fails; one
\* without a file is passed over, unless it is required.
Quiesce ==
    /\ at = "extras" /\ k <= Len(Units)
    /\ Units[k] \notin Autostarts
    /\ \/ /\ unit[Units[k]] \in {"active", "inactive"}
          /\ receipt' = IF unit[Units[k]] = "active" THEN Append(receipt, Units[k])
                                                     ELSE receipt
          /\ \/ /\ at' = "stop_wait"
                /\ Become(Units[k], IF unit[Units[k]] = "active" THEN "stopping"
                                                                 ELSE "inactive")
                /\ UNCHANGED undo
             \/ Fail("extras", <<>>) /\ UNCHANGED unit
       \/ Fail("extras", <<>>) /\ UNCHANGED manager
    /\ UNCHANGED <<k, place, asked, cleaned, committed, debts, result>>

\* inspect_owned_autostart: nothing of it is touched before the commit.
Inspect ==
    /\ at = "extras" /\ k <= Len(Units)
    /\ Units[k] \in Autostarts
    /\ \/ unit[Units[k]] = "inactive" /\ k' = k + 1 /\ UNCHANGED <<at, undo>>
       \/ Fail("extras", <<>>) /\ UNCHANGED k
    /\ UNCHANGED <<place, asked, manager, cleaned, committed, debts, result>>

PassOver ==
    /\ at = "extras" /\ k <= Len(Units)
    /\ unit[Units[k]] = "missing" /\ Units[k] \notin Required
    /\ k' = k + 1
    /\ UNCHANGED <<at, place, asked, manager, undo, cleaned, committed, debts, result>>

\* Fault: the stop removes the unit's file at once, as retirement does.
StoppedAndRemoved == "missing"

\* A stop before the commit keeps the unit's file, enabled or not.
Stopped == "inactive"

\* stop_service watches the unit until its own timeout, or loses sight of it.
AwaitStop ==
    /\ at = "stop_wait"
    /\ \/ /\ unit[Units[k]] = "inactive"
          /\ at' = "extras"
          /\ k' = k + 1
          /\ Become(Units[k], Stopped)
          /\ UNCHANGED undo
       \/ Fail("stop_wait", <<>>) /\ UNCHANGED <<k, unit>>
    /\ UNCHANGED <<place, asked, receipt, cleaned, committed, debts, result>>

\* The manager: a stop it accepted runs, in its own time.
ManagerStops(u) ==
    /\ unit[u] \in {"stopping", "deactivating"}
    /\ \/ unit[u] = "stopping" /\ Become(u, "deactivating")
       \/ unit[u] = "deactivating" /\ Become(u, "inactive")
    /\ UNCHANGED <<at, k, place, asked, receipt, undo, cleaned, committed, debts, result>>
----------------------------------------------------------------------------
(* Staging: uninstall_after_extras up to the commit.                       *)

\* The runtime is deactivated, paths are computed and the module is moved out
\* of the modules' root.
StageModule ==
    /\ \/ /\ at = "extras" /\ k > Len(Units)
          /\ at' = "directories" /\ k' = 1
          /\ Put("module", "staged")
          /\ UNCHANGED undo
       \/ /\ k > Len(Units)
          /\ Fail("extras", <<>>)
          /\ UNCHANGED <<k, place>>
    /\ UNCHANGED <<asked, manager, cleaned, committed, debts, result>>

\* A declared directory that is there and is to go.
Goes(d) == d \in Cleanup /\ place[d] = "active"

\* stage_cleanup: what it moved is put back, last first, before the module.
StageDirectory ==
    /\ at = "directories" /\ k <= Len(Directories)
    /\ \/ /\ at' = "directories" /\ k' = k + 1
          /\ IF Goes(Directories[k]) THEN Put(Directories[k], "staged")
                                     ELSE UNCHANGED place
          /\ UNCHANGED undo
       \/ /\ Goes(Directories[k])
          /\ Fail("directories", StagedData \o <<"module">>)
          /\ UNCHANGED <<k, place>>
    /\ UNCHANGED <<asked, manager, cleaned, committed, debts, result>>

StageSettings ==
    /\ at = "directories" /\ k > Len(Directories)
    /\ IF RemovesSettings /\ place["settings"] = "active"
       THEN \/ at' = "binding" /\ Put("settings", "staged") /\ UNCHANGED undo
            \/ /\ Fail("directories", <<"module">> \o StagedData)
               /\ UNCHANGED place
       ELSE at' = "binding" /\ UNCHANGED reversible
    /\ UNCHANGED <<k, asked, manager, cleaned, committed, debts, result>>

StageBinding ==
    /\ \/ /\ Step("binding", "config")
          /\ IF place["binding"] = "active" THEN Put("binding", "staged")
                                            ELSE UNCHANGED place
          /\ UNCHANGED undo
       \/ /\ Fail("binding", <<"settings", "module">> \o StagedData)
          /\ UNCHANGED place
    /\ UNCHANGED <<k, asked, manager, cleaned, committed, debts, result>>

\* Fault: the binding's guard is consumed on the error path.
ConfigUndoWithoutBinding == <<"settings", "module">> \o StagedData

\* The guards of the binding and of the data are dropped, in this order, once
\* the error path has returned.
ConfigUndo == <<"settings", "module", "binding">> \o StagedData

MoreToClean == cleaned < ConfigWrites

\* remove_module_state / remove_module_transient_state: a sequence of writes
\* that nothing takes back.
CleanConfig ==
    /\ at = "config" /\ MoreToClean
    /\ \/ cleaned' = cleaned + 1 /\ UNCHANGED <<at, undo>>
       \/ Fail("config", ConfigUndo) /\ UNCHANGED cleaned
    /\ UNCHANGED <<k, place, asked, manager, committed, debts, result>>

\* A temporary directory is deleted when its guard is dropped. What cannot be
\* deleted stays there, and nobody is told.
Dropped == {"gone", "torn"}

\* commit_started, then the binding is destroyed with its temporary directory.
Commit ==
    /\ cleaned = ConfigWrites
    /\ Step("config", "delete_module")
    /\ committed' = TRUE
    /\ IF place["binding"] = "staged" THEN \E end \in Dropped : Put("binding", end)
                                      ELSE UNCHANGED place
    /\ UNCHANGED <<k, asked, manager, undo, cleaned, debts, result>>
----------------------------------------------------------------------------
(* Rollback.                                                               *)

\* A thing that cannot be put back stays where it is, except for the binding:
\* its temporary directory is deleted with the guard. When the module itself
\* could not be put back, the binding is given up on purpose.
PutBack ==
    /\ at = "undoing" /\ undo # <<>>
    /\ LET t == Head(undo) IN
       /\ undo' = Tail(undo)
       /\ \/ place[t] # "staged" /\ UNCHANGED place
          \/ place[t] = "staged" /\ (t = "binding" => place["module"] = "active")
             /\ Put(t, "active")
          \/ /\ place[t] = "staged"
             /\ \E end \in IF t = "binding" THEN Dropped ELSE {"staged"} : Put(t, end)
    /\ UNCHANGED <<at, k, asked, manager, cleaned, committed, debts, result>>

\* Fault: only the installation directory is looked at.
ModuleIsBack == place["module"] = "active"

\* evidence.verify(): everything that was there is there.
Intact == \A t \in evidence : place[t] = "active"

\* Nothing is started on an installation that is not the original one.
Verify ==
    /\ undo = <<>>
    /\ \/ Intact /\ Step("undoing", "recovery") /\ UNCHANGED result
       \/ Step("undoing", "end") /\ result' = "integrity_lost"
    /\ k' = Len(receipt)
    /\ UNCHANGED <<place, asked, manager, undo, cleaned, committed, debts>>

\* reactivate, last service first: one that reads active needs no start, one
\* that is neither active nor at rest is an error.
Reactivate ==
    /\ at = "recovery" /\ k > 0
    /\ LET u == receipt[k] IN
       \/ unit[u] \in ReadsActive /\ UNCHANGED <<unit, debts>>
       \/ unit[u] = "inactive" /\ Become(u, "active") /\ debts' \in {debts, TRUE}
       \/ debts' = TRUE /\ UNCHANGED unit
    /\ k' = k - 1
    /\ UNCHANGED <<at, place, asked, receipt, undo, cleaned, committed, result>>

Recovered ==
    /\ k = 0
    /\ Step("recovery", "end")
    /\ result' = IF debts THEN "unrestored" ELSE "restored"
    /\ UNCHANGED <<k, place, asked, manager, undo, cleaned, committed, debts>>
----------------------------------------------------------------------------
(* The aftermath: every step is tried, none is undone.                     *)

Owed(failed) == debts' = (debts \/ failed)

DeleteModule ==
    /\ Step("delete_module", "delete_settings")
    /\ \E failed \in BOOLEAN : Put("module", IF failed THEN "torn" ELSE "gone") /\ Owed(failed)
    /\ UNCHANGED <<k, asked, manager, undo, cleaned, committed, result>>

\* Settings are kept for the user when the module could not be deleted whole.
SettingsEnds == IF place["module"] = "torn" THEN {"active", "staged"}
                                            ELSE {"gone", "active", "staged"}

DeleteSettings ==
    /\ Step("delete_settings", "delete_directories")
    /\ IF place["settings"] = "staged"
       THEN \E end \in SettingsEnds : /\ Put("settings", end)
                                      /\ Owed(end # "gone")
       ELSE UNCHANGED <<place, debts>>
    /\ k' = 1
    /\ UNCHANGED <<asked, manager, undo, cleaned, committed, result>>

\* Fault: a guard that could not delete everything puts it back when dropped.
GuardEnds == {"gone", "active"}

\* StagedCleanup::finalize disarms the guard before it deletes anything.
DirectoryEnds == {"gone", "torn"}

DeleteDirectory ==
    /\ at = "delete_directories" /\ k <= Len(Directories)
    /\ k' = k + 1
    /\ IF place[Directories[k]] = "staged"
       THEN \E end \in DirectoryEnds : Put(Directories[k], end) /\ Owed(end # "gone")
       ELSE UNCHANGED <<place, debts>>
    /\ UNCHANGED <<at, asked, manager, undo, cleaned, committed, result>>

\* The platform policy is revoked, or not.
RevokePolicy ==
    /\ k > Len(Directories)
    /\ Step("delete_directories", "retire")
    /\ \E failed \in BOOLEAN : Owed(failed)
    /\ k' = 1
    /\ UNCHANGED <<place, asked, manager, undo, cleaned, committed, result>>

\* Fault: the first unit that cannot be retired ends the retirement unreported.
RetireUntilFailure ==
    /\ at = "retire" /\ k <= Len(Units)
    /\ \/ Become(Units[k], "missing") /\ k' = k + 1
       \/ UNCHANGED unit /\ k' = Len(Units) + 1
    /\ UNCHANGED <<at, place, asked, receipt, undo, cleaned, committed, debts, result>>

\* finalize_service_units: services are disabled, stopped and removed, autostart
\* entries removed; each on its own.
Retire ==
    /\ at = "retire" /\ k <= Len(Units)
    /\ k' = k + 1
    /\ \/ /\ unit[Units[k]] = "missing" => Units[k] \notin Required
          /\ Become(Units[k], "missing")
          /\ UNCHANGED debts
       \/ debts' = TRUE /\ UNCHANGED unit
    /\ UNCHANGED <<at, place, asked, receipt, undo, cleaned, committed, result>>

Finish ==
    /\ k > Len(Units)
    /\ Step("retire", "end")
    /\ result' = IF debts THEN "incomplete" ELSE "done"
    /\ UNCHANGED <<k, place, asked, manager, undo, cleaned, committed, debts>>
----------------------------------------------------------------------------
Quiescence == Quiesce \/ Inspect \/ PassOver \/ AwaitStop
Staging == StageModule \/ StageDirectory \/ StageSettings \/ StageBinding
               \/ CleanConfig \/ Commit
Rollback == PutBack \/ Verify \/ Reactivate \/ Recovered
Aftermath == DeleteModule \/ DeleteSettings \/ DeleteDirectory \/ RevokePolicy
                 \/ Retire \/ Finish
Manager == \E u \in UnitSet : ManagerStops(u)

Next == Quiescence \/ Staging \/ Rollback \/ Aftermath \/ Manager

Spec == Init /\ [][Next]_vars
----------------------------------------------------------------------------
(* Properties.                                                             *)

DataOK ==
    /\ k \in 0..(Len(Units) + Len(Directories) + 1)
    /\ place \in [Things -> Places]
    /\ evidence \subseteq Things
    /\ removing \in BOOLEAN /\ local \in BOOLEAN
    /\ filed \subseteq UnitSet
    /\ unit \in [UnitSet -> UnitStates]
    /\ receipt \in Seq(UnitSet)
    /\ undo \in Seq(Things)
    /\ cleaned \in 0..ConfigWrites
    /\ committed \in BOOLEAN /\ debts \in BOOLEAN
    /\ result \in Results

TypeOK == at \in Steps /\ DataOK

\* What the caller is told is so (uninstall_internal, uninstall_after_extras).
\* An abort that reports restored services put back everything it had moved;
\* settings of Boss already rewritten are the documented exception. A success
\* left nothing of what it had to remove and no unit; of the binding, which went
\* with a temporary directory, pieces may be left there, where nothing reads them.
ReportIsTrue ==
    /\ result = "restored" =>
        /\ ~committed
        /\ \A t \in Things : place[t] \in {"active", "absent"}
        /\ \A u \in filed : unit[u] # "missing"
    /\ result = "done" =>
        /\ \A t \in {"module"} \cup Cleanup : place[t] \in {"gone", "absent"}
        /\ place["binding"] \in Dropped \cup {"absent"}
        /\ RemovesSettings => place["settings"] \in {"gone", "absent"}
        /\ \A u \in UnitSet : unit[u] = "missing"

\* Services are started only on an installation that is wholly back: whatever
\* failed, and whatever failed while it was undone (modules.rs, uninstall_internal).
StartsOnlyIntact ==
    [][\A u \in UnitSet : unit[u] = "inactive" /\ unit'[u] = "active" =>
           ~committed /\ \A t \in evidence : place[t] = "active"]_vars

\* Nothing is destroyed before the commit but a binding whose restoration
\* failed, and that is never reported as a restoration. User settings are
\* destroyed only after the whole module was, and only when the user asked for
\* it or they hold nothing of the user's.
NothingLostEarly ==
    /\ ~committed =>
        /\ \A t \in evidence \ {"binding"} : place[t] \in {"active", "staged"}
        /\ place["binding"] \in Dropped => result \in {"none", "integrity_lost"}
        /\ \A u \in filed : unit[u] # "missing"
    /\ place["settings"] = "gone" => place["module"] = "gone" /\ (removing \/ ~local)

\* The commit is final: no directory, module or binding comes back, no service
\* is started, and the caller is never told of a restoration.
CommitIsFinal ==
    [][committed => /\ committed'
                    /\ \A t \in Things \ {"settings"} :
                           place'[t] = "active" => place[t] = "active"
                    /\ \A u \in UnitSet : unit'[u] = "active" => unit[u] = "active"
                    /\ result' \in {"none", "done", "incomplete"}]_vars

=============================================================================
