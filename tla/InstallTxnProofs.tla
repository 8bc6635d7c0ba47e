-------------------------- MODULE InstallTxnProofs --------------------------
(***************************************************************************)
(* Proofs about the two commands, an uninstall and an install whose        *)
(* compensation is that uninstall, for any services, autostart entries and *)
(* directories.                                                            *)
(*                                                                         *)
(* What the reports rest on is where each thing is at each step. Until the *)
(* commit what the evidence names is in place or moved aside, and nothing  *)
(* else was touched; what a step had to remove is moved aside before the   *)
(* commit, and gone behind the step of the aftermath that owes it, unless  *)
(* a debt is recorded; services are started behind the verification only.  *)
(***************************************************************************)
EXTENDS InstallTxn, TLAPS

AftermathSteps == {"delete_module", "delete_settings", "delete_directories", "retire"}

\* The command has not become, or will not be, an uninstall.
Installing == at \in InstallSteps \/ (at = "end" /\ result = "none")

Aside == {"staged", "absent"}
Rid == {"gone", "absent"}
OutOfUse == Dropped \cup {"absent"}

\* The indices stay within what they count.
Counted ==
    /\ Len(receipt) <= Len(Units)
    /\ at = "extras" => k \in 1..(Len(Units) + 1) /\ Len(receipt) < k
    /\ at = "stop_wait" => k \in 1..Len(Units) /\ Len(receipt) <= k
    /\ at \in {"directories", "delete_directories"} => k \in 1..(Len(Directories) + 1)
    /\ at \in {"lifecycle", "retire"} => k \in 1..(Len(Units) + 1)
    /\ at = "recovery" => k \in 0..Len(receipt)

\* What the step tells of the command and of its commit.
Phases ==
    /\ committed <=> at \in AftermathSteps \/ result \in {"done", "incomplete"}
    /\ result # "none" => at = "end"
    /\ at \in InstallSteps => verdict = "none" /\ receipt = <<>>
    /\ Installing => verdict # "not_asked" /\ evidence = {} /\ filed = {}
    /\ verdict # "not_asked" => removing
    /\ verdict \in {"refused", "installed"} => at = "end" /\ result = "none"
    /\ verdict = "rolled_back" => result = "done"

\* Until the commit of an uninstall what was there is in place or moved aside,
\* except for a binding that was lost, and the rest is where it was.
Accounted ==
    ~committed /\ ~Installing =>
        /\ "module" \in evidence
        /\ \A t \in evidence : \/ place[t] \in {"active", "staged"}
                               \/ t = "binding" /\ place[t] \in Dropped
        /\ \A t \in Things \ evidence : \/ place[t] = "absent"
                                        \/ place[t] = "active" /\ t \in UserChoice /\ ~removing

\* What is to go was moved aside by the steps that lie behind.
MovedAside ==
    /\ at = "directories" =>
           \A n \in 1..(k - 1) : Directories[n] \in Cleanup => place[Directories[n]] \in Aside
    /\ at \in {"binding", "config", "delete_module", "delete_settings"} =>
           /\ \A d \in Cleanup : place[d] \in Aside
           /\ RemovesSettings => place["settings"] \in Aside
    /\ at = "config" => place["binding"] # "active"

\* What was moved aside is gone behind the steps of the aftermath, or owed.
GoneOrOwed ==
    /\ at \in AftermathSteps => place["binding"] \in OutOfUse
    /\ at \in AftermathSteps \ {"delete_module"} =>
           /\ place["module"] \in {"torn", "gone"}
           /\ ~debts => place["module"] = "gone"
    /\ at \in {"delete_directories", "retire"} /\ RemovesSettings /\ ~debts =>
           place["settings"] \in Rid
    /\ at = "delete_directories" =>
           \A n \in 1..Len(Directories) : Directories[n] \in Cleanup =>
               IF n < k THEN ~debts => place[Directories[n]] \in Rid
                        ELSE place[Directories[n]] \in Aside
    /\ at = "retire" /\ ~debts =>
           /\ \A d \in Cleanup : place[d] \in Rid
           /\ \A n \in 1..(k - 1) : unit[Units[n]] = "missing"
    /\ result = "done" =>
           /\ place["binding"] \in OutOfUse
           /\ \A t \in {"module"} \cup Cleanup : place[t] \in Rid
           /\ RemovesSettings => place["settings"] \in Rid
           /\ \A u \in UnitSet : unit[u] = "missing"

\* The user's settings are touched when they are to go, and destroyed behind
\* the module.
SettingsAreSafe ==
    /\ place["settings"] = "staged" => RemovesSettings
    /\ place["settings"] = "gone" => place["module"] = "gone" /\ RemovesSettings

\* No unit loses its file before the commit.
FiledUnitsStay == ~committed => \A u \in filed : unit[u] # "missing"

\* Behind the verification, and in what is reported of it, all is in place.
Verified == at = "recovery" \/ result \in {"restored", "unrestored"} => Intact

\* The course of an installation, up to what it reports.
Installed ==
    /\ Installing => \A t \in Things \ {"module"} : place[t] \in {"active", "absent"}
    /\ at = "publish" => place["module"] = "absent"
    /\ at \in InstallSteps \ {"publish"} => place["module"] = "active"
    /\ at \in {"publish", "settings"} => place["settings"] = before["settings"]
    /\ at \in InstallSteps \ {"publish", "settings"} => place["settings"] = "active"
    /\ at \in {"publish", "settings", "language"} =>
           \A t \in Things \ {"module", "settings"} : place[t] = before[t]
    /\ at \in {"publish", "settings", "language"} => before["module"] # "active"
    /\ at \in {"features", "policy", "lifecycle"} => place["binding"] = "active"
    /\ at = "lifecycle" /\ ~failed =>
           \A n \in 1..(k - 1) : Units[n] \notin Autostarts => unit[Units[n]] = "active"
    /\ verdict = "installed" =>
           /\ \A t \in {"module", "settings", "binding"} : place[t] = "active"
           /\ \A u \in UnitSet \ Autostarts : unit[u] = "active"
    /\ verdict = "refused" =>
           /\ place["module"] = "absent"
           /\ \A t \in Things : before[t] = "active" => place[t] = "active"
           /\ place["binding"] = before["binding"]

IInv == /\ InstallTypeOK /\ Counted /\ Phases /\ Accounted /\ MovedAside /\ GoneOrOwed
        /\ SettingsAreSafe /\ FiledUnitsStay /\ Verified /\ Installed

PlaceType == place \in [Things -> Places]
UnitType == unit \in [UnitSet -> UnitStates]
EvidenceType == evidence \subseteq Things /\ filed \subseteq UnitSet
IndexType == receipt \in Seq(UnitSet) /\ k \in 0..(Len(Units) + Len(Directories) + 1)
ControlType == at \in Steps \cup InstallSteps /\ undo \in Seq(Things)

USE DEF PlaceType, UnitType, EvidenceType, IndexType, ControlType, Steps, InstallSteps,
        AftermathSteps, Step, Fail, asked, manager, reversible, installVars, uninstallVars,
        atRest, vars

\* The module, its settings and its binding are no directories; what an index
\* counts is what the sets hold.
LEMMA Names == {"module", "settings", "binding"} \cap DirectorySet = {}
  BY NamesAssumption

LEMMA Lengths == Len(Units) \in Nat /\ Len(Directories) \in Nat
  BY OrderAssumption

LEMMA UnitAt == \A n \in 1..Len(Units) : Units[n] \in UnitSet
  BY OrderAssumption

LEMMA UnitIndex == \A u \in UnitSet : \E n \in 1..Len(Units) : u = Units[n]
  BY OrderAssumption DEF UnitSet

LEMMA DirectoryAt == \A n \in 1..Len(Directories) : Directories[n] \in DirectorySet
  BY OrderAssumption

LEMMA DirectoryIndex ==
    \A d \in DirectorySet : \E n \in 1..Len(Directories) : d = Directories[n]
  BY OrderAssumption DEF DirectorySet

LEMMA Named ==
    DirectorySet \subseteq Things /\ {"module", "settings", "binding"} \subseteq Things
  BY DEF Things

\* A debt is recorded or not.
LEMMA OwedTyped == \A failing \in BOOLEAN : Owed(failing) => debts' \in BOOLEAN
  BY DEF Owed

\* The orders in which a failed step puts things back name things.
LEMMA Orders ==
    /\ <<>> \in Seq(Things)
    /\ StagedData \in Seq(Things) /\ ConfigUndo \in Seq(Things)
    /\ StagedData \o <<"module">> \in Seq(Things)
    /\ <<"module">> \o StagedData \in Seq(Things)
    /\ <<"settings", "module">> \o StagedData \in Seq(Things)
<1>1. StagedData \in Seq(Things)
  <2>1. StagedData = [i \in 1..Len(Directories) |-> Directories[(Len(Directories) - i) + 1]]
    BY DEF StagedData, Reverse
  <2>2. \A i \in 1..Len(Directories) : Directories[(Len(Directories) - i) + 1] \in Things
    BY DirectoryAt, Named, Lengths
  <2>3. StagedData \in [1..Len(Directories) -> Things]
    BY <2>1, <2>2
  <2> QED
    BY <2>3, Lengths
<1>2. <<"module">> \in Seq(Things) /\ <<"settings", "module">> \in Seq(Things)
      /\ <<"settings", "module", "binding">> \in Seq(Things)
  BY Named
<1>3. <<>> \in Seq(Things)
  OBVIOUS
<1> QED
  BY <1>1, <1>2, <1>3 DEF ConfigUndo

\* Every step of CommandNext is one of these.
LEMMA StepKinds ==
    ASSUME CommandNext
    PROVE  \/ /\ UNCHANGED installVars
              /\ \/ Quiesce \/ Inspect \/ PassOver \/ AwaitStop \/ StageModule
                 \/ StageDirectory \/ StageSettings \/ StageBinding \/ CleanConfig \/ Commit
                 \/ PutBack \/ Verify \/ Reactivate \/ Recovered \/ DeleteModule
                 \/ DeleteSettings \/ DeleteDirectory \/ RevokePolicy \/ Retire \/ Finish
                 \/ \E u \in UnitSet : ManagerStops(u)
           \/ Publish \/ InitializeSettings \/ SynchronizeLanguage
           \/ ActivateBinding \/ ReconcileFeatures \/ SyncPolicy \/ InstallService
           \/ EndLifecycle \/ Conclude
  BY DEF CommandNext, Publication, Completion, Uninstallation, Next, Quiescence, Staging,
         Rollback, Aftermath, Manager

\* A compensation takes its evidence, or ends the command.
LEMMA CompensateDoes ==
    ASSUME Compensate
    PROVE  \/ /\ at' = "extras" /\ k' = 1 /\ evidence' = Captured /\ filed' = Filed
              /\ verdict' = verdict
           \/ /\ at' = "end" /\ verdict' = "critical"
              /\ k' = k /\ evidence' = evidence /\ filed' = filed
  BY DEF Compensate

\* The types hold before a command.
LEMMA InitTyped == CommandInit => InstallTypeOK /\ Counted
<1> SUFFICES ASSUME CommandInit PROVE InstallTypeOK /\ Counted
  OBVIOUS
<1> USE DEF Places
<1>1. CASE InstallInit
  <2>1. /\ place \in [Things -> Places] /\ before = place
    BY <1>1 DEF InstallInit
  <2>2. unit \in [UnitSet -> UnitStates]
    BY <1>1 DEF InstallInit
  <2>3. /\ at = "publish" /\ k = 1 /\ removing = TRUE /\ local \in BOOLEAN
        /\ evidence = {} /\ filed = {} /\ receipt = <<>> /\ undo = <<>> /\ cleaned = 0
        /\ committed = FALSE /\ debts = FALSE /\ result = "none"
        /\ failed = FALSE /\ verdict = "none"
    BY <1>1 DEF InstallInit
  <2>5. Counted
    BY <2>3, Lengths DEF Counted
  <2>6. receipt \in Seq(UnitSet) /\ undo \in Seq(Things)
    BY <2>3, Orders
  <2>7. cleaned \in 0..ConfigWrites /\ k \in 0..(Len(Units) + Len(Directories) + 1)
    BY <2>3, Lengths, WritesAssumption
  <2> QED
    BY <2>1, <2>2, <2>3, <2>5, <2>6, <2>7 DEF InstallTypeOK, DataOK, Results, Verdicts
<1>2. CASE Init /\ before = place /\ failed = FALSE /\ verdict = "not_asked"
  <2>1. place \in [Things -> Places] /\ before = place
    BY <1>2 DEF Init
  <2>2. unit \in [UnitSet -> UnitStates]
    BY <1>2 DEF Init
  <2>3. /\ at = "extras" /\ k = 1 /\ removing \in BOOLEAN /\ local \in BOOLEAN
        /\ receipt = <<>> /\ undo = <<>> /\ cleaned = 0
        /\ committed = FALSE /\ debts = FALSE /\ result = "none"
        /\ failed = FALSE /\ verdict = "not_asked"
    BY <1>2 DEF Init
  <2>4. evidence \subseteq Things /\ filed \subseteq UnitSet
    BY <1>2 DEF Init, Captured, Filed
  <2>5. Counted
    BY <2>3, Lengths DEF Counted
  <2>6. receipt \in Seq(UnitSet) /\ undo \in Seq(Things)
    BY <2>3, Orders
  <2>7. cleaned \in 0..ConfigWrites /\ k \in 0..(Len(Units) + Len(Directories) + 1)
    BY <2>3, Lengths, WritesAssumption
  <2> QED
    BY <2>1, <2>2, <2>3, <2>4, <2>5, <2>6, <2>7 DEF InstallTypeOK, DataOK, Results, Verdicts
<1> QED
  BY <1>1, <1>2 DEF CommandInit

\* Every step keeps the types of what is where.
LEMMA PlaceTyped ==
    ASSUME PlaceType, CommandNext
    PROVE  PlaceType'
<1> USE DEF Put, Places
<1>1. ASSUME StageModule, UNCHANGED installVars PROVE PlaceType'
  BY <1>1 DEF StageModule
<1>2. ASSUME StageDirectory, UNCHANGED installVars PROVE PlaceType'
  BY <1>2 DEF StageDirectory, Cleanup
<1>3. ASSUME StageSettings, UNCHANGED installVars PROVE PlaceType'
  BY <1>3 DEF StageSettings
<1>4. ASSUME StageBinding, UNCHANGED installVars PROVE PlaceType'
  BY <1>4 DEF StageBinding
<1>5. ASSUME Commit, UNCHANGED installVars PROVE PlaceType'
  BY <1>5 DEF Commit, Dropped
<1>6. ASSUME PutBack, UNCHANGED installVars PROVE PlaceType'
  BY <1>6 DEF PutBack, Dropped
<1>7. ASSUME DeleteModule, UNCHANGED installVars PROVE PlaceType'
  BY <1>7 DEF DeleteModule, Owed
<1>8. ASSUME DeleteSettings, UNCHANGED installVars PROVE PlaceType'
  BY <1>8 DEF DeleteSettings, SettingsEnds, Owed
<1>9. ASSUME DeleteDirectory, UNCHANGED installVars PROVE PlaceType'
  BY <1>9 DEF DeleteDirectory, DirectoryEnds, Owed
<1>10. ASSUME Publish PROVE PlaceType'
  BY <1>10 DEF Publish
<1>11. ASSUME InitializeSettings PROVE PlaceType'
  BY <1>11 DEF InitializeSettings, Unpublish
<1>12. ASSUME SynchronizeLanguage PROVE PlaceType'
  BY <1>12 DEF SynchronizeLanguage, Unpublish, SettingsAfter
<1>13. ASSUME ActivateBinding PROVE PlaceType'
  BY <1>13 DEF ActivateBinding, Compensate
<1>14. CASE UNCHANGED <<place>>
  BY <1>14
<1> QED
  BY <1>1, <1>2, <1>3, <1>4, <1>5, <1>6, <1>7, <1>8, <1>9, <1>10, <1>11, <1>12, <1>13, <1>14,
     StepKinds
     DEF Quiesce, Inspect, PassOver, AwaitStop, CleanConfig, Verify, Reactivate, Recovered,
        RevokePolicy, Retire, Finish, ManagerStops, ReconcileFeatures, SyncPolicy,
        InstallService, EndLifecycle, Conclude

\* Every step keeps the types of the units.
LEMMA UnitTyped ==
    ASSUME UnitType, CommandNext
    PROVE  UnitType'
<1> USE DEF Become, UnitStates
<1>1. ASSUME Quiesce, UNCHANGED installVars PROVE UnitType'
  BY <1>1 DEF Quiesce
<1>2. ASSUME AwaitStop, UNCHANGED installVars PROVE UnitType'
  BY <1>2 DEF AwaitStop, Stopped
<1>3. ASSUME NEW u \in UnitSet, ManagerStops(u), UNCHANGED installVars PROVE UnitType'
  BY <1>3 DEF ManagerStops
<1>4. ASSUME Reactivate, UNCHANGED installVars PROVE UnitType'
  BY <1>4 DEF Reactivate
<1>5. ASSUME Retire, UNCHANGED installVars PROVE UnitType'
  BY <1>5 DEF Retire
<1>6. ASSUME InstallService PROVE UnitType'
  BY <1>6 DEF InstallService, ServiceLeft
<1>7. CASE UNCHANGED <<unit>>
  BY <1>7
<1> QED
  BY <1>1, <1>2, <1>3, <1>4, <1>5, <1>6, <1>7, StepKinds
     DEF Inspect, PassOver, StageModule, StageDirectory, StageSettings, StageBinding,
        CleanConfig, Commit, PutBack, Verify, Recovered, DeleteModule, DeleteSettings,
        DeleteDirectory, RevokePolicy, Finish, Publish, InitializeSettings,
        SynchronizeLanguage, ActivateBinding, ReconcileFeatures, SyncPolicy, EndLifecycle,
        Conclude

\* Every step keeps the indices within what they count.
LEMMA IndexTyped ==
    ASSUME IndexType, Phases, Counted, CommandNext
    PROVE  IndexType' /\ Counted'
<1> USE DEF Counted, Phases
<1>1. ASSUME Quiesce, UNCHANGED installVars PROVE IndexType' /\ Counted'
  <2>1. k \in 1..Len(Units) /\ k \in Nat /\ Len(receipt) < k /\ Units[k] \in UnitSet
    BY <1>1, UnitAt, Lengths DEF Quiesce
  <2>2. /\ receipt' = receipt \/ receipt' = Append(receipt, Units[k])
        /\ k' = k /\ at' \in {"stop_wait", "undoing"}
    BY <1>1 DEF Quiesce
  <2>3. receipt' \in Seq(UnitSet) /\ Len(receipt') <= Len(receipt) + 1
    BY <2>1, <2>2
  <2> QED
    BY <2>1, <2>2, <2>3, Lengths
<1>2. ASSUME Inspect, UNCHANGED installVars PROVE IndexType' /\ Counted'
  BY <1>2 DEF Inspect
<1>3. ASSUME PassOver, UNCHANGED installVars PROVE IndexType' /\ Counted'
  BY <1>3 DEF PassOver
<1>4. ASSUME AwaitStop, UNCHANGED installVars PROVE IndexType' /\ Counted'
  BY <1>4 DEF AwaitStop, Stopped
<1>5. ASSUME StageModule, UNCHANGED installVars PROVE IndexType' /\ Counted'
  BY <1>5 DEF StageModule
<1>6. ASSUME StageDirectory, UNCHANGED installVars PROVE IndexType' /\ Counted'
  BY <1>6 DEF StageDirectory, Cleanup
<1>7. ASSUME StageSettings, UNCHANGED installVars PROVE IndexType' /\ Counted'
  BY <1>7 DEF StageSettings
<1>8. ASSUME StageBinding, UNCHANGED installVars PROVE IndexType' /\ Counted'
  BY <1>8 DEF StageBinding
<1>9. ASSUME Commit, UNCHANGED installVars PROVE IndexType' /\ Counted'
  BY <1>9 DEF Commit
<1>10. ASSUME Verify, UNCHANGED installVars PROVE IndexType' /\ Counted'
  BY <1>10 DEF Verify
<1>11. ASSUME Reactivate, UNCHANGED installVars PROVE IndexType' /\ Counted'
  BY <1>11 DEF Reactivate
<1>12. ASSUME Recovered, UNCHANGED installVars PROVE IndexType' /\ Counted'
  BY <1>12 DEF Recovered
<1>13. ASSUME DeleteModule, UNCHANGED installVars PROVE IndexType' /\ Counted'
  BY <1>13 DEF DeleteModule, Owed
<1>14. ASSUME DeleteSettings, UNCHANGED installVars PROVE IndexType' /\ Counted'
  BY <1>14 DEF DeleteSettings, SettingsEnds, Owed
<1>15. ASSUME DeleteDirectory, UNCHANGED installVars PROVE IndexType' /\ Counted'
  BY <1>15 DEF DeleteDirectory, DirectoryEnds, Owed
<1>16. ASSUME RevokePolicy, UNCHANGED installVars PROVE IndexType' /\ Counted'
  BY <1>16 DEF RevokePolicy, Owed
<1>17. ASSUME Retire, UNCHANGED installVars PROVE IndexType' /\ Counted'
  BY <1>17 DEF Retire
<1>18. ASSUME Finish, UNCHANGED installVars PROVE IndexType' /\ Counted'
  BY <1>18 DEF Finish
<1>19. ASSUME Publish PROVE IndexType' /\ Counted'
  BY <1>19 DEF Publish
<1>20. ASSUME InitializeSettings PROVE IndexType' /\ Counted'
  BY <1>20 DEF InitializeSettings, Unpublish
<1>21. ASSUME SynchronizeLanguage PROVE IndexType' /\ Counted'
  BY <1>21 DEF SynchronizeLanguage, Unpublish, SettingsAfter
<1>22. ASSUME ActivateBinding PROVE IndexType' /\ Counted'
  BY <1>22 DEF ActivateBinding, Compensate
<1>23. ASSUME ReconcileFeatures PROVE IndexType' /\ Counted'
  BY <1>23 DEF ReconcileFeatures, Compensate
<1>24. ASSUME SyncPolicy PROVE IndexType' /\ Counted'
  BY <1>24 DEF SyncPolicy, Compensate
<1>25. ASSUME InstallService PROVE IndexType' /\ Counted'
  BY <1>25, Lengths DEF InstallService, ServiceLeft
<1>26. ASSUME EndLifecycle PROVE IndexType' /\ Counted'
  BY <1>26 DEF EndLifecycle, Compensate
<1>27. CASE UNCHANGED <<at, k, receipt>>
  BY <1>27
<1> QED
  BY <1>1, <1>2, <1>3, <1>4, <1>5, <1>6, <1>7, <1>8, <1>9, <1>10, <1>11, <1>12, <1>13, <1>14,
     <1>15, <1>16, <1>17, <1>18, <1>19, <1>20, <1>21, <1>22, <1>23, <1>24, <1>25, <1>26,
     <1>27, StepKinds
     DEF CleanConfig, PutBack, ManagerStops, Conclude

\* Every step keeps the types of the steps and of what is to be put back.
LEMMA ControlTyped ==
    ASSUME ControlType, CommandNext
    PROVE  ControlType'
<1>1. ASSUME Quiesce, UNCHANGED installVars PROVE ControlType'
  BY <1>1, Orders DEF Quiesce
<1>2. ASSUME Inspect, UNCHANGED installVars PROVE ControlType'
  BY <1>2, Orders DEF Inspect
<1>3. ASSUME PassOver, UNCHANGED installVars PROVE ControlType'
  BY <1>3 DEF PassOver
<1>4. ASSUME AwaitStop, UNCHANGED installVars PROVE ControlType'
  BY <1>4, Orders DEF AwaitStop, Stopped
<1>5. ASSUME StageModule, UNCHANGED installVars PROVE ControlType'
  BY <1>5, Orders DEF StageModule
<1>6. ASSUME StageDirectory, UNCHANGED installVars PROVE ControlType'
  BY <1>6, Orders DEF StageDirectory, Cleanup
<1>7. ASSUME StageSettings, UNCHANGED installVars PROVE ControlType'
  BY <1>7, Orders DEF StageSettings
<1>8. ASSUME StageBinding, UNCHANGED installVars PROVE ControlType'
  BY <1>8, Orders DEF StageBinding
<1>9. ASSUME CleanConfig, UNCHANGED installVars PROVE ControlType'
  BY <1>9, Orders DEF CleanConfig, MoreToClean
<1>10. ASSUME Commit, UNCHANGED installVars PROVE ControlType'
  BY <1>10 DEF Commit
<1>11. ASSUME PutBack, UNCHANGED installVars PROVE ControlType'
  BY <1>11 DEF PutBack
<1>12. ASSUME Verify, UNCHANGED installVars PROVE ControlType'
  BY <1>12 DEF Verify
<1>13. ASSUME Reactivate, UNCHANGED installVars PROVE ControlType'
  BY <1>13 DEF Reactivate
<1>14. ASSUME Recovered, UNCHANGED installVars PROVE ControlType'
  BY <1>14 DEF Recovered
<1>15. ASSUME DeleteModule, UNCHANGED installVars PROVE ControlType'
  BY <1>15 DEF DeleteModule, Owed
<1>16. ASSUME DeleteSettings, UNCHANGED installVars PROVE ControlType'
  BY <1>16 DEF DeleteSettings, SettingsEnds, Owed
<1>17. ASSUME DeleteDirectory, UNCHANGED installVars PROVE ControlType'
  BY <1>17 DEF DeleteDirectory, DirectoryEnds, Owed
<1>18. ASSUME RevokePolicy, UNCHANGED installVars PROVE ControlType'
  BY <1>18 DEF RevokePolicy, Owed
<1>19. ASSUME Retire, UNCHANGED installVars PROVE ControlType'
  BY <1>19 DEF Retire
<1>20. ASSUME Finish, UNCHANGED installVars PROVE ControlType'
  BY <1>20 DEF Finish
<1>21. ASSUME NEW u \in UnitSet, ManagerStops(u), UNCHANGED installVars PROVE ControlType'
  BY <1>21 DEF ManagerStops
<1>22. ASSUME Publish PROVE ControlType'
  BY <1>22 DEF Publish
<1>23. ASSUME InitializeSettings PROVE ControlType'
  BY <1>23 DEF InitializeSettings, Unpublish
<1>24. ASSUME SynchronizeLanguage PROVE ControlType'
  BY <1>24 DEF SynchronizeLanguage, Unpublish, SettingsAfter
<1>25. ASSUME ActivateBinding PROVE ControlType'
  BY <1>25 DEF ActivateBinding, Compensate
<1>26. ASSUME ReconcileFeatures PROVE ControlType'
  BY <1>26 DEF ReconcileFeatures, Compensate
<1>27. ASSUME SyncPolicy PROVE ControlType'
  BY <1>27 DEF SyncPolicy, Compensate
<1>28. ASSUME InstallService PROVE ControlType'
  BY <1>28 DEF InstallService, ServiceLeft
<1>29. ASSUME EndLifecycle PROVE ControlType'
  BY <1>29 DEF EndLifecycle, Compensate
<1>30. ASSUME Conclude PROVE ControlType'
  BY <1>30 DEF Conclude
<1>31. CASE UNCHANGED <<at, undo>>
  BY <1>31
<1> QED
  BY <1>1, <1>2, <1>3, <1>4, <1>5, <1>6, <1>7, <1>8, <1>9, <1>10, <1>11, <1>12, <1>13, <1>14,
     <1>15, <1>16, <1>17, <1>18, <1>19, <1>20, <1>21, <1>22, <1>23, <1>24, <1>25, <1>26,
     <1>27, <1>28, <1>29, <1>30, <1>31, StepKinds

\* What a command keeps count of.
Flags ==
    /\ cleaned \in 0..ConfigWrites /\ committed \in BOOLEAN /\ debts \in BOOLEAN
    /\ removing \in BOOLEAN /\ local \in BOOLEAN /\ failed \in BOOLEAN
    /\ result \in Results /\ verdict \in Verdicts /\ before \in [Things -> Places]

\* Every step keeps the types of the counts.
LEMMA FlagsTyped ==
    ASSUME Flags, CommandNext
    PROVE  Flags'
<1> USE DEF Flags, Results, Verdicts
<1>1. ASSUME CleanConfig, UNCHANGED installVars PROVE Flags'
  BY <1>1, WritesAssumption DEF CleanConfig, MoreToClean
<1>2. ASSUME Commit, UNCHANGED installVars PROVE Flags'
  BY <1>2 DEF Commit
<1>3. ASSUME Verify, UNCHANGED installVars PROVE Flags'
  BY <1>3 DEF Verify
<1>4. ASSUME Reactivate, UNCHANGED installVars PROVE Flags'
  BY <1>4 DEF Reactivate
<1>5. ASSUME Recovered, UNCHANGED installVars PROVE Flags'
  BY <1>5 DEF Recovered
<1>6. ASSUME DeleteModule, UNCHANGED installVars PROVE Flags'
  BY <1>6, OwedTyped DEF DeleteModule, Owed
<1>7. ASSUME DeleteSettings, UNCHANGED installVars PROVE Flags'
  BY <1>7, OwedTyped DEF DeleteSettings, SettingsEnds, Owed
<1>8. ASSUME DeleteDirectory, UNCHANGED installVars PROVE Flags'
  BY <1>8, OwedTyped DEF DeleteDirectory, DirectoryEnds, Owed
<1>9. ASSUME RevokePolicy, UNCHANGED installVars PROVE Flags'
  BY <1>9, OwedTyped DEF RevokePolicy, Owed
<1>10. ASSUME Retire, UNCHANGED installVars PROVE Flags'
  BY <1>10 DEF Retire
<1>11. ASSUME Finish, UNCHANGED installVars PROVE Flags'
  BY <1>11 DEF Finish
<1>12. ASSUME Publish PROVE Flags'
  BY <1>12 DEF Publish
<1>13. ASSUME InitializeSettings PROVE Flags'
  BY <1>13 DEF InitializeSettings, Unpublish
<1>14. ASSUME SynchronizeLanguage PROVE Flags'
  BY <1>14 DEF SynchronizeLanguage, Unpublish, SettingsAfter
<1>15. ASSUME ActivateBinding PROVE Flags'
  BY <1>15 DEF ActivateBinding, Compensate
<1>16. ASSUME ReconcileFeatures PROVE Flags'
  BY <1>16 DEF ReconcileFeatures, Compensate
<1>17. ASSUME SyncPolicy PROVE Flags'
  BY <1>17 DEF SyncPolicy, Compensate
<1>18. ASSUME InstallService PROVE Flags'
  BY <1>18 DEF InstallService, ServiceLeft
<1>19. ASSUME EndLifecycle PROVE Flags'
  BY <1>19 DEF EndLifecycle, Compensate
<1>20. ASSUME Conclude PROVE Flags'
  BY <1>20 DEF Conclude
<1>21. CASE UNCHANGED <<cleaned, committed, debts, result, verdict, failed, removing, local,
                        before>>
  BY <1>21
<1> QED
  BY <1>1, <1>2, <1>3, <1>4, <1>5, <1>6, <1>7, <1>8, <1>9, <1>10, <1>11, <1>12, <1>13, <1>14,
     <1>15, <1>16, <1>17, <1>18, <1>19, <1>20, <1>21, StepKinds
     DEF Quiesce, Inspect, PassOver, AwaitStop, StageModule, StageDirectory, StageSettings,
        StageBinding, PutBack, ManagerStops

\* Every step keeps the types of the evidence.
LEMMA EvidenceTyped ==
    ASSUME EvidenceType, CommandNext
    PROVE  EvidenceType'
<1> USE DEF Captured, Filed
<1>1. ASSUME ActivateBinding PROVE EvidenceType'
  BY <1>1 DEF ActivateBinding, Compensate
<1>2. ASSUME ReconcileFeatures PROVE EvidenceType'
  BY <1>2 DEF ReconcileFeatures, Compensate
<1>3. ASSUME SyncPolicy PROVE EvidenceType'
  BY <1>3 DEF SyncPolicy, Compensate
<1>4. ASSUME EndLifecycle PROVE EvidenceType'
  BY <1>4 DEF EndLifecycle, Compensate
<1>5. CASE UNCHANGED <<evidence, filed>>
  BY <1>5
<1> QED
  BY <1>1, <1>2, <1>3, <1>4, <1>5, StepKinds
     DEF Quiesce, Inspect, PassOver, AwaitStop, StageModule, StageDirectory, StageSettings,
        StageBinding, CleanConfig, Commit, PutBack, Verify, Reactivate, Recovered,
        DeleteModule, DeleteSettings, DeleteDirectory, RevokePolicy, Retire, Finish,
        ManagerStops, Publish, InitializeSettings, SynchronizeLanguage, InstallService,
        Conclude

\* Every step keeps the types.
LEMMA TypeStep ==
    InstallTypeOK /\ Counted /\ Phases /\ CommandNext => InstallTypeOK' /\ Counted'
<1> SUFFICES ASSUME InstallTypeOK, Counted, Phases, CommandNext PROVE InstallTypeOK' /\ Counted'
  OBVIOUS
<1>1. Flags /\ Flags'
  BY FlagsTyped DEF InstallTypeOK, DataOK, Flags
<1>2. /\ PlaceType' /\ UnitType'
      /\ receipt' \in Seq(UnitSet) /\ k' \in 0..(Len(Units) + Len(Directories) + 1) /\ Counted'
      /\ at' \in Steps \cup InstallSteps /\ undo' \in Seq(Things)
      /\ evidence' \subseteq Things /\ filed' \subseteq UnitSet
  BY PlaceTyped, UnitTyped, IndexTyped, ControlTyped, EvidenceTyped DEF InstallTypeOK, DataOK
<1> QED
  BY <1>1, <1>2 DEF InstallTypeOK, DataOK, Flags

\* The step goes on telling of the command and of its commit.
LEMMA PhasesStep ==
    ASSUME Phases, CommandNext
    PROVE  Phases'
<1> USE DEF Phases, Installing
<1>1. ASSUME Quiesce, UNCHANGED installVars PROVE Phases'
  BY <1>1 DEF Quiesce
<1>2. ASSUME Inspect, UNCHANGED installVars PROVE Phases'
  BY <1>2 DEF Inspect
<1>3. ASSUME AwaitStop, UNCHANGED installVars PROVE Phases'
  BY <1>3 DEF AwaitStop, Stopped
<1>4. ASSUME StageModule, UNCHANGED installVars PROVE Phases'
  BY <1>4 DEF StageModule
<1>5. ASSUME StageDirectory, UNCHANGED installVars PROVE Phases'
  BY <1>5 DEF StageDirectory, Cleanup
<1>6. ASSUME StageSettings, UNCHANGED installVars PROVE Phases'
  BY <1>6 DEF StageSettings
<1>7. ASSUME StageBinding, UNCHANGED installVars PROVE Phases'
  BY <1>7 DEF StageBinding
<1>8. ASSUME CleanConfig, UNCHANGED installVars PROVE Phases'
  BY <1>8 DEF CleanConfig, MoreToClean
<1>9. ASSUME Commit, UNCHANGED installVars PROVE Phases'
  BY <1>9 DEF Commit
<1>10. ASSUME Verify, UNCHANGED installVars PROVE Phases'
  BY <1>10 DEF Verify
<1>11. ASSUME Recovered, UNCHANGED installVars PROVE Phases'
  BY <1>11 DEF Recovered
<1>12. ASSUME DeleteModule, UNCHANGED installVars PROVE Phases'
  BY <1>12 DEF DeleteModule, Owed
<1>13. ASSUME DeleteSettings, UNCHANGED installVars PROVE Phases'
  BY <1>13 DEF DeleteSettings, SettingsEnds, Owed
<1>14. ASSUME RevokePolicy, UNCHANGED installVars PROVE Phases'
  BY <1>14 DEF RevokePolicy, Owed
<1>15. ASSUME Finish, UNCHANGED installVars PROVE Phases'
  BY <1>15 DEF Finish
<1>16. ASSUME Publish PROVE Phases'
  BY <1>16 DEF Publish
<1>17. ASSUME InitializeSettings PROVE Phases'
  BY <1>17 DEF InitializeSettings, Unpublish
<1>18. ASSUME SynchronizeLanguage PROVE Phases'
  BY <1>18 DEF SynchronizeLanguage, Unpublish, SettingsAfter
<1>19. ASSUME ActivateBinding PROVE Phases'
  BY <1>19 DEF ActivateBinding, Compensate
<1>20. ASSUME ReconcileFeatures PROVE Phases'
  BY <1>20 DEF ReconcileFeatures, Compensate
<1>21. ASSUME SyncPolicy PROVE Phases'
  BY <1>21 DEF SyncPolicy, Compensate
<1>22. ASSUME EndLifecycle PROVE Phases'
  BY <1>22 DEF EndLifecycle, Compensate
<1>23. ASSUME Conclude PROVE Phases'
  BY <1>23 DEF Conclude
<1>24. CASE UNCHANGED <<at, result, committed, verdict, evidence, filed, removing, receipt>>
  BY <1>24
<1> QED
  BY <1>1, <1>2, <1>3, <1>4, <1>5, <1>6, <1>7, <1>8, <1>9, <1>10, <1>11, <1>12, <1>13, <1>14,
     <1>15, <1>16, <1>17, <1>18, <1>19, <1>20, <1>21, <1>22, <1>23, <1>24, StepKinds
     DEF PassOver, PutBack, Reactivate, DeleteDirectory, Retire, ManagerStops, InstallService

\* Neither the module nor what it keeps of its own is the user's choice.
LEMMA Kept == {"module", "settings", "binding"} \cap UserChoice = {}
  BY Names, ChoiceAssumption

\* The evidence of an installation names all of it that is there.
LEMMA CaptureDoes ==
    ASSUME place \in [Things -> Places], place["module"] = "active",
           \A t \in Things \ {"module"} : place[t] \in {"active", "absent"}
    PROVE  /\ "module" \in Captured
           /\ \A t \in Captured : place[t] = "active"
           /\ \A t \in Things \ Captured : \/ place[t] = "absent"
                                           \/ place[t] = "active" /\ t \in UserChoice /\ ~removing
  BY Kept, Named DEF Captured

\* The module is moved aside, or the step fails.
LEMMA StageModuleDoes ==
    ASSUME StageModule
    PROVE  /\ at = "extras"
           /\ \/ /\ at' = "directories" /\ k' = 1
                 /\ place' = [place EXCEPT !["module"] = "staged"]
              \/ at' = "undoing" /\ place' = place
           /\ UNCHANGED <<asked, manager, cleaned, committed, debts, result>>
  BY DEF StageModule, Put

\* A directory that goes is moved aside, any other is passed over; or the step
\* fails.
LEMMA StageDirectoryDoes ==
    ASSUME StageDirectory, Counted
    PROVE  /\ at = "directories" /\ k \in 1..Len(Directories) /\ k \in Nat
           /\ \/ /\ at' = "directories" /\ k' = k + 1
                 /\ IF Goes(Directories[k])
                    THEN place' = [place EXCEPT ![Directories[k]] = "staged"]
                    ELSE place' = place
              \/ at' = "undoing" /\ k' = k /\ place' = place
           /\ UNCHANGED <<asked, manager, cleaned, committed, debts, result>>
  BY Lengths DEF StageDirectory, Put, Counted

\* What was there stays accounted for.
LEMMA AccountedStep ==
    ASSUME Counted, PlaceType, EvidenceType, Phases,
           Installed, Accounted, CommandNext
    PROVE  Accounted'
<1> USE DEF Phases, Installing, Installed, Accounted, Put
<1>1. ASSUME Quiesce, UNCHANGED installVars PROVE Accounted'
  BY <1>1 DEF Quiesce
<1>2. ASSUME Inspect, UNCHANGED installVars PROVE Accounted'
  BY <1>2 DEF Inspect
<1>3. ASSUME PassOver, UNCHANGED installVars PROVE Accounted'
  BY <1>3 DEF PassOver
<1>4. ASSUME AwaitStop, UNCHANGED installVars PROVE Accounted'
  BY <1>4 DEF AwaitStop, Stopped
<1>5. ASSUME StageModule, UNCHANGED installVars PROVE Accounted'
  <2>1. ~committed /\ ~Installing /\ committed' = committed
    BY <1>5, StageModuleDoes
  <2>2. /\ evidence' = evidence /\ removing' = removing
        /\ place' = [place EXCEPT !["module"] = "staged"] \/ place' = place
    BY <1>5, StageModuleDoes
  <2>3. "module" \in evidence /\ "module" \in Things
    BY <2>1, Named
  <2> QED
    BY <2>1, <2>2, <2>3
<1>6. ASSUME StageDirectory, UNCHANGED installVars PROVE Accounted'
  <2>1. ~committed /\ ~Installing /\ committed' = committed
    BY <1>6, StageDirectoryDoes
  <2>2. /\ evidence' = evidence /\ removing' = removing
        /\ \/ place' = place
           \/ /\ Goes(Directories[k])
              /\ place' = [place EXCEPT ![Directories[k]] = "staged"]
    BY <1>6, StageDirectoryDoes
  <2>3. Goes(Directories[k]) => Directories[k] \in evidence
    BY <2>1, Named DEF Goes, Cleanup
  <2> QED
    BY <2>1, <2>2, <2>3, Names DEF Goes
<1>7. ASSUME StageSettings, UNCHANGED installVars PROVE Accounted'
  BY <1>7, Kept DEF StageSettings
<1>8. ASSUME StageBinding, UNCHANGED installVars PROVE Accounted'
  BY <1>8, Kept DEF StageBinding
<1>9. ASSUME CleanConfig, UNCHANGED installVars PROVE Accounted'
  BY <1>9 DEF CleanConfig, MoreToClean
<1>10. ASSUME Commit, UNCHANGED installVars PROVE Accounted'
  BY <1>10 DEF Commit
<1>11. ASSUME PutBack, UNCHANGED installVars PROVE Accounted'
  BY <1>11 DEF PutBack, Dropped
<1>12. ASSUME Verify, UNCHANGED installVars PROVE Accounted'
  BY <1>12 DEF Verify
<1>13. ASSUME Reactivate, UNCHANGED installVars PROVE Accounted'
  BY <1>13 DEF Reactivate
<1>14. ASSUME Recovered, UNCHANGED installVars PROVE Accounted'
  BY <1>14 DEF Recovered
<1>15. ASSUME DeleteModule, UNCHANGED installVars PROVE Accounted'
  BY <1>15 DEF DeleteModule, Owed
<1>16. ASSUME DeleteSettings, UNCHANGED installVars PROVE Accounted'
  BY <1>16 DEF DeleteSettings, SettingsEnds, Owed
<1>17. ASSUME DeleteDirectory, UNCHANGED installVars PROVE Accounted'
  BY <1>17 DEF DeleteDirectory, DirectoryEnds, Owed
<1>18. ASSUME RevokePolicy, UNCHANGED installVars PROVE Accounted'
  BY <1>18 DEF RevokePolicy, Owed
<1>19. ASSUME Retire, UNCHANGED installVars PROVE Accounted'
  BY <1>19 DEF Retire
<1>20. ASSUME Finish, UNCHANGED installVars PROVE Accounted'
  BY <1>20 DEF Finish
<1>21. ASSUME NEW u \in UnitSet, ManagerStops(u), UNCHANGED installVars PROVE Accounted'
  BY <1>21 DEF ManagerStops
<1>22. ASSUME Publish PROVE Accounted'
  BY <1>22 DEF Publish
<1>23. ASSUME InitializeSettings PROVE Accounted'
  BY <1>23 DEF InitializeSettings, Unpublish
<1>24. ASSUME SynchronizeLanguage PROVE Accounted'
  BY <1>24 DEF SynchronizeLanguage, Unpublish, SettingsAfter
<1>25. ASSUME ActivateBinding PROVE Accounted'
  BY <1>25, Kept, CaptureDoes DEF ActivateBinding, Compensate
<1>26. ASSUME ReconcileFeatures PROVE Accounted'
  BY <1>26, Kept, CaptureDoes DEF ReconcileFeatures, Compensate
<1>27. ASSUME SyncPolicy PROVE Accounted'
  BY <1>27, Kept, CaptureDoes DEF SyncPolicy, Compensate
<1>28. ASSUME InstallService PROVE Accounted'
  BY <1>28 DEF InstallService, ServiceLeft
<1>29. ASSUME EndLifecycle PROVE Accounted'
  BY <1>29, Kept, CaptureDoes DEF EndLifecycle, Compensate
<1>30. ASSUME Conclude PROVE Accounted'
  BY <1>30 DEF Conclude
<1>31. CASE UNCHANGED <<at, result, committed, evidence, place, removing>>
  BY <1>31
<1> QED
  BY <1>1, <1>2, <1>3, <1>4, <1>5, <1>6, <1>7, <1>8, <1>9, <1>10, <1>11, <1>12, <1>13, <1>14,
     <1>15, <1>16, <1>17, <1>18, <1>19, <1>20, <1>21, <1>22, <1>23, <1>24, <1>25, <1>26,
     <1>27, <1>28, <1>29, <1>30, <1>31, StepKinds

\* What is to go stays moved aside.
LEMMA MovedAsideStep ==
    ASSUME PlaceType, EvidenceType, Phases, Accounted,
           Counted, MovedAside, CommandNext
    PROVE  MovedAside'
<1> USE DEF Phases, Installing, Accounted, Counted, MovedAside, Aside, Cleanup,
   RemovesSettings, Put
<1>1. ASSUME Quiesce, UNCHANGED installVars PROVE MovedAside'
  BY <1>1 DEF Quiesce
<1>2. ASSUME Inspect, UNCHANGED installVars PROVE MovedAside'
  BY <1>2 DEF Inspect
<1>3. ASSUME PassOver, UNCHANGED installVars PROVE MovedAside'
  BY <1>3 DEF PassOver
<1>4. ASSUME AwaitStop, UNCHANGED installVars PROVE MovedAside'
  BY <1>4 DEF AwaitStop, Stopped
<1>5. ASSUME StageModule, UNCHANGED installVars PROVE MovedAside'
  BY <1>5, StageModuleDoes
<1>6. ASSUME StageDirectory, UNCHANGED installVars PROVE MovedAside'
  BY <1>6, DirectoryAt, Names, Named, StageDirectoryDoes DEF Goes
<1>7. ASSUME StageSettings, UNCHANGED installVars PROVE MovedAside'
  BY <1>7, DirectoryIndex, DirectoryAt, Names, Named DEF StageSettings
<1>8. ASSUME StageBinding, UNCHANGED installVars PROVE MovedAside'
  BY <1>8, DirectoryAt, Names, Named DEF StageBinding
<1>9. ASSUME CleanConfig, UNCHANGED installVars PROVE MovedAside'
  BY <1>9 DEF CleanConfig, MoreToClean
<1>10. ASSUME Commit, UNCHANGED installVars PROVE MovedAside'
  BY <1>10, DirectoryAt, Names, Named DEF Commit
<1>11. ASSUME PutBack, UNCHANGED installVars PROVE MovedAside'
  BY <1>11 DEF PutBack
<1>12. ASSUME Verify, UNCHANGED installVars PROVE MovedAside'
  BY <1>12 DEF Verify
<1>13. ASSUME Reactivate, UNCHANGED installVars PROVE MovedAside'
  BY <1>13 DEF Reactivate
<1>14. ASSUME Recovered, UNCHANGED installVars PROVE MovedAside'
  BY <1>14 DEF Recovered
<1>15. ASSUME DeleteModule, UNCHANGED installVars PROVE MovedAside'
  BY <1>15, DirectoryAt, Names, Named DEF DeleteModule, Owed
<1>16. ASSUME DeleteSettings, UNCHANGED installVars PROVE MovedAside'
  BY <1>16 DEF DeleteSettings, SettingsEnds, Owed
<1>17. ASSUME DeleteDirectory, UNCHANGED installVars PROVE MovedAside'
  BY <1>17 DEF DeleteDirectory, DirectoryEnds, Owed
<1>18. ASSUME RevokePolicy, UNCHANGED installVars PROVE MovedAside'
  BY <1>18 DEF RevokePolicy, Owed
<1>19. ASSUME Retire, UNCHANGED installVars PROVE MovedAside'
  BY <1>19 DEF Retire
<1>20. ASSUME Finish, UNCHANGED installVars PROVE MovedAside'
  BY <1>20 DEF Finish
<1>21. ASSUME NEW u \in UnitSet, ManagerStops(u), UNCHANGED installVars PROVE MovedAside'
  BY <1>21 DEF ManagerStops
<1>22. ASSUME Publish PROVE MovedAside'
  BY <1>22 DEF Publish
<1>23. ASSUME InitializeSettings PROVE MovedAside'
  BY <1>23 DEF InitializeSettings, Unpublish
<1>24. ASSUME SynchronizeLanguage PROVE MovedAside'
  BY <1>24 DEF SynchronizeLanguage, Unpublish, SettingsAfter
<1>25. ASSUME ActivateBinding PROVE MovedAside'
  BY <1>25 DEF ActivateBinding, Compensate
<1>26. ASSUME ReconcileFeatures PROVE MovedAside'
  BY <1>26 DEF ReconcileFeatures, Compensate
<1>27. ASSUME SyncPolicy PROVE MovedAside'
  BY <1>27 DEF SyncPolicy, Compensate
<1>28. ASSUME InstallService PROVE MovedAside'
  BY <1>28 DEF InstallService, ServiceLeft
<1>29. ASSUME EndLifecycle PROVE MovedAside'
  BY <1>29 DEF EndLifecycle, Compensate
<1>30. ASSUME Conclude PROVE MovedAside'
  BY <1>30 DEF Conclude
<1>31. CASE UNCHANGED <<at, k, place, removing, local>>
  BY <1>31
<1> QED
  BY <1>1, <1>2, <1>3, <1>4, <1>5, <1>6, <1>7, <1>8, <1>9, <1>10, <1>11, <1>12, <1>13, <1>14,
     <1>15, <1>16, <1>17, <1>18, <1>19, <1>20, <1>21, <1>22, <1>23, <1>24, <1>25, <1>26,
     <1>27, <1>28, <1>29, <1>30, <1>31, StepKinds

\* What was moved aside stays gone or owed.
LEMMA GoneOrOwedStep ==
    ASSUME PlaceType, UnitType, Phases, Counted,
           MovedAside, GoneOrOwed, CommandNext
    PROVE  GoneOrOwed'
<1> USE DEF Phases, Counted, MovedAside, GoneOrOwed, Aside, Rid, OutOfUse, Dropped, Cleanup,
        RemovesSettings, Put
<1>1. ASSUME Quiesce, UNCHANGED installVars PROVE GoneOrOwed'
  BY <1>1 DEF Quiesce
<1>2. ASSUME Inspect, UNCHANGED installVars PROVE GoneOrOwed'
  BY <1>2 DEF Inspect
<1>3. ASSUME PassOver, UNCHANGED installVars PROVE GoneOrOwed'
  BY <1>3 DEF PassOver
<1>4. ASSUME AwaitStop, UNCHANGED installVars PROVE GoneOrOwed'
  BY <1>4 DEF AwaitStop, Stopped
<1>5. ASSUME StageModule, UNCHANGED installVars PROVE GoneOrOwed'
  BY <1>5 DEF StageModule
<1>6. ASSUME StageDirectory, UNCHANGED installVars PROVE GoneOrOwed'
  BY <1>6 DEF StageDirectory, Goes
<1>7. ASSUME StageSettings, UNCHANGED installVars PROVE GoneOrOwed'
  BY <1>7 DEF StageSettings
<1>8. ASSUME StageBinding, UNCHANGED installVars PROVE GoneOrOwed'
  BY <1>8 DEF StageBinding
<1>9. ASSUME CleanConfig, UNCHANGED installVars PROVE GoneOrOwed'
  <2>1. /\ at = "config" /\ at' \in {"config", "undoing"} /\ result' = result
    BY <1>9 DEF CleanConfig, MoreToClean
  <2>2. result = "none"
    BY <2>1
  <2> QED
    BY <2>1, <2>2
<1>10. ASSUME Commit, UNCHANGED installVars PROVE GoneOrOwed'
  <2>1. /\ at = "config" /\ at' = "delete_module" /\ result' = result /\ result = "none"
        /\ removing' = removing /\ local' = local
    BY <1>10 DEF Commit
  <2>2. place["binding"] \in {"staged", "gone", "torn", "absent"}
    BY <2>1, Named DEF Places
  <2>3. place'["binding"] \in OutOfUse
    BY <1>10, <2>2, Named DEF Commit
  <2> QED
    BY <2>1, <2>3
<1>11. ASSUME PutBack, UNCHANGED installVars PROVE GoneOrOwed'
  BY <1>11 DEF PutBack
<1>12. ASSUME Verify, UNCHANGED installVars PROVE GoneOrOwed'
  BY <1>12 DEF Verify
<1>13. ASSUME Reactivate, UNCHANGED installVars PROVE GoneOrOwed'
  BY <1>13 DEF Reactivate
<1>14. ASSUME Recovered, UNCHANGED installVars PROVE GoneOrOwed'
  BY <1>14 DEF Recovered
<1>15. ASSUME DeleteModule, UNCHANGED installVars PROVE GoneOrOwed'
  <2>1. PICK failing \in BOOLEAN :
            /\ place' = [place EXCEPT !["module"] = IF failing THEN "torn" ELSE "gone"]
            /\ debts' = (debts \/ failing)
    BY <1>15 DEF DeleteModule, Owed
  <2>2. at = "delete_module" /\ at' = "delete_settings" /\ result' = result /\ result = "none"
    BY <1>15 DEF DeleteModule, Owed
  <2>3. /\ place'["module"] = (IF failing THEN "torn" ELSE "gone")
        /\ place'["binding"] = place["binding"]
    BY <2>1, Named
  <2>4. ~debts' => ~failing
    BY <2>1
  <2> QED
    BY <2>2, <2>3, <2>4
<1>16. ASSUME DeleteSettings, UNCHANGED installVars PROVE GoneOrOwed'
  <2>1. /\ at = "delete_settings" /\ at' = "delete_directories" /\ k' = 1
        /\ result' = result /\ result = "none" /\ removing' = removing /\ local' = local
    BY <1>16 DEF DeleteSettings, SettingsEnds, Owed
  <2>2. \/ place' = place /\ debts' = debts /\ place["settings"] # "staged"
        \/ \E end \in SettingsEnds : /\ place' = [place EXCEPT !["settings"] = end]
                                      /\ debts' = (debts \/ end # "gone")
    BY <1>16 DEF DeleteSettings, Owed
  <2>3. /\ \A t \in Things \ {"settings"} : place'[t] = place[t]
        /\ debts => debts'
    <3>1. \A t \in Things \ {"settings"} : place'[t] = place[t]
      BY <2>2
    <3>2. debts => debts'
      BY <2>2
    <3> QED
      BY <3>1, <3>2
  <2>4. RemovesSettings /\ ~debts' => place'["settings"] \in Rid
    BY <2>1, <2>2, Named
  <2>5. Cleanup' = Cleanup /\ \A d \in Cleanup : place'[d] \in Aside
    BY <2>1, <2>3, Names, Named
  <2>6. /\ place'["binding"] = place["binding"] /\ place'["module"] = place["module"]
    BY <2>3, Named
  <2>7. \A n \in 1..Len(Directories) :
            Directories[n] \in Cleanup' => place'[Directories[n]] \in Aside
    BY <2>5
  <2>8. ~(\E n \in 1..Len(Directories) : n < k')
    BY <2>1
  <2> QED
    BY <2>1, <2>3, <2>4, <2>6, <2>7, <2>8
<1>17. ASSUME DeleteDirectory, UNCHANGED installVars PROVE GoneOrOwed'
  <2> DEFINE d == Directories[k]
  <2>1. /\ at = "delete_directories" /\ at' = at /\ k \in 1..Len(Directories) /\ k' = k + 1
        /\ result' = result /\ result = "none" /\ removing' = removing /\ local' = local
        /\ d \in DirectorySet /\ d \in Things
    BY <1>17, DirectoryAt, Named, Lengths DEF DeleteDirectory, DirectoryEnds, Owed
  <2>2. \/ place' = place /\ debts' = debts /\ place[d] # "staged"
        \/ \E end \in {"gone", "torn"} : /\ place' = [place EXCEPT ![d] = end]
                                         /\ debts' = (debts \/ end # "gone")
    BY <1>17 DEF DeleteDirectory, DirectoryEnds, Owed
  <2>3. /\ \A t \in Things \ {d} : place'[t] = place[t]
        /\ debts => debts'
    <3>1. \A t \in Things \ {d} : place'[t] = place[t]
      BY <2>2
    <3>2. debts => debts'
      BY <2>2
    <3> QED
      BY <3>1, <3>2
  <2>4. d \in Cleanup /\ ~debts' => place'[d] \in Rid
    BY <2>1, <2>2
  <2>5. \A n \in 1..Len(Directories) : n # k => Directories[n] # d
    BY <2>1, OrderAssumption DEF IsInjective
  <2>6. /\ place'["binding"] = place["binding"] /\ place'["module"] = place["module"]
        /\ place'["settings"] = place["settings"] /\ Cleanup' = Cleanup
    BY <2>1, <2>3, Named, Names
  <2>7. ASSUME NEW n \in 1..Len(Directories), Directories[n] \in Cleanup
        PROVE  IF n < k' THEN ~debts' => place'[Directories[n]] \in Rid
                         ELSE place'[Directories[n]] \in Aside
    <3>1. CASE n = k
      BY <2>1, <2>4, <2>7, <3>1
    <3>2. CASE n # k
      <4>1. place'[Directories[n]] = place[Directories[n]] /\ (n < k + 1 <=> n < k)
        BY <2>1, <2>3, <2>5, <2>7, <3>2, DirectoryAt, Named
      <4> QED
        BY <2>1, <2>3, <2>7, <4>1
    <3> QED
      BY <3>1, <3>2
  <2> QED
    BY <2>1, <2>3, <2>6, <2>7
<1>18. ASSUME RevokePolicy, UNCHANGED installVars PROVE GoneOrOwed'
  <2>1. /\ at = "delete_directories" /\ at' = "retire" /\ k > Len(Directories) /\ k' = 1
        /\ place' = place /\ (debts => debts') /\ Cleanup' = Cleanup
        /\ result' = result /\ result = "none" /\ removing' = removing /\ local' = local
    BY <1>18 DEF RevokePolicy, Owed
  <2>2. ~debts => \A d \in Cleanup : place[d] \in Rid
    BY <2>1, DirectoryIndex, Lengths
  <2>3. ~(\E n \in 1..(k' - 1) : TRUE)
    BY <2>1
  <2> QED
    BY <2>1, <2>2, <2>3
<1>19. ASSUME Retire, UNCHANGED installVars PROVE GoneOrOwed'
  <2>1. /\ at = "retire" /\ at' = at /\ k \in 1..Len(Units) /\ k' = k + 1 /\ place' = place
        /\ Cleanup' = Cleanup /\ removing' = removing /\ local' = local
        /\ result' = result /\ result = "none" /\ Units[k] \in UnitSet
    BY <1>19, UnitAt, Lengths DEF Retire
  <2>2. \/ unit' = [unit EXCEPT ![Units[k]] = "missing"] /\ debts' = debts
        \/ debts' = TRUE /\ unit' = unit
    BY <1>19 DEF Retire, Become
  <2>3. ASSUME ~debts', NEW n \in 1..(k' - 1) PROVE unit'[Units[n]] = "missing"
    <3>1. /\ ~debts /\ unit' = [unit EXCEPT ![Units[k]] = "missing"]
          /\ n \in 1..Len(Units) /\ Units[n] \in UnitSet
      BY <2>1, <2>2, <2>3, UnitAt, Lengths
    <3>2. CASE n = k
      BY <2>1, <3>1, <3>2
    <3>3. CASE n # k
      <4>1. n \in 1..(k - 1)
        BY <2>1, <3>3
      <4> QED
        BY <2>1, <3>1, <4>1
    <3> QED
      BY <3>2, <3>3
  <2> QED
    BY <2>1, <2>2, <2>3
<1>20. ASSUME Finish, UNCHANGED installVars PROVE GoneOrOwed'
  <2>1. /\ at = "retire" /\ at' = "end" /\ k > Len(Units) /\ place' = place /\ unit' = unit
        /\ Cleanup' = Cleanup /\ removing' = removing /\ local' = local
        /\ debts' = debts /\ (result' = "done" => ~debts)
    BY <1>20 DEF Finish
  <2>2. ~debts => \A u \in UnitSet : unit[u] = "missing"
    BY <2>1, UnitIndex, Lengths
  <2> QED
    BY <2>1, <2>2
<1>21. ASSUME NEW u \in UnitSet, ManagerStops(u), UNCHANGED installVars PROVE GoneOrOwed'
  <2>1. /\ at' = at /\ place' = place /\ k' = k /\ debts' = debts /\ result' = result
        /\ removing' = removing /\ local' = local /\ Cleanup' = Cleanup
    BY <1>21 DEF ManagerStops
  <2>2. \A v \in UnitSet : unit[v] = "missing" => unit'[v] = "missing"
    BY <1>21 DEF ManagerStops, Become
  <2>3. at = "retire" => \A n \in 1..(k - 1) : Units[n] \in UnitSet
    BY UnitAt, Lengths
  <2> QED
    BY <2>1, <2>2, <2>3
<1>22. ASSUME Publish PROVE GoneOrOwed'
  BY <1>22 DEF Publish
<1>23. ASSUME InitializeSettings PROVE GoneOrOwed'
  BY <1>23 DEF InitializeSettings, Unpublish
<1>24. ASSUME SynchronizeLanguage PROVE GoneOrOwed'
  BY <1>24 DEF SynchronizeLanguage, Unpublish, SettingsAfter
<1>25. ASSUME ActivateBinding PROVE GoneOrOwed'
  BY <1>25 DEF ActivateBinding, Compensate
<1>26. ASSUME ReconcileFeatures PROVE GoneOrOwed'
  BY <1>26 DEF ReconcileFeatures, Compensate
<1>27. ASSUME SyncPolicy PROVE GoneOrOwed'
  BY <1>27 DEF SyncPolicy, Compensate
<1>28. ASSUME InstallService PROVE GoneOrOwed'
  BY <1>28 DEF InstallService, ServiceLeft
<1>29. ASSUME EndLifecycle PROVE GoneOrOwed'
  BY <1>29 DEF EndLifecycle, Compensate
<1>30. ASSUME Conclude PROVE GoneOrOwed'
  BY <1>30 DEF Conclude
<1>31. CASE UNCHANGED <<at, k, place, removing, local, debts, unit, result>>
  BY <1>31
<1> QED
  BY <1>1, <1>2, <1>3, <1>4, <1>5, <1>6, <1>7, <1>8, <1>9, <1>10, <1>11, <1>12, <1>13, <1>14,
     <1>15, <1>16, <1>17, <1>18, <1>19, <1>20, <1>21, <1>22, <1>23, <1>24, <1>25, <1>26,
     <1>27, <1>28, <1>29, <1>30, <1>31, StepKinds

\* The settings stay safe.
LEMMA SettingsStep ==
    ASSUME PlaceType, Counted, Phases, Installed, Accounted,
           MovedAside, GoneOrOwed, SettingsAreSafe, CommandNext
    PROVE  SettingsAreSafe'
<1> USE DEF Phases, Installing, Installed, Accounted, MovedAside, GoneOrOwed, SettingsAreSafe,
   Aside, RemovesSettings, Put
<1>1. ASSUME StageModule, UNCHANGED installVars PROVE SettingsAreSafe'
  <2>1. "settings" # "module" /\ "settings" \in Things /\ place["settings"] # "gone"
    BY <1>1, StageModuleDoes, Named
  <2>2. /\ removing' = removing /\ local' = local
        /\ place' = [place EXCEPT !["module"] = "staged"] \/ place' = place
    BY <1>1, StageModuleDoes
  <2> QED
    BY <2>1, <2>2
<1>2. ASSUME StageDirectory, UNCHANGED installVars PROVE SettingsAreSafe'
  <2>1. "settings" # "module" /\ "settings" \in Things /\ "module" \in Things
    BY Named
  <2>2. /\ removing' = removing /\ local' = local
        /\ \A t \in {"settings", "module"} : place'[t] = place[t]
    BY <1>2, StageDirectoryDoes, DirectoryAt, Named, Names
  <2> QED
    BY <2>1, <2>2
<1>3. ASSUME StageSettings, UNCHANGED installVars PROVE SettingsAreSafe'
  BY <1>3, Named, Names, Kept DEF StageSettings
<1>4. ASSUME StageBinding, UNCHANGED installVars PROVE SettingsAreSafe'
  BY <1>4, Named, Names, Kept DEF StageBinding
<1>5. ASSUME Commit, UNCHANGED installVars PROVE SettingsAreSafe'
  BY <1>5, Named, Names, Kept DEF Commit
<1>6. ASSUME PutBack, UNCHANGED installVars PROVE SettingsAreSafe'
  BY <1>6, Named, Names, Kept DEF PutBack
<1>7. ASSUME DeleteModule, UNCHANGED installVars PROVE SettingsAreSafe'
  BY <1>7, Named, Names, Kept DEF DeleteModule, Owed
<1>8. ASSUME DeleteSettings, UNCHANGED installVars PROVE SettingsAreSafe'
  <2>1. /\ at = "delete_settings" /\ removing' = removing /\ local' = local
        /\ "settings" \in Things /\ "module" \in Things
    BY <1>8, Named DEF DeleteSettings, SettingsEnds, Owed
  <2>2. place["module"] = "torn" \/ place["module"] = "gone"
    BY <2>1
  <2>3. CASE place["settings"] = "staged"
    <3>1. PICK end \in SettingsEnds : place' = [place EXCEPT !["settings"] = end]
      BY <1>8, <2>3 DEF DeleteSettings, SettingsEnds, Owed
    <3>2. place'["settings"] = end /\ place'["module"] = place["module"]
      BY <2>1, <3>1
    <3> QED
      BY <2>1, <2>2, <2>3, <3>2 DEF SettingsEnds
  <2>4. CASE place["settings"] # "staged"
    BY <1>8, <2>1, <2>4 DEF DeleteSettings, SettingsEnds, Owed
  <2> QED
    BY <2>3, <2>4
<1>9. ASSUME DeleteDirectory, UNCHANGED installVars PROVE SettingsAreSafe'
  <2>1. /\ Directories[k] \in DirectorySet /\ removing' = removing /\ local' = local
    BY <1>9, DirectoryAt DEF DeleteDirectory, Counted
  <2>2. \/ place' = place
        \/ \E end \in {"gone", "torn"} : place' = [place EXCEPT ![Directories[k]] = end]
    BY <1>9 DEF DeleteDirectory, DirectoryEnds
  <2>3. \A t \in {"settings", "module"} : place'[t] = place[t]
    BY <2>1, <2>2, Named, Names
  <2> QED
    BY <2>1, <2>3
<1>10. ASSUME Publish PROVE SettingsAreSafe'
  BY <1>10, Named, Names, Kept DEF Publish
<1>11. ASSUME InitializeSettings PROVE SettingsAreSafe'
  BY <1>11, Named, Names, Kept DEF InitializeSettings, Unpublish
<1>12. ASSUME SynchronizeLanguage PROVE SettingsAreSafe'
  BY <1>12, Named, Names, Kept DEF SynchronizeLanguage, Unpublish, SettingsAfter
<1>13. ASSUME ActivateBinding PROVE SettingsAreSafe'
  BY <1>13, Named, Names, Kept DEF ActivateBinding, Compensate
<1>14. CASE UNCHANGED <<place, removing, local>>
  BY <1>14
<1> QED
  BY <1>1, <1>2, <1>3, <1>4, <1>5, <1>6, <1>7, <1>8, <1>9, <1>10, <1>11, <1>12, <1>13, <1>14,
     StepKinds
     DEF Quiesce, Inspect, PassOver, AwaitStop, CleanConfig, Verify, Reactivate, Recovered,
        RevokePolicy, Retire, Finish, ManagerStops, ReconcileFeatures, SyncPolicy,
        InstallService, EndLifecycle, Conclude

\* The units keep their files until the commit.
LEMMA FiledStep ==
    ASSUME UnitType, EvidenceType, Phases,
           FiledUnitsStay, CommandNext
    PROVE  FiledUnitsStay'
<1> USE DEF Phases, Installing, FiledUnitsStay, Become, Filed
<1>1. ASSUME Quiesce, UNCHANGED installVars PROVE FiledUnitsStay'
  BY <1>1 DEF Quiesce
<1>2. ASSUME AwaitStop, UNCHANGED installVars PROVE FiledUnitsStay'
  BY <1>2 DEF AwaitStop, Stopped
<1>3. ASSUME NEW u \in UnitSet, ManagerStops(u), UNCHANGED installVars PROVE FiledUnitsStay'
  BY <1>3 DEF ManagerStops
<1>4. ASSUME Reactivate, UNCHANGED installVars PROVE FiledUnitsStay'
  BY <1>4 DEF Reactivate
<1>5. ASSUME Retire, UNCHANGED installVars PROVE FiledUnitsStay'
  BY <1>5 DEF Retire
<1>6. ASSUME InstallService PROVE FiledUnitsStay'
  BY <1>6 DEF InstallService, ServiceLeft
<1>7. ASSUME ActivateBinding PROVE FiledUnitsStay'
  BY <1>7 DEF ActivateBinding, Compensate
<1>8. ASSUME ReconcileFeatures PROVE FiledUnitsStay'
  BY <1>8 DEF ReconcileFeatures, Compensate
<1>9. ASSUME SyncPolicy PROVE FiledUnitsStay'
  BY <1>9 DEF SyncPolicy, Compensate
<1>10. ASSUME EndLifecycle PROVE FiledUnitsStay'
  BY <1>10 DEF EndLifecycle, Compensate
<1>11. ASSUME Commit, UNCHANGED installVars PROVE FiledUnitsStay'
  BY <1>11 DEF Commit
<1>12. CASE UNCHANGED <<committed, filed, unit>>
  BY <1>12
<1> QED
  BY <1>1, <1>2, <1>3, <1>4, <1>5, <1>6, <1>7, <1>8, <1>9, <1>10, <1>11, <1>12, StepKinds
     DEF Inspect, PassOver, StageModule, StageDirectory, StageSettings, StageBinding,
        CleanConfig, PutBack, Verify, Recovered, DeleteModule, DeleteSettings,
        DeleteDirectory, RevokePolicy, Finish, Publish, InitializeSettings,
        SynchronizeLanguage, Conclude

\* What was verified stays.
LEMMA VerifiedStep ==
    ASSUME PlaceType, Phases, Verified, CommandNext
    PROVE  Verified'
<1> USE DEF Phases, Installing, Verified, Intact, Put
<1>1. ASSUME Quiesce, UNCHANGED installVars PROVE Verified'
  BY <1>1 DEF Quiesce
<1>2. ASSUME Inspect, UNCHANGED installVars PROVE Verified'
  BY <1>2 DEF Inspect
<1>3. ASSUME PassOver, UNCHANGED installVars PROVE Verified'
  BY <1>3 DEF PassOver
<1>4. ASSUME AwaitStop, UNCHANGED installVars PROVE Verified'
  BY <1>4 DEF AwaitStop, Stopped
<1>5. ASSUME StageModule, UNCHANGED installVars PROVE Verified'
  BY <1>5 DEF StageModule
<1>6. ASSUME StageDirectory, UNCHANGED installVars PROVE Verified'
  BY <1>6 DEF StageDirectory, Goes
<1>7. ASSUME StageSettings, UNCHANGED installVars PROVE Verified'
  BY <1>7 DEF StageSettings
<1>8. ASSUME StageBinding, UNCHANGED installVars PROVE Verified'
  BY <1>8 DEF StageBinding
<1>9. ASSUME CleanConfig, UNCHANGED installVars PROVE Verified'
  BY <1>9 DEF CleanConfig, MoreToClean
<1>10. ASSUME Commit, UNCHANGED installVars PROVE Verified'
  BY <1>10 DEF Commit
<1>11. ASSUME PutBack, UNCHANGED installVars PROVE Verified'
  BY <1>11 DEF PutBack
<1>12. ASSUME Verify, UNCHANGED installVars PROVE Verified'
  BY <1>12 DEF Verify
<1>13. ASSUME Reactivate, UNCHANGED installVars PROVE Verified'
  BY <1>13 DEF Reactivate
<1>14. ASSUME Recovered, UNCHANGED installVars PROVE Verified'
  BY <1>14 DEF Recovered
<1>15. ASSUME DeleteModule, UNCHANGED installVars PROVE Verified'
  BY <1>15 DEF DeleteModule, Owed
<1>16. ASSUME DeleteSettings, UNCHANGED installVars PROVE Verified'
  BY <1>16 DEF DeleteSettings, SettingsEnds, Owed
<1>17. ASSUME DeleteDirectory, UNCHANGED installVars PROVE Verified'
  BY <1>17 DEF DeleteDirectory, DirectoryEnds, Owed
<1>18. ASSUME RevokePolicy, UNCHANGED installVars PROVE Verified'
  BY <1>18 DEF RevokePolicy, Owed
<1>19. ASSUME Retire, UNCHANGED installVars PROVE Verified'
  BY <1>19 DEF Retire
<1>20. ASSUME Finish, UNCHANGED installVars PROVE Verified'
  BY <1>20 DEF Finish
<1>21. ASSUME NEW u \in UnitSet, ManagerStops(u), UNCHANGED installVars PROVE Verified'
  BY <1>21 DEF ManagerStops
<1>22. ASSUME Publish PROVE Verified'
  BY <1>22 DEF Publish
<1>23. ASSUME InitializeSettings PROVE Verified'
  BY <1>23 DEF InitializeSettings, Unpublish
<1>24. ASSUME SynchronizeLanguage PROVE Verified'
  BY <1>24 DEF SynchronizeLanguage, Unpublish, SettingsAfter
<1>25. ASSUME ActivateBinding PROVE Verified'
  BY <1>25 DEF ActivateBinding, Compensate
<1>26. ASSUME ReconcileFeatures PROVE Verified'
  BY <1>26 DEF ReconcileFeatures, Compensate
<1>27. ASSUME SyncPolicy PROVE Verified'
  BY <1>27 DEF SyncPolicy, Compensate
<1>28. ASSUME InstallService PROVE Verified'
  BY <1>28 DEF InstallService, ServiceLeft
<1>29. ASSUME EndLifecycle PROVE Verified'
  BY <1>29 DEF EndLifecycle, Compensate
<1>30. ASSUME Conclude PROVE Verified'
  BY <1>30 DEF Conclude
<1>31. CASE UNCHANGED <<at, result, evidence, place>>
  BY <1>31
<1> QED
  BY <1>1, <1>2, <1>3, <1>4, <1>5, <1>6, <1>7, <1>8, <1>9, <1>10, <1>11, <1>12, <1>13, <1>14,
     <1>15, <1>16, <1>17, <1>18, <1>19, <1>20, <1>21, <1>22, <1>23, <1>24, <1>25, <1>26,
     <1>27, <1>28, <1>29, <1>30, <1>31, StepKinds

\* An installation keeps to its course.
LEMMA InstalledStep ==
    ASSUME PlaceType, UnitType, Phases, Counted,
           Installed, CommandNext
    PROVE  Installed'
<1> USE DEF Phases, Installing, Counted, Installed, Put, Become
<1>1. ASSUME Quiesce, UNCHANGED installVars PROVE Installed'
  BY <1>1 DEF Quiesce
<1>2. ASSUME Inspect, UNCHANGED installVars PROVE Installed'
  BY <1>2 DEF Inspect
<1>3. ASSUME PassOver, UNCHANGED installVars PROVE Installed'
  BY <1>3 DEF PassOver
<1>4. ASSUME AwaitStop, UNCHANGED installVars PROVE Installed'
  BY <1>4 DEF AwaitStop, Stopped
<1>5. ASSUME StageModule, UNCHANGED installVars PROVE Installed'
  BY <1>5 DEF StageModule
<1>6. ASSUME StageDirectory, UNCHANGED installVars PROVE Installed'
  BY <1>6 DEF StageDirectory, Goes
<1>7. ASSUME StageSettings, UNCHANGED installVars PROVE Installed'
  BY <1>7 DEF StageSettings
<1>8. ASSUME StageBinding, UNCHANGED installVars PROVE Installed'
  BY <1>8 DEF StageBinding
<1>9. ASSUME CleanConfig, UNCHANGED installVars PROVE Installed'
  BY <1>9 DEF CleanConfig, MoreToClean
<1>10. ASSUME Commit, UNCHANGED installVars PROVE Installed'
  BY <1>10 DEF Commit
<1>11. ASSUME PutBack, UNCHANGED installVars PROVE Installed'
  BY <1>11 DEF PutBack
<1>12. ASSUME Verify, UNCHANGED installVars PROVE Installed'
  BY <1>12 DEF Verify
<1>13. ASSUME Reactivate, UNCHANGED installVars PROVE Installed'
  BY <1>13 DEF Reactivate
<1>14. ASSUME Recovered, UNCHANGED installVars PROVE Installed'
  BY <1>14 DEF Recovered
<1>15. ASSUME DeleteModule, UNCHANGED installVars PROVE Installed'
  BY <1>15 DEF DeleteModule, Owed
<1>16. ASSUME DeleteSettings, UNCHANGED installVars PROVE Installed'
  BY <1>16 DEF DeleteSettings, SettingsEnds, Owed
<1>17. ASSUME DeleteDirectory, UNCHANGED installVars PROVE Installed'
  BY <1>17 DEF DeleteDirectory, DirectoryEnds, Owed
<1>18. ASSUME RevokePolicy, UNCHANGED installVars PROVE Installed'
  BY <1>18 DEF RevokePolicy, Owed
<1>19. ASSUME Retire, UNCHANGED installVars PROVE Installed'
  BY <1>19 DEF Retire
<1>20. ASSUME Finish, UNCHANGED installVars PROVE Installed'
  BY <1>20 DEF Finish
<1>21. ASSUME NEW u \in UnitSet, ManagerStops(u), UNCHANGED installVars PROVE Installed'
  <2>1. /\ at' = at /\ place' = place /\ k' = k /\ before' = before /\ verdict' = verdict
        /\ result' = result /\ failed' = failed
    BY <1>21 DEF ManagerStops
  <2>2. \A v \in UnitSet : unit[v] = "active" => unit'[v] = "active"
    BY <1>21 DEF ManagerStops
  <2>3. \A n \in 1..(k - 1) : at = "lifecycle" => Units[n] \in UnitSet
    BY UnitAt, Lengths
  <2> QED
    BY <2>1, <2>2, <2>3
<1>22. ASSUME Publish PROVE Installed'
  BY <1>22, Named, Names DEF Publish
<1>23. ASSUME InitializeSettings PROVE Installed'
  BY <1>23, Named, Names DEF InitializeSettings, Unpublish
<1>24. ASSUME SynchronizeLanguage PROVE Installed'
  BY <1>24, Named, Names DEF SynchronizeLanguage, Unpublish, SettingsAfter
<1>25. ASSUME ActivateBinding PROVE Installed'
  BY <1>25, Named, Names DEF ActivateBinding, Compensate
<1>26. ASSUME ReconcileFeatures PROVE Installed'
  BY <1>26 DEF ReconcileFeatures, Compensate
<1>27. ASSUME SyncPolicy PROVE Installed'
  BY <1>27 DEF SyncPolicy, Compensate
<1>28. ASSUME InstallService PROVE Installed'
  BY <1>28, UnitAt DEF InstallService, ServiceLeft
<1>29. ASSUME EndLifecycle PROVE Installed'
  BY <1>29, UnitIndex DEF EndLifecycle, Compensate
<1>30. ASSUME Conclude PROVE Installed'
  BY <1>30 DEF Conclude
<1>31. CASE UNCHANGED <<at, k, place, before, failed, unit, verdict, result>>
  BY <1>31
<1> QED
  BY <1>1, <1>2, <1>3, <1>4, <1>5, <1>6, <1>7, <1>8, <1>9, <1>10, <1>11, <1>12, <1>13, <1>14,
     <1>15, <1>16, <1>17, <1>18, <1>19, <1>20, <1>21, <1>22, <1>23, <1>24, <1>25, <1>26,
     <1>27, <1>28, <1>29, <1>30, <1>31, StepKinds

\* The invariant holds before a command.
LEMMA InitInv == CommandInit => IInv
<1> SUFFICES ASSUME CommandInit PROVE IInv
  OBVIOUS
<1>1. InstallTypeOK /\ Counted
  BY InitTyped
<1>2. CASE InstallInit
  <2>1. /\ at = "publish" /\ removing = TRUE /\ evidence = {} /\ filed = {} /\ receipt = <<>>
        /\ committed = FALSE /\ result = "none" /\ verdict = "none" /\ before = place
        /\ \A t \in Things \ {"module"} : place[t] \in {"active", "absent"}
        /\ place["module"] = "absent"
    BY <1>2, Named DEF InstallInit
  <2>2. Phases /\ Accounted
    BY <2>1 DEF Phases, Accounted, Installing
  <2>3. MovedAside /\ GoneOrOwed
    BY <2>1 DEF MovedAside, GoneOrOwed
  <2>4. SettingsAreSafe /\ FiledUnitsStay /\ Verified
    BY <2>1, Named, Names DEF SettingsAreSafe, FiledUnitsStay, Verified
  <2>5. Installed
    BY <2>1 DEF Installed
  <2> QED
    BY <1>1, <2>2, <2>3, <2>4, <2>5 DEF IInv
<1>3. CASE Init /\ before = place /\ failed = FALSE /\ verdict = "not_asked"
  <2>1. /\ at = "extras" /\ evidence = Captured /\ filed = Filed /\ committed = FALSE
        /\ result = "none" /\ verdict = "not_asked"
        /\ \A t \in Things \ {"module"} : place[t] \in {"active", "absent"}
        /\ place["module"] = "active" /\ place \in [Things -> Places]
    BY <1>1, <1>3, Named DEF Init, InstallTypeOK, DataOK
  <2>2. Phases
    BY <2>1 DEF Phases, Installing
  <2>3. Accounted
    BY <2>1, CaptureDoes DEF Accounted
  <2>4. MovedAside /\ GoneOrOwed
    BY <2>1 DEF MovedAside, GoneOrOwed
  <2>5. SettingsAreSafe /\ FiledUnitsStay /\ Verified
    BY <2>1, Named, Names DEF SettingsAreSafe, FiledUnitsStay, Verified, Filed
  <2>6. Installed
    BY <2>1 DEF Installed, Installing
  <2> QED
    BY <1>1, <2>2, <2>3, <2>4, <2>5, <2>6 DEF IInv
<1> QED
  BY <1>2, <1>3 DEF CommandInit

\* Every step of either command keeps the invariant.
LEMMA NextInv == IInv /\ [CommandNext]_allVars => IInv'
<1> SUFFICES ASSUME IInv, [CommandNext]_allVars PROVE IInv'
  OBVIOUS
<1>0. /\ place \in [Things -> Places] /\ unit \in [UnitSet -> UnitStates]
      /\ evidence \subseteq Things /\ filed \subseteq UnitSet
  BY DEF IInv, InstallTypeOK, DataOK
<1>1. CASE CommandNext
  <2>1. InstallTypeOK' /\ Counted'
    BY <1>1, TypeStep DEF IInv
  <2>2. Phases' /\ Accounted'
    BY <1>0, <1>1, PhasesStep, AccountedStep DEF IInv
  <2>3. MovedAside' /\ GoneOrOwed'
    BY <1>0, <1>1, MovedAsideStep, GoneOrOwedStep DEF IInv
  <2>4. SettingsAreSafe' /\ FiledUnitsStay' /\ Verified'
    BY <1>0, <1>1, SettingsStep, FiledStep, VerifiedStep DEF IInv
  <2>5. Installed'
    BY <1>0, <1>1, InstalledStep DEF IInv
  <2> QED
    BY <2>1, <2>2, <2>3, <2>4, <2>5 DEF IInv
<1>2. CASE UNCHANGED allVars
  <2>1. UNCHANGED <<at, k, place, evidence, removing, local, filed, unit, receipt, undo, cleaned,
                    committed, debts, result, before, failed, verdict>>
    BY <1>2 DEF allVars
  <2>2. InstallTypeOK' /\ Counted'
    BY <2>1 DEF IInv, InstallTypeOK, DataOK, Counted
  <2>3. Phases' /\ Accounted'
    BY <2>1 DEF IInv, Phases, Accounted, Installing
  <2>4. MovedAside' /\ GoneOrOwed'
    BY <2>1 DEF IInv, MovedAside, GoneOrOwed, Cleanup, RemovesSettings
  <2>5. SettingsAreSafe' /\ FiledUnitsStay' /\ Verified'
    BY <2>1 DEF IInv, SettingsAreSafe, FiledUnitsStay, Verified, Intact, RemovesSettings
  <2>6. Installed'
    BY <2>1 DEF IInv, Installed, Installing
  <2> QED
    BY <2>2, <2>3, <2>4, <2>5, <2>6 DEF IInv
<1> QED
  BY <1>1, <1>2

\* The reports follow from where each thing is when they are made.
LEMMA ReportsHold == IInv => ReportIsTrue /\ NothingLostEarly /\ InstallReportIsTrue
<1> SUFFICES ASSUME IInv PROVE ReportIsTrue /\ NothingLostEarly /\ InstallReportIsTrue
  OBVIOUS
<1>0. place \in [Things -> Places] /\ evidence \subseteq Things
  BY DEF IInv, InstallTypeOK, DataOK
<1>1. ReportIsTrue
  <2>1. ASSUME result = "restored"
        PROVE  /\ ~committed /\ \A t \in Things : place[t] \in {"active", "absent"}
               /\ \A u \in filed : unit[u] # "missing"
    <3>1. ~committed /\ ~Installing
      BY <2>1 DEF IInv, Phases, Installing
    <3> QED
      BY <2>1, <3>1 DEF IInv, Accounted, Verified, Intact, FiledUnitsStay
  <2> QED
    BY <2>1 DEF IInv, GoneOrOwed, Rid, OutOfUse, ReportIsTrue
<1>2. NothingLostEarly
  <2>1. ASSUME ~committed PROVE \A t \in evidence \ {"binding"} : place[t] \in {"active", "staged"}
    <3>1. CASE Installing
      BY <3>1 DEF IInv, Phases
    <3>2. CASE ~Installing
      BY <2>1, <3>2 DEF IInv, Accounted
    <3> QED
      BY <3>1, <3>2
  <2>2. ASSUME ~committed, place["binding"] \in Dropped PROVE result \in {"none", "integrity_lost"}
    <3>1. "binding" \in Things
      BY Named
    <3>2. ~Installing
      BY <2>2, <3>1 DEF IInv, Installed, Dropped
    <3>3. "binding" \in evidence
      BY <2>2, <3>1, <3>2 DEF IInv, Accounted, Dropped
    <3>4. result \notin {"restored", "unrestored"}
      BY <2>2, <3>3 DEF IInv, Verified, Intact, Dropped
    <3>5. result \notin {"done", "incomplete"}
      BY <2>2 DEF IInv, Phases
    <3> QED
      BY <3>4, <3>5 DEF IInv, InstallTypeOK, DataOK, Results
  <2> QED
    BY <2>1, <2>2 DEF IInv, FiledUnitsStay, SettingsAreSafe, RemovesSettings, NothingLostEarly
<1>3. InstallReportIsTrue
  <2>1. ASSUME verdict = "rolled_back"
        PROVE  /\ \A t \in Things \ {"binding"} : place[t] \in {"gone", "absent"}
               /\ place["binding"] \in Dropped \cup {"absent"}
               /\ \A u \in UnitSet : unit[u] = "missing"
    <3>1. result = "done" /\ removing
      BY <2>1 DEF IInv, Phases
    <3>2. Cleanup = DirectorySet
      BY <3>1 DEF Cleanup
    <3> QED
      BY <3>1, <3>2 DEF IInv, GoneOrOwed, RemovesSettings, Rid, OutOfUse, Things
  <2> QED
    BY <2>1 DEF IInv, Installed, InstallReportIsTrue
<1> QED
  BY <1>1, <1>2, <1>3


\* The invariant that everything below rests on.
THEOREM Invariant == CommandSpec => []IInv
  BY InitInv, NextInv, PTL DEF CommandSpec

\* Type correctness (the state of modules.rs, module_uninstall.rs).
THEOREM TypeInvariant == CommandSpec => []InstallTypeOK
<1>1. IInv => InstallTypeOK
  BY DEF IInv
<1> QED
  BY <1>1, Invariant, PTL

\* What the caller of an uninstall is told is so: a restoration put everything
\* back, a success left nothing (modules.rs, uninstall_after_extras).
THEOREM UninstallReportsAreTrue == CommandSpec => []ReportIsTrue
  BY ReportsHold, Invariant, PTL

\* Nothing but the binding can be lost before the commit, and the settings of
\* the user go only behind the module (modules.rs, uninstall_after_extras).
THEOREM NothingIsLostEarly == CommandSpec => []NothingLostEarly
  BY ReportsHold, Invariant, PTL

\* What the caller of an install is told is so, with the uninstall as its
\* compensation (modules.rs, install_require_tree).
THEOREM InstallReportsAreTrue == CommandSpec => []InstallReportIsTrue
  BY ReportsHold, Invariant, PTL

\* A unit starts in this step.
Starts == \E u \in UnitSet : unit[u] = "inactive" /\ unit'[u] = "active"

\* A step that starts a unit finds all in place.
LEMMA StartsStep ==
    ASSUME UnitType, Phases, Verified, CommandNext
    PROVE  Starts => ~committed /\ Intact
<1> USE DEF Phases, Installing, Verified, Starts, Intact, Become
<1>1. ASSUME Quiesce, UNCHANGED installVars PROVE Starts => ~committed /\ Intact
  BY <1>1 DEF Quiesce
<1>2. ASSUME AwaitStop, UNCHANGED installVars PROVE Starts => ~committed /\ Intact
  BY <1>2 DEF AwaitStop, Stopped
<1>3. ASSUME NEW u \in UnitSet, ManagerStops(u), UNCHANGED installVars
      PROVE  Starts => ~committed /\ Intact
  BY <1>3 DEF ManagerStops
<1>4. ASSUME Reactivate, UNCHANGED installVars PROVE Starts => ~committed /\ Intact
  BY <1>4 DEF Reactivate
<1>5. ASSUME Retire, UNCHANGED installVars PROVE Starts => ~committed /\ Intact
  BY <1>5 DEF Retire
<1>6. ASSUME InstallService PROVE Starts => ~committed /\ Intact
  BY <1>6 DEF InstallService, ServiceLeft
<1>7. CASE UNCHANGED <<unit>>
  BY <1>7
<1> QED
  BY <1>1, <1>2, <1>3, <1>4, <1>5, <1>6, <1>7, StepKinds
     DEF Inspect, PassOver, StageModule, StageDirectory, StageSettings, StageBinding,
        CleanConfig, Commit, PutBack, Verify, Recovered, DeleteModule, DeleteSettings,
        DeleteDirectory, RevokePolicy, Finish, Publish, InitializeSettings,
        SynchronizeLanguage, ActivateBinding, ReconcileFeatures, SyncPolicy, EndLifecycle,
        Conclude

\* What the commit leaves no way back from.
NoReturn ==
    committed => /\ committed'
                 /\ \A t \in Things \ {"settings"} : place'[t] = "active" => place[t] = "active"
                 /\ \A u \in UnitSet : unit'[u] = "active" => unit[u] = "active"
                 /\ result' \in {"none", "done", "incomplete"}

\* No step goes back behind the commit.
LEMMA NoReturnStep ==
    ASSUME PlaceType, UnitType, Phases,
           CommandNext
    PROVE  NoReturn
<1> USE DEF Phases, NoReturn, Put, Become
<1>1. ASSUME Quiesce, UNCHANGED installVars PROVE NoReturn
  BY <1>1 DEF Quiesce
<1>2. ASSUME Inspect, UNCHANGED installVars PROVE NoReturn
  BY <1>2 DEF Inspect
<1>3. ASSUME PassOver, UNCHANGED installVars PROVE NoReturn
  BY <1>3 DEF PassOver
<1>4. ASSUME AwaitStop, UNCHANGED installVars PROVE NoReturn
  BY <1>4 DEF AwaitStop, Stopped
<1>5. ASSUME StageModule, UNCHANGED installVars PROVE NoReturn
  BY <1>5 DEF StageModule
<1>6. ASSUME StageDirectory, UNCHANGED installVars PROVE NoReturn
  BY <1>6 DEF StageDirectory, Goes
<1>7. ASSUME StageSettings, UNCHANGED installVars PROVE NoReturn
  BY <1>7 DEF StageSettings
<1>8. ASSUME StageBinding, UNCHANGED installVars PROVE NoReturn
  BY <1>8 DEF StageBinding
<1>9. ASSUME CleanConfig, UNCHANGED installVars PROVE NoReturn
  BY <1>9 DEF CleanConfig, MoreToClean
<1>10. ASSUME Commit, UNCHANGED installVars PROVE NoReturn
  BY <1>10 DEF Commit
<1>11. ASSUME PutBack, UNCHANGED installVars PROVE NoReturn
  BY <1>11 DEF PutBack
<1>12. ASSUME Verify, UNCHANGED installVars PROVE NoReturn
  BY <1>12 DEF Verify
<1>13. ASSUME Reactivate, UNCHANGED installVars PROVE NoReturn
  BY <1>13 DEF Reactivate
<1>14. ASSUME Recovered, UNCHANGED installVars PROVE NoReturn
  BY <1>14 DEF Recovered
<1>15. ASSUME DeleteModule, UNCHANGED installVars PROVE NoReturn
  BY <1>15 DEF DeleteModule, Owed
<1>16. ASSUME DeleteSettings, UNCHANGED installVars PROVE NoReturn
  BY <1>16, Named DEF DeleteSettings, SettingsEnds, Owed
<1>17. ASSUME DeleteDirectory, UNCHANGED installVars PROVE NoReturn
  BY <1>17, Named DEF DeleteDirectory, DirectoryEnds, Owed
<1>18. ASSUME RevokePolicy, UNCHANGED installVars PROVE NoReturn
  BY <1>18 DEF RevokePolicy, Owed
<1>19. ASSUME Retire, UNCHANGED installVars PROVE NoReturn
  BY <1>19 DEF Retire
<1>20. ASSUME Finish, UNCHANGED installVars PROVE NoReturn
  BY <1>20 DEF Finish
<1>21. ASSUME NEW u \in UnitSet, ManagerStops(u), UNCHANGED installVars PROVE NoReturn
  BY <1>21 DEF ManagerStops
<1>22. ASSUME Publish PROVE NoReturn
  BY <1>22 DEF Publish
<1>23. ASSUME InitializeSettings PROVE NoReturn
  BY <1>23 DEF InitializeSettings, Unpublish
<1>24. ASSUME SynchronizeLanguage PROVE NoReturn
  BY <1>24 DEF SynchronizeLanguage, Unpublish, SettingsAfter
<1>25. ASSUME ActivateBinding PROVE NoReturn
  BY <1>25 DEF ActivateBinding, Compensate
<1>26. ASSUME ReconcileFeatures PROVE NoReturn
  BY <1>26 DEF ReconcileFeatures, Compensate
<1>27. ASSUME SyncPolicy PROVE NoReturn
  BY <1>27 DEF SyncPolicy, Compensate
<1>28. ASSUME InstallService PROVE NoReturn
  BY <1>28 DEF InstallService, ServiceLeft
<1>29. ASSUME EndLifecycle PROVE NoReturn
  BY <1>29 DEF EndLifecycle, Compensate
<1>30. ASSUME Conclude PROVE NoReturn
  BY <1>30 DEF Conclude
<1>31. CASE UNCHANGED <<committed, place, unit, result>>
  BY <1>31
<1> QED
  BY <1>1, <1>2, <1>3, <1>4, <1>5, <1>6, <1>7, <1>8, <1>9, <1>10, <1>11, <1>12, <1>13, <1>14,
     <1>15, <1>16, <1>17, <1>18, <1>19, <1>20, <1>21, <1>22, <1>23, <1>24, <1>25, <1>26,
     <1>27, <1>28, <1>29, <1>30, <1>31, StepKinds

\* Services are started only on an installation that is wholly back
\* (modules.rs, uninstall_internal).
THEOREM StartsFindAllInPlace == CommandSpec => StartsOnlyIntact
<1> DEFINE InPlace(u) == unit[u] = "inactive" /\ unit'[u] = "active" =>
                           ~committed /\ \A t \in evidence : place[t] = "active"
<1>1. IInv /\ [CommandNext]_allVars => [\A u \in UnitSet : InPlace(u)]_vars
  <2> SUFFICES ASSUME IInv, [CommandNext]_allVars PROVE [\A u \in UnitSet : InPlace(u)]_vars
    OBVIOUS
  <2>1. CASE CommandNext
    <3>1. Starts => ~committed /\ Intact
      BY <2>1, StartsStep DEF IInv, InstallTypeOK, DataOK
    <3> QED
      BY <3>1 DEF Starts, Intact
  <2>2. CASE UNCHANGED allVars
    BY <2>2 DEF allVars
  <2> QED
    BY <2>1, <2>2
<1> QED
  BY <1>1, Invariant, PTL DEF CommandSpec, StartsOnlyIntact

\* The commit is final: nothing comes back, nothing is started, no restoration
\* is reported (modules.rs, uninstall_after_extras).
THEOREM CommitsAreFinal == CommandSpec => CommitIsFinal
<1>1. IInv /\ [CommandNext]_allVars => [NoReturn]_vars
  <2> SUFFICES ASSUME IInv, [CommandNext]_allVars PROVE [NoReturn]_vars
    OBVIOUS
  <2>1. CASE CommandNext
    BY <2>1, NoReturnStep DEF IInv, InstallTypeOK, DataOK
  <2>2. CASE UNCHANGED allVars
    BY <2>2 DEF allVars
  <2> QED
    BY <2>1, <2>2
<1> QED
  BY <1>1, Invariant, PTL DEF CommandSpec, CommitIsFinal, NoReturn

=============================================================================
