--------------------------- MODULE ServiceJournal ---------------------------
(***************************************************************************)
(* The durable journal of a module update's user services and the driver   *)
(* that runs one step of it (module_uninstall.rs): the plan of the update, *)
(* the immutable rollback receipt, the two-phase mutation journal, its     *)
(* checkpoint file and the process that records an intent, runs the effect *)
(* it was given, verifies it and closes the intent.                        *)
(*                                                                         *)
(* A checkpoint is published by a rename and becomes durable by the fsync  *)
(* of its directory; `file` is what a reader opens, `durable` what a power *)
(* loss leaves.  Any process may die between any two of its steps.         *)
(***************************************************************************)
EXTENDS Naturals, Sequences, SequencesExt, FiniteSets

CONSTANTS
    Units,          \* names of user units
    Drivers,        \* processes that may drive or reconcile the transaction
    Scenarios,      \* what is installed and proposed: [Units -> Scenario]
    Nobody          \* no process holds the lock

ASSUME NobodyAssumption == Nobody \notin Drivers

VARIABLES
    case,           \* the scenario: declarations before and after, unit found
    service,        \* each unit as systemd and the disk have it
    file,           \* the published checkpoint, or NoFile
    durable,        \* the checkpoint a power loss leaves
    life,           \* holder of <module>.managed-services-driver.lock
    guard,          \* holder of <module>.managed-services-update.lock
    driver,         \* each process: where it is and what it holds in memory
    calls,          \* how often the effect of a step was invoked
    happened,       \* the steps whose effect did take place
    booted          \* the machine has lost power during the transaction

vars == <<case, service, file, durable, life, guard, driver, calls, happened, booted>>

Ops == {"Stop", "Disable", "WriteUnit", "RemoveUnit", "ManagerReload", "Enable", "Start"}
Steps == Units \X Ops
UnitFiles == {"none", "old", "new"}
Services == [file : UnitFiles, loaded : UnitFiles, active : BOOLEAN, enabled : BOOLEAN]
Specs == {"undeclared", "before", "after"}   \* a unit's declaration in a manifest
Scenario == [previous : Specs, proposed : Specs, found : Services, required : BOOLEAN]

ASSUME ScenariosAssumption == Scenarios \subseteq [Units -> Scenario]

\* A durable record of one operation, and the file that keeps the records.
Entries == [step : Steps, verified : BOOLEAN]
Checkpoints == [generation : Nat, journal : Seq(Entries), exists : BOOLEAN]
Places == {"idle", "opening", "intent", "syncing intent", "authorised", "applied",
           "acknowledge", "syncing"}

NoFile == [generation |-> 0, journal |-> <<>>, exists |-> FALSE]
NoStep == <<"none", "none">>
Memory == [pc : Places, next : Checkpoints, step : Steps \cup {NoStep}]
Idle == [pc |-> "idle", next |-> NoFile, step |-> NoStep]

-----------------------------------------------------------------------------
(* Plan, baseline and receipt *)

\* plan_managed_service_changes: what the update does to the unit.
Transition(u) ==
    IF case[u].previous = "undeclared" THEN "Add"
    ELSE IF case[u].proposed = "undeclared" THEN "Retire"
    ELSE IF case[u].previous = case[u].proposed THEN "Keep"
    ELSE "Replace"

\* classify_managed_update_observation, on what the inspection read: only a
\* state a rollback can reproduce is a baseline.
Preservable(u) ==
    LET found == case[u].found
    IN  IF found.file = "none"
        THEN found.loaded = "none" /\ ~found.active /\ ~case[u].required
        ELSE found.loaded = found.file /\ Transition(u) # "Add"

\* build_managed_service_rollback_receipt: the recovery target of the unit.
Target(u) ==
    IF Transition(u) = "Add" THEN "InitiallyVacant"
    ELSE IF case[u].found.file = "none" THEN "OriginallyAbsent"
    ELSE "OriginalUnit"

WasActive(u)  == Target(u) = "OriginalUnit" /\ case[u].found.active
WasEnabled(u) == Target(u) = "OriginalUnit" /\ case[u].found.enabled

-----------------------------------------------------------------------------
(* The mutation journal *)

Entry(step, verified) == [step |-> step, verified |-> verified]
Recorded(journal, step) == \E i \in DOMAIN journal : journal[i].step = step
Verified(journal, u, op) == Contains(journal, Entry(<<u, op>>, TRUE))
Pending(journal) == {journal[i].step : i \in {k \in DOMAIN journal : ~journal[k].verified}}

\* The operations a transition allows on a unit with that recovery target.
Allowed(u) ==
    CASE Transition(u) = "Add" -> {"WriteUnit", "ManagerReload", "Enable", "Start"}
      [] Transition(u) = "Replace" /\ Target(u) = "OriginallyAbsent"
            -> {"WriteUnit", "ManagerReload", "Enable", "Start"}
      [] Transition(u) = "Replace" /\ Target(u) = "OriginalUnit" -> Ops \ {"RemoveUnit"}
      [] Transition(u) = "Retire" /\ Target(u) = "OriginalUnit"
            -> {"Stop", "Disable", "RemoveUnit", "ManagerReload"}
      [] OTHER -> {}

\* What must be verified before the operation, by the order of the transition.
InOrder(journal, u, op) ==
    CASE op = "Stop"    -> WasActive(u)
      [] op = "Disable" -> WasEnabled(u)
      [] op \in {"WriteUnit", "RemoveUnit"} ->
            /\ WasActive(u) => Verified(journal, u, "Stop")
            /\ WasEnabled(u) => Verified(journal, u, "Disable")
      [] op = "ManagerReload" ->
            Verified(journal, u, "WriteUnit") \/ Verified(journal, u, "RemoveUnit")
      [] OTHER -> Verified(journal, u, "ManagerReload")

\* ManagedServiceMutationJournal::begin with its order check dropped.
MayBeginInAnyOrder(journal, u, op) ==
    /\ Pending(journal) = {}
    /\ ~Recorded(journal, <<u, op>>)
    /\ op \in Allowed(u)

\* ManagedServiceMutationJournal::begin accepts the operation.
MayBegin(journal, u, op) ==
    /\ Pending(journal) = {}
    /\ ~Recorded(journal, <<u, op>>)
    /\ op \in Allowed(u)
    /\ InOrder(journal, u, op)

Begun(cp, step) ==
    [cp EXCEPT !.journal = Append(@, Entry(step, FALSE)), !.generation = @ + 1]

\* ManagedServiceMutationJournal::confirm of the pending tail.
Confirmed(cp) ==
    [cp EXCEPT !.journal = Append(Front(@), Entry(Last(@).step, TRUE)), !.generation = @ + 1]

\* The compensation scope with creations that were never verified left out.
ScopeOfWrittenUnits(journal) ==
    {u \in Units : Verified(journal, u, "WriteUnit")}

\* ManagedServiceMutationJournal::compensation_scope: the units a rollback must
\* put back; it is refused while an intent is pending.
CompensationScope(journal) == {journal[i].step[1] : i \in DOMAIN journal}

\* validate_managed_txn_successor, and the vacant slot the first write needs:
\* the journal grows by one pending intent or its tail is confirmed.
ValidSuccessor(prev, next) ==
    IF ~prev.exists
    THEN next.generation = 0
    ELSE /\ next.generation = prev.generation + 1
         /\ \/ \E u \in Units, op \in Ops :
                  /\ MayBegin(prev.journal, u, op)
                  /\ next = Begun(prev, <<u, op>>)
            \/ /\ Pending(prev.journal) # {}
               /\ next = Confirmed(prev)

-----------------------------------------------------------------------------
(* The driver: managed_txn_perform_verified_step *)

At(d, pc) == driver[d].pc = pc
Go(d, pc) == driver' = [driver EXCEPT ![d].pc = pc]

\* The process returns or dies: both flocks fall with its descriptors.
Leave(d) ==
    /\ driver' = [driver EXCEPT ![d] = Idle]
    /\ life' = IF life = d THEN Nobody ELSE life
    /\ guard' = IF guard = d THEN Nobody ELSE guard

\* The first checkpoint of the transaction: an empty journal, generation 0,
\* once every unit of the plan was captured.
Open(d) ==
    /\ At(d, "idle")
    /\ \A u \in Units : Preservable(u)
    /\ driver' = [driver EXCEPT ![d] =
          [pc |-> "opening", next |-> [NoFile EXCEPT !.exists = TRUE], step |-> NoStep]]
    /\ UNCHANGED <<case, service, file, durable, life, guard, calls, happened, booted>>

\* Take the lifetime lock without waiting, load the checkpoint and begin the
\* operation in memory.
Begin(d, u, op) ==
    /\ At(d, "idle")
    /\ life = Nobody
    /\ file.exists
    /\ MayBegin(file.journal, u, op)
    /\ life' = d
    /\ driver' = [driver EXCEPT ![d] =
          [pc |-> "intent", next |-> Begun(file, <<u, op>>), step |-> <<u, op>>]]
    /\ UNCHANGED <<case, service, file, durable, guard, calls, happened, booted>>

\* Somebody inspects an unresolved intent whose effect took place and confirms
\* it through the same store, without the driver's lifetime lock.
Reconcile(d) ==
    /\ At(d, "idle")
    /\ \E step \in Pending(file.journal) :
          /\ step \in happened
          /\ driver' = [driver EXCEPT ![d] =
                [pc |-> "acknowledge", next |-> Confirmed(file), step |-> step]]
    /\ UNCHANGED <<case, service, file, durable, life, guard, calls, happened, booted>>

\* store_managed_txn_checkpoint up to the rename: lock, compare, publish.
Publish(d) ==
    /\ driver[d].pc \in {"opening", "intent", "acknowledge"}
    /\ guard = Nobody
    /\ ValidSuccessor(file, driver[d].next)
    /\ guard' = d
    /\ file' = driver[d].next
    /\ Go(d, CASE At(d, "opening") -> "syncing"
               [] At(d, "intent")  -> "syncing intent"
               [] OTHER            -> "syncing")
    /\ UNCHANGED <<case, service, durable, life, calls, happened, booted>>

\* The store refuses: the published checkpoint is not the one this follows.
PublishRefused(d) ==
    /\ driver[d].pc \in {"opening", "intent", "acknowledge"}
    /\ guard = Nobody
    /\ ~ValidSuccessor(file, driver[d].next)
    /\ Leave(d)
    /\ UNCHANGED <<case, service, file, durable, calls, happened, booted>>

\* The directory is synced and the checkpoint lock dropped.  Only a stored
\* intent goes on to the effect.
Sync(d) ==
    /\ driver[d].pc \in {"syncing", "syncing intent"}
    /\ durable' = file
    /\ IF At(d, "syncing intent")
       THEN Go(d, "authorised") /\ guard' = Nobody /\ UNCHANGED life
       ELSE Leave(d)
    /\ UNCHANGED <<case, service, file, calls, happened, booted>>

\* The store reports an error after the rename: what is on the disk is open,
\* and the driver returns without running the effect.
SyncFails(d) ==
    /\ driver[d].pc \in {"syncing", "syncing intent"}
    /\ durable' \in {durable, file}
    /\ Leave(d)
    /\ UNCHANGED <<case, service, file, calls, happened, booted>>

\* What the operation does to the unit; a daemon-reload reads every unit file.
Effect(u, op) ==
    CASE op = "Stop"       -> [service EXCEPT ![u].active = FALSE]
      [] op = "Disable"    -> [service EXCEPT ![u].enabled = FALSE]
      [] op = "WriteUnit"  -> [service EXCEPT ![u].file = "new"]
      [] op = "RemoveUnit" -> [service EXCEPT ![u].file = "none"]
      [] op = "Enable"     -> [service EXCEPT ![u].enabled = TRUE]
      [] op = "Start"      -> [service EXCEPT ![u].active = TRUE]
      [] OTHER             -> [v \in Units |-> [service[v] EXCEPT !.loaded = service[v].file]]

\* The effect runs before the intent is stored.
ApplyEarly(d) ==
    /\ driver[d].pc \in {"intent", "authorised"}
    /\ calls[driver[d].step] < 2
    /\ calls' = [calls EXCEPT ![driver[d].step] = @ + 1]
    /\ Go(d, "applied")
    /\ UNCHANGED <<case, service, file, durable, life, guard, happened, booted>>

\* The caller's effect: it may take place or not, and say either; an error
\* returns at once and leaves the intent unresolved.
Apply(d) ==
    /\ At(d, "authorised")
    /\ LET step == driver[d].step
       IN  /\ calls' = [calls EXCEPT ![step] = IF @ < 2 THEN @ + 1 ELSE @]
           /\ \/ /\ service' = Effect(step[1], step[2])
                 /\ happened' = happened \cup {step}
              \/ UNCHANGED <<service, happened>>
    /\ \/ Go(d, "applied") /\ UNCHANGED <<life, guard>>
       \/ Leave(d)
    /\ UNCHANGED <<case, file, durable, booted>>

\* The postcondition holds, the checkpoint is still the one this driver wrote,
\* and the acknowledgement is prepared; otherwise the driver returns.
Verify(d) ==
    /\ At(d, "applied")
    /\ \/ /\ driver[d].step \in happened
          /\ file = driver[d].next
          /\ driver' = [driver EXCEPT ![d].pc = "acknowledge", ![d].next = Confirmed(file)]
          /\ UNCHANGED <<life, guard>>
       \/ Leave(d)
    /\ UNCHANGED <<case, service, file, durable, calls, happened, booted>>

\* The process dies: its memory and its locks are gone, the disk is not.
Crash(d) ==
    /\ ~At(d, "idle")
    /\ Leave(d)
    /\ UNCHANGED <<case, service, file, durable, calls, happened, booted>>

\* The machine stops: a rename whose directory was not synced may be undone.
\* Processes and locks are gone, and the next session starts what is enabled and
\* has a unit file.
PowerLoss ==
    /\ ~booted
    /\ booted' = TRUE
    /\ file' \in {file, durable}
    /\ durable' = file'
    /\ service' = [u \in Units |-> [service[u] EXCEPT
                      !.loaded = service[u].file,
                      !.active = service[u].enabled /\ service[u].file # "none"]]
    /\ driver' = [d \in Drivers |-> Idle]
    /\ life' = Nobody
    /\ guard' = Nobody
    /\ UNCHANGED <<case, calls, happened>>

-----------------------------------------------------------------------------

Init ==
    /\ case \in Scenarios
    /\ service = [u \in Units |-> case[u].found]
    /\ file = NoFile
    /\ durable = NoFile
    /\ life = Nobody
    /\ guard = Nobody
    /\ driver = [d \in Drivers |-> Idle]
    /\ calls = [x \in Steps |-> 0]
    /\ happened = {}
    /\ booted = FALSE

Next ==
    \/ \E d \in Drivers :
          \/ Open(d) \/ Reconcile(d)
          \/ \E u \in Units, op \in Ops : Begin(d, u, op)
          \/ Publish(d) \/ PublishRefused(d) \/ Sync(d) \/ SyncFails(d)
          \/ Apply(d) \/ Verify(d) \/ Crash(d)
    \/ PowerLoss

Spec == Init /\ [][Next]_vars

-----------------------------------------------------------------------------
(* Properties *)

TypeOK ==
    /\ service \in [Units -> Services]
    /\ {life, guard} \subseteq Drivers \cup {Nobody}
    /\ calls \in [Steps -> 0 .. 2]
    /\ happened \subseteq Steps
    /\ booted \in BOOLEAN
    /\ case \in Scenarios
    /\ file \in Checkpoints /\ durable \in Checkpoints
    /\ driver \in [Drivers -> Memory]

\* How far a step has come, as the disk and the world tell it.  What the
\* contract has no name for is named after what went wrong.
StatusOf(x) ==
    IF Contains(durable.journal, Entry(x, TRUE))
    THEN IF calls[x] = 1 /\ x \in happened THEN "confirmed" ELSE "guessed"
    ELSE IF Contains(durable.journal, Entry(x, FALSE))
    THEN IF calls[x] = 0 THEN "intended" ELSE IF calls[x] = 1 THEN "ran" ELSE "ran twice"
    ELSE IF calls[x] = 0 THEN "none" ELSE "ran unrecorded"

StepStatus == [x \in Steps |-> StatusOf(x)]

Contract == INSTANCE JournalContract WITH Steps <- Steps, status <- StepStatus

\* The driver and its checkpoint keep the write-ahead contract through crashes,
\* power losses, stale writers and reconciliation: an effect is invoked at most
\* once and only under an intent that survives a power loss, one intent is open
\* at a time, it is confirmed only if its effect took place, and no writer makes
\* the disk forget an intent or reopen a confirmed one.
ImplementsContract == Contract!ContractSpec

\* A unit that was found enabled and without a file: the baseline check does not
\* look for the link of a file that is not there.
Dangling(u) == case[u].found.file = "none" /\ case[u].found.enabled

\* A unit's file is written, replaced or removed only while the unit is neither
\* running nor enabled, so that systemd never runs or boots a unit whose file
\* changed; but for the first file of a unit that was found enabled without one.
\* (A boot starts what is still enabled: a verified Stop does not outlive it.)
FilesChangeAtRest ==
    [][ \A u \in Units :
          service'[u].file # service[u].file =>
              /\ service[u].active => booted
              /\ service[u].enabled => Dangling(u) /\ service[u].file = "none" ]_vars

\* Whenever a rollback may be planned (no intent is pending), its scope holds
\* every unit that is not as it was found, and a unit that had no file is in it
\* only after its creation was verified.
ScopeCoversChange ==
    file.exists /\ Pending(file.journal) = {} =>
        LET scope == CompensationScope(file.journal)
        IN  /\ \A u \in Units \ scope :
                  /\ service[u].file = case[u].found.file
                  /\ service[u].enabled = case[u].found.enabled
                  /\ booted \/ service[u].active = case[u].found.active
            /\ \A u \in scope : Target(u) # "OriginalUnit" =>
                  Verified(file.journal, u, "WriteUnit")
=============================================================================
