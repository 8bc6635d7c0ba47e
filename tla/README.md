# A verification of N.E.E.B.L.E.S. Boss

TLA+ models of the parts of Boss (the Rust program under `src/`) whose
correctness depends on the order in which threads, processes and failures
act, the TLC configurations that check them on small instances, and TLAPS
proofs. Paths below are relative to the root of the repository, where the
program's crate is in `src/`.

- [The system](#the-system): inventory, interactions, what is hard
- [The modules](#the-modules): what each models and how it maps to the code
- [The runs](#the-runs): what TLC checks, bounds, fairness
- [The proofs](#the-proofs)
- [Disagreements found](#disagreements-found)
- [What is not modelled](#what-is-not-modelled)
- [Plan](#plan)

## The system

Boss is a desktop-session daemon and CLI that installs, opens, updates and
removes *modules*. A module is a directory with a contract (`manifest`,
lifecycle, services, settings, variables), a material binding (the packages
it runs on) and, while it is open, one *runtime* process connected to Boss.

| Component | State it keeps | Operations | Interacts with |
|---|---|---|---|
| IPC middleware (`ipc_middleware.rs`) | job registry: jobs, running count, results waiting to be collected | `run`, `status`, the worker | every command of `ipc.rs` and every governed request of a runtime (`module_ipc/server.rs`) is executed as a job |
| Module IPC, connections (`module_ipc/server.rs`, `registry.rs`) | the registered runtime of each module, a handler and a writer thread per connection | register, unregister, `client_loop` | invocations, live variables, openings |
| Module IPC, invocation (`client.rs`, `pending.rs`) | pending requests by id, each with the session that must answer | `invoke`, `resolve_response`, `resolve_error`, `fail_session`, `cancel` | the writer of a connection, the handler that reads its answers |
| Openings (`registry.rs`, `modules.rs`, `lifecycle_available_capabilities.rs`) | at most one opening per module, its generation, owners and seal | `begin_opening`, `claim_opening_owner`, `seal_opening`, `release_opening_owner` | the Governor's execution, the persistent processes it starts, surfaces |
| Live variables (`variables.rs`) | per module, the snapshot each session publishes | `publish`, `revoke`, `snapshot` | the connections of the runtime and of services; surfaces re-read on an event |
| Install transaction (`modules.rs`, `lifecycle_require.rs`, `settings.rs`) | the acquisition to compensate | publish, settings, language, binding, features, policy, Lifecycle, compensate | the uninstall transaction is its compensation |
| Uninstall transaction (`modules.rs`, `module_uninstall.rs`, `module_material_binding.rs`) | staged paths, receipt of stopped services, recovery evidence | quiesce, stage, commit, undo, aftermath, retire | systemd, file system, configuration, platform policy |
| Update transaction (same files) | backup, candidate, binding transaction, service cutover | quiesce, swap, bind, policy, lifecycle, settings, features, rollback, cutover | the same |
| Managed-service plan, journal, checkpoint (`module_uninstall.rs`) | rollback receipt, checkpoint file with a journal of intents, two lock files | plan, begin, apply, confirm, reconcile, compensation scope | systemd; no command uses the step driver yet |
| Lifecycle execution of a transition (`lifecycle_transition_executor.rs`, `_dag_executor`, `_orchestration`, `_execution`, `_executor`, `_control`, `_intelligence`) | the phase, the tasks of a dependency graph, the battlefield they tell each other through | plan, schedule, prepare, attempt, cancel, commit, report | openings, installs, updates, uninstalls run one each |
| Lifecycle language and Governor (other `lifecycle*.rs`) | a plan and its objects | resolve, translate, bind, govern | the execution above |
| Notifications and presenter (`notifications.rs`, `notification_presenter.rs`) | in Boss the owner of each notification and one presentation at a time; in the presenter an endpoint for each notification | present, register, activate, stage, route, release | the sessions of modules, the notification server of the desktop |
| Tray (`tray/`) | trays and their publishers | publish, activate, supervise | modules, the tray host |
| Dependency policy, settings, configuration | configuration documents | requirements, merge, enable | the transactions |
| Material (`module_material*.rs`, `module_preinstall.rs`, `module_runtime_lease.rs`) | package pools, bindings, leases | materialize, bind, collect, lease | install, update, open |
| Domestic execution (`domestic_*.rs`) | none between calls | build a closed world and run a program in it | the lifecycle |
| Boss's own update (`boss_update.rs`, `critical_update.rs`, `nightmare.rs`) | release files | check, stage, apply | systemd |
| Surfaces (`surface_*.rs`) | none; projections | project, resolve | registries above |
| Platform provider (`client/platform-operations`), desktop client | policy files; user interface | sync, revoke; show | transactions; events |

### What is hard

Boss is a multi-threaded program of short critical sections. Nearly every
operation takes a lock, decides, lets it go and acts on the decision; what
other threads do in between is what its tests hardly reach. Three themes recur:

1. **Identity across incarnations.** A runtime leaves and comes back, an Open
   overtakes another, a service restarts under its old session name, and the
   late cleanup of the older one meets the state of the newer one. Sessions,
   generations and process identities exist to tell them apart.
2. **Work nobody can stop.** A deadline does not end the work it bounds. The
   result of work that was given up must be neither lost nor handed out
   twice, and capacity must come back.
3. **Undoing that fails.** The transactions run over a file system, systemd
   and a configuration store, each of which may fail at every step, also
   while an earlier step is undone. What is reported has to be what is there.

What makes each component correct, which is what its properties say:

- *job registry*: limits hold under every interleaving; a result is delivered
  exactly once, to its owner; a job stays observable until its retention ends;
  bounded callers return; capacity returns.
- *invocation*: each call has somebody who will answer or wake it; it is only
  answered by the incarnation it was sent to; what it reports is what happened;
  nothing of it is left behind.
- *openings*: no opening without somebody who will end it; none shared by two
  executions; success is backed by a process; surfaces end up current.
- *live variables*: one owner for every key; nothing published outlives its
  connection; nothing published is lost while its connection lives.
- *transactions*: the known-good version survives until the commit; after it
  nothing comes back; services start only on what they were stopped on; the
  report is true, whether it tells of success, refusal, rollback or debt.
- *managed-service journal*: an effect runs at most once, and only under an
  intent that survives a power loss; unit files change at rest; a rollback
  knows every unit that is no longer as it was found.
- *lifecycle execution*: an operation runs on the success of all it depends on
  and on intelligence that was reported; what is reported of it is so, and no
  later snapshot tells less; the transition ends.
- *notifications*: what the user does reaches the session that asked, once and
  in order; what is on the screen has a way back; ownership ends with it.

`PROJECT.json` lists the hazards at their lines, with the properties on watch.

## The modules

| Module | Models | Composes |
|---|---|---|
| `JobContract` | what a caller of the IPC middleware is promised: a request is refused, or executes and is then ready, and its outcome is handed out at most once, to its requester | abstract |
| `IpcMiddleware` | the job registry with its worker and caller threads | implements `JobContract` |
| `ModuleSession` | invocation, pending requests, registration, handler and writer threads of a module's connections | three files of `module_ipc/` |
| `RuntimeOpening` | openings, the Open call and the processes of its execution | registry, Governor and process threads |
| `LiveVariables` | published variables and the connections that publish them | variables and both kinds of connection |
| `UninstallTxn` | the uninstall transaction | modules, services, files, binding, configuration |
| `InstallTxn` | the install from a certified candidate on, with its compensation | extends `UninstallTxn` |
| `UpdateTxn` | the update transaction from a certified candidate on | the same |
| `JournalContract` | what a write-ahead record of dangerous steps promises | abstract |
| `ServiceJournal` | plan, receipt, journal, checkpoint file, locks and step driver of the managed services | implements `JournalContract` |
| `TransitionExecution` | the execution of one lifecycle transition | seven files of the lifecycle |
| `NotificationHub` | the way of a notification to the user and back | Boss, presenter, notification server |
| `IpcMiddlewareProofs`, `ModuleSessionProofs`, `RuntimeOpeningProofs`, `InstallTxnProofs` (also about `UninstallTxn`), `UpdateTxnProofs`, `ServiceJournalProofs`, `TransitionExecutionProofs` | theorems about the module each is named for | extend it |
| `OwnershipProofs` | theorems about what Boss keeps for sessions: `NotificationHub` and `LiveVariables` | extends both |
| `MC*` | instances for TLC | |

Everywhere, an action is one critical section of a lock, one channel
operation, one frame, or one operation of the file system, of systemd or of
the configuration store, together with all it decides. Names are the code's
where TLA+ allows. Operators marked *Fault* are what a plausible bug would
make of the definition that follows them; no action uses them, and each is
the counterexample that shows a property to have teeth.

### IpcMiddleware

`jobs` and `running` are `JobRegistry`. `caller[i]` and `worker[i]` are the
program counters of the two threads of request `i`, joined by a channel of
one place. `Run`, `RunRefused` and `RunSpawnPanics` are the three ways through
the critical section of `run`; `WorkerRecord` and `WorkerSend` are the worker
after its work; `CallerReceive`, `CallerComplete` and `CallerTimeout` are the
caller after `recv_timeout`; `Status` is `status`. Every entry trims expired
jobs first, as the code does, refused requests and foreign queries included.

- Time is two facts per job: its deadline has passed (`overdue`), its
  retention has passed (`expired`). No property depends on durations.
- A job identifier is a random UUID; nobody names one that `run` has yet to
  return (`Nameable`).
- A panic of the work is caught and turned into a value, so the channel is
  never disconnected before the value is sent; that arm has no action.
- The synchronous policy runs the work on the caller's own thread and never
  enters the registry; it has no state to model.

### ModuleSession

One module, because both registries key everything by module. `runtime` is
`RuntimeRegistry.runtimes`, `pending` is `PendingRegistry`; `handler`, `writer`
and `invoker` are program counters of the threads; `queue` is the channel of
the writer and `delivered` what the peer has read. The life of a connection is
`Register` and `Acknowledge` (the `Registered` frame is sent only when the
runtime can already be resolved), then `ReadResponse`/`DeliverResponse`, and its
end `PeerLeaves`, `Unregister`, `FailSession`, `WakeFailed`, `StartJoin`,
`Joined`: the order of `handle_client`. When the acknowledgement cannot be
sent the end is `Refuse` and `Unregistered`: the runtime is unregistered and
nothing is failed. A call is `Resolve`, `RegisterPending`, `Recheck`, `Send`,
`Receive`, or `Timeout` and `ReturnTimedOut`.

- Two things leave the registry's lock before they take effect, and are two
  actions each: a resolved answer is taken out under the lock and sent outside
  it, and `fail_session` collects its victims under the lock and wakes them
  one after the other.
- A peer may answer any call that a runtime of the module was ever given
  (`Known`), its own or a predecessor's; identifiers hold the process, the time
  and a counter, so none is guessed. The check of the session in `pending.rs`
  is what turns the others down (`Expected`).
- `SessionOf` is a constant: session identifiers are chosen by the peers. The
  properties speak of sessions, which are all that the code compares; the runs
  give each connection one of its own. What happens otherwise is
  told [below](#behaviours-met-while-modelling).
- The channel of the writer is a set: no property depends on its order. Threads
  that Boss starts for a runtime's own requests also hold a sender; they are
  not modelled, so nothing is claimed about when a handler finishes joining.

### RuntimeOpening

One module again. `Begin`, `Seal`, `Check` and the `EndExecution` between them
are the Open call; `Start`, `Claim`, `Exit` and `Release` are a persistent
process and the thread that waits for it; `Register` and `Unregister` are its
connection. `announcing` holds the events a thread has yet to send after it
let go of the lock: a surface reads the registry when the event arrives
(`Announce`), not when the change was made, and the property is about what it
then shows. The event is not lost in the model.

The execution is an interval that may start any number of the processes, and
ends as a success, a failure or without a binding. Process identifiers are not
reused while a thread still waits for the process, which is what the kernel
guarantees for a child that has not been reaped.

### LiveVariables

`published` is the `PublisherSet` of the module. A runtime's connection goes
serving, leaving, revoked (`LiveModuleVariables::revoke`), gone
(`RuntimeRegistry::unregister`), in this order; a service's is not registered,
and several may be connected at the same time, under the same name even. Two
of one session and one process are twins (`Twins`), which share a publication;
`overruled` records whose publication a twin has replaced or withdrawn.
`ProcessOf` is the incarnation that Boss verified: pid and start time.
`Certified` is the new look at that process before each publication. Syntax of
keys and values is not modelled; a snapshot is a function from some keys to values.

### UninstallTxn

`at` is the next operation, `place` where each thing is: the module's
directory, its settings, its binding and the declared data directories.
`unit` is each extra of the contract: a service as the manager knows it, with
stops that were accepted and have not begun, or an autostart entry, which is a
file and no more. An extra may have no file from the start; whether that is an
error is for its `required` flag to say. Each operation succeeds or fails;
failing before the commit yields the sequence of things that this error path
puts back (`undo`), in the order in which the code's explicit calls and
dropped guards do it. The three tails are `Rollback`, `Aftermath` and the end.
A staged binding is deleted with its temporary directory, whose errors nobody
reads: it ends `gone` or `torn` (`Dropped`), and either way the step succeeds.

`Directories` is the contract's order, `Cleanup` what the command is to remove
of it: the loops go over the one and pass over what is not in the other
(`Goes`), and what was moved aside is put back in the reverse order.

Left out: the uninstall Lifecycle and the deactivation of the runtime, which
come first and which nothing undoes; a service's `failed` state, which is
treated as at rest, as the code does when it stops it.

### InstallTxn

Publication (`Publish`, `InitializeSettings`, `SynchronizeLanguage`) takes
itself back when it fails. From the acquisition on, every failure calls
`uninstall_without_lifecycle`: the module extends `UninstallTxn`, and
`Compensate` starts that machine in the state the install has reached, with
all its own failures ahead of it. `CommandSpec` starts with either command, so
one run checks both; an uninstall leaves `installVars` alone. The initial
states of an install are what an earlier uninstall may have left: settings and
data kept for the user, a binding or units that could not be removed.

The operations of the install Lifecycle are taken one after the other, and
those after a failed one may or may not run; what a graph of them does is
`TransitionExecution`. A service's installation never waits within its future
(`user_service_install_handler`), so no deadline leaves one running beside
the compensation.

### UpdateTxn

From the moment the candidate is staged and certified, before which nothing
installed changes. `version`, `binding`, `policy`, `settings`, `features` and
`unit` are the six things an update changes one after the other, with nothing
that spans them; a failure runs `RollBack` and then brings each of the others
into line with what the rollback left, or reports CRITICAL. `new_assumed` is a
`NewPreserved` reported about a path that cannot be inspected, which the code
treats alike. Settings are never rolled back, as in the code. The guard of an
activated binding tries its rollback again when dropped; that is part of
`BoundOutcomes`. A binding lost in a failed activation makes the report
CRITICAL. A stop that was accepted and has not begun when its deadline passes
leaves the unit `stopping`, which reads active until the manager stops it
(`ManagerStops`); `missed` records the units that the restoration took for
running for this reason.

### ServiceJournal

`case` is what a unit is declared to be before and after the update and how
it was found; `Transition`, `Preservable`, `Target` and `Allowed` are the plan,
the baseline check, the receipt and the order of the journal, all computed
from it. `file` is what a reader of the checkpoint opens, `durable` what a
power loss leaves: a rename changes the first, the `fsync` of its directory the
second. `driver[d]` is a process with what it holds in memory: it records an
intent, applies it with a lifetime lock in hand, verifies and acknowledges, or
reconciles the intent of a dead one. `Crash` ends a process between any two
steps, `PowerLoss` all of them, and puts `file` back to `durable`.

The refinement reads a step's status off the durable journal and a history of
invocations (`StatusOf`); what the contract has no word for, a step that ran
twice or unrecorded, maps to a value outside its `Status`.

### TransitionExecution

The thread of the transition (`Enter`, `Plan`, the four outcomes of a turn
of the scheduling loop, `Joined`, `Report`, `Escape`) awaits a wave of tasks,
each with its own steps (`Prepare`, `BeginAttempt`, `CapabilityFails`,
`CapabilitySucceeds`, `DeadlinePasses`). All futures of a wave are polled by
that thread, so what lies between two awaits is one action; workers and
child processes go on by themselves, also when their future was dropped
(`AbandonedActs`). An operation in `Blocking` does its work inside the poll, as
the service installation does with untimed `systemctl`: while it runs nothing
else is polled, no timer and no cancellation either (`Polled`). `graph` and `needs` are chosen in the initial states: the
dependencies the caller supplies and the intelligence the operations refer to.

The Governor always passes empty controls and a fresh token, so retries,
deadlines and cancellation are the executor's interface rather than something
a command uses today. Payloads, routes and failure contexts are left out.

### NotificationHub

Every presentation opens a stream of its own, so the two share a number.
`work` is the one presentation that holds Boss's gate, from
`present_owned_for_module` to its activation; `pending`, `reader` and `owner`
are Boss's side of a stream, `endpoint` and `unmatched` the presenter's,
`signals` what the notification server has sent and the presenter has not
read. `raised` and `delivered` are history. The presenter restarts once, at any
moment, and loses its side. A presentation that failed, that a restart caught,
or whose signals a full buffer dropped is recorded in `spoiled`. The server
shows a replacement under the replaced id or, if that notification is closed,
under a new one: it may do either, and ids given again after an end are
`Reused`. That a session is told only of its own, and each thing once, is
claimed of every id; routing, order and arrival of those neither spoiled nor
reused.

## The runs

Every run ends with TLC having explored the whole state space of its instance.

| Run | Question | Instance |
|---|---|---|
| `middleware_jobs` | are the limits kept, and every result handed out once, to its owner, at any interleaving; is the contract implemented | 2 owners, 3 requests, 1 active, 2 retained, 2 per owner |
| `middleware_limits` | do bounded callers return, and does capacity come back | 2 owners, 2 requests, quota 1, fair |
| `module_calls` | is every call answered or woken by the session it was sent to; does it return | 2 connections of two sessions, 2 calls, one with a timeout, fair |
| `module_openings` | is there always somebody to end an opening, and does it end | 2 Open calls, 2 processes, fair |
| `live_variables` | is what is visible what living connections published; does it last as long as they do | 2 connections of the runtime, 3 of services, 2 of them twins, 2 sessions, 3 processes, 2 keys |
| `uninstall_txn` | is each report of an install or uninstall true; is nothing lost before the commit or revived after it | 2 services, one required, an autostart entry, 2 directories, one the user's choice, 2 settings |
| `update_txn` | does the known-good version survive; does everything follow it | one service for each of the plan's four transitions |
| `service_journal` | does the checkpoint keep the write-ahead contract through crashes; do unit files change at rest | 2 processes, 2 units, 10 scenarios of declarations and findings, one power loss |
| `transition` | does an operation run on certain ground; is the report true; does the transition end | 3 operations under every acyclic graph and 3 refused ones, one with 2 attempts, deadlines, cancellation, fair |
| `notifications` | does what the user does arrive; is what is shown routed; does ownership end | a session and Boss, 2 presentations, 2 ids, buffer of 2, fair |
| `late_response_race`, `blocked_chain` | see [Disagreements found](#disagreements-found) | that of `module_calls`; a chain of 3 operations |

**Bounds.** With one active slot and three requests, a request is refused,
admitted after a trim and left behind by its caller while another runs; two
retained slots fill with an uncollected result and a running one. The two
owners contend for the same slots and query each other's jobs. Two connections
are the incarnation that leaves and the one that replaces it; two calls are
the one that races with the other's teardown. Two Open calls are the one
overtaken and the one that overtakes, two processes the owner that stays and
the one that dies. Five connections allow a service, its restarted
incarnation with a second connection, and a runtime that reconnects; they never
reach the limit of publishers, whose refusal changes as little as the refusal of
a key that clashes, and which the theorems cover.
In the transactions the lists have an element before and one after the one
that fails. Two processes at the journal are the one that died with an intent
and the one that reconciles it, or a stale writer and the one it would undo;
two units are enough for a step of one between two of the other. Three
operations are the least that can form a chain, a fork and a join, and a wave
after a wave. Two presentations are the one shown and the one that replaces
it, by the same or by another owner. `ConfigWrites` is the number of settings written one by one.
Requests, connections and processes are used once; there is no other counter
that grows, save the generation of openings, which grows with the Open calls.

**Symmetry** is used for `middleware_jobs`, `live_variables` and
`service_journal`, which check no liveness property: owners and identifiers,
twins, and processes are interchangeable.

**Deadlock** is checked for `middleware_jobs`, where a query is always
possible. In the other instances the system does come to rest: every call has
returned, every process has gone, or the transaction has ended. That a
transition ends in a report, and not by being stuck, is `TransitionEnds`.

**Fairness.** Threads of Boss that hold a lock or an end of a channel proceed,
since no critical section here waits for anything else:

- `IpcMiddleware!CallersProceed`: callers and senders proceed and clocks run.
  That the work ends is *not* assumed: `FiniteWait` holds without it. It is a
  premise of `CapacityReturns` (`WorkEnds`), along with the absence of
  stranded slots, and without it the property is false, as the code says.
- `ModuleSession!FairSpec`: handlers, writers and calls proceed, and the clock
  of a call that has a timeout runs. No runtime has to answer or leave.
- `RuntimeOpening!Fairness`: executions return, waiting threads run, the
  handler of a dead process's connection reads the end of the stream. No
  process has to exit or register, and an opening whose process does neither
  lasts, as in the code.
- `TransitionExecution!Fairness`: the thread of the transition runs, and an
  operation with a deadline is answered, by its capability or by the deadline,
  if it waits outside the poll. The run gives every operation a deadline and
  has one that blocks; `TransitionEnds` has both as its premise: without a
  deadline a capability that never returns keeps the transition running, and
  one that blocks in the poll and never returns does so whatever the deadline.
- `NotificationHub!Fairness`: the threads of Boss and of the presenter proceed
  and messages on a stream arrive. The presenter may restart, fail or leave a
  presentation to its timeout; sessions need not end and users need not act.
- The transactions, `ServiceJournal` and `LiveVariables` state no liveness.
  Their steps wait for systemd and the file system, for which the code has no
  bound in common, and nothing in the repository drives the journal to its end.

Each property is paired with a mutation of a mapped definition that breaks it
under the run's own configuration (`PROJECT.json`, "mutants").

## The proofs

Each theorem but the type invariants and `ActiveInvariant`, which are there
for the others, states a property that a run checks on its instance.

`IpcMiddlewareProofs` proves, for every set of owners, every finite set of
identifiers and all positive limits (`IdsAssumption`, `LimitsAssumption`,
`SpawnAssumption`, `NullAssumption`, `NoJobAssumption`):

| Theorem | Statement |
|---|---|
| `TypeInvariant` | `Spec => []TypeOK` |
| `ActiveInvariant` | the counter is the number of threads at work plus stranded slots, and within its limit |
| `RegistryInvariant` | retention and per-owner limits hold |
| `ResultsAreAccountedFor` | no result is lost, none is handed out twice |
| `HandedOutJobsAreObservable` | a job whose identifier was handed out is there for its owner |
| `LateCompletionIsMarked` | work that ends after its caller gave up is recorded as late |
| `Refinement` | the registry implements `JobContract` |

The inductive invariant is `IInv == TypeOK /\ LivesConsistent /\ ActiveBounded`.
`ResultAccountedFor` is not inductive: whether a result still reaches its
caller depends on where the worker, the caller and the job stand together,
and `Life(i)` says which combinations occur. `ActiveBounded` needs it as well:
the counter is decreased with saturation, and is positive only because the
worker that decreases it was counted. `RegistryBounded` has an inductive proof
of its own beside it, since trimming, collecting and completing only shrink
what it counts. The refinement maps the three program counters to the phase of
a request (`Phase`); each action maps to one action of the contract or to a
stutter.

`UpdateTxnProofs` proves, for every sequence of distinct services and every
plan that gives each of them a transition (`UnitsAssumption`,
`PlanAssumption`):

| Theorem | Statement |
|---|---|
| `TypeInvariant` | `Spec => []TypeOK` |
| `KnownGoodIsSafe` | until the commit the previous version is installed or in its backup |
| `ReportsAreTrue` | the report names what is installed, bound, declared and running, but for pending stops |
| `ServicesStartOverTheirVersion` | until the commit services start only over the previous version and its policy |

What a report says is decided many steps before it is made, so its invariant
is the history of the transaction read off its state: where the versions are
at each step (`VersionsPlaced`), which binding is in place (`BindingsPlaced`),
what features, settings and policy follow (`StateFollows`), and how far the
services have come (`ServicesKnown`: those stopped are before the index, those
restarted after it, those reconciled before it). `Pending` says which units
still have a stop to come: those of a failed quiescence, and no others, which is
why only an update that never began reports over one. Each part is preserved by
every action given the types and the places of the versions; the report's
truth is their last line. That two positions of the plan name different
services is needed only where one is reconciled and the others keep what
they have reached.

`InstallTxnProofs` proves, of `CommandSpec`, that is of an uninstall and of an
install with the uninstall as its compensation, for every sequence of distinct
extras, every order of the directories, every choice of what is required, of
what is the user's and of how many settings are written one by one
(`OrderAssumption`, `NamesAssumption`, `ExtrasAssumption`, `ChoiceAssumption`,
`WritesAssumption`):

| Theorem | Statement |
|---|---|
| `TypeInvariant` | `CommandSpec => []InstallTypeOK` |
| `NothingIsLostEarly` | nothing is deleted before the commit, but a binding that could not be put back |
| `UninstallReportsAreTrue` | a restoration put everything back, and a success left nothing of what was to go |
| `InstallReportsAreTrue` | an installed module is whole and runs, a refused one took nothing, a rolled back one left nothing |
| `StartsFindAllInPlace` | services are started again over a module that is whole |
| `CommitsAreFinal` | what was committed does not come back |

A report is made at the end and depends on where each of the things went long
before, so the invariant is again the history read off the state, one part for
each phase: before the commit every thing on record is in place or moved aside
and the others were not touched (`Accounted`); what a finished step was to move
is moved (`MovedAside`); behind the commit what was moved is gone, or a debt is
recorded, save for the binding, of which pieces may be left (`GoneOrOwed`); settings are touched only if they are to go and are
destroyed behind the module (`SettingsAreSafe`); whatever comes after the
verification, or reports that all was restored, stands over an intact module
(`Verified`); and an install has put in place what lies behind it
(`Installed`). The loops are the work: the parts say what holds of the first
`k - 1` elements, and each needs the elements of the sequence to be distinct.

`RuntimeOpeningProofs` proves, for every finite set of Open calls and any set
of processes (`OpensAssumption`, `NullAssumption`, `NoOpeningAssumption`):

| Theorem | Statement |
|---|---|
| `TypeInvariant` | `Spec => []TypeOK` |
| `OpeningsAreEnded` | an opening has a call or a process that will end it |
| `ExecutionsAreCovered`, `ExecutionsAreApart` | an execution runs under its own opening, and no two at a time |
| `SurfacesAreCurrent` | a surface that has read every event shows the state there is |
| `SuccessesAreBacked` | an Open that succeeds leaves a runtime or an opening with an owner |

The invariant adds that the generations of the calls differ (`Generations`),
that an opening and a registered runtime exclude each other (`Exclusive`) and
that a sealed opening was left by its call (`SealedByItsCall`); with these, who
will end an opening can be read off its owners.

`OwnershipProofs` proves of `LiveVariables`, for any connections, sessions, incarnations and
snapshots and every limit (`ConnectionAssumption`, `LimitAssumption`,
`NullAssumption`, `SnapshotAssumption`):

| Theorem | Statement |
|---|---|
| `TypeInvariant` | `Spec => []TypeOK` |
| `PublicationsAreRevoked` | every publication has a connection that will revoke it |
| `PublicationsLast` | what a connection published is there while it is served, unless a twin replaced or withdrew it |
| `SurfacesAreCurrent` | a surface that has read every event shows what is published |
| `OwnersWithdraw` | only a connection of its own process changes a publication |

The part that carries the argument is `Mergeable`: publications of a module
share no key, so the merged view determines them and merging forgets none.

The same module proves of `NotificationHub`, for any sessions, any set of
positive ids, any number of presentations and any limit of the buffers
(`HubAssumption`):

| Theorem | Statement |
|---|---|
| `HubTypes` | `HubSpec => []HubTypeOK` |
| `HubTold` | a session is told only what was done to its own notifications, each thing once |
| `HubReachesItsSession` | and in the order in which it was done, unless its id was another's before or again after its end |
| `HubShownIsRouted` | what is shown is owned and has an endpoint, an open stream and a thread, unless its id is spoiled or reused |

An event is in one of the signals, the unmatched ones, what an endpoint has
staged and the frames of a stream; `Rank` says how far from its session each
of these is. The invariant (`HubInv`) says of all of them at once that an event
was raised and was not told yet (`Underway`), is in one place only (`Once`) and
that no action of a presentation is behind its end (`InOrder`). A step of the
model moves, takes or appends whole sequences, with a selection by id and a
concatenation among them, so that these parts are not argued step by step but
from one correspondence (`Carried`): for whatever is somewhere after the step
there is a place and an index before it, different ones for different events,
and in the same order for one presentation. One lemma gives the correspondence
for every step that raises nothing new, another shows that it keeps the three
parts. That a session is told of its own notifications rests on `Owned`, by
which the presentations under one id are of one session whatever becomes of the
ownership entry meanwhile.

The server may do with ids what it does in the model. The end of a
notification is the end of its id unless that is reused (`ClosedIsOff`,
`ReusedGrows`, `GivenAgain`): until then no signal, staged event or thread about
to release that speaks of a closed notification can touch one that is shown.
`WayBack` adds how far the way back of what is shown has been built at each stage
of its presentation. For reused ids TLC refutes what these two theorems say of
the others ([below](#behaviours-met-while-modelling)); `HubTold` holds of all.

`ModuleSessionProofs` proves, for any connections and calls
(`SessionAssumption`, `TimedAssumption`, `WriterAssumption`, `NullAssumption`):

| Theorem | Statement |
|---|---|
| `TypeInvariant` | `Spec => []TypeOK` |
| `OutcomesAreHonest` | what a call reports is what happened to it |
| `WaitersAreOwned` | a waiting call is pending at, or in the hands of, a connection of the session it was sent to |
| `IncarnationsAreExact` | a call is answered and woken only by a connection of that session, whatever peers answer |

The invariant follows a call through the places it can be in: the pending
registry under its target's session, the queue, the peer, the hands of one
handler (`Addressed`, `Held`, `TakenOut`). No theorem has a hypothesis about the
sessions peers choose.

`ServiceJournalProofs` proves, for any finite or infinite set of units and
processes and any scenarios (`NobodyAssumption`, `ScenariosAssumption`):

| Theorem | Statement |
|---|---|
| `TypeInvariant` | `Spec => []TypeOK` |
| `ScopeCovers` | a rollback knows every unit that is not as it was found |
| `FilesAreChangedAtRest` | a unit file is written or removed only with the unit stopped, unless a boot started it, and disabled, unless its link was there without a file |
| `Refinement` | the journal implements `JournalContract`: no effect without a durable intent, none twice, whatever crashes |

`Journals` says that both copies are journals: at most the last entry is open,
no step is in twice, each was allowed and comes in its order. `Trailing`
relates the copy a power loss leaves to the one readers see, and both to what
happened. `Held` says what a process has in memory at each of its places and
that the lifetime lock is its own; it is why a second process cannot publish
the successor of a journal that has moved on. `UnitsFollow` reads the state of
a unit off what happened to it.

`TransitionExecutionProofs` proves, for every finite set of operations, all
graphs and references to intelligence, attempts and deadlines
(`TransitionAssumption`):

| Theorem | Statement |
|---|---|
| `TypeInvariant` | `Spec => []TypeOK` |
| `PlansAreAcyclic` | plan validation accepts exactly the plans whose dependencies are operations and which have no cycle |
| `CapabilitiesRunOnCertainGround` | a capability runs on the success, effect and intelligence of all that is upstream |
| `ReportsAreTrue` | the report says of each operation what happened to it |
| `ProgressNeverGoesBack` | until an infrastructure failure no snapshot takes back what an earlier one told |

What succeeded is what left its intelligence, it acted, and it is closed under
dependencies (`Reported`, `Grounded`); so the direct dependencies a task waits
for stand for everything upstream of it. That nothing is told twice rests on
`Waves`: a task is under way in the wave that is awaited and in no other.
`Layered` and `Upstream` are recursive functions. The induction theorems of the
library take a predicate as a parameter, which no prover here instantiates;
`SetInduction` states induction about a set of numbers instead and follows from
the theorem that sets of numbers have least elements. With it the functions are
shown to exist, and `LayersGrow` that the rounds of the validation suffice.

### What is only model-checked

- Liveness (`FiniteWait`, `CapacityReturns`, `FiniteCalls`,
  `DisconnectWakes`, `DeadOpeningEnds`, `TransitionEnds`, `ActionsArrive`,
  `ClosedIsReleased`), since fairness is defined by `ENABLED`, of which the
  prover knows nothing.

Every invariant and safety property of the runs is stated by a theorem. Every
inductive invariant was checked by TLC on the instance of its module before it
was proved. No theorem assumes more of the constants than the named assumptions of
their modules.

## Disagreements found

Each has a run whose counterexample shows it; `PROJECT.json`, "findings",
quotes what the code is at odds with.

1. `late_response_race`: an answer that is taken out of the pending registry
   just before its caller's timeout is delivered to a caller that has
   returned. The comment calls this "not a registry failure"; the code returns
   it as one, and the session of the runtime ends.
2. `blocked_chain`: the scheduling loop collects the blocked tasks of a turn
   before any of them has its outcome. A task two edges below a failure is then
   neither blocked nor ready; with nothing else to run, the transition ends
   with "orchestration reached an impossible execution state" and no result of
   any operation, where the DAG executor promises terminal outcomes for
   operations that never ran.

### Behaviours met while modelling

They are what the code does, and why the properties named with them claim no
more than they do. Where a property "excepts" something, its formula says so,
and without the exception TLC finds the behaviour in the property's own run.
Where a comment of the repository promises more, it is named.

- *A runtime that is never acknowledged.* A runtime can be resolved before its
  `Registered` frame is sent (`server.rs:825`, `871`). If that frame fails,
  because writing a call that was queued in between ended the writer, the
  runtime is unregistered without `fail_session` (`server.rs:878-889`): a call
  without a timeout waits for ever, though `client.rs:62` says that
  `fail_session` will see it. `WaiterIsOwned` excepts these calls;
  `DisconnectWakes` speaks of handlers that got to read.
- *Session identifiers.* A runtime that comes back under the session
  identifier it had is not told apart from its former connection, whose
  teardown then takes the newer one's requests. `WaiterIsOwned` and
  `ExactIncarnation` therefore speak of the session.
- *Live variables.* `publish` and `revoke` know a publication by session and
  process (`variables.rs:149`), so two connections of one process under one
  session share it, and the end of either withdraws what the other was told is
  published; `variables.rs:13` says that the scope is a single live connection.
  `ConnectionScoped` excepts the connections a twin has overruled.
- *Pending stops.* The stop of a service may time out while systemd has yet to
  run it (`module_uninstall.rs:742-753`). The restoration finds the unit
  active, starts nothing and reports no failure (`882`); the stop then runs.
  The comment at `2484` says that such a unit must be included in recovery.
  `OutcomeIsTrue` excepts these units (`missed`) of an aborted update, and
  finds no others. In an uninstall, `ReportIsTrue` speaks of files and not of
  running services for the same reason.
- *Uninstall.* The temporary directory of the binding is deleted without a
  look at the result: "done" means that the binding is no longer where it is
  looked for, and pieces of it may stay in that directory, unreported.
- *Update.* A rollback that preserves the new module removes the previous
  binding without the new one ever having been activated, and is not reported
  as critical. Settings reconciled with the new version's defaults are not
  taken back.
- *Install.* The compensation of a failed install always removes settings and
  data, those an earlier uninstall kept for the user included. A `required`
  extra that is not there yet makes the compensation refuse: the module stays
  half installed and the report is critical, and so would be any later
  uninstall. `InstallReportIsTrue` covers both.
- *Transitions.* Progress is counted in clones of the communication. When the
  transition ends in an infrastructure failure the original is published, whose
  progress is 0, after larger numbers were shown
  (`lifecycle_transition_executor.rs:528`); `lifecycle_dag_executor.rs:334`
  says that snapshots cannot regress. `ProgressOnlyGrows` excepts that step.
  What depended on a cancelled operation is reported as failed,
  and so is the phase of a transition whose cancellation left such operations.
  An attempt abandoned at its deadline goes on beside its retry.
- *Journal.* A unit found without a file but with an enablement link passes the
  baseline check as absent, because the link of an absent file is not inspected
  (`module_uninstall.rs:2899`). Its file is then written while it is enabled,
  where the comment at `2813` says that even an inactive service can be
  enabled. A boot starts what is still enabled, so a verified stop does not
  outlive a power loss that comes before the unit is disabled.
  `FilesChangeAtRest` excepts both.
- *Notifications.* A replacement of a notification that is closed meanwhile may
  get the same id, as the desktop specification asks of a server. The end of
  the old one, routed by the thread of its own stream, then removes the owner
  the new one has registered (`notifications.rs:192`): what the user does to it
  reaches nobody, where `release/notes-v1.0.15.md:53` says that return routing
  preserves exact ownership. A replacement that is closed
  before the presenter knows its endpoint leaks ownership and endpoint. The
  buffer for signals without an endpoint is shared, so signals of one id evict
  those of another. What the user does to a notification whose presentation
  Boss gave up, and the presenter completed, is lost. The properties of
  routing and arrival except these (`spoiled`) and reused ids.

## What is not modelled

- Encoding and framing, validation of declarations, routing, CLI and privilege
  handling: sequential code without shared state.
- Downloads, package pools, file trees and sandboxes: what they do is the
  business of the kernel and of external programs.
- The desktop client and the platform provider, which are programs of their
  own; here they are a reader of surfaces, and an operation that succeeds or
  fails.
- Loss of surface events, slow surfaces and the connection of a surface.
- A crash of Boss in a transaction. Nothing but the managed-service journal is
  written to be read after one, and no command drives that journal yet.
- Two commands on the same module at the same time: each is a process of its
  own, with no lock between its checks and its changes.
- The translation of a lifecycle contract into a plan, and the Governor that
  binds it: sequential, and of no state once the plan is there.
- Tray, dependency policy, leases and the self-update are next in the plan.

## Plan

In order of importance; what is done is marked.

1. `IpcMiddleware`, `JobContract` (done), with proofs (done).
2. `ModuleSession` (done), with proofs (done). An abstract call contract (called, then exactly one
   outcome, told to the caller) that it implements.
3. `RuntimeOpening`, `LiveVariables` (done), with proofs (done).
4. `UninstallTxn`, `InstallTxn`, `UpdateTxn` (done), with proofs (done). One abstract transaction that all implement: before the commit, the
   old world or a reported failure; after it, the new world or a reported debt.
5. `ServiceJournal`, `JournalContract` (done), with proofs (done).
6. `TransitionExecution` (done), with proofs (done).
7. `NotificationHub` (done), with proofs (done). `TrayHost`: the host's supervision and the
   delivery of activations.
8. `DependencyPolicy`: no enable, disable or uninstall leaves a module without
   what it requires; requirement resolution against a reference definition.
9. A composition of `IpcMiddleware` with `ModuleSession`: the answer that is
   collected from the registry and lost with the connection.
10. `BossUpdate` and `RuntimeLease`.

Theorems still to prove: the refinements of items 2 and 4 once their abstract
specifications are written.

## Running

In this directory, `tlc -config <run>.cfg <module>` for a run (`PROJECT.json`
lists them), and `tlapm <module>.tla` for each module of proofs; the longest,
`OwnershipProofs`, takes about ten minutes.
