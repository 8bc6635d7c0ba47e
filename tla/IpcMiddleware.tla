--------------------------- MODULE IpcMiddleware ---------------------------
(***************************************************************************)
(* The job registry of the Boss IPC middleware (ipc_middleware.rs): bounded *)
(* and asynchronous requests run on worker threads, their results are      *)
(* handed to the caller that waits or kept for one later job query.        *)
(*                                                                         *)
(* Every action is one critical section of the registry mutex, or one      *)
(* operation on the rendezvous channel between a worker and its caller.    *)
(* Durations are abstracted to two facts per job: its deadline has passed  *)
(* (overdue) and its retention interval has passed (expired).              *)
(***************************************************************************)
EXTENDS Integers, Sequences, FiniteSets

CONSTANTS
    Owners,        \* authenticated socket peers or module sessions
    Ids,           \* job identifiers; a fresh one is drawn for every request
    MaxActive,     \* NEEBLES_IPC_MAX_ACTIVE_JOBS
    MaxRetained,   \* NEEBLES_IPC_MAX_RETAINED_JOBS
    MaxPerOwner,   \* NEEBLES_IPC_MAX_OWNER_JOBS
    SpawnMayFail,  \* whether the operating system may refuse a worker thread
    NoJob,         \* no entry in the registry
    NoOwner        \* no request was ever made under the identifier

ASSUME IdsAssumption == IsFiniteSet(Ids)
ASSUME LimitsAssumption ==
    /\ MaxActive \in Nat \ {0}
    /\ MaxRetained \in Nat \ {0}
    /\ MaxPerOwner \in Nat \ {0}
ASSUME SpawnAssumption == SpawnMayFail \in BOOLEAN
ASSUME NullAssumption == NoOwner \notin Owners

VARIABLES
    jobs,       \* JobRegistry.jobs
    running,    \* JobRegistry.running
    caller,     \* where the thread that called run() stands, per identifier
    worker,     \* where the worker thread stands, per identifier
    overdue,    \* the job started at least its deadline ago
    expired,    \* the job finished at least JOB_RETENTION ago
    requester,  \* who asked, per identifier (history)
    deliveries  \* whom the result was handed to, in order (history)

vars == <<jobs, running, caller, worker, overdue, expired, requester, deliveries>>

JobStates == {"running", "completed", "completed_late"}

\* The result slot of a job: not yet there, there, or taken by a query.
Job == [owner: Owners, state: JobStates, value: {"none", "held"},
        finished: BOOLEAN]
ASSUME NoJobAssumption == NoJob \notin Job

CallerStates == {"idle", "waiting", "received", "complete", "accepted",
                 "timed_out", "refused", "panicked"}
WorkerStates == {"none", "working", "recorded", "sent"}

Init ==
    /\ jobs = [i \in Ids |-> NoJob]
    /\ running = 0
    /\ caller = [i \in Ids |-> "idle"]
    /\ worker = [i \in Ids |-> "none"]
    /\ overdue = [i \in Ids |-> FALSE]
    /\ expired = [i \in Ids |-> FALSE]
    /\ requester = [i \in Ids |-> NoOwner]
    /\ deliveries = [i \in Ids |-> <<>>]
----------------------------------------------------------------------------
Present(js) == {i \in Ids : js[i] # NoJob}

\* Fault: only collected results expire.
TrimmedCollected(js) ==
    [i \in Ids |-> IF js[i] # NoJob /\ js[i].finished /\ expired[i] /\ js[i].value = "none"
                   THEN NoJob ELSE js[i]]

\* trim_expired: finished jobs past their retention leave the registry.
Trimmed(js) ==
    [i \in Ids |-> IF js[i] # NoJob /\ js[i].finished /\ expired[i]
                   THEN NoJob ELSE js[i]]

Unfinished(js, o) == {i \in Present(js) : js[i].owner = o /\ ~js[i].finished}

\* Fault: finished jobs do not count as retained.
HasCapacityUnretained(js, o) ==
    /\ running < MaxActive
    /\ Cardinality({i \in Present(js) : ~js[i].finished}) < MaxRetained
    /\ Cardinality(Unfinished(js, o)) < MaxPerOwner

HasCapacity(js, o) ==
    /\ running < MaxActive
    /\ Cardinality(Present(js)) < MaxRetained
    /\ Cardinality(Unfinished(js, o)) < MaxPerOwner

\* What run() inserts before it spawns the worker.
Enqueued(js, i, o) ==
    [js EXCEPT ![i] = [owner |-> o, state |-> "running",
                       value |-> "none", finished |-> FALSE]]

\* Fault: the deadline is forgotten once the work ends.
RecordedOnTime(job, late) ==
    [job EXCEPT !.state = "completed", !.value = "held", !.finished = TRUE]

\* What the worker writes into its job.
Recorded(job, late) ==
    [owner |-> job.owner,
     state |-> IF late THEN "completed_late" ELSE "completed",
     value |-> "held",
     finished |-> TRUE]

\* running.saturating_sub(1)
Released(n) == IF n > 0 THEN n - 1 ELSE 0

\* Fault: the value is cloned out of the job.
CollectedCopy(job) == job

\* value.take()
Collected(job) == [job EXCEPT !.value = "none"]

\* run(): admitted; an asynchronous caller returns the identifier at once.
Run(i, o, asynchronous) ==
    /\ caller[i] = "idle"
    /\ HasCapacity(Trimmed(jobs), o)
    /\ jobs' = Enqueued(Trimmed(jobs), i, o)
    /\ running' = running + 1
    /\ requester' = [requester EXCEPT ![i] = o]
    /\ worker' = [worker EXCEPT ![i] = "working"]
    /\ caller' = [caller EXCEPT ![i] = IF asynchronous THEN "accepted" ELSE "waiting"]
    /\ UNCHANGED <<overdue, expired, deliveries>>

\* run(): no capacity; the registry was trimmed all the same.
RunRefused(i, o) ==
    /\ caller[i] = "idle"
    /\ ~HasCapacity(Trimmed(jobs), o)
    /\ jobs' = Trimmed(jobs)
    /\ requester' = [requester EXCEPT ![i] = o]
    /\ caller' = [caller EXCEPT ![i] = "refused"]
    /\ UNCHANGED <<running, worker, overdue, expired, deliveries>>

\* run(): std::thread::spawn panics after the job was entered and counted.
RunSpawnPanics(i, o) ==
    /\ SpawnMayFail
    /\ caller[i] = "idle"
    /\ HasCapacity(Trimmed(jobs), o)
    /\ jobs' = Enqueued(Trimmed(jobs), i, o)
    /\ running' = running + 1
    /\ requester' = [requester EXCEPT ![i] = o]
    /\ caller' = [caller EXCEPT ![i] = "panicked"]
    /\ UNCHANGED <<worker, overdue, expired, deliveries>>

\* The worker's work ended, normally or by a panic that is caught: the result
\* (or its replacement when it is too large) is recorded under the lock.
WorkerRecord(i) ==
    /\ worker[i] = "working"
    /\ worker' = [worker EXCEPT ![i] = "recorded"]
    /\ jobs' = IF jobs[i] = NoJob THEN jobs
               ELSE [jobs EXCEPT ![i] = Recorded(@, overdue[i])]
    /\ running' = Released(running)
    /\ UNCHANGED <<caller, overdue, expired, requester, deliveries>>

\* The worker sends the value; an asynchronous or departed caller dropped the
\* receiver and the value with it.
WorkerSend(i) ==
    /\ worker[i] = "recorded"
    /\ worker' = [worker EXCEPT ![i] = "sent"]
    /\ UNCHANGED <<jobs, running, caller, overdue, expired, requester, deliveries>>

\* recv_timeout returns the value.
CallerReceive(i) ==
    /\ caller[i] = "waiting"
    /\ worker[i] = "sent"
    /\ caller' = [caller EXCEPT ![i] = "received"]
    /\ UNCHANGED <<jobs, running, worker, overdue, expired, requester, deliveries>>

\* The caller takes the lock, removes the job and returns Complete(value).
CallerComplete(i) ==
    /\ caller[i] = "received"
    /\ jobs' = [jobs EXCEPT ![i] = NoJob]
    /\ caller' = [caller EXCEPT ![i] = "complete"]
    /\ deliveries' = [deliveries EXCEPT ![i] = Append(@, requester[i])]
    /\ UNCHANGED <<running, worker, overdue, expired, requester>>

\* Fault: the job is dropped with the caller that gives up on it.
CallerTimeoutRemoves(i) ==
    /\ caller[i] = "waiting"
    /\ overdue[i]
    /\ worker[i] # "sent"
    /\ caller' = [caller EXCEPT ![i] = "timed_out"]
    /\ jobs' = [jobs EXCEPT ![i] = NoJob]
    /\ UNCHANGED <<running, worker, overdue, expired, requester, deliveries>>

\* Fault: the caller stays until the work has ended.
CallerTimeoutAfterWork(i) ==
    /\ caller[i] = "waiting"
    /\ overdue[i]
    /\ worker[i] = "recorded"
    /\ caller' = [caller EXCEPT ![i] = "timed_out"]
    /\ UNCHANGED <<jobs, running, worker, overdue, expired, requester, deliveries>>

\* recv_timeout gives up: the job stays and the caller gets its identifier.
CallerTimeout(i) ==
    /\ caller[i] = "waiting"
    /\ overdue[i]
    /\ worker[i] # "sent"
    /\ caller' = [caller EXCEPT ![i] = "timed_out"]
    /\ UNCHANGED <<jobs, running, worker, overdue, expired, requester, deliveries>>

\* A job identifier is a random UUID: before run() returns it, nobody can name it.
Nameable(i) == caller[i] \notin {"waiting", "received", "panicked"}

\* Fault: knowing the identifier is enough.
MayReadAny(job, o) == job # NoJob

MayRead(job, o) == job # NoJob /\ job.owner = o

\* status(): any peer may present any identifier it could know. Only the owner
\* is answered, and the result is taken out of the job as it is handed out.
Status(i, o) ==
    LET js == Trimmed(jobs) IN
    /\ Nameable(i)
    /\ IF MayRead(js[i], o)
       THEN /\ jobs' = [js EXCEPT ![i] = Collected(@)]
            /\ deliveries' = [deliveries EXCEPT ![i] =
                                IF js[i].value = "held" THEN Append(@, o) ELSE @]
       ELSE /\ jobs' = js
            /\ UNCHANGED deliveries
    /\ UNCHANGED <<running, caller, worker, overdue, expired, requester>>

\* Time: the deadline of a job passes.
DeadlinePasses(i) ==
    /\ requester[i] # NoOwner
    /\ ~overdue[i]
    /\ overdue' = [overdue EXCEPT ![i] = TRUE]
    /\ UNCHANGED <<jobs, running, caller, worker, expired, requester, deliveries>>

\* Time: the retention interval of a finished job passes.
RetentionPasses(i) ==
    /\ jobs[i] # NoJob
    /\ jobs[i].finished
    /\ ~expired[i]
    /\ expired' = [expired EXCEPT ![i] = TRUE]
    /\ UNCHANGED <<jobs, running, caller, worker, overdue, requester, deliveries>>
----------------------------------------------------------------------------
Next ==
    \E i \in Ids :
        \/ \E o \in Owners :
              \/ \E asynchronous \in BOOLEAN : Run(i, o, asynchronous)
              \/ RunRefused(i, o)
              \/ RunSpawnPanics(i, o)
              \/ Status(i, o)
        \/ WorkerRecord(i)
        \/ WorkerSend(i)
        \/ CallerReceive(i)
        \/ CallerComplete(i)
        \/ CallerTimeout(i)
        \/ DeadlinePasses(i)
        \/ RetentionPasses(i)

Spec == Init /\ [][Next]_vars

\* Threads that hold a channel end keep running, and time passes.
CallersProceed ==
    \A i \in Ids :
        /\ WF_vars(WorkerSend(i))
        /\ WF_vars(CallerReceive(i))
        /\ WF_vars(CallerComplete(i))
        /\ WF_vars(CallerTimeout(i))
        /\ WF_vars(DeadlinePasses(i))

\* The dispatched work itself ends, and results age: assumed by CapacityReturns
\* only, because nothing in the code obliges the work to end.
WorkEnds == \A i \in Ids : WF_vars(WorkerRecord(i)) /\ WF_vars(RetentionPasses(i))

FairSpec == Spec /\ CallersProceed
----------------------------------------------------------------------------
TypeOK ==
    /\ jobs \in [Ids -> Job \cup {NoJob}]
    /\ running \in Nat
    /\ caller \in [Ids -> CallerStates]
    /\ worker \in [Ids -> WorkerStates]
    /\ overdue \in [Ids -> BOOLEAN]
    /\ expired \in [Ids -> BOOLEAN]
    /\ requester \in [Ids -> Owners \cup {NoOwner}]
    /\ deliveries \in [Ids -> Seq(Owners)]

Working == {i \in Ids : worker[i] = "working"}
Stranded == {i \in Ids : caller[i] = "panicked"}

\* The counter that admits requests is exactly the number of threads at work
\* plus the jobs whose thread could not be started, so no interleaving of
\* workers and callers runs more than MaxActive threads at a time.
ActiveBounded ==
    /\ running = Cardinality(Working) + Cardinality(Stranded)
    /\ running <= MaxActive

\* The registry never grows past its retention limit, and no owner has more
\* unfinished jobs than its quota, whoever else submits, completes or queries.
RegistryBounded ==
    /\ Cardinality(Present(jobs)) <= MaxRetained
    /\ \A o \in Owners : Cardinality(Unfinished(jobs, o)) <= MaxPerOwner

\* Where the threads, the job and the history of one identifier can stand
\* together; the strengthening from which the other invariants follow.
Life(i) ==
    LET ended == worker[i] \in {"recorded", "sent"} IN
    /\ caller[i] = "idle" <=> requester[i] = NoOwner
    /\ worker[i] = "none" <=> caller[i] \in {"idle", "refused", "panicked"}
    /\ caller[i] \in {"idle", "refused", "complete"} => jobs[i] = NoJob
    /\ caller[i] = "panicked" \/ worker[i] = "working" =>
          jobs[i] # NoJob /\ ~jobs[i].finished /\ jobs[i].value = "none"
    /\ ~ended => deliveries[i] = <<>> /\ ~expired[i]
    /\ jobs[i] # NoJob => jobs[i].owner = requester[i] /\ (ended <=> jobs[i].finished)
    /\ caller[i] \in {"waiting", "received"} =>
          /\ deliveries[i] = <<>>
          /\ jobs[i] = NoJob => expired[i]
          /\ ended /\ jobs[i] # NoJob => jobs[i].value = "held"
    /\ caller[i] = "received" => worker[i] = "sent"
    /\ caller[i] = "timed_out" => overdue[i]
    /\ caller[i] = "complete" => ended /\ deliveries[i] = <<requester[i]>>
    /\ caller[i] \in {"accepted", "timed_out"} /\ ended =>
          \/ jobs[i] = NoJob /\ expired[i] /\ deliveries[i] \in {<<>>, <<requester[i]>>}
          \/ jobs[i] # NoJob /\ jobs[i].value = "held" /\ deliveries[i] = <<>>
          \/ jobs[i] # NoJob /\ jobs[i].value = "none" /\ deliveries[i] = <<requester[i]>>

LivesConsistent == \A i \in Ids : Life(i)

\* No result is lost and none is handed out twice: once a job's work ended, its
\* result is still owed by the channel to a waiting caller, or held for a
\* query, or was handed to the requester, or outlived its retention.
ResultAccountedFor ==
    \A i \in Ids : worker[i] \in {"recorded", "sent"} =>
        \/ caller[i] \in {"waiting", "received"} /\ deliveries[i] = <<>>
        \/ jobs[i] # NoJob /\ jobs[i].value = "held" /\ deliveries[i] = <<>>
        \/ deliveries[i] = <<requester[i]>>
        \/ expired[i]

\* "A timed-out operation remains observable by its owner via its job ID":
\* from the moment run() hands out an identifier until the job's retention
\* ended, the job is in the registry under the owner who asked for it.
Observable ==
    \A i \in Ids :
        caller[i] \in {"accepted", "timed_out"} /\ ~expired[i] =>
            jobs[i] # NoJob /\ jobs[i].owner = requester[i]

\* "A worker finishing after the deadline reports completed_late": when the
\* caller already gave up on work that still runs, the recorded state says so.
LateIsMarked ==
    [][\A i \in Ids :
          caller[i] = "timed_out" /\ worker[i] = "working" /\ worker'[i] = "recorded"
              => jobs'[i] # NoJob /\ jobs'[i].state = "completed_late"]_vars

\* A caller with a deadline gets an answer even when the work never ends.
FiniteWait ==
    \A i \in Ids : caller[i] = "waiting" ~> caller[i] \in {"complete", "timed_out"}

\* When work ends and threads can be started, refusals are temporary: capacity
\* comes back to every owner without anybody collecting the results.
CapacityReturns ==
    WorkEnds /\ [](Stranded = {}) => \A o \in Owners :
        ~HasCapacity(Trimmed(jobs), o) ~> HasCapacity(Trimmed(jobs), o)

Phase ==
    [i \in Ids |->
        CASE caller[i] = "idle" -> "idle"
          [] caller[i] = "refused" -> "refused"
          [] caller[i] = "panicked" -> "stuck"
          [] worker[i] = "working" -> "executing"
          [] OTHER -> "ready"]

Contract == INSTANCE JobContract WITH phase <- Phase

\* The registry with its threads implements the contract its peers rely on.
ImplementsContract == Contract!Spec
=============================================================================
