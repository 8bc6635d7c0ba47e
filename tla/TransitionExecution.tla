------------------------- MODULE TransitionExecution -------------------------
(***************************************************************************)
(* One module-owned lifecycle transition: the operations of a battleplan   *)
(* run in waves along an explicit dependency graph, under attempts,        *)
(* deadlines and a cancellation token, and tell each other what they found *)
(* through the battlefield (lifecycle_transition_executor, dag_executor,   *)
(* orchestration, execution, executor, control and intelligence).          *)
(*                                                                         *)
(* The futures of a wave are polled by the one thread that blocks on the   *)
(* transition, so what lies between two awaits is a step. Most             *)
(* capabilities run in workers and processes of their own, at any pace;    *)
(* some work inside the poll and keep the thread until they return.        *)
(***************************************************************************)
EXTENDS Naturals, FiniteSets

CONSTANTS
    Ops,            \* the operations of the compiled battleplan
    Graphs,         \* the dependency graphs a caller may supply, Ops -> SUBSET Names
    Needs,          \* the intelligence an operation may refer to, Ops -> SUBSET Ops
    Attempts,       \* ExecutionControl::max_attempts, Ops -> Nat \ {0}
    Deadlines,      \* the operations whose ExecutionControl has a deadline
    Blocking,       \* the operations whose capability works inside the poll
    MayCancel       \* whether the holder of the token may cancel it

ASSUME TransitionAssumption ==
    /\ IsFiniteSet(Ops)
    /\ Needs \subseteq [Ops -> SUBSET Ops]
    /\ Attempts \in [Ops -> Nat \ {0}]
    /\ Deadlines \subseteq Ops /\ Blocking \subseteq Ops
    /\ MayCancel \in BOOLEAN

VARIABLES
    graph, needs,   \* the caller's graph and the contract's references
    pc,             \* where the transition's thread is
    phase,          \* LifecycleRuntimeState's phase
    cancelled,      \* the cancellation token
    pending,        \* tasks without an outcome
    outcome,        \* the orchestration's outcome of each task
    wave,           \* the tasks of the batch being awaited
    task,           \* each task's future
    attempt,        \* attempts begun by each task
    abandoned,      \* tasks with capabilities whose answer nobody awaits
    acted,          \* operations whose capability had its effect
    results,        \* normalized results, committed or completed
    intelligence,   \* operations whose intelligence is in the battlefield
    shown           \* the results in the last progress snapshot published

vars == <<graph, needs, pc, phase, cancelled, pending, outcome, wave, task, attempt,
          abandoned, acted, results, intelligence, shown>>

Outcomes == {"none", "success", "failure"}
Statuses == {"none", "succeeded", "failed", "cancelled"}

TypeOK ==
    /\ graph \in Graphs /\ needs \in Needs
    /\ pc \in {"enter", "plan", "schedule", "await", "report", "ended", "error"}
    /\ phase \in {"declared", "running", "succeeded", "failed", "cancelled"}
    /\ cancelled \in BOOLEAN
    /\ pending \subseteq Ops /\ wave \subseteq Ops
    /\ outcome \in [Ops -> Outcomes]
    /\ task \in [Ops -> {"idle", "ready", "attempt", "running", "over"}]
    /\ attempt \in [Ops -> Nat]
    /\ abandoned \subseteq Ops /\ acted \subseteq Ops /\ intelligence \subseteq Ops
    /\ results \in [Ops -> Statuses] /\ shown \in [Ops -> Statuses]

Init ==
    /\ graph \in Graphs
    /\ needs \in Needs
    /\ pc = "enter"
    /\ phase = "declared"
    /\ cancelled = FALSE
    /\ pending = {}
    /\ outcome = [o \in Ops |-> "none"]
    /\ wave = {}
    /\ task = [o \in Ops |-> "idle"]
    /\ attempt = [o \in Ops |-> 0]
    /\ abandoned = {}
    /\ acted = {}
    /\ results = [o \in Ops |-> "none"]
    /\ intelligence = {}
    /\ shown = [o \in Ops |-> "none"]

Of(f, value) == {o \in Ops : f[o] = value}

\* The future that is being polled by a capability that works inside the poll.
Occupying == Blocking \cap Of(task, "running")

\* The thread may poll the future of o: no capability keeps it, or o's own.
Polled(o) == Occupying \subseteq {o}

-----------------------------------------------------------------------------
(* The transition: entering, planning, waves and the terminal state *)

Enter ==
    /\ pc = "enter"
    /\ pc' = "plan"
    /\ phase' = "running"
    /\ UNCHANGED <<graph, needs, cancelled, pending, outcome, wave, task, attempt, abandoned,
                   acted, results, intelligence, shown>>

\* Plan validation: the tasks that can complete one layer after the other.
Layered ==
    LET layer[n \in 0 .. Cardinality(Ops)] ==
            IF n = 0 THEN {} ELSE {o \in Ops : graph[o] \subseteq layer[n - 1]}
    IN  layer[Cardinality(Ops)]

\* Unknown dependencies, operations that depend on themselves and cycles are
\* refused before anything runs.
Plan ==
    /\ pc = "plan"
    /\ IF Layered = Ops
       THEN pc' = "schedule" /\ pending' = Ops /\ UNCHANGED phase
       ELSE pc' = "error" /\ phase' = "failed" /\ UNCHANGED pending
    /\ UNCHANGED <<graph, needs, cancelled, outcome, wave, task, attempt, abandoned, acted,
                   results, intelligence, shown>>

\* Fault: a task is ready once its dependencies have an outcome.
ReadyOnceDecided == {o \in pending : \A d \in graph[o] : outcome[d] # "none"}

\* The pending tasks with a failed dependency, and those whose dependencies
\* all succeeded.
Blocked == {o \in pending : \E d \in graph[o] : outcome[d] = "failure"}
Ready == {o \in pending : \A d \in graph[o] : outcome[d] = "success"}

Scheduled(pc_, phase_, rest, batch) ==
    /\ pc' = pc_
    /\ phase' = phase_
    /\ pending' = rest
    /\ wave' = batch
    /\ outcome' = [o \in Ops |-> IF o \in Blocked THEN "failure" ELSE outcome[o]]
    /\ task' = [o \in Ops |-> IF o \in batch THEN "ready" ELSE task[o]]
    /\ UNCHANGED <<graph, needs, cancelled, attempt, abandoned, acted, results, intelligence>>

\* One turn of the orchestration's loop: the blocked fail, the ready form the
\* next batch.
Schedule ==
    /\ pc = "schedule"
    /\ pending # {} /\ pending \ Blocked # {}
    /\ Ready # {}
    /\ Scheduled("await", phase, pending \ Blocked, Ready)
    /\ UNCHANGED shown

\* Nothing is left to run.
ScheduleEnds ==
    /\ pc = "schedule"
    /\ pending \ Blocked = {}
    /\ Scheduled("report", phase, {}, {})
    /\ UNCHANGED shown

\* "orchestration reached an impossible execution state": what is left waits
\* for tasks that were blocked in this very turn. The communication published
\* then is the one the transition entered with, whose progress is 0 of N.
ScheduleStuck ==
    /\ pc = "schedule"
    /\ pending \ Blocked # {}
    /\ Ready = {}
    /\ Scheduled("error", "failed", pending \ Blocked, {})
    /\ shown' = [o \in Ops |-> "none"]

\* execute_batch joined all the tasks of the wave.
Joined ==
    /\ pc = "await"
    /\ \A o \in wave : task[o] = "over"
    /\ pc' = "schedule"
    /\ pending' = pending \ wave
    /\ outcome' = [o \in Ops |-> IF o \notin wave THEN outcome[o]
                        ELSE IF results[o] = "succeeded" THEN "success" ELSE "failure"]
    /\ wave' = {}
    /\ UNCHANGED <<graph, needs, phase, cancelled, task, attempt, abandoned, acted, results,
                   intelligence, shown>>

\* Fault: a snapshot of the completed results only.
CompletedAnew == [o \in Ops |-> IF results[o] = "none" THEN "failed" ELSE "none"]

\* complete_normalized_results: an operation without a result failed, the
\* orchestration having given it no other outcome.
Completed == [o \in Ops |-> IF results[o] = "none" THEN "failed" ELSE results[o]]

TerminalPhase(report) ==
    IF Of(report, "failed") # {} THEN "failed"
    ELSE IF Of(report, "cancelled") # {} THEN "cancelled" ELSE "succeeded"

\* Completed results are published, then the terminal phase is entered.
Report ==
    /\ pc = "report"
    /\ pc' = "ended"
    /\ results' = Completed
    /\ shown' = Completed
    /\ phase' = TerminalPhase(Completed)
    /\ UNCHANGED <<graph, needs, cancelled, pending, outcome, wave, task, attempt, abandoned,
                   acted, intelligence>>

-----------------------------------------------------------------------------
(* An operation: preparation, controlled attempts, propagation, commit *)

\* Its result is committed and published with all that were before it.
Commit(o, status) ==
    /\ results' = [results EXCEPT ![o] = status]
    /\ shown' = results'
    /\ task' = [task EXCEPT ![o] = "over"]

\* An error that leaves the task's future before the commit.
Escape(o) ==
    /\ task' = [task EXCEPT ![o] = "over"]
    /\ UNCHANGED <<results, shown>>

\* The operation's inputs are resolved against the battlefield of this moment.
Prepare(o) ==
    /\ task[o] = "ready"
    /\ Polled(o)
    /\ IF needs[o] \subseteq intelligence
       THEN task' = [task EXCEPT ![o] = "attempt"] /\ UNCHANGED <<results, shown>>
       ELSE Escape(o)
    /\ UNCHANGED <<graph, needs, pc, phase, cancelled, pending, outcome, wave, attempt,
                   abandoned, acted, intelligence>>

\* Fault: every attempt is counted as the first.
BeginAttemptAnew(o) ==
    /\ task[o] = "attempt"
    /\ Polled(o)
    /\ IF cancelled
       THEN Commit(o, "cancelled") /\ UNCHANGED attempt
       ELSE /\ attempt' = [attempt EXCEPT ![o] = 1]
            /\ task' = [task EXCEPT ![o] = "running"]
            /\ UNCHANGED <<results, shown>>
    /\ UNCHANGED <<graph, needs, pc, phase, cancelled, pending, outcome, wave, abandoned,
                   acted, intelligence>>

\* execute_controlled: the next attempt, unless the token was cancelled.
BeginAttempt(o) ==
    /\ task[o] = "attempt"
    /\ Polled(o)
    /\ IF cancelled
       THEN Commit(o, "cancelled") /\ UNCHANGED attempt
       ELSE /\ attempt' = [attempt EXCEPT ![o] = @ + 1]
            /\ task' = [task EXCEPT ![o] = "running"]
            /\ UNCHANGED <<results, shown>>
    /\ UNCHANGED <<graph, needs, pc, phase, cancelled, pending, outcome, wave, abandoned,
                   acted, intelligence>>

\* An attempt failed: the token first, then the next attempt or the error.
AttemptFailed(o) ==
    IF cancelled THEN Commit(o, "cancelled")
    ELSE IF attempt[o] < Attempts[o]
    THEN task' = [task EXCEPT ![o] = "attempt"] /\ UNCHANGED <<results, shown>>
    ELSE Commit(o, "failed")

\* The capability answers with an error, having acted or not.
CapabilityFails(o) ==
    /\ task[o] = "running"
    /\ Polled(o)
    /\ AttemptFailed(o)
    /\ acted' \in {acted, acted \cup {o}}
    /\ UNCHANGED <<graph, needs, pc, phase, cancelled, pending, outcome, wave, attempt,
                   abandoned, intelligence>>

\* The deadline passes first: the attempt's future is dropped, its worker is not.
\* While a capability works inside a poll nobody polls the timer.
DeadlinePasses(o) ==
    /\ task[o] = "running"
    /\ Polled(o)
    /\ o \in Deadlines \ Blocking
    /\ AttemptFailed(o)
    /\ abandoned' = abandoned \cup {o}
    /\ UNCHANGED <<graph, needs, pc, phase, cancelled, pending, outcome, wave, attempt, acted,
                   intelligence>>

\* The worker of a dropped attempt comes to its end; its answer goes nowhere.
AbandonedActs(o) ==
    /\ o \in abandoned
    /\ abandoned' = abandoned \ {o}
    /\ acted' = acted \cup {o}
    /\ UNCHANGED <<graph, needs, pc, phase, cancelled, pending, outcome, wave, task, attempt,
                   results, intelligence, shown>>

\* Fault: the payload is committed before its intelligence is selected.
CommitsFirst(o, selected) ==
    /\ Commit(o, "succeeded")
    /\ intelligence' = IF selected THEN intelligence \cup {o} ELSE intelligence

\* propagate, then commit: a selector the payload does not satisfy fails the
\* task after its effect and before its result.
Propagates(o, selected) ==
    IF selected
    THEN intelligence' = intelligence \cup {o} /\ Commit(o, "succeeded")
    ELSE Escape(o) /\ UNCHANGED intelligence

\* The capability succeeds; a token cancelled in the meantime voids the answer.
CapabilitySucceeds(o) ==
    /\ task[o] = "running"
    /\ Polled(o)
    /\ acted' = acted \cup {o}
    /\ IF cancelled
       THEN Commit(o, "cancelled") /\ UNCHANGED intelligence
       ELSE \E selected \in BOOLEAN : Propagates(o, selected)
    /\ UNCHANGED <<graph, needs, pc, phase, cancelled, pending, outcome, wave, attempt,
                   abandoned>>

\* Somebody who holds the token cancels it.
Cancel ==
    /\ MayCancel
    /\ ~cancelled
    /\ cancelled' = TRUE
    /\ UNCHANGED <<graph, needs, pc, phase, pending, outcome, wave, task, attempt, abandoned,
                   acted, results, intelligence, shown>>

-----------------------------------------------------------------------------

Thread ==
    \/ Enter \/ Plan \/ Schedule \/ ScheduleEnds \/ ScheduleStuck \/ Joined \/ Report
    \/ \E o \in Ops : Prepare(o) \/ BeginAttempt(o)

Answer(o) == CapabilityFails(o) \/ CapabilitySucceeds(o) \/ DeadlinePasses(o)

Next ==
    \/ Thread
    \/ \E o \in Ops : Answer(o) \/ AbandonedActs(o)
    \/ Cancel

\* The blocked thread is woken when it can go on, and timers fire while nobody
\* keeps it. A capability without a deadline may never answer, and one that works
\* inside the poll may never return.
Fairness ==
    /\ WF_vars(Thread)
    /\ \A o \in Deadlines \ Blocking : WF_vars(Answer(o))

Spec == Init /\ [][Next]_vars /\ Fairness

-----------------------------------------------------------------------------
(* Properties *)

\* The operations reachable against the edges of an accepted graph.
Upstream(o) ==
    LET reach[n \in 0 .. Cardinality(Ops)] ==
            IF n = 0 THEN graph[o] ELSE reach[n - 1] \cup UNION {graph[d] : d \in reach[n - 1]}
    IN  reach[Cardinality(Ops)]

\* A capability runs only after every operation upstream of it, however far,
\* acted, succeeded and left its intelligence; and one that refers only to what
\* is upstream never fails for want of it.
RunsOnCertainGround ==
    \A o \in Ops :
        /\ attempt[o] > 0 => /\ Upstream(o) \subseteq Of(results, "succeeded")
                             /\ Upstream(o) \cup needs[o] \subseteq acted \cap intelligence
        /\ (task[o] = "over" /\ attempt[o] = 0 /\ ~cancelled) => ~(needs[o] \subseteq Upstream(o))

\* What the transition reports when it ends is what happened: "succeeded" says
\* that every operation acted, "cancelled" that the token was; nothing is still
\* awaited, and nothing is told to have succeeded that left no intelligence.
ReportIsTrue ==
    pc = "ended" =>
        /\ wave = {} /\ pending = {}
        /\ shown = results /\ Of(results, "none") = {}
        /\ Of(results, "succeeded") = intelligence
        /\ phase = "succeeded" => acted = Ops
        /\ phase = "cancelled" => cancelled /\ Of(results, "cancelled") # {}

\* A published result stays published as it was while operations finish and when
\* the report completes them. (An infrastructure failure publishes the progress
\* with which the transition began to run.)
ProgressOnlyGrows ==
    [][pc' # "error" => \A o \in Ops : shown[o] # "none" => shown'[o] = shown[o]]_vars

\* With a deadline on every operation a transition ends, however failures,
\* deadlines, retries and the token fall, provided that a capability that works
\* inside the poll returns: no deadline interrupts it.
TransitionEnds ==
    Deadlines = Ops /\ []<>(Occupying = {}) => <>(pc \in {"ended", "error"})

\* "Orchestration can synthesize terminal outcomes for operations that never
\* ran, for example because an upstream dependency failed" (dag_executor.rs:
\* 512): a plan that was accepted ends with an outcome for every operation.
AcceptedPlanIsReported == pc = "error" => pending = {}
=============================================================================
