----------------------- MODULE TransitionExecutionProofs -----------------------
(***************************************************************************)
(* Proofs about the execution of a transition, for every finite set of     *)
(* operations, every dependency graph and every choice of attempts and     *)
(* deadlines.                                                              *)
(*                                                                         *)
(* The argument is about what has succeeded: it is the same as what left   *)
(* its intelligence, all of it acted, and it is closed under dependencies, *)
(* so it holds what is upstream of a task as soon as it holds the task's   *)
(* own dependencies.  Two recursive definitions are met on the way, the    *)
(* layers of plan validation and the operations upstream of another; both  *)
(* are treated by induction over the rounds.                               *)
(***************************************************************************)
EXTENDS TransitionExecution, FiniteSetTheorems, WellFoundedInduction, TLAPS

-----------------------------------------------------------------------------
(* Induction, and the two recursive definitions *)

\* Induction on natural numbers, as a fact about sets of them.
LEMMA SetInduction ==
    ASSUME NEW S, S \subseteq Nat, 0 \in S, \A n \in S : n + 1 \in S
    PROVE  S = Nat
<1> DEFINE R == {p \in Nat \X Nat : p[1] < p[2]}
           T == Nat \ S
<1>1. IsWellFoundedOn(R, Nat)
  <2>1. OpToRel(<, Nat) = R
    BY Zenon DEF OpToRel
  <2> QED
    BY <2>1, NatLessThanWellFounded, Zenon
<1> SUFFICES ASSUME T # {} PROVE FALSE
  OBVIOUS
<1>2. PICK x \in T : \A y \in T : ~ (<<y, x>> \in R)
  <2> HIDE DEF R
  <2> QED
    BY <1>1, WFMin
<1>3. \A y \in T : ~(y < x)
  BY <1>2
<1>4. x \in Nat /\ x # 0 /\ x - 1 \in Nat /\ x - 1 < x /\ (x - 1) + 1 = x
  BY <1>2
<1> QED
  BY <1>2, <1>3, <1>4

\* f holds the layers of plan validation up to the m-th.
IsLayers(f, m) ==
    f = [n \in 0 .. m |-> IF n = 0 THEN {} ELSE {o \in Ops : graph[o] \subseteq f[n - 1]}]

\* f holds what is reached from o in up to m steps more.
IsReach(f, m, o) ==
    f = [n \in 0 .. m |-> IF n = 0 THEN graph[o]
                          ELSE f[n - 1] \cup UNION {graph[d] : d \in f[n - 1]}]

\* The layers exist: each is computed from the one before.
LEMMA LayersExist == \A m \in Nat : \E f : IsLayers(f, m)
<1> DEFINE S == {m \in Nat : \E f : IsLayers(f, m)}
<1>1. 0 \in S
  <2>1. IsLayers([n \in 0 .. 0 |-> {}], 0)
    BY DEF IsLayers
  <2> QED
    BY <2>1
<1>2. ASSUME NEW m \in S PROVE m + 1 \in S
  <2>1. PICK f : IsLayers(f, m)
    OBVIOUS
  <2> DEFINE g == [n \in 0 .. m + 1 |->
                     IF n = m + 1 THEN {o \in Ops : graph[o] \subseteq f[m]} ELSE f[n]]
  <2>2. m \in Nat
    OBVIOUS
  <2>3. ASSUME NEW n \in 0 .. m + 1
        PROVE  g[n] = IF n = 0 THEN {} ELSE {o \in Ops : graph[o] \subseteq g[n - 1]}
    <3>1. CASE n = m + 1
      <4>1. n - 1 = m /\ m \in 0 .. m + 1 /\ m # m + 1 /\ n # 0
        BY <3>1, <2>2
      <4> QED
        BY <4>1, <3>1
    <3>2. CASE n # m + 1
      <4>1. /\ n \in 0 .. m
            /\ n # 0 => n - 1 \in 0 .. m /\ n - 1 \in 0 .. m + 1 /\ n - 1 # m + 1
        BY <3>2, <2>2
      <4>2. f[n] = IF n = 0 THEN {} ELSE {o \in Ops : graph[o] \subseteq f[n - 1]}
        BY <2>1, <4>1 DEF IsLayers
      <4> QED
        BY <4>1, <4>2, <3>2
    <3> QED
      BY <3>1, <3>2
  <2>4. IsLayers(g, m + 1)
    BY <2>3 DEF IsLayers
  <2> QED
    BY <2>2, <2>4
<1>3. S \subseteq Nat
  OBVIOUS
<1> HIDE DEF S
<1>4. S = Nat
  BY <1>1, <1>2, <1>3, SetInduction
<1> QED
  BY <1>4 DEF S

\* What is reached exists in the same way.
LEMMA ReachExists == ASSUME NEW o PROVE \A m \in Nat : \E f : IsReach(f, m, o)
<1> DEFINE S == {m \in Nat : \E f : IsReach(f, m, o)}
           More(x) == x \cup UNION {graph[d] : d \in x}
<1>1. 0 \in S
  <2>1. IsReach([n \in 0 .. 0 |-> graph[o]], 0, o)
    BY DEF IsReach
  <2> QED
    BY <2>1
<1>2. ASSUME NEW m \in S PROVE m + 1 \in S
  <2>1. PICK f : IsReach(f, m, o)
    OBVIOUS
  <2> DEFINE g == [n \in 0 .. m + 1 |-> IF n = m + 1 THEN More(f[m]) ELSE f[n]]
  <2>2. m \in Nat
    OBVIOUS
  <2>3. ASSUME NEW n \in 0 .. m + 1
        PROVE  g[n] = IF n = 0 THEN graph[o] ELSE More(g[n - 1])
    <3>1. CASE n = m + 1
      <4>1. n - 1 = m /\ m \in 0 .. m + 1 /\ m # m + 1 /\ n # 0
        BY <3>1, <2>2
      <4>2. g[n] = More(f[m]) /\ g[n - 1] = f[m]
        BY <4>1, <3>1
      <4> QED
        BY <4>1, <4>2
    <3>2. CASE n # m + 1
      <4>1. /\ n \in 0 .. m
            /\ n # 0 => n - 1 \in 0 .. m /\ n - 1 \in 0 .. m + 1 /\ n - 1 # m + 1
        BY <3>2, <2>2
      <4>2. f[n] = IF n = 0 THEN graph[o] ELSE More(f[n - 1])
        BY <2>1, <4>1 DEF IsReach
      <4>3. g[n] = f[n] /\ (n # 0 => g[n - 1] = f[n - 1])
        BY <4>1, <3>2
      <4> QED
        BY <4>2, <4>3
    <3> QED
      BY <3>1, <3>2
  <2>4. IsReach(g, m + 1, o)
    BY <2>3 DEF IsReach
  <2> QED
    BY <2>2, <2>4
<1>3. S \subseteq Nat
  OBVIOUS
<1> HIDE DEF S
<1>4. S = Nat
  BY <1>1, <1>2, <1>3, SetInduction
<1> QED
  BY <1>4 DEF S

\* There are finitely many rounds.
LEMMA Rounds == Cardinality(Ops) \in Nat
  BY TransitionAssumption, FS_CardinalityType

\* Plan validation computes the layers.
LEMMA LayeredIs ==
    \E f : IsLayers(f, Cardinality(Ops)) /\ Layered = f[Cardinality(Ops)]
<1>1. \E f : IsLayers(f, Cardinality(Ops))
  BY LayersExist, Rounds
<1> QED
  BY <1>1 DEF Layered, IsLayers

\* What is upstream is what is reached.
LEMMA UpstreamIs ==
    ASSUME NEW o
    PROVE  \E f : IsReach(f, Cardinality(Ops), o) /\ Upstream(o) = f[Cardinality(Ops)]
<1>1. \E f : IsReach(f, Cardinality(Ops), o)
  BY ReachExists, Rounds
<1> QED
  BY <1>1 DEF Upstream, IsReach

\* A set closed under dependencies that holds those of an operation holds all
\* that is upstream of it.
LEMMA UpstreamIsLeast ==
    ASSUME NEW o, NEW X, graph[o] \subseteq X, \A d \in X : graph[d] \subseteq X
    PROVE  Upstream(o) \subseteq X
<1> DEFINE N == Cardinality(Ops)
<1>1. PICK f : IsReach(f, N, o) /\ Upstream(o) = f[N]
  BY UpstreamIs
<1> DEFINE S == {n \in Nat : n \in 0 .. N => f[n] \subseteq X}
<1>2. 0 \in S
  BY <1>1, Rounds DEF IsReach
<1>3. ASSUME NEW n \in S PROVE n + 1 \in S
  <2>1. CASE n + 1 \in 0 .. N
    <3>1. n \in 0 .. N /\ n + 1 # 0 /\ (n + 1) - 1 = n
      BY <2>1, Rounds
    <3>2. f[n + 1] = f[n] \cup UNION {graph[d] : d \in f[n]}
      BY <1>1, <2>1, <3>1 DEF IsReach
    <3> QED
      BY <3>1, <3>2
  <2> QED
    BY <2>1
<1>4. S \subseteq Nat
  OBVIOUS
<1>5. N \in Nat /\ N \in 0 .. N
  BY Rounds
<1> HIDE DEF S, N
<1>6. S = Nat
  BY <1>2, <1>3, <1>4, SetInduction
<1> QED
  BY <1>1, <1>5, <1>6 DEF S

\* What each layer is.
LEMMA LayerIs ==
    ASSUME NEW f, NEW m \in Nat, IsLayers(f, m)
    PROVE  /\ f[0] = {}
           /\ \A n \in 0 .. m : n # 0 => f[n] = {o \in Ops : graph[o] \subseteq f[n - 1]}
           /\ \A n \in 0 .. m : f[n] \subseteq Ops
<1>1. \A n \in 0 .. m :
          f[n] = IF n = 0 THEN {} ELSE {o \in Ops : graph[o] \subseteq f[n - 1]}
  BY DEF IsLayers
<1>2. 0 \in 0 .. m
  OBVIOUS
<1> QED
  BY <1>1, <1>2

\* The dependencies of every operation are operations, and no set of them
\* waits for itself.
Acyclic ==
    /\ \A o \in Ops : graph[o] \subseteq Ops
    /\ \A T \in SUBSET Ops : T # {} => \E o \in T : graph[o] \cap T = {}

\* The layers grow, by one operation at least until all are in.
LEMMA LayersGrow ==
    ASSUME Acyclic, NEW f, IsLayers(f, Cardinality(Ops))
    PROVE  f[Cardinality(Ops)] = Ops
<1> DEFINE N == Cardinality(Ops)
           Grown(n) == /\ \A o \in f[n] : graph[o] \subseteq f[n]
                       /\ f[n] = Ops \/ Cardinality(f[n]) >= n
           S == {n \in Nat : n \in 0 .. N => Grown(n)}
<1>0. N \in Nat /\ IsFiniteSet(Ops)
  BY Rounds, TransitionAssumption
<1>1. /\ f[0] = {}
      /\ \A n \in 0 .. N : n # 0 => f[n] = {o \in Ops : graph[o] \subseteq f[n - 1]}
      /\ \A n \in 0 .. N : f[n] \subseteq Ops
  BY <1>0, LayerIs
<1> HIDE DEF N
<1>2. 0 \in S
  BY <1>1, FS_EmptySet
<1>3. ASSUME NEW n \in S PROVE n + 1 \in S
  <2> SUFFICES ASSUME n + 1 \in 0 .. N PROVE Grown(n + 1)
    OBVIOUS
  <2>1. n \in Nat /\ n \in 0 .. N /\ n + 1 # 0 /\ (n + 1) - 1 = n
    BY <1>0
  <2>2. f[n + 1] = {o \in Ops : graph[o] \subseteq f[n]} /\ f[n] \subseteq Ops
    BY <1>1, <2>1
  <2>3. Grown(n)
    BY <2>1
  <2>4. f[n] \subseteq f[n + 1]
    BY <2>2, <2>3
  <2>5. \A o \in f[n + 1] : graph[o] \subseteq f[n + 1]
    BY <2>2, <2>4
  <2>6. CASE f[n] = Ops
    BY <2>2, <2>4, <2>5, <2>6
  <2>7. CASE f[n] # Ops
    <3>1. PICK o \in Ops \ f[n] : graph[o] \cap (Ops \ f[n]) = {}
      BY <2>2, <2>7 DEF Acyclic
    <3>2. o \in f[n + 1]
      BY <2>2, <3>1 DEF Acyclic
    <3>3. IsFiniteSet(f[n]) /\ IsFiniteSet(f[n + 1])
      BY <1>0, <2>2, FS_Subset
    <3>5. Cardinality(f[n]) \in Nat /\ Cardinality(f[n + 1]) \in Nat
      BY <3>3, FS_CardinalityType
    <3>4. Cardinality(f[n]) < Cardinality(f[n + 1])
      <4>1. f[n] # f[n + 1]
        BY <3>1, <3>2
      <4>2. Cardinality(f[n]) <= Cardinality(f[n + 1])
        BY <2>4, <3>3, FS_Subset
      <4>3. Cardinality(f[n + 1]) # Cardinality(f[n])
        BY <2>4, <3>3, <4>1, FS_Subset
      <4> QED
        BY <3>5, <4>2, <4>3
    <3>6. Cardinality(f[n]) >= n
      BY <2>3, <2>7
    <3>7. Cardinality(f[n + 1]) >= n + 1
      BY <2>1, <3>4, <3>5, <3>6
    <3> QED
      BY <2>5, <3>7
  <2> QED
    BY <2>6, <2>7
<1>4. S \subseteq Nat
  OBVIOUS
<1> HIDE DEF S
<1>5. S = Nat
  BY <1>2, <1>3, <1>4, SetInduction
<1>6. Grown(N) /\ N \in 0 .. N
  BY <1>0, <1>5 DEF S
<1>7. f[N] \subseteq Ops
  BY <1>1, <1>6
<1>8. CASE f[N] # Ops
  <2>1. Cardinality(f[N]) <= Cardinality(Ops) /\ Cardinality(Ops) # Cardinality(f[N])
    BY <1>0, <1>7, <1>8, FS_Subset
  <2>2. Cardinality(f[N]) \in Nat /\ Cardinality(Ops) = N
    BY <1>0, <1>7, FS_Subset, FS_CardinalityType DEF N
  <2> QED
    BY <1>0, <1>6, <1>8, <2>1, <2>2
<1> QED
  BY <1>8 DEF N

\* Plan validation accepts exactly the plans whose dependencies are operations
\* and whose graph has no cycle (OrchestrationPlan::validate).
THEOREM PlansAreAcyclic == Layered = Ops <=> Acyclic
<1> DEFINE N == Cardinality(Ops)
<1>1. PICK f : IsLayers(f, N) /\ Layered = f[N]
  BY LayeredIs
<1>2. N \in Nat
  BY Rounds
<1>3. /\ f[0] = {}
      /\ \A n \in 0 .. N : n # 0 => f[n] = {o \in Ops : graph[o] \subseteq f[n - 1]}
      /\ \A n \in 0 .. N : f[n] \subseteq Ops
  BY <1>1, <1>2, LayerIs
<1>4. Acyclic => Layered = Ops
  BY <1>1, LayersGrow
<1> HIDE DEF N
<1>5. ASSUME f[N] = Ops PROVE Acyclic
  <2>1. ASSUME NEW o \in Ops PROVE graph[o] \subseteq Ops
    <3>1. N # 0 /\ N \in 0 .. N /\ N - 1 \in 0 .. N
      BY <1>2, <1>3, <1>5, <2>1
    <3> QED
      BY <1>3, <1>5, <2>1, <3>1
  <2>2. ASSUME NEW T \in SUBSET Ops, \A o \in T : graph[o] \cap T # {}
        PROVE  T = {}
    <3> DEFINE S == {n \in Nat : n \in 0 .. N => f[n] \cap T = {}}
    <3>1. 0 \in S
      BY <1>3
    <3>2. ASSUME NEW n \in S PROVE n + 1 \in S
      <4> SUFFICES ASSUME n + 1 \in 0 .. N PROVE f[n + 1] \cap T = {}
        OBVIOUS
      <4>1. n \in 0 .. N /\ n + 1 # 0 /\ (n + 1) - 1 = n
        BY <1>2
      <4>2. f[n + 1] = {o \in Ops : graph[o] \subseteq f[n]} /\ f[n] \cap T = {}
        BY <1>3, <4>1
      <4> QED
        BY <2>2, <4>2
    <3>3. S \subseteq Nat
      OBVIOUS
    <3> HIDE DEF S
    <3>4. S = Nat
      BY <3>1, <3>2, <3>3, SetInduction
    <3>5. f[N] \cap T = {}
      BY <1>2, <3>4 DEF S
    <3> QED
      BY <1>5, <3>5
  <2> QED
    BY <2>1, <2>2 DEF Acyclic
<1> QED
  BY <1>1, <1>4, <1>5

-----------------------------------------------------------------------------
(* The inductive invariant *)

Succeeded == Of(results, "succeeded")

\* What runs has passed plan validation.
Planned ==
    /\ pc \in {"schedule", "await", "report", "ended"} => \A o \in Ops : graph[o] \subseteq Ops
    /\ pc \in {"enter", "plan"} => \A o \in Ops : task[o] = "idle"

\* Only the tasks of a wave are under way, and only while it is awaited.
Waves ==
    /\ pc # "await" => wave = {}
    /\ pc \in {"report", "ended"} => pending = {}
    /\ wave \subseteq pending
    /\ \A o \in Ops : task[o] \in {"ready", "attempt", "running"} => o \in wave
    /\ \A o \in pending \ wave : task[o] = "idle"

\* What is reported of an operation is what happened to it, and it has been
\* shown.
Reported ==
    /\ pc # "error" => shown = results
    /\ \A o \in Ops :
          /\ results[o] # "none" => task[o] = "over" \/ pc = "ended"
          /\ results[o] = "succeeded" => task[o] = "over" /\ o \in acted
          /\ results[o] = "succeeded" <=> o \in intelligence
          /\ results[o] = "cancelled" => cancelled
          /\ outcome[o] = "success" => results[o] = "succeeded"
    /\ pc = "ended" => Of(results, "none") = {} /\ phase = TerminalPhase(results)

\* A task is taken up over dependencies that succeeded and attempted over the
\* intelligence it refers to; one that was not attempted refers to more than
\* what is upstream of it.
Grounded ==
    \A o \in Ops :
        /\ task[o] \in {"idle", "ready"} => attempt[o] = 0
        /\ task[o] = "running" => attempt[o] > 0
        /\ task[o] # "idle" => graph[o] \subseteq Succeeded
        /\ attempt[o] > 0 \/ task[o] \in {"attempt", "running"} => needs[o] \subseteq intelligence
        /\ task[o] = "over" /\ attempt[o] = 0 /\ ~cancelled => ~(needs[o] \subseteq Upstream(o))

IInv == TypeOK /\ Planned /\ Waves /\ Reported /\ Grounded

USE DEF Outcomes, Statuses

-----------------------------------------------------------------------------
(* The steps *)

\* What every step of a task has in common: it is a task of the wave; it may
\* end with a result, which is shown, and leaves every other task alone.
TaskStep(o) ==
    /\ task[o] \in {"ready", "attempt", "running"} /\ task[o] # task'[o]
    /\ task'[o] \in {"attempt", "running", "over"}
    /\ \A p \in Ops \ {o} : /\ task'[p] = task[p] /\ results'[p] = results[p]
                            /\ attempt'[p] = attempt[p]
    /\ results'[o] # results[o] => task'[o] = "over" /\ results'[o] # "none"
    /\ shown' = results' \/ (shown' = shown /\ results' = results)
    /\ results'[o] = "cancelled" /\ results[o] # "cancelled" => cancelled
    /\ results'[o] = "succeeded" /\ results[o] # "succeeded" => o \in acted'
    /\ \A p \in Ops : p \in intelligence' <=>
          p \in intelligence \/ (p = o /\ results[o] # "succeeded" /\ results'[o] = "succeeded")
    /\ acted \subseteq acted'
    /\ task[o] = "ready" /\ task'[o] # "over" => needs[o] \subseteq intelligence
    /\ task[o] = "ready" /\ task'[o] = "over" => ~(needs[o] \subseteq intelligence)
    /\ task[o] = "ready" => attempt'[o] = attempt[o] /\ task'[o] # "running"
    /\ task[o] = "attempt" /\ task'[o] = "over" => cancelled
    /\ task[o] \in {"attempt", "running"} => attempt'[o] >= attempt[o]
    /\ task[o] = "attempt" /\ task'[o] = "running" => attempt'[o] > 0
    /\ task[o] = "running" => attempt'[o] = attempt[o] /\ task'[o] # "running"
    /\ UNCHANGED <<graph, needs, pc, phase, cancelled, pending, outcome, wave>>

\* Each of the task's actions is such a step.
LEMMA TaskSteps ==
    ASSUME IInv, NEW o \in Ops, Prepare(o) \/ BeginAttempt(o) \/ Answer(o)
    PROVE  TaskStep(o) /\ TypeOK'
<1> USE DEF IInv, TypeOK, TaskStep
<1>0. results[o] = "none" \/ task[o] = "over" \/ pc = "ended"
  BY DEF Reported
<1>1. task[o] \in {"ready", "attempt", "running"} => results[o] = "none" /\ o \notin intelligence
  BY DEF Reported, Waves
<1>2. CASE Prepare(o)
  BY <1>1, <1>2 DEF Prepare, Escape
<1>3. CASE BeginAttempt(o)
  BY <1>1, <1>3 DEF BeginAttempt, Commit
<1>4. ASSUME AttemptFailed(o), task[o] = "running"
      PROVE  /\ task' \in [Ops -> {"idle", "ready", "attempt", "running", "over"}]
             /\ results' \in [Ops -> Statuses] /\ shown' \in [Ops -> Statuses]
             /\ task'[o] \in {"attempt", "over"}
             /\ \A p \in Ops \ {o} : task'[p] = task[p] /\ results'[p] = results[p]
             /\ results'[o] # results[o] => task'[o] = "over" /\ results'[o] # "none"
             /\ results'[o] # "succeeded"
             /\ results'[o] = "cancelled" => cancelled
             /\ shown' = results' \/ (shown' = shown /\ results' = results)
  BY <1>1, <1>4 DEF AttemptFailed, Commit
<1>5. CASE CapabilityFails(o)
  BY <1>1, <1>4, <1>5 DEF CapabilityFails
<1>6. CASE DeadlinePasses(o)
  BY <1>1, <1>4, <1>6 DEF DeadlinePasses
<1>7. CASE CapabilitySucceeds(o)
  BY <1>1, <1>7 DEF CapabilitySucceeds, Propagates, Commit, Escape
<1> QED
  BY <1>2, <1>3, <1>5, <1>6, <1>7 DEF Answer

\* What succeeded is closed under dependencies, so what is upstream of a task
\* that was taken up has succeeded.
LEMMA UpstreamSucceeded ==
    ASSUME IInv, NEW o \in Ops, graph[o] \subseteq Succeeded
    PROVE  /\ Upstream(o) \subseteq Succeeded
           /\ Succeeded \subseteq intelligence /\ Succeeded \subseteq acted
<1>1. \A d \in Succeeded : graph[d] \subseteq Succeeded
  BY DEF IInv, Grounded, Reported, Succeeded, Of
<1>2. Upstream(o) \subseteq Succeeded
  BY <1>1, UpstreamIsLeast
<1> QED
  BY <1>2 DEF IInv, Reported, Succeeded, Of

\* What is upstream is fixed with the graph.
LEMMA UpstreamIsFixed == ASSUME graph' = graph PROVE \A o \in Ops : Upstream(o)' = Upstream(o)
  BY DEF Upstream

\* The steps of a task preserve the invariant.
LEMMA TaskKeeps ==
    ASSUME IInv, NEW o \in Ops, TaskStep(o), TypeOK'
    PROVE  IInv'
<1>0. /\ task[o] \in {"ready", "attempt", "running"}
      /\ results[o] = "none" /\ o \in wave /\ pc = "await"
  BY DEF IInv, TaskStep, Waves, Reported
<1>1. Planned'
  BY <1>0 DEF IInv, TaskStep, Planned
<1>2. Waves'
  BY <1>0 DEF IInv, TypeOK, TaskStep, Waves
<1>3. Reported'
  <2>1. pc' # "error" => shown' = results'
    BY DEF IInv, TaskStep, Reported
  <2>2. ASSUME NEW p \in Ops
        PROVE  /\ results'[p] # "none" => task'[p] = "over"
               /\ results'[p] = "succeeded" => task'[p] = "over" /\ p \in acted'
               /\ results'[p] = "succeeded" <=> p \in intelligence'
               /\ results'[p] = "cancelled" => cancelled'
               /\ outcome'[p] = "success" => results'[p] = "succeeded"
    <3>1. CASE p = o
      BY <1>0, <3>1 DEF IInv, TaskStep, Reported
    <3>2. CASE p # o
      BY <1>0, <3>2 DEF IInv, TaskStep, Reported
    <3> QED
      BY <3>1, <3>2
  <2>3. pc' # "ended"
    BY <1>0 DEF TaskStep
  <2> QED
    BY <2>1, <2>2, <2>3 DEF Reported
<1>4. Succeeded \subseteq Succeeded'
  BY <1>0 DEF TaskStep, Succeeded, Of
<1>5. \A p \in Ops : Upstream(p)' = Upstream(p)
  BY UpstreamIsFixed DEF TaskStep
<1>6. Grounded'
  <2>1. ASSUME NEW p \in Ops, p # o
        PROVE  /\ task'[p] = task[p] /\ attempt'[p] = attempt[p] /\ graph' = graph
               /\ needs' = needs /\ cancelled' = cancelled /\ intelligence \subseteq intelligence'
    BY <2>1 DEF IInv, TaskStep, TypeOK
  <2>2. ASSUME NEW p \in Ops, p # o
        PROVE  /\ task'[p] \in {"idle", "ready"} => attempt'[p] = 0
               /\ task'[p] = "running" => attempt'[p] > 0
               /\ task'[p] # "idle" => graph'[p] \subseteq Succeeded'
               /\ attempt'[p] > 0 \/ task'[p] \in {"attempt", "running"} =>
                      needs'[p] \subseteq intelligence'
               /\ task'[p] = "over" /\ attempt'[p] = 0 /\ ~cancelled' =>
                      ~(needs'[p] \subseteq Upstream(p)')
    BY <1>4, <1>5, <2>1, <2>2 DEF IInv, Grounded
  <2>3. graph[o] \subseteq Succeeded
    BY <1>0 DEF IInv, Grounded
  <2>4. Upstream(o) \subseteq intelligence
    BY <2>3, UpstreamSucceeded
  <2>5. /\ intelligence \subseteq intelligence' /\ attempt[o] \in Nat /\ attempt'[o] \in Nat
        /\ graph' = graph /\ needs' = needs /\ cancelled' = cancelled
    BY DEF IInv, TaskStep, TypeOK
  <2>6. /\ task'[o] \in {"idle", "ready"} => attempt'[o] = 0
        /\ task'[o] = "running" => attempt'[o] > 0
        /\ graph'[o] \subseteq Succeeded'
    BY <1>0, <1>4, <2>3, <2>5 DEF TaskStep
  <2>7. attempt'[o] > 0 \/ task'[o] \in {"attempt", "running"} =>
            needs'[o] \subseteq intelligence'
    BY <1>0, <2>5 DEF IInv, Grounded, TaskStep
  <2>8. task'[o] = "over" /\ attempt'[o] = 0 /\ ~cancelled' =>
            ~(needs'[o] \subseteq Upstream(o)')
    BY <1>0, <1>5, <2>4, <2>5 DEF IInv, Grounded, TaskStep
  <2> QED
    BY <2>2, <2>6, <2>7, <2>8 DEF Grounded
<1> QED
  BY <1>1, <1>2, <1>3, <1>6 DEF IInv

\* A step that leaves the tasks, the results and the intelligence alone leaves
\* the ground of every operation alone.
LEMMA GroundStays ==
    ASSUME IInv, UNCHANGED <<graph, needs, task, attempt, results, intelligence>>,
           cancelled => cancelled'
    PROVE  Grounded'
<1>1. \A p \in Ops : Upstream(p)' = Upstream(p)
  BY UpstreamIsFixed
<1>2. Succeeded' = Succeeded
  BY DEF Succeeded, Of
<1> QED
  BY <1>1, <1>2 DEF IInv, Grounded

\* A turn of the scheduling loop takes up tasks whose dependencies succeeded.
LEMMA ScheduleKeeps ==
    ASSUME IInv, Schedule \/ ScheduleEnds \/ ScheduleStuck
    PROVE  IInv'
<1>1. PICK pc_ \in {"await", "report", "error"}, phase_ \in {phase, "failed"},
           rest \in SUBSET pending, batch \in SUBSET Ready :
          /\ Scheduled(pc_, phase_, rest, batch)
          /\ pc = "schedule"
          /\ batch \subseteq rest
          /\ pc_ # "await" => batch = {}
          /\ pc_ = "report" => rest = {}
          /\ \/ shown' = shown
             \/ pc_ = "error" /\ shown' \in [Ops -> {"none"}]
  <2>1. CASE Schedule
    <3>1. Ready \subseteq pending \ Blocked
      BY DEF Ready, Blocked
    <3> QED
      BY <2>1, <3>1 DEF Schedule
  <2>2. CASE ScheduleEnds
    BY <2>2 DEF ScheduleEnds
  <2>3. CASE ScheduleStuck
    <3>1. shown' \in [Ops -> {"none"}]
      BY <2>3 DEF ScheduleStuck
    <3>2. Scheduled("error", "failed", pending \ Blocked, {}) /\ pc = "schedule"
      BY <2>3 DEF ScheduleStuck
    <3> QED
      BY <3>1, <3>2
  <2> QED
    BY <2>1, <2>2, <2>3
<1>2. /\ pc' = pc_ /\ pending' = rest /\ wave' = batch /\ phase' = phase_
      /\ batch \subseteq pending /\ rest \subseteq pending
      /\ UNCHANGED <<graph, needs, cancelled, attempt, acted, results, intelligence>>
      /\ outcome' = [o \in Ops |-> IF o \in Blocked THEN "failure" ELSE outcome[o]]
      /\ task' = [o \in Ops |-> IF o \in batch THEN "ready" ELSE task[o]]
  BY <1>1 DEF Scheduled, Ready
<1>3. wave = {} /\ \A o \in pending : task[o] = "idle"
  BY <1>1 DEF IInv, Waves
<1>4. TypeOK'
  BY <1>1, <1>2 DEF IInv, TypeOK, Scheduled
<1>5. Planned'
  BY <1>1, <1>2 DEF IInv, Planned
<1>6. Waves'
  BY <1>1, <1>2, <1>3 DEF IInv, Waves, TypeOK
<1>7. Reported'
  <2>1. \A o \in Ops : results[o] # "none" => task'[o] = "over"
    BY <1>1, <1>2, <1>3 DEF IInv, Reported
  <2>2. \A o \in Ops : outcome'[o] = "success" => outcome[o] = "success"
    BY <1>2
  <2> QED
    BY <1>1, <1>2, <2>1, <2>2 DEF IInv, Reported
<1>8. Grounded'
  <2>1. \A o \in Ops : Upstream(o)' = Upstream(o)
    BY <1>2, UpstreamIsFixed
  <2>2. Succeeded' = Succeeded
    BY <1>2 DEF Succeeded, Of
  <2>3. \A o \in batch : graph[o] \subseteq Succeeded /\ attempt[o] = 0
    <3>1. \A o \in batch : graph[o] \subseteq Ops /\ \A d \in graph[o] : outcome[d] = "success"
      BY <1>1, <1>2 DEF IInv, Planned, Ready, TypeOK
    <3> QED
      BY <1>2, <1>3, <3>1 DEF IInv, Reported, Grounded, TypeOK, Succeeded, Of
  <2> QED
    BY <1>2, <2>1, <2>2, <2>3 DEF IInv, Grounded
<1> QED
  BY <1>4, <1>5, <1>6, <1>7, <1>8 DEF IInv

\* Every other step of the thread, of an abandoned worker and of the token.
LEMMA OthersKeep ==
    ASSUME IInv, \/ Enter \/ Plan \/ Joined \/ Cancel
                 \/ \E o \in Ops : AbandonedActs(o)
    PROVE  IInv'
<1> USE DEF IInv, TypeOK
<1>1. CASE Enter
  BY <1>1, GroundStays DEF Enter, Planned, Waves, Reported
<1>2. CASE Plan
  BY <1>2, GroundStays, PlansAreAcyclic DEF Acyclic, Plan, Planned, Waves, Reported
<1>3. CASE Joined
  <2>1. /\ pc = "await" /\ pc' = "schedule" /\ pending' = pending \ wave /\ wave' = {}
        /\ UNCHANGED <<graph, needs, phase, cancelled, task, attempt, abandoned, acted,
                       results, intelligence, shown>>
        /\ \A o \in wave : task[o] = "over"
    BY <1>3 DEF Joined
  <2>2. /\ outcome' \in [Ops -> Outcomes]
        /\ \A o \in Ops : outcome'[o] = "success" => results[o] = "succeeded"
    BY <1>3 DEF Joined, Reported
  <2>3. Grounded'
    BY <2>1, GroundStays
  <2> QED
    BY <2>1, <2>2, <2>3 DEF Planned, Waves, Reported
<1>4. CASE Cancel
  BY <1>4, GroundStays DEF Cancel, Planned, Waves, Reported
<1>5. ASSUME NEW o \in Ops, AbandonedActs(o) PROVE IInv'
  BY <1>5, GroundStays DEF AbandonedActs, Planned, Waves, Reported
<1> QED
  BY <1>1, <1>2, <1>3, <1>4, <1>5

\* The report gives a result to the operations that had none.
LEMMA ReportKeeps == ASSUME IInv, Report PROVE IInv'
<1> USE DEF IInv, TypeOK
<1>1. /\ pc = "report" /\ pc' = "ended" /\ results' = Completed /\ shown' = Completed
      /\ phase' = TerminalPhase(Completed)
      /\ UNCHANGED <<graph, needs, cancelled, pending, outcome, wave, task, attempt, abandoned,
                     acted, intelligence>>
  BY DEF Report
<1>2. /\ results' \in [Ops -> Statuses \ {"none"}]
      /\ \A o \in Ops : results[o] # "none" => results'[o] = results[o]
      /\ \A o \in Ops : results[o] = "none" => results'[o] = "failed"
  BY <1>1 DEF Completed
<1>3. Succeeded' = Succeeded
  BY <1>2 DEF Succeeded, Of
<1>4. \A p \in Ops : Upstream(p)' = Upstream(p)
  BY <1>1, UpstreamIsFixed
<1>5. Grounded'
  BY <1>1, <1>3, <1>4 DEF Grounded
<1>6. Of(results', "none") = {} /\ phase' = TerminalPhase(results')
  BY <1>1, <1>2 DEF Of
<1>7. phase' \in {"succeeded", "failed", "cancelled"}
  BY <1>1 DEF TerminalPhase
<1>8. Reported'
  <2>1. \A o \in Ops :
          /\ results'[o] = "succeeded" => task'[o] = "over" /\ o \in acted'
          /\ results'[o] = "succeeded" <=> o \in intelligence'
          /\ results'[o] = "cancelled" => cancelled'
          /\ outcome'[o] = "success" => results'[o] = "succeeded"
    BY <1>1, <1>2 DEF Reported
  <2>2. Of(results, "none")' = {} /\ phase' = TerminalPhase(results)'
    BY <1>6 DEF TerminalPhase, Of
  <2> QED
    BY <1>1, <2>1, <2>2 DEF Reported
<1> QED
  BY <1>1, <1>2, <1>5, <1>7, <1>8 DEF Planned, Waves

\* The invariant holds in every state.
THEOREM Invariant == Spec => []IInv
<1>1. Init => IInv
  <2> SUFFICES ASSUME Init PROVE IInv
    OBVIOUS
  <2>1. TypeOK
    BY DEF Init, TypeOK
  <2>2. Planned /\ Waves /\ Reported
    BY DEF Init, Planned, Waves, Reported
  <2>3. Grounded
    BY DEF Init, Grounded
  <2> QED
    BY <2>1, <2>2, <2>3 DEF IInv
<1>2. IInv /\ [Next]_vars => IInv'
  <2> SUFFICES ASSUME IInv, [Next]_vars PROVE IInv'
    OBVIOUS
  <2>1. ASSUME NEW o \in Ops, Prepare(o) \/ BeginAttempt(o) \/ Answer(o) PROVE IInv'
    BY <2>1, TaskSteps, TaskKeeps
  <2>2. CASE UNCHANGED vars
    <3>1. Grounded'
      BY <2>2, GroundStays DEF vars
    <3> QED
      BY <2>2, <3>1 DEF vars, IInv, TypeOK, Planned, Waves, Reported, Of, TerminalPhase
  <2> QED
    BY <2>1, <2>2, ScheduleKeeps, OthersKeep, ReportKeeps DEF Next, Thread
<1> QED
  BY <1>1, <1>2, PTL DEF Spec

-----------------------------------------------------------------------------
(* Theorems *)

\* The types of the state.
THEOREM TypeInvariant == Spec => []TypeOK
<1>1. IInv => TypeOK
  BY DEF IInv
<1> QED
  BY <1>1, Invariant, PTL

\* A capability runs on the success of all that is upstream of it and on
\* intelligence that was reported (execute_controlled_internal and the
\* resolution of an operation's inputs).
THEOREM CapabilitiesRunOnCertainGround == Spec => []RunsOnCertainGround
<1>1. IInv => RunsOnCertainGround
  <2> SUFFICES ASSUME IInv, NEW o \in Ops
               PROVE  /\ attempt[o] > 0 =>
                            /\ Upstream(o) \subseteq Succeeded
                            /\ Upstream(o) \cup needs[o] \subseteq acted \cap intelligence
                      /\ (task[o] = "over" /\ attempt[o] = 0 /\ ~cancelled) =>
                            ~(needs[o] \subseteq Upstream(o))
    BY DEF RunsOnCertainGround, Succeeded
  <2>1. ASSUME attempt[o] > 0
        PROVE  /\ Upstream(o) \subseteq Succeeded
               /\ Upstream(o) \cup needs[o] \subseteq acted \cap intelligence
    <3>1. task[o] # "idle"
      BY <2>1 DEF IInv, Grounded
    <3>2. graph[o] \subseteq Succeeded /\ needs[o] \subseteq intelligence
      BY <2>1, <3>1 DEF IInv, Grounded
    <3>3. intelligence \subseteq acted
      BY DEF IInv, Reported, TypeOK
    <3> QED
      BY <3>2, <3>3, UpstreamSucceeded
  <2> QED
    BY <2>1 DEF IInv, Grounded
<1> QED
  BY <1>1, Invariant, PTL

\* What a transition reports when it ends is what happened
\* (complete_normalized_results, terminal_phase).
THEOREM ReportsAreTrue == Spec => []ReportIsTrue
<1>1. IInv => ReportIsTrue
  <2> SUFFICES ASSUME IInv, pc = "ended" PROVE ReportIsTrue
    BY DEF ReportIsTrue
  <2>1. /\ wave = {} /\ pending = {} /\ shown = results
        /\ Of(results, "none") = {} /\ phase = TerminalPhase(results)
    BY DEF IInv, Waves, Reported
  <2>2. Of(results, "succeeded") = intelligence
    BY DEF IInv, Reported, TypeOK, Of
  <2>3. phase = "succeeded" => acted = Ops
    <3>1. ASSUME phase = "succeeded" PROVE \A o \in Ops : results[o] = "succeeded"
      BY <2>1, <3>1 DEF IInv, TypeOK, TerminalPhase, Of
    <3> QED
      BY <3>1 DEF IInv, TypeOK, Reported
  <2>4. phase = "cancelled" => cancelled /\ Of(results, "cancelled") # {}
    <3>1. phase = "cancelled" => Of(results, "cancelled") # {}
      BY <2>1 DEF TerminalPhase
    <3> QED
      BY <3>1 DEF IInv, Reported, Of
  <2> QED
    BY <2>1, <2>2, <2>3, <2>4 DEF ReportIsTrue
<1> QED
  BY <1>1, Invariant, PTL

\* No snapshot of the progress takes back what an earlier one told, but for the
\* one an infrastructure failure publishes (live_dag_observer, execute_ir).
THEOREM ProgressNeverGoesBack == Spec => ProgressOnlyGrows
<1>1. ASSUME IInv, Next, pc' # "error", NEW p \in Ops, shown[p] # "none" PROVE shown'[p] = shown[p]
  <2>1. ASSUME NEW o \in Ops, Prepare(o) \/ BeginAttempt(o) \/ Answer(o)
        PROVE  shown'[p] = shown[p]
    <3>1. TaskStep(o)
      BY <1>1, <2>1, TaskSteps
    <3>2. results[o] = "none"
      BY <1>1, <3>1 DEF IInv, TaskStep, Waves, Reported
    <3>3. shown = results
      BY <1>1, <3>1 DEF IInv, TaskStep, Reported
    <3> QED
      BY <1>1, <3>1, <3>2, <3>3 DEF TaskStep
  <2>2. CASE Report
    <3>1. shown = results
      BY <1>1, <2>2 DEF IInv, Report, Reported
    <3> QED
      BY <1>1, <2>2, <3>1 DEF Report, Completed
  <2>3. CASE Schedule \/ ScheduleEnds
    BY <2>3 DEF Schedule, ScheduleEnds, Scheduled
  <2>4. CASE ScheduleStuck
    BY <1>1, <2>4 DEF ScheduleStuck, Scheduled
  <2>5. ASSUME NEW o \in Ops, AbandonedActs(o) PROVE shown' = shown
    BY <2>5 DEF AbandonedActs
  <2> QED
    BY <1>1, <2>1, <2>2, <2>3, <2>4, <2>5 DEF Next, Thread, Enter, Plan, Joined, Cancel
<1>2. IInv /\ [Next]_vars =>
        [pc' # "error" => \A o \in Ops : shown[o] # "none" => shown'[o] = shown[o]]_vars
  BY <1>1
<1> QED
  BY <1>2, Invariant, PTL DEF Spec, ProgressOnlyGrows
=============================================================================
