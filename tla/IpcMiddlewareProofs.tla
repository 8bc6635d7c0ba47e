------------------------ MODULE IpcMiddlewareProofs ------------------------
(***************************************************************************)
(* Theorems about the job registry, for any number of owners and requests  *)
(* and any limits.                                                         *)
(***************************************************************************)
EXTENDS IpcMiddleware, FiniteSetTheorems, TLAPS

\* The invariant that is inductive: types, what each identifier's threads, job
\* and history are together, and what the counter counts.
IInv == TypeOK /\ LivesConsistent /\ ActiveBounded

\* Trimming leaves a job as it was or removes it, and removes only jobs that
\* finished and outlived their retention.
LEMMA TrimmedJobs ==
  ASSUME TypeOK
  PROVE  /\ Trimmed(jobs) \in [Ids -> Job \cup {NoJob}]
         /\ \A i \in Ids :
              \/ Trimmed(jobs)[i] = jobs[i]
              \/ /\ Trimmed(jobs)[i] = NoJob
                 /\ jobs[i] # NoJob
                 /\ jobs[i].finished
                 /\ expired[i]
BY DEF TypeOK, Trimmed

\* What the worker writes is a finished job of the same owner.
LEMMA RecordedJob ==
  ASSUME NEW job \in Job, NEW late \in BOOLEAN
  PROVE  /\ Recorded(job, late) \in Job
         /\ Recorded(job, late).owner = job.owner
         /\ Recorded(job, late).value = "held"
         /\ Recorded(job, late).finished
         /\ late => Recorded(job, late).state = "completed_late"
BY DEF Recorded, Job, JobStates

\* Collecting a result changes nothing else about the job.
LEMMA CollectedJob ==
  ASSUME NEW job \in Job
  PROVE  /\ Collected(job) \in Job
         /\ Collected(job).owner = job.owner
         /\ Collected(job).value = "none"
         /\ Collected(job).finished = job.finished
<1>1. /\ job = [owner |-> job.owner, state |-> job.state, value |-> job.value,
                finished |-> job.finished]
      /\ job.owner \in Owners /\ job.state \in JobStates /\ job.finished \in BOOLEAN
  BY DEF Job
<1>2. Collected(job) = [owner |-> job.owner, state |-> job.state,
                        value |-> "none", finished |-> job.finished]
  BY <1>1 DEF Collected
<1> QED
  BY <1>1, <1>2 DEF Job

\* A new job is unfinished and belongs to the requester.
LEMMA EnqueuedJobs ==
  ASSUME NEW js \in [Ids -> Job \cup {NoJob}], NEW i \in Ids, NEW o \in Owners
  PROVE  /\ Enqueued(js, i, o) \in [Ids -> Job \cup {NoJob}]
         /\ \A k \in Ids \ {i} : Enqueued(js, i, o)[k] = js[k]
         /\ Enqueued(js, i, o)[i] \in Job
         /\ Enqueued(js, i, o)[i].owner = o
         /\ Enqueued(js, i, o)[i].value = "none"
         /\ ~Enqueued(js, i, o)[i].finished
BY DEF Enqueued, Job, JobStates
----------------------------------------------------------------------------
\* Every step keeps the types.
LEMMA TypeStep ==
  ASSUME IInv, [Next]_vars
  PROVE  TypeOK'
<1> USE DEF TypeOK
<1>t. TypeOK
  BY DEF IInv
<1>1. ASSUME NEW i \in Ids, NEW o \in Owners, NEW asynchronous \in BOOLEAN,
             Run(i, o, asynchronous)
      PROVE  TypeOK'
  <2>1. jobs' \in [Ids -> Job \cup {NoJob}]
    BY <1>t, <1>1, TrimmedJobs, EnqueuedJobs DEF Run
  <2>2. running' \in Nat
    BY <1>t, <1>1 DEF Run
  <2>3. /\ caller' \in [Ids -> CallerStates]
        /\ worker' \in [Ids -> WorkerStates]
        /\ requester' \in [Ids -> Owners \cup {NoOwner}]
    BY <1>t, <1>1 DEF Run, CallerStates, WorkerStates
  <2> QED
    BY <1>t, <1>1, <2>1, <2>2, <2>3 DEF Run
<1>2. ASSUME NEW i \in Ids, NEW o \in Owners, RunRefused(i, o)
      PROVE  TypeOK'
  BY <1>t, <1>2, TrimmedJobs DEF RunRefused, CallerStates
<1>3. ASSUME NEW i \in Ids, NEW o \in Owners, RunSpawnPanics(i, o)
      PROVE  TypeOK'
  <2>1. jobs' \in [Ids -> Job \cup {NoJob}]
    BY <1>t, <1>3, TrimmedJobs, EnqueuedJobs DEF RunSpawnPanics
  <2>2. running' \in Nat
    BY <1>t, <1>3 DEF RunSpawnPanics
  <2>3. /\ caller' \in [Ids -> CallerStates]
        /\ requester' \in [Ids -> Owners \cup {NoOwner}]
    BY <1>t, <1>3 DEF RunSpawnPanics, CallerStates
  <2> QED
    BY <1>t, <1>3, <2>1, <2>2, <2>3 DEF RunSpawnPanics
<1>4. ASSUME NEW i \in Ids, NEW o \in Owners, Status(i, o)
      PROVE  TypeOK'
  <2>1. CASE MayRead(Trimmed(jobs)[i], o)
    <3>0. Trimmed(jobs)[i] \in Job
      BY <1>t, <2>1, TrimmedJobs DEF MayRead
    <3>1. jobs' \in [Ids -> Job \cup {NoJob}]
      BY <1>t, <1>4, <2>1, <3>0, TrimmedJobs, CollectedJob DEF Status
    <3>2. deliveries' \in [Ids -> Seq(Owners)]
      <4>1. Append(deliveries[i], o) \in Seq(Owners)
        BY <1>t
      <4> QED
        BY <1>t, <1>4, <2>1, <4>1 DEF Status
    <3> QED
      BY <1>t, <1>4, <3>1, <3>2 DEF Status
  <2>2. CASE ~MayRead(Trimmed(jobs)[i], o)
    BY <1>t, <1>4, <2>2, TrimmedJobs DEF Status
  <2> QED
    BY <2>1, <2>2
<1>5. ASSUME NEW i \in Ids, WorkerRecord(i)
      PROVE  TypeOK'
  <2>1. jobs' \in [Ids -> Job \cup {NoJob}]
    BY <1>t, <1>5, RecordedJob DEF WorkerRecord
  <2> QED
    BY <1>t, <1>5, <2>1 DEF WorkerRecord, Released, WorkerStates
<1>6. ASSUME NEW i \in Ids, WorkerSend(i)
      PROVE  TypeOK'
  BY <1>t, <1>6 DEF WorkerSend, WorkerStates
<1>7. ASSUME NEW i \in Ids, CallerReceive(i)
      PROVE  TypeOK'
  BY <1>t, <1>7 DEF CallerReceive, CallerStates
<1>8. ASSUME NEW i \in Ids, CallerComplete(i)
      PROVE  TypeOK'
  <2>1. requester[i] \in Owners
    BY <1>t, <1>8 DEF CallerComplete, IInv, LivesConsistent, Life
  <2> QED
    BY <1>t, <1>8, <2>1 DEF CallerComplete, CallerStates
<1>9. ASSUME NEW i \in Ids, CallerTimeout(i)
      PROVE  TypeOK'
  BY <1>t, <1>9 DEF CallerTimeout, CallerStates
<1>10. ASSUME NEW i \in Ids, DeadlinePasses(i) \/ RetentionPasses(i)
       PROVE  TypeOK'
  BY <1>t, <1>10 DEF DeadlinePasses, RetentionPasses
<1>11. CASE UNCHANGED vars
  BY <1>t, <1>11 DEF vars
<1> QED
  BY <1>1, <1>2, <1>3, <1>4, <1>5, <1>6, <1>7, <1>8, <1>9, <1>10, <1>11 DEF Next
----------------------------------------------------------------------------
\* A step of another identifier changes this one at most by trimming its job.
LEMMA LifeFrame ==
  ASSUME TypeOK, NEW k \in Ids, Life(k),
         jobs'[k] \in {jobs[k], Trimmed(jobs)[k]},
         caller'[k] = caller[k], worker'[k] = worker[k],
         overdue'[k] = overdue[k], expired'[k] = expired[k],
         requester'[k] = requester[k], deliveries'[k] = deliveries[k]
  PROVE  Life(k)'
<1>1. \/ jobs'[k] = jobs[k]
      \/ jobs'[k] = NoJob /\ jobs[k] # NoJob /\ jobs[k].finished /\ expired[k]
  BY TrimmedJobs
<1>2. CASE jobs'[k] = jobs[k]
  BY <1>2 DEF Life
<1>3. CASE jobs'[k] = NoJob /\ jobs[k] # NoJob /\ jobs[k].finished /\ expired[k]
  BY <1>3 DEF Life
<1> QED
  BY <1>1, <1>2, <1>3

\* Every step keeps the lives of the identifiers consistent.
LEMMA LifeStep ==
  ASSUME IInv, [Next]_vars
  PROVE  LivesConsistent'
<1> SUFFICES ASSUME NEW k \in Ids
             PROVE  Life(k)'
  BY DEF LivesConsistent
<1>t. TypeOK /\ TypeOK'
  BY TypeStep DEF IInv
<1>l. Life(k)
  BY DEF IInv, LivesConsistent
<1>1. ASSUME NEW i \in Ids, NEW o \in Owners, NEW asynchronous \in BOOLEAN,
             Run(i, o, asynchronous)
      PROVE  Life(k)'
  <2>0. Trimmed(jobs) \in [Ids -> Job \cup {NoJob}]
    BY <1>t, TrimmedJobs
  <2>1. CASE k = i
    <3>1. jobs'[k] \in Job /\ jobs'[k].owner = o /\ jobs'[k].value = "none" /\ ~jobs'[k].finished
      BY <1>1, <2>0, <2>1, EnqueuedJobs DEF Run
    <3>2. jobs'[k] # NoJob
      BY <3>1, NoJobAssumption
    <3>3. /\ worker'[k] = "working" /\ caller'[k] \in {"waiting", "accepted"}
          /\ requester'[k] = o /\ deliveries'[k] = deliveries[k]
          /\ expired'[k] = expired[k]
      BY <1>1, <1>t, <2>1 DEF Run, TypeOK
    <3>4. worker[k] = "none"
      BY <1>1, <1>l, <2>1 DEF Run, Life
    <3>5. deliveries[k] = <<>> /\ ~expired[k]
      BY <1>l, <3>4 DEF Life
    <3> QED
      BY <3>1, <3>2, <3>3, <3>5, NullAssumption DEF Life
  <2>2. CASE k # i
    <3>1. jobs'[k] = Trimmed(jobs)[k]
      BY <1>1, <2>0, <2>2, EnqueuedJobs DEF Run
    <3> QED
      BY <1>1, <1>t, <1>l, <2>2, <3>1, LifeFrame DEF Run, TypeOK
  <2> QED
    BY <2>1, <2>2
<1>2. ASSUME NEW i \in Ids, NEW o \in Owners, RunRefused(i, o)
      PROVE  Life(k)'
  <2>1. CASE k = i
    <3>1. worker[k] = "none" /\ jobs[k] = NoJob
      BY <1>2, <1>l, <2>1 DEF RunRefused, Life
    <3>2. jobs'[k] = NoJob /\ caller'[k] = "refused" /\ requester'[k] = o
      BY <1>2, <1>t, <2>1, <3>1, TrimmedJobs DEF RunRefused, TypeOK
    <3> QED
      BY <1>2, <1>t, <1>l, <3>1, <3>2, NullAssumption DEF RunRefused, Life
  <2>2. CASE k # i
    BY <1>2, <1>t, <1>l, <2>2, LifeFrame DEF RunRefused, TypeOK
  <2> QED
    BY <2>1, <2>2
<1>3. ASSUME NEW i \in Ids, NEW o \in Owners, RunSpawnPanics(i, o)
      PROVE  Life(k)'
  <2>0. Trimmed(jobs) \in [Ids -> Job \cup {NoJob}]
    BY <1>t, TrimmedJobs
  <2>1. CASE k = i
    <3>1. jobs'[k] \in Job /\ jobs'[k].owner = o /\ jobs'[k].value = "none" /\ ~jobs'[k].finished
      BY <1>3, <2>0, <2>1, EnqueuedJobs DEF RunSpawnPanics
    <3>2. jobs'[k] # NoJob
      BY <3>1, NoJobAssumption
    <3>3. worker[k] = "none"
      BY <1>3, <1>l, <2>1 DEF RunSpawnPanics, Life
    <3>4. caller'[k] = "panicked" /\ requester'[k] = o
      BY <1>3, <1>t, <2>1 DEF RunSpawnPanics, TypeOK
    <3> QED
      BY <1>3, <1>l, <3>1, <3>2, <3>3, <3>4, NullAssumption DEF RunSpawnPanics, Life
  <2>2. CASE k # i
    <3>1. jobs'[k] = Trimmed(jobs)[k]
      BY <1>3, <2>0, <2>2, EnqueuedJobs DEF RunSpawnPanics
    <3> QED
      BY <1>3, <1>t, <1>l, <2>2, <3>1, LifeFrame DEF RunSpawnPanics, TypeOK
  <2> QED
    BY <2>1, <2>2
<1>4. ASSUME NEW i \in Ids, NEW o \in Owners, Status(i, o)
      PROVE  Life(k)'
  <2>0. Trimmed(jobs) \in [Ids -> Job \cup {NoJob}]
    BY <1>t, TrimmedJobs
  <2>1. CASE k = i /\ MayRead(Trimmed(jobs)[i], o)
    <3>1. jobs[k] = Trimmed(jobs)[k] /\ jobs[k] \in Job /\ jobs[k].owner = o
      BY <1>t, <2>0, <2>1, TrimmedJobs DEF MayRead, TypeOK
    <3>2. /\ jobs'[k] = Collected(jobs[k])
          /\ deliveries'[k] = IF jobs[k].value = "held" THEN Append(deliveries[k], o)
                              ELSE deliveries[k]
      BY <1>4, <1>t, <2>0, <2>1, <3>1 DEF Status, TypeOK
    <3>3. /\ jobs'[k] \in Job /\ jobs'[k].owner = o /\ jobs'[k].value = "none"
          /\ jobs'[k].finished = jobs[k].finished
      BY <3>1, <3>2, CollectedJob
    <3>4. jobs[k] # NoJob /\ jobs'[k] # NoJob
      BY <3>1, <3>3, NoJobAssumption
    <3>5. caller[k] \in {"accepted", "timed_out"}
      BY <1>4, <1>l, <1>t, <2>1, <3>4 DEF Status, Nameable, Life, TypeOK, CallerStates
    <3>6. jobs[k].value = "held" => deliveries[k] = <<>> /\ deliveries'[k] = <<o>>
      <4>1. jobs[k].value = "held" => worker[k] \in {"recorded", "sent"}
        BY <1>l, <1>t, <3>4, <3>5 DEF Life, TypeOK, WorkerStates
      <4>2. jobs[k].value = "held" => deliveries[k] = <<>>
        BY <1>l, <3>4, <3>5, <4>1 DEF Life
      <4>3. Append(<<>>, o) = <<o>>
        OBVIOUS
      <4> QED
        BY <3>2, <4>2, <4>3
    <3>0. requester[k] = o /\ worker[k] # "none"
      BY <1>l, <3>1, <3>4, <3>5 DEF Life
    <3>7. UNCHANGED <<caller, worker, overdue, expired, requester>>
      BY <1>4 DEF Status
    <3>8. CASE jobs[k].value = "held"
      <4>1. worker[k] \in {"recorded", "sent"}
        BY <1>l, <1>t, <3>4, <3>5, <3>8 DEF Life, TypeOK, WorkerStates
      <4> QED
        BY <1>l, <3>0, <3>1, <3>3, <3>4, <3>5, <3>6, <3>7, <3>8, <4>1 DEF Life
    <3>9. CASE jobs[k].value # "held"
      BY <1>l, <3>1, <3>2, <3>3, <3>4, <3>5, <3>7, <3>9 DEF Life, Job
    <3> QED
      BY <3>8, <3>9
  <2>2. CASE ~(k = i /\ MayRead(Trimmed(jobs)[i], o))
    <3>1. jobs'[k] = Trimmed(jobs)[k] /\ deliveries'[k] = deliveries[k]
      BY <1>4, <1>t, <2>0, <2>2 DEF Status, TypeOK
    <3> QED
      BY <1>4, <1>t, <1>l, <3>1, LifeFrame DEF Status
  <2> QED
    BY <2>1, <2>2
<1>5. ASSUME NEW i \in Ids, WorkerRecord(i)
      PROVE  Life(k)'
  <2>1. CASE k = i
    <3>1. jobs[k] # NoJob /\ jobs[k] \in Job
      BY <1>5, <1>l, <1>t, <2>1 DEF WorkerRecord, Life, TypeOK
    <3>2. jobs'[k] = Recorded(jobs[k], overdue[k]) /\ worker'[k] = "recorded"
      BY <1>5, <1>t, <2>1, <3>1 DEF WorkerRecord, TypeOK
    <3>3. /\ jobs'[k] \in Job /\ jobs'[k].owner = jobs[k].owner
          /\ jobs'[k].value = "held" /\ jobs'[k].finished
      <4>1. overdue[k] \in BOOLEAN
        BY <1>t DEF TypeOK
      <4> QED
        BY <3>1, <3>2, <4>1, RecordedJob
    <3>4. jobs'[k] # NoJob
      BY <3>3, NoJobAssumption
    <3> QED
      BY <1>5, <1>l, <2>1, <3>1, <3>2, <3>3, <3>4 DEF WorkerRecord, Life
  <2>2. CASE k # i
    BY <1>5, <1>t, <1>l, <2>2, LifeFrame DEF WorkerRecord, TypeOK
  <2> QED
    BY <2>1, <2>2
<1>6. ASSUME NEW i \in Ids, WorkerSend(i)
      PROVE  Life(k)'
  <2>1. CASE k = i
    BY <1>6, <1>t, <1>l, <2>1 DEF WorkerSend, TypeOK, Life
  <2>2. CASE k # i
    BY <1>6, <1>t, <1>l, <2>2, LifeFrame DEF WorkerSend, TypeOK
  <2> QED
    BY <2>1, <2>2
<1>7. ASSUME NEW i \in Ids, CallerReceive(i)
      PROVE  Life(k)'
  <2>1. CASE k = i
    BY <1>7, <1>t, <1>l, <2>1 DEF CallerReceive, TypeOK, Life
  <2>2. CASE k # i
    BY <1>7, <1>t, <1>l, <2>2, LifeFrame DEF CallerReceive, TypeOK
  <2> QED
    BY <2>1, <2>2
<1>8. ASSUME NEW i \in Ids, CallerComplete(i)
      PROVE  Life(k)'
  <2>1. CASE k = i
    <3>1. deliveries[k] = <<>> /\ worker[k] = "sent" /\ requester[k] # NoOwner
      BY <1>8, <1>l, <2>1 DEF CallerComplete, Life
    <3>2. deliveries'[k] = <<requester[k]>> /\ jobs'[k] = NoJob /\ caller'[k] = "complete"
      BY <1>8, <1>t, <2>1, <3>1 DEF CallerComplete, TypeOK
    <3> QED
      BY <1>8, <1>l, <3>1, <3>2 DEF CallerComplete, Life
  <2>2. CASE k # i
    BY <1>8, <1>t, <1>l, <2>2, LifeFrame DEF CallerComplete, TypeOK
  <2> QED
    BY <2>1, <2>2
<1>9. ASSUME NEW i \in Ids, CallerTimeout(i)
      PROVE  Life(k)'
  <2>1. CASE k = i
    BY <1>9, <1>t, <1>l, <2>1 DEF CallerTimeout, TypeOK, Life, Job
  <2>2. CASE k # i
    BY <1>9, <1>t, <1>l, <2>2, LifeFrame DEF CallerTimeout, TypeOK
  <2> QED
    BY <2>1, <2>2
<1>10. ASSUME NEW i \in Ids, DeadlinePasses(i)
       PROVE  Life(k)'
  BY <1>10, <1>t, <1>l DEF DeadlinePasses, TypeOK, Life
<1>11. ASSUME NEW i \in Ids, RetentionPasses(i)
       PROVE  Life(k)'
  <2>1. CASE k = i
    BY <1>11, <1>t, <1>l, <2>1 DEF RetentionPasses, TypeOK, Life
  <2>2. CASE k # i
    BY <1>11, <1>t, <1>l, <2>2, LifeFrame DEF RetentionPasses, TypeOK
  <2> QED
    BY <2>1, <2>2
<1>12. CASE UNCHANGED vars
  BY <1>12, <1>l DEF vars, Life
<1> QED
  BY <1>1, <1>2, <1>3, <1>4, <1>5, <1>6, <1>7, <1>8, <1>9, <1>10, <1>11, <1>12 DEF Next
----------------------------------------------------------------------------
\* A set of identifiers grows and shrinks by one with its member.
LEMMA CountOne ==
  ASSUME NEW S \in SUBSET Ids, NEW i \in Ids
  PROVE  /\ Cardinality(S) \in Nat
         /\ i \notin S => Cardinality(S \cup {i}) = Cardinality(S) + 1
         /\ i \in S => Cardinality(S \ {i}) = Cardinality(S) - 1
BY IdsAssumption, FS_Subset, FS_AddElement, FS_RemoveElement, FS_CardinalityType

\* Every step keeps the counter equal to what it counts and below its limit.
LEMMA CountStep ==
  ASSUME IInv, [Next]_vars
  PROVE  ActiveBounded'
<1>t. TypeOK /\ running \in Nat /\ MaxActive \in Nat
  BY LimitsAssumption DEF IInv, TypeOK
<1>a. running = Cardinality(Working) + Cardinality(Stranded) /\ running <= MaxActive
  BY DEF IInv, ActiveBounded
<1>s. /\ Working \in SUBSET Ids /\ Stranded \in SUBSET Ids
      /\ Working' \in SUBSET Ids /\ Stranded' \in SUBSET Ids
  BY DEF Working, Stranded
<1>c. Cardinality(Working) \in Nat /\ Cardinality(Stranded) \in Nat
  BY <1>s, IdsAssumption, FS_Subset, FS_CardinalityType
<1>f. ASSUME Working' = Working, Stranded' = Stranded, running' = running
      PROVE  ActiveBounded'
  BY <1>a, <1>f DEF ActiveBounded
<1>1. ASSUME NEW i \in Ids, NEW o \in Owners, NEW asynchronous \in BOOLEAN,
             Run(i, o, asynchronous)
      PROVE  ActiveBounded'
  <2>1. worker[i] = "none"
    BY <1>1 DEF Run, IInv, LivesConsistent, Life
  <2>2. i \notin Working /\ Working' = Working \cup {i}
    BY <1>1, <1>t, <2>1 DEF Run, TypeOK, Working
  <2>3. Stranded' = Stranded
    BY <1>1, <1>t DEF Run, TypeOK, Stranded
  <2>4. running < MaxActive /\ running' = running + 1
    BY <1>1 DEF Run, HasCapacity
  <2>5. Cardinality(Working') = Cardinality(Working) + 1
    BY <1>s, <2>2, CountOne
  <2> QED
    BY <1>a, <1>c, <1>t, <2>3, <2>4, <2>5 DEF ActiveBounded
<1>2. ASSUME NEW i \in Ids, NEW o \in Owners, RunRefused(i, o)
      PROVE  ActiveBounded'
  <2>1. Stranded' = Stranded
    BY <1>2, <1>t DEF RunRefused, TypeOK, Stranded
  <2>2. Working' = Working /\ running' = running
    BY <1>2 DEF RunRefused, Working
  <2> QED
    BY <1>f, <2>1, <2>2
<1>3. ASSUME NEW i \in Ids, NEW o \in Owners, RunSpawnPanics(i, o)
      PROVE  ActiveBounded'
  <2>1. i \notin Stranded /\ Stranded' = Stranded \cup {i}
    BY <1>3, <1>t DEF RunSpawnPanics, TypeOK, Stranded
  <2>2. Working' = Working
    BY <1>3 DEF RunSpawnPanics, Working
  <2>3. running < MaxActive /\ running' = running + 1
    BY <1>3 DEF RunSpawnPanics, HasCapacity
  <2>4. Cardinality(Stranded') = Cardinality(Stranded) + 1
    BY <1>s, <2>1, CountOne
  <2> QED
    BY <1>a, <1>c, <1>t, <2>2, <2>3, <2>4 DEF ActiveBounded
<1>4. ASSUME NEW i \in Ids, NEW o \in Owners, Status(i, o)
      PROVE  ActiveBounded'
  BY <1>4, <1>f DEF Status, Working, Stranded
<1>5. ASSUME NEW i \in Ids, WorkerRecord(i)
      PROVE  ActiveBounded'
  <2>1. i \in Working /\ Working' = Working \ {i}
    BY <1>5, <1>t DEF WorkerRecord, TypeOK, Working
  <2>2. Stranded' = Stranded
    BY <1>5 DEF WorkerRecord, Stranded
  <2>3. Cardinality(Working') = Cardinality(Working) - 1 /\ Cardinality(Working') \in Nat
    BY <1>s, <2>1, CountOne
  <2>4. running > 0
    BY <1>a, <1>c, <2>3
  <2>5. running' = running - 1
    BY <1>5, <2>4 DEF WorkerRecord, Released
  <2> QED
    BY <1>a, <1>c, <1>t, <2>2, <2>3, <2>5 DEF ActiveBounded
<1>6. ASSUME NEW i \in Ids, WorkerSend(i)
      PROVE  ActiveBounded'
  <2>1. Working' = Working
    BY <1>6, <1>t DEF WorkerSend, TypeOK, Working
  <2> QED
    BY <1>6, <1>f, <2>1 DEF WorkerSend, Stranded
<1>7. ASSUME NEW i \in Ids, CallerReceive(i) \/ CallerComplete(i) \/ CallerTimeout(i)
      PROVE  ActiveBounded'
  <2>1. Stranded' = Stranded
    BY <1>7, <1>t DEF CallerReceive, CallerComplete, CallerTimeout, TypeOK, Stranded
  <2>2. Working' = Working /\ running' = running
    BY <1>7 DEF CallerReceive, CallerComplete, CallerTimeout, Working
  <2> QED
    BY <1>f, <2>1, <2>2
<1>8. ASSUME NEW i \in Ids, DeadlinePasses(i) \/ RetentionPasses(i)
      PROVE  ActiveBounded'
  BY <1>8, <1>f DEF DeadlinePasses, RetentionPasses, Working, Stranded
<1>9. CASE UNCHANGED vars
  BY <1>9, <1>f DEF vars, Working, Stranded
<1> QED
  BY <1>1, <1>2, <1>3, <1>4, <1>5, <1>6, <1>7, <1>8, <1>9 DEF Next

\* The inductive invariant holds in every reachable state.
THEOREM Invariant == Spec => []IInv
<1>1. Init => IInv
  <2> SUFFICES ASSUME Init PROVE IInv
    OBVIOUS
  <2>1. TypeOK
    BY DEF Init, TypeOK, CallerStates, WorkerStates
  <2>2. LivesConsistent
    BY DEF Init, LivesConsistent, Life
  <2>3. Working = {} /\ Stranded = {}
    BY DEF Init, Working, Stranded
  <2>4. ActiveBounded
    BY <2>3, LimitsAssumption, FS_EmptySet DEF Init, ActiveBounded
  <2> QED
    BY <2>1, <2>2, <2>4 DEF IInv
<1>2. IInv /\ [Next]_vars => IInv'
  BY TypeStep, LifeStep, CountStep DEF IInv
<1> QED
  BY <1>1, <1>2, PTL DEF Spec

\* The registry, its counter, the threads and the histories keep their types:
\* no path through run(), the worker or status() leaves a job half written.
THEOREM TypeInvariant == Spec => []TypeOK
BY Invariant, PTL DEF IInv

\* At most MaxActive worker threads are ever at work, and the counter that
\* admits requests never drifts from their number.
THEOREM ActiveInvariant == Spec => []ActiveBounded
BY Invariant, PTL DEF IInv

\* Whatever the race between the worker's answer, the caller's deadline, a
\* status query and the retention, no result is lost or handed out twice.
THEOREM ResultsAreAccountedFor == Spec => []ResultAccountedFor
<1>1. IInv => ResultAccountedFor
  <2> SUFFICES ASSUME IInv, NEW i \in Ids, worker[i] \in {"recorded", "sent"}
               PROVE  \/ caller[i] \in {"waiting", "received"} /\ deliveries[i] = <<>>
                      \/ jobs[i] # NoJob /\ jobs[i].value = "held" /\ deliveries[i] = <<>>
                      \/ deliveries[i] = <<requester[i]>>
                      \/ expired[i]
    BY DEF ResultAccountedFor
  <2>1. Life(i) /\ caller[i] \in CallerStates
    BY DEF IInv, LivesConsistent, TypeOK
  <2> QED
    BY <2>1 DEF Life, CallerStates
<1> QED
  BY <1>1, Invariant, PTL

\* An identifier that was handed out names its job until the retention ends.
THEOREM HandedOutJobsAreObservable == Spec => []Observable
<1>1. IInv => Observable
  <2> SUFFICES ASSUME IInv, NEW i \in Ids,
                      caller[i] \in {"accepted", "timed_out"}, ~expired[i]
               PROVE  jobs[i] # NoJob /\ jobs[i].owner = requester[i]
    BY DEF Observable
  <2>1. Life(i) /\ worker[i] \in WorkerStates
    BY DEF IInv, LivesConsistent, TypeOK
  <2> QED
    BY <2>1 DEF Life, WorkerStates
<1> QED
  BY <1>1, Invariant, PTL

\* Work that outlives its caller is recorded as completed late.
THEOREM LateCompletionIsMarked == Spec => LateIsMarked
<1>1. IInv /\ [Next]_vars =>
        [\A i \in Ids :
            caller[i] = "timed_out" /\ worker[i] = "working" /\ worker'[i] = "recorded"
               => jobs'[i] # NoJob /\ jobs'[i].state = "completed_late"]_vars
  <2> SUFFICES ASSUME IInv, Next, NEW i \in Ids,
                      caller[i] = "timed_out", worker[i] = "working",
                      worker'[i] = "recorded"
               PROVE  jobs'[i] # NoJob /\ jobs'[i].state = "completed_late"
    BY DEF vars
  <2>1. TypeOK /\ Life(i)
    BY DEF IInv, LivesConsistent
  <2>2. WorkerRecord(i)
    BY <2>1 DEF Next, TypeOK, Run, RunRefused, RunSpawnPanics, Status, WorkerRecord,
                WorkerSend, CallerReceive, CallerComplete, CallerTimeout,
                DeadlinePasses, RetentionPasses
  <2>3. overdue[i] /\ jobs[i] # NoJob /\ jobs[i] \in Job /\ overdue[i] \in BOOLEAN
    BY <2>1 DEF Life, TypeOK
  <2>4. jobs'[i] = Recorded(jobs[i], overdue[i])
    BY <2>1, <2>2, <2>3 DEF WorkerRecord, TypeOK
  <2>5. /\ Recorded(jobs[i], overdue[i]) \in Job
        /\ Recorded(jobs[i], overdue[i]).state = "completed_late"
    BY <2>3, RecordedJob
  <2> QED
    BY <2>4, <2>5, NoJobAssumption
<1> QED
  BY <1>1, Invariant, PTL DEF Spec, LateIsMarked
----------------------------------------------------------------------------
\* The registry admits nothing beyond its limits and otherwise only shrinks.
LEMMA RegistryStep ==
  ASSUME IInv, RegistryBounded, [Next]_vars
  PROVE  RegistryBounded'
<1>t. TypeOK /\ TypeOK' /\ MaxRetained \in Nat /\ MaxPerOwner \in Nat
  BY TypeStep, LimitsAssumption DEF IInv
<1>b. /\ Cardinality(Present(jobs)) <= MaxRetained
      /\ \A x \in Owners : Cardinality(Unfinished(jobs, x)) <= MaxPerOwner
  BY DEF RegistryBounded
<1>s. \A js, x : Present(js) \in SUBSET Ids /\ Unfinished(js, x) \in SUBSET Ids
  BY DEF Present, Unfinished
<1>n. \A js, x : Cardinality(Present(js)) \in Nat /\ Cardinality(Unfinished(js, x)) \in Nat
  BY <1>s, IdsAssumption, FS_Subset, FS_CardinalityType
\* A registry with no new unfinished jobs stays within its limits.
<1>f. ASSUME \A k \in Ids : jobs'[k] # NoJob =>
                /\ jobs[k] # NoJob
                /\ jobs'[k].owner = jobs[k].owner
                /\ jobs[k].finished => jobs'[k].finished
      PROVE  RegistryBounded'
  <2>1. Present(jobs') \in SUBSET Present(jobs)
    BY <1>f DEF Present
  <2>2. \A x \in Owners : Unfinished(jobs', x) \in SUBSET Unfinished(jobs, x)
    BY <1>f DEF Present, Unfinished
  <2>3. Cardinality(Present(jobs')) <= Cardinality(Present(jobs))
    BY <1>s, <2>1, IdsAssumption, FS_Subset
  <2>4. \A x \in Owners : Cardinality(Unfinished(jobs', x)) <= Cardinality(Unfinished(jobs, x))
    BY <1>s, <2>2, IdsAssumption, FS_Subset
  <2>5. Cardinality(Present(jobs')) <= MaxRetained
    BY <1>b, <1>n, <1>t, <2>3
  <2>6. \A x \in Owners : Cardinality(Unfinished(jobs', x)) <= MaxPerOwner
    BY <1>b, <1>n, <1>t, <2>4
  <2> QED
    BY <2>5, <2>6 DEF RegistryBounded
\* The one step that adds a job had the room for it.
<1>e. ASSUME NEW i \in Ids, NEW o \in Owners,
             HasCapacity(Trimmed(jobs), o),
             jobs' = Enqueued(Trimmed(jobs), i, o)
      PROVE  RegistryBounded'
  <2> DEFINE js == Trimmed(jobs)
  <2>1. /\ js \in [Ids -> Job \cup {NoJob}]
        /\ \A k \in Ids : js[k] \in {jobs[k], NoJob}
    BY <1>t, TrimmedJobs
  <2>h. Cardinality(Present(js)) < MaxRetained /\ Cardinality(Unfinished(js, o)) < MaxPerOwner
    BY <1>e DEF HasCapacity
  <2> HIDE DEF js
  <2>2. \A k \in Ids \ {i} : jobs'[k] = js[k]
    BY <1>e, <2>1, EnqueuedJobs DEF js
  <2>3. jobs'[i].owner = o
    BY <1>e, <2>1, EnqueuedJobs DEF js
  <2>4. Present(jobs') \in SUBSET (Present(js) \cup {i})
    BY <2>2 DEF Present
  <2>5. Unfinished(jobs', o) \in SUBSET (Unfinished(js, o) \cup {i})
    BY <2>2 DEF Present, Unfinished
  <2>6. \A x \in Owners \ {o} : Unfinished(jobs', x) \in SUBSET Unfinished(jobs, x)
    BY <2>1, <2>2, <2>3 DEF Present, Unfinished
  <2>7. Cardinality(Present(jobs')) <= MaxRetained
    <3>0. IsFiniteSet(Present(js)) /\ Cardinality(Present(js)) \in Nat
      BY <1>s, <1>n, IdsAssumption, FS_Subset
    <3>1. /\ IsFiniteSet(Present(js) \cup {i})
          /\ Cardinality(Present(js) \cup {i}) <= Cardinality(Present(js)) + 1
      <4>1. /\ IsFiniteSet(Present(js) \cup {i})
            /\ Cardinality(Present(js) \cup {i}) =
                 IF i \in Present(js) THEN Cardinality(Present(js)) ELSE Cardinality(Present(js)) + 1
        BY <3>0, FS_AddElement
      <4> QED
        BY <3>0, <4>1
    <3>2. Cardinality(Present(jobs')) <= Cardinality(Present(js) \cup {i})
      BY <2>4, <3>1, FS_Subset
    <3>3. Cardinality(Present(js) \cup {i}) \in Nat
      BY <3>1, FS_CardinalityType
    <3> QED
      BY <1>t, <1>n, <2>h, <3>1, <3>2, <3>3
  <2>8. Cardinality(Unfinished(jobs', o)) <= MaxPerOwner
    <3>1. /\ IsFiniteSet(Unfinished(js, o) \cup {i})
          /\ Cardinality(Unfinished(js, o) \cup {i}) <= Cardinality(Unfinished(js, o)) + 1
      BY <1>s, <1>n, IdsAssumption, FS_Subset, FS_AddElement
    <3>2. Cardinality(Unfinished(jobs', o)) <= Cardinality(Unfinished(js, o) \cup {i})
      BY <2>5, <3>1, FS_Subset
    <3>3. Cardinality(Unfinished(js, o) \cup {i}) \in Nat
      BY <3>1, FS_CardinalityType
    <3> QED
      BY <1>t, <1>n, <2>h, <3>1, <3>2, <3>3
  <2>9. \A x \in Owners \ {o} : Cardinality(Unfinished(jobs', x)) <= MaxPerOwner
    <3>1. \A x \in Owners \ {o} :
             Cardinality(Unfinished(jobs', x)) <= Cardinality(Unfinished(jobs, x))
      BY <1>s, <2>6, IdsAssumption, FS_Subset
    <3> QED
      BY <1>b, <1>n, <1>t, <3>1
  <2> QED
    BY <2>7, <2>8, <2>9 DEF RegistryBounded
<1>1. ASSUME NEW i \in Ids, NEW o \in Owners,
             \/ \E asynchronous \in BOOLEAN : Run(i, o, asynchronous)
             \/ RunSpawnPanics(i, o)
      PROVE  RegistryBounded'
  BY <1>1, <1>e DEF Run, RunSpawnPanics
<1>2. ASSUME NEW i \in Ids, NEW o \in Owners, RunRefused(i, o)
      PROVE  RegistryBounded'
  BY <1>2, <1>t, <1>f, TrimmedJobs DEF RunRefused
<1>3. ASSUME NEW i \in Ids, NEW o \in Owners, Status(i, o)
      PROVE  RegistryBounded'
  <2>0. Trimmed(jobs) \in [Ids -> Job \cup {NoJob}]
    BY <1>t, TrimmedJobs
  <2>1. CASE MayRead(Trimmed(jobs)[i], o)
    <3>1. jobs[i] = Trimmed(jobs)[i] /\ jobs[i] \in Job /\ jobs[i] # NoJob
      BY <1>t, <2>0, <2>1, TrimmedJobs DEF MayRead, TypeOK
    <3>2. jobs' = [Trimmed(jobs) EXCEPT ![i] = Collected(@)]
      BY <1>3, <2>1 DEF Status
    <3>3. jobs'[i].owner = jobs[i].owner /\ jobs'[i].finished = jobs[i].finished
      BY <2>0, <3>1, <3>2, CollectedJob
    <3>4. \A k \in Ids \ {i} : jobs'[k] = Trimmed(jobs)[k]
      BY <2>0, <3>2
    <3> QED
      BY <1>t, <1>f, <3>1, <3>3, <3>4, TrimmedJobs
  <2>2. CASE ~MayRead(Trimmed(jobs)[i], o)
    BY <1>3, <1>t, <1>f, <2>2, TrimmedJobs DEF Status
  <2> QED
    BY <2>1, <2>2
<1>4. ASSUME NEW i \in Ids, WorkerRecord(i)
      PROVE  RegistryBounded'
  <2>1. CASE jobs[i] = NoJob
    BY <1>4, <1>f, <2>1 DEF WorkerRecord
  <2>2. CASE jobs[i] # NoJob
    <3>1. jobs[i] \in Job /\ overdue[i] \in BOOLEAN
      BY <1>t, <2>2 DEF TypeOK
    <3>2. jobs'[i] = Recorded(jobs[i], overdue[i]) /\ \A k \in Ids \ {i} : jobs'[k] = jobs[k]
      BY <1>4, <1>t, <2>2 DEF WorkerRecord, TypeOK
    <3>3. jobs'[i].owner = jobs[i].owner /\ jobs'[i].finished
      BY <3>1, <3>2, RecordedJob
    <3> QED
      BY <1>f, <2>2, <3>2, <3>3
  <2> QED
    BY <2>1, <2>2
<1>5. ASSUME NEW i \in Ids, CallerComplete(i)
      PROVE  RegistryBounded'
  BY <1>5, <1>t, <1>f DEF CallerComplete, TypeOK
<1>6. CASE UNCHANGED jobs
  BY <1>6, <1>f
<1> QED
  BY <1>1, <1>2, <1>3, <1>4, <1>5, <1>6
  DEF Next, vars, WorkerSend, CallerReceive, CallerTimeout, DeadlinePasses, RetentionPasses

\* No order of submissions, completions, queries and refusals takes the
\* registry past its retention limit or an owner past its quota.
THEOREM RegistryInvariant == Spec => []RegistryBounded
<1>1. Init => RegistryBounded
  <2> SUFFICES ASSUME Init PROVE RegistryBounded
    OBVIOUS
  <2>1. Present(jobs) = {} /\ \A x \in Owners : Unfinished(jobs, x) = {}
    BY DEF Init, Present, Unfinished
  <2> QED
    BY <2>1, LimitsAssumption, FS_EmptySet DEF RegistryBounded
<1>2. IInv /\ RegistryBounded /\ [Next]_vars => RegistryBounded'
  BY RegistryStep
<1> QED
  BY <1>1, <1>2, Invariant, PTL DEF Spec
----------------------------------------------------------------------------
\* The registry with its mutex, threads and channels implements the contract
\* its peers rely on.
THEOREM Refinement == Spec => ImplementsContract
<1>0. \A S : Contract!Cardinality(S) = Cardinality(S)
  BY DEF Contract!Cardinality, Cardinality
<1>1. Init => Contract!Init
  BY DEF Init, Contract!Init, Phase
<1>2. IInv /\ IInv' /\ [Next]_vars => [Contract!Next]_(Contract!vars)
  <2> SUFFICES ASSUME IInv, IInv', [Next]_vars
               PROVE  [Contract!Next]_(Contract!vars)
    OBVIOUS
  <2>t. TypeOK /\ TypeOK' /\ running \in Nat /\ MaxActive \in Nat
    BY LimitsAssumption DEF IInv, TypeOK
  <2>l. \A k \in Ids : Life(k) /\ Life(k)'
    BY DEF IInv, LivesConsistent
  <2>p. \A k \in Ids : caller'[k] = caller[k] /\ worker'[k] = worker[k]
                         => Phase'[k] = Phase[k]
    BY DEF Phase
  <2>d. DOMAIN Phase = Ids /\ DOMAIN Phase' = Ids
    BY DEF Phase
  <2>f. Phase = [k \in Ids |-> Phase[k]] /\ Phase' = [k \in Ids |-> Phase'[k]]
    BY DEF Phase
  <2>s. ASSUME UNCHANGED <<caller, worker, requester, deliveries>>
        PROVE  [Contract!Next]_(Contract!vars)
    BY <2>s DEF Contract!vars, Phase
  <2>e. ASSUME running < MaxActive
        PROVE  Cardinality(Contract!Executing) < MaxActive
    <3>1. Contract!Executing = Working
      <4>1. \A k \in Ids : Phase[k] = "executing" <=> worker[k] = "working"
        BY <2>l DEF Phase, Life
      <4> QED
        BY <4>1 DEF Contract!Executing, Working
    <3>2. /\ Working \in SUBSET Ids /\ Stranded \in SUBSET Ids
          /\ running = Cardinality(Working) + Cardinality(Stranded)
      BY DEF Working, Stranded, IInv, ActiveBounded
    <3>3. Cardinality(Working) \in Nat /\ Cardinality(Stranded) \in Nat
      BY <3>2, CountOne, IdsAssumption, FS_Subset, FS_CardinalityType
    <3> QED
      BY <2>e, <2>t, <3>1, <3>2, <3>3
  <2>1. ASSUME NEW i \in Ids, NEW o \in Owners, NEW asynchronous \in BOOLEAN,
               Run(i, o, asynchronous)
        PROVE  Contract!Next
    <3>0. worker[i] # "working" /\ caller[i] = "idle" /\ caller'[i] \in {"waiting", "accepted"} /\ worker'[i] = "working"
      BY <2>1, <2>t, <2>l DEF Run, TypeOK, Life
    <3>1. Phase[i] = "idle" /\ Phase'[i] = "executing"
      BY <3>0 DEF Phase
    <3>2. \A k \in Ids \ {i} : Phase'[k] = Phase[k]
      BY <2>1, <2>t, <2>p DEF Run, TypeOK
    <3>3. Phase' = [Phase EXCEPT ![i] = "executing"]
      BY <2>f, <2>d, <3>1, <3>2
    <3>4. Cardinality(Contract!Executing) < MaxActive
      BY <2>1, <2>e DEF Run, HasCapacity
    <3>5. Contract!Submit(i, o, "executing")
      BY <2>1, <3>1, <3>3, <3>4, <1>0 DEF Run, Contract!Submit, Contract!Executing
    <3> QED
      BY <3>5 DEF Contract!Next
  <2>2. ASSUME NEW i \in Ids, NEW o \in Owners, RunRefused(i, o)
        PROVE  Contract!Next
    <3>0. worker[i] # "working" /\ worker'[i] # "working" /\ caller[i] = "idle" /\ caller'[i] \in {"refused"}
      BY <2>2, <2>t, <2>l DEF RunRefused, TypeOK, Life
    <3>1. Phase[i] = "idle" /\ Phase'[i] = "refused"
      BY <3>0 DEF Phase
    <3>2. \A k \in Ids \ {i} : Phase'[k] = Phase[k]
      BY <2>2, <2>t, <2>p DEF RunRefused, TypeOK
    <3>3. Phase' = [Phase EXCEPT ![i] = "refused"]
      BY <2>f, <2>d, <3>1, <3>2
    <3>5. Contract!Submit(i, o, "refused")
      BY <2>2, <3>1, <3>3 DEF RunRefused, Contract!Submit
    <3> QED
      BY <3>5 DEF Contract!Next
  <2>3. ASSUME NEW i \in Ids, NEW o \in Owners, RunSpawnPanics(i, o)
        PROVE  Contract!Next
    <3>0. worker[i] # "working" /\ worker'[i] # "working" /\ caller[i] = "idle" /\ caller'[i] \in {"panicked"}
      BY <2>3, <2>t, <2>l DEF RunSpawnPanics, TypeOK, Life
    <3>1. Phase[i] = "idle" /\ Phase'[i] = "stuck"
      BY <3>0 DEF Phase
    <3>2. \A k \in Ids \ {i} : Phase'[k] = Phase[k]
      BY <2>3, <2>t, <2>p DEF RunSpawnPanics, TypeOK
    <3>3. Phase' = [Phase EXCEPT ![i] = "stuck"]
      BY <2>f, <2>d, <3>1, <3>2
    <3>4. Cardinality(Contract!Executing) < MaxActive
      BY <2>3, <2>e DEF RunSpawnPanics, HasCapacity
    <3>5. Contract!Submit(i, o, "stuck")
      BY <2>3, <3>1, <3>3, <3>4, <1>0 DEF RunSpawnPanics, Contract!Submit, Contract!Executing
    <3> QED
      BY <3>5 DEF Contract!Next
  <2>4. ASSUME NEW i \in Ids, NEW o \in Owners, Status(i, o)
        PROVE  [Contract!Next]_(Contract!vars)
    <3>1. Phase' = Phase /\ requester' = requester
      BY <2>4 DEF Status, Phase
    <3>2. CASE deliveries' = deliveries
      BY <3>1, <3>2 DEF Contract!vars
    <3>3. CASE deliveries' # deliveries
      <4>1. /\ MayRead(Trimmed(jobs)[i], o)
            /\ Trimmed(jobs)[i].value = "held"
            /\ deliveries' = [deliveries EXCEPT ![i] = Append(deliveries[i], o)]
        BY <2>4, <2>t, <3>3 DEF Status, TypeOK
      <4>2. jobs[i] # NoJob /\ jobs[i].owner = o /\ jobs[i].value = "held"
        BY <2>t, <4>1, TrimmedJobs DEF MayRead
      <4>3. worker[i] \in {"recorded", "sent"} /\ caller[i] \in {"accepted", "timed_out"}
        BY <2>4, <2>l, <2>t, <4>2
        DEF Status, Nameable, Life, TypeOK, CallerStates, WorkerStates
      <4>4. deliveries[i] = <<>> /\ requester[i] = o
        BY <2>l, <4>2, <4>3 DEF Life
      <4>5. Phase[i] = "ready"
        BY <4>3 DEF Phase
      <4>6. deliveries' = [deliveries EXCEPT ![i] = <<requester[i]>>]
        <5>1. Append(<<>>, o) = <<o>>
          OBVIOUS
        <5> QED
          BY <4>1, <4>4, <5>1
      <4> QED
        BY <3>1, <4>4, <4>5, <4>6 DEF Contract!Next, Contract!HandOver
    <3> QED
      BY <3>2, <3>3
  <2>5. ASSUME NEW i \in Ids, WorkerRecord(i)
        PROVE  Contract!Next
    <3>1. Phase[i] = "executing" /\ Phase'[i] = "ready"
      BY <2>5, <2>t, <2>l DEF WorkerRecord, TypeOK, Phase, Life
    <3>2. \A k \in Ids \ {i} : Phase'[k] = Phase[k]
      BY <2>5, <2>t, <2>p DEF WorkerRecord, TypeOK
    <3>3. Phase' = [Phase EXCEPT ![i] = "ready"]
      BY <2>f, <2>d, <3>1, <3>2
    <3> QED
      BY <2>5, <3>1, <3>3 DEF WorkerRecord, Contract!Next, Contract!Finish
  <2>6. ASSUME NEW i \in Ids, WorkerSend(i) \/ CallerReceive(i) \/ CallerTimeout(i)
        PROVE  [Contract!Next]_(Contract!vars)
    <3>1. Phase'[i] = Phase[i]
      BY <2>6, <2>t, <2>l DEF WorkerSend, CallerReceive, CallerTimeout, TypeOK, Phase, Life
    <3>2. \A k \in Ids \ {i} : Phase'[k] = Phase[k]
      BY <2>6, <2>t, <2>p DEF WorkerSend, CallerReceive, CallerTimeout, TypeOK
    <3>3. Phase' = Phase
      BY <2>f, <3>1, <3>2
    <3> QED
      BY <2>6, <3>3 DEF WorkerSend, CallerReceive, CallerTimeout, Contract!vars
  <2>7. ASSUME NEW i \in Ids, CallerComplete(i)
        PROVE  Contract!Next
    <3>0. worker[i] = "sent" /\ deliveries[i] = <<>> /\ requester[i] # NoOwner
      BY <2>7, <2>l DEF CallerComplete, Life
    <3>1. Phase[i] = "ready" /\ Phase'[i] = "ready"
      BY <2>7, <2>t, <3>0 DEF CallerComplete, TypeOK, Phase
    <3>2. \A k \in Ids \ {i} : Phase'[k] = Phase[k]
      BY <2>7, <2>t, <2>p DEF CallerComplete, TypeOK
    <3>3. Phase' = Phase
      BY <2>f, <3>1, <3>2
    <3>4. deliveries' = [deliveries EXCEPT ![i] = <<requester[i]>>]
      <4>1. Append(<<>>, requester[i]) = <<requester[i]>>
        OBVIOUS
      <4> QED
        BY <2>7, <3>0, <4>1 DEF CallerComplete
    <3> QED
      BY <2>7, <3>0, <3>1, <3>3, <3>4 DEF CallerComplete, Contract!Next, Contract!HandOver
  <2>8. CASE UNCHANGED <<caller, worker, requester, deliveries>>
    BY <2>8, <2>s
  <2> QED
    BY <2>1, <2>2, <2>3, <2>4, <2>5, <2>6, <2>7, <2>8
    DEF Next, vars, DeadlinePasses, RetentionPasses
<1> QED
  BY <1>1, <1>2, Invariant, PTL DEF Spec, ImplementsContract, Contract!Spec
=============================================================================
