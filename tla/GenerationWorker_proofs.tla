------------------------ MODULE GenerationWorker_proofs ------------------------
(***************************************************************************)
(* Proofs about GenerationWorker, for any number of workers, attempts and  *)
(* shots, any bounds, with or without an executor that vanishes, with or   *)
(* without workers that outlive their leases.  Only ContractKept, at the   *)
(* end, assumes that none does (~Stalls).                                  *)
(***************************************************************************)
EXTENDS GenerationWorker, TLAPS

USE IdsAssumption, BoundsAssumption

(* Everything a worker's step on its own job can change besides the row,   *)
(* the locals and what was sent.                                           *)
RestTypeOK ==
  /\ evaluation \in [Attempt -> {"none", "passed", "failed"}]
  /\ shot \in [Shot -> [status   : {"absent"} \cup ShotStatus,
                        accepted : Attempt \cup {NoAttempt}]]
  /\ project \in ProjectStatus
  /\ revision \in [Shot -> {"none", "validated", "invalid"}]
  /\ executor \in {"up", "gone"}
  /\ stalled \in SUBSET Attempt
  /\ faults \in 0 .. MaxFaults

(* A step of worker w that rewrites the row of its job to x and its locals *)
(* to r keeps the invariant if x stays held by w and r stays sound.        *)
LEMMA JobStep ==
  ASSUME IInv, RestTypeOK',
         NEW w \in Worker, worker[w].pc \in Working, Job(w) \notin stalled,
         NEW x \in AttemptRow, NEW r \in WorkerRecord,
         attempt' = [attempt EXCEPT ![Job(w)] = x],
         worker' = [worker EXCEPT ![w] = r],
         UNCHANGED <<jobs, posts, stalled>>,
         r.pc \in Working, r.job = Job(w),
         x.status \notin {"absent", "queued"},
         x.status \in LeasedStatus => x.owner = w /\ x.lease = "live",
         posts[Job(w)] > 0 => x.status # "claimed",
         x.prompt # 0 => posts[Job(w)] > 0,
         Sound(r, x, posts[Job(w)])
  PROVE  IInv'
<1> DEFINE a == Job(w)
<1>1. /\ a \in Attempt
      /\ \A v \in Worker : v # w => Job(v) # a
  BY DEF IInv, TypeOK, OneWorkerPerAttempt, JobWhileWorking, Job, WorkerRecord
<1>2. /\ attempt'[a] = x
      /\ \A b \in Attempt : b # a => attempt'[b] = attempt[b]
      /\ worker'[w] = r
      /\ \A v \in Worker : v # w => worker'[v] = worker[v]
  BY <1>1 DEF IInv, TypeOK
<1>3. TypeOK'
  BY <1>1 DEF IInv, TypeOK, RestTypeOK
<1>4. OneWorkerPerAttempt'
  BY <1>1, <1>2 DEF IInv, OneWorkerPerAttempt, Job
<1>5. JobWhileWorking'
  BY <1>1, <1>2 DEF IInv, JobWhileWorking, Job
<1>6. JobIsHeld'
  BY <1>1, <1>2 DEF IInv, TypeOK, JobIsHeld, JobWhileWorking, Job, Row, WorkerRecord
<1>7. SentOnceDurably'
  BY <1>1, <1>2 DEF IInv, SentOnceDurably
<1>8. LocalsAreSound'
  BY <1>1, <1>2 DEF IInv, TypeOK, LocalsAreSound, JobWhileWorking, Job, Row, WorkerRecord
<1> QED  BY <1>3, <1>4, <1>5, <1>6, <1>7, <1>8 DEF IInv

(* A step of a worker that lets go of its job keeps the invariant: the row *)
(* stays as it is or is released.                                          *)
LEMMA LeaveStep ==
  ASSUME IInv, RestTypeOK',
         NEW w \in Worker, NEW pc \in {"idle", "down"},
         \/ attempt' = attempt
         \/ worker[w].pc \in Working /\ attempt' = Released(w, Job(w)),
         worker' = [worker EXCEPT ![w] = Blank(pc)],
         UNCHANGED <<jobs, posts, stalled>>
  PROVE  IInv'
<1> DEFINE a == Job(w)
<1>1. worker[w].pc \in Working => a \in Attempt
  BY DEF IInv, TypeOK, JobWhileWorking, Job, WorkerRecord
<1>2. /\ Blank(pc) \in WorkerRecord
      /\ Blank(pc).pc = pc /\ pc \notin Working
      /\ Blank(pc).job = NoAttempt /\ ~Blank(pc).stopping
  BY DEF Blank, WorkerRecord, Locals, Working, Post, History
<1>3. /\ worker' \in [Worker -> WorkerRecord]
      /\ worker'[w] = Blank(pc)
      /\ \A v \in Worker : v # w => worker'[v] = worker[v]
  BY <1>2 DEF IInv, TypeOK
<1>4. attempt' \in [Attempt -> AttemptRow]
  <2>1. CASE attempt' = attempt
    BY <2>1 DEF IInv, TypeOK
  <2>2. CASE worker[w].pc \in Working /\ attempt' = Released(w, Job(w))
    <3>1. "queued" \in AttemptStatus
      BY DEF AttemptStatus, AttemptMoves
    <3> QED  BY <2>2, <3>1, <1>1 DEF IInv, TypeOK, Released, AttemptRow
  <2> QED  BY <2>1, <2>2
<1>5. \A b \in Attempt :
        \/ attempt'[b] = attempt[b]
        \/ /\ b = a /\ worker[w].pc \in Working
           /\ attempt'[b].prompt = attempt[b].prompt
           /\ attempt[b].status \in LeasedStatus
           /\ attempt'[b].status = IF attempt[b].status = "claimed" THEN "queued"
                                   ELSE attempt[b].status
  <2>1. CASE attempt' = attempt
    BY <2>1
  <2>2. CASE worker[w].pc \in Working /\ attempt' = Released(w, Job(w))
    BY <2>2, <1>1 DEF IInv, TypeOK, Released, AttemptRow
  <2> QED  BY <2>1, <2>2
<1>6. TypeOK'
  BY <1>3, <1>4 DEF IInv, TypeOK, RestTypeOK
<1>7. OneWorkerPerAttempt'
  BY <1>2, <1>3 DEF IInv, OneWorkerPerAttempt, Job
<1>8. JobWhileWorking'
  BY <1>2, <1>3 DEF IInv, JobWhileWorking, Job
<1>9. \A v \in Worker : v # w /\ worker[v].pc \in Working /\ Job(v) \notin stalled =>
        Job(v) \in Attempt /\ attempt'[Job(v)] = attempt[Job(v)]
  BY <1>1, <1>5 DEF IInv, TypeOK, OneWorkerPerAttempt, JobWhileWorking, Job, WorkerRecord
<1>10. JobIsHeld'
  BY <1>2, <1>3, <1>9 DEF IInv, JobIsHeld, Job, Row
<1>11. SentOnceDurably'
  BY <1>5 DEF IInv, SentOnceDurably, LeasedStatus
<1>12. LocalsAreSound'
  BY <1>2, <1>3, <1>9 DEF IInv, LocalsAreSound, Job, Row
<1> QED  BY <1>6, <1>7, <1>8, <1>10, <1>11, <1>12 DEF IInv

-----------------------------------------------------------------------------
(* The initial state and the steps that are not a worker's own. *)

LEMMA InitIInv == Init => IInv
<1> SUFFICES ASSUME Init PROVE IInv
  OBVIOUS
<1>1. \A w \in Worker : worker[w] = Blank("idle")
  BY DEF Init
<1>2. Blank("idle") \in WorkerRecord
  BY DEF Blank, WorkerRecord, Locals, Post, History
<1>3. TypeOK
  <2>1. "ready_for_generation" \in ProjectStatus
    BY DEF ProjectStatus, ProjectMoves
  <2> QED  BY <1>2, <2>1 DEF Init, TypeOK, AttemptRow, JobState, Post
<1>4. \A w \in Worker : worker[w].pc \notin Working /\ Job(w) = NoAttempt
                        /\ ~worker[w].stopping
  BY <1>1 DEF Blank, Working, Job
<1>5. OneWorkerPerAttempt /\ JobWhileWorking /\ JobIsHeld /\ LocalsAreSound
  BY <1>4 DEF OneWorkerPerAttempt, JobWhileWorking, JobIsHeld, LocalsAreSound
<1>6. SentOnceDurably
  BY DEF Init, SentOnceDurably
<1> QED  BY <1>3, <1>5, <1>6 DEF IInv

(* Steps that touch neither workers nor what was sent, and change rows only *)
(* from absent to queued or between statuses that are past the worker,      *)
(* except where the lease has run out under a worker.                       *)
LEMMA RowsStep ==
  ASSUME IInv, RestTypeOK', UNCHANGED <<worker, posts>>, stalled \subseteq stalled',
         attempt' \in [Attempt -> AttemptRow],
         jobs' \in [Attempt -> [Post -> JobState]],
         \A b \in Attempt :
           \/ attempt'[b] = attempt[b] \/ b \in stalled'
           \/ /\ attempt'[b].prompt = attempt[b].prompt
              /\ \/ attempt[b].status = "absent"
                 \/ attempt[b].status = "awaiting_review" /\ attempt'[b].status \in AttemptTerminal
           \/ /\ attempt'[b].prompt = attempt[b].prompt
              /\ attempt'[b].status = attempt[b].status
              /\ \A w \in Worker : Job(w) # b,
         \A b \in Attempt, k \in Post : jobs[b][k] = "unsent" => jobs'[b][k] = "unsent"
  PROVE  IInv'
<1>1. TypeOK'
  BY DEF IInv, TypeOK, RestTypeOK
<1>2. OneWorkerPerAttempt' /\ JobWhileWorking'
  BY DEF IInv, OneWorkerPerAttempt, JobWhileWorking, Job
<1>3. SentOnceDurably'
  BY DEF IInv, SentOnceDurably, AttemptTerminal
<1>4. \A w \in Worker : worker[w].pc \in Working /\ Job(w) \notin stalled' =>
        /\ Job(w) \in Attempt
        /\ \/ attempt'[Job(w)] = attempt[Job(w)]
           \/ /\ attempt[Job(w)].status = "awaiting_review"
              /\ attempt'[Job(w)].status \in AttemptTerminal
  BY DEF IInv, TypeOK, JobWhileWorking, JobIsHeld, Job, Row, WorkerRecord
<1>5. JobIsHeld'
  BY <1>4 DEF IInv, JobIsHeld, Job, Row, AttemptTerminal, LeasedStatus
<1>6. LocalsAreSound'
  BY <1>4 DEF IInv, LocalsAreSound, Sound, Job, Row, AttemptTerminal
<1> QED  BY <1>1, <1>2, <1>3, <1>5, <1>6 DEF IInv

(* The statuses, as sets of strings. *)
LEMMA Statuses ==
  /\ AttemptStatus = {"queued", "claimed", "submitting", "submitted", "running",
                      "generated", "evaluating", "awaiting_review", "accepted",
                      "rejected", "failed", "timed_out", "cancelled"}
  /\ ShotStatus = {"draft", "approved_for_generation", "queued", "generating",
                   "retryable", "awaiting_review", "accepted", "rejected",
                   "failed", "cancelled"}
  /\ ProjectStatus = {"draft", "planning", "awaiting_storyboard_approval",
                      "ready_for_generation", "generating", "needs_attention",
                      "awaiting_final_review", "failed", "cancelled", "completed"}
BY DEF AttemptStatus, AttemptMoves, ShotStatus, ShotMoves, ProjectStatus, ProjectMoves

(* Updates of one field of one row, for the types of the rows. *)
LEMMA ShotUpdate ==
  ASSUME NEW f \in [Shot -> [status   : {"absent"} \cup ShotStatus,
                             accepted : Attempt \cup {NoAttempt}]],
         NEW s \in Shot, NEW v \in {"absent"} \cup ShotStatus
  PROVE  [f EXCEPT ![s].status = v] \in
           [Shot -> [status   : {"absent"} \cup ShotStatus,
                     accepted : Attempt \cup {NoAttempt}]]
OBVIOUS

LEMMA StatusUpdate ==
  ASSUME NEW f \in [Attempt -> AttemptRow], NEW a \in Attempt, NEW v \in AttemptStatus,
         NEW g, g = [f EXCEPT ![a].status = v]
  PROVE  /\ g \in [Attempt -> AttemptRow]
         /\ \A b \in Attempt : b # a => g[b] = f[b]
         /\ g[a].status = v /\ g[a].prompt = f[a].prompt
BY DEF AttemptRow

LEMMA SettledUpdate ==
  ASSUME attempt \in [Attempt -> AttemptRow], NEW a \in Attempt,
         NEW v \in AttemptStatus, NEW code \in FailureCode \cup {"none"},
         attempt' = Settled(a, v, code)
  PROVE  /\ attempt' \in [Attempt -> AttemptRow]
         /\ \A b \in Attempt : b # a => attempt'[b] = attempt[b]
         /\ attempt'[a].status = v /\ attempt'[a].prompt = attempt[a].prompt
BY DEF AttemptRow, Settled

(* The API's transactions. *)
LEMMA ApiInv == IInv /\ ApiStep => IInv'
<1> SUFFICES ASSUME IInv, ApiStep PROVE IInv'
  OBVIOUS
<1>0. TypeOK /\ attempt \in [Attempt -> AttemptRow]
  BY DEF IInv, TypeOK
<1>1. /\ UNCHANGED <<worker, posts, jobs, executor, stalled, faults>>
      /\ executor' \in {"up", "gone"} /\ faults' \in 0 .. MaxFaults
      /\ jobs' \in [Attempt -> [Post -> JobState]]
      /\ \A b \in Attempt, k \in Post : jobs[b][k] = "unsent" => jobs'[b][k] = "unsent"
  BY <1>0 DEF TypeOK, ApiStep, SubmitRun, CreateAttempt, AcceptAttempt, RejectAttempt,
              RetryAttempt, SubmitInvalidRun, CheckRevision, ApiUnchanged, outside
<1>2. ASSUME NEW a \in Attempt, Enqueue(a), UNCHANGED evaluation,
             \/ UNCHANGED revision
             \/ revision' = [revision EXCEPT ![ShotOf[a]] = "validated"]
      PROVE  IInv'
  <2>1. "queued" \in AttemptStatus /\ "queued" \in ShotStatus /\ "generating" \in ProjectStatus
    BY Statuses
  <2>2. shot' \in [Shot -> [status   : {"absent"} \cup ShotStatus,
                            accepted : Attempt \cup {NoAttempt}]]
    BY <1>0, <1>2, <2>1, ShotUpdate DEF TypeOK, Enqueue
  <2>3. RestTypeOK'
    BY <1>0, <1>1, <1>2, <2>1, <2>2 DEF TypeOK, RestTypeOK, Enqueue
  <2>4. attempt' = [attempt EXCEPT ![a].status = "queued"] /\ attempt[a].status = "absent"
    BY <1>2 DEF Enqueue
  <2>5. /\ attempt' \in [Attempt -> AttemptRow]
        /\ \A b \in Attempt : b # a => attempt'[b] = attempt[b]
        /\ attempt'[a].prompt = attempt[a].prompt
    BY <1>0, <2>1, <2>4, StatusUpdate
  <2> QED  BY <1>1, <2>3, <2>4, <2>5, RowsStep
<1>3. ASSUME NEW a \in Attempt, AcceptAttempt(a)
      PROVE  IInv'
  <2>1. "accepted" \in AttemptStatus /\ "accepted" \in ShotStatus
        /\ "completed" \in ProjectStatus /\ "awaiting_final_review" \in ProjectStatus
    BY Statuses
  <2>2. RestTypeOK'
    BY <1>0, <1>1, <1>3, <2>1 DEF TypeOK, RestTypeOK, AcceptAttempt, ShotAccepted
  <2>3. /\ attempt' = Settled(a, "accepted", attempt[a].failure)
        /\ attempt[a].status = "awaiting_review"
        /\ attempt[a].failure \in FailureCode \cup {"none"}
    BY <1>0, <1>3 DEF AcceptAttempt, AttemptRow
  <2>4. /\ attempt' \in [Attempt -> AttemptRow]
        /\ \A b \in Attempt : b # a => attempt'[b] = attempt[b]
        /\ attempt'[a].status = "accepted" /\ attempt'[a].prompt = attempt[a].prompt
    BY <1>0, <2>1, <2>3, SettledUpdate
  <2> QED  BY <1>1, <2>2, <2>3, <2>4, RowsStep DEF AttemptTerminal
<1>4. ASSUME NEW a \in Attempt, RejectAttempt(a)
      PROVE  IInv'
  <2>1. "rejected" \in AttemptStatus /\ "rejected" \in ShotStatus
        /\ "REVIEW_REJECTED" \in FailureCode
    BY Statuses DEF FailureCode
  <2>2. shot' \in [Shot -> [status   : {"absent"} \cup ShotStatus,
                            accepted : Attempt \cup {NoAttempt}]]
    BY <1>0, <1>4, <2>1, ShotUpdate DEF TypeOK, RejectAttempt
  <2>3. RestTypeOK'
    BY <1>0, <1>1, <1>4, <2>2 DEF TypeOK, RestTypeOK, RejectAttempt
  <2>4. /\ attempt' = Settled(a, "rejected", "REVIEW_REJECTED")
        /\ attempt[a].status = "awaiting_review"
    BY <1>4 DEF RejectAttempt
  <2>5. /\ attempt' \in [Attempt -> AttemptRow]
        /\ \A b \in Attempt : b # a => attempt'[b] = attempt[b]
        /\ attempt'[a].status = "rejected" /\ attempt'[a].prompt = attempt[a].prompt
    BY <1>0, <2>1, <2>4, SettledUpdate
  <2> QED  BY <1>1, <2>3, <2>4, <2>5, RowsStep DEF AttemptTerminal
<1>5. ASSUME NEW s \in Shot, SubmitInvalidRun(s)
      PROVE  IInv'
  <2>1. "approved_for_generation" \in ShotStatus
    BY Statuses
  <2>2. shot' = [shot EXCEPT ![s].status = "approved_for_generation"]
    BY <1>5 DEF SubmitInvalidRun
  <2>3. shot' \in [Shot -> [status   : {"absent"} \cup ShotStatus,
                            accepted : Attempt \cup {NoAttempt}]]
    BY <1>0, <2>1, <2>2, ShotUpdate DEF TypeOK
  <2>4. RestTypeOK' /\ attempt' = attempt
    BY <1>0, <1>1, <1>5, <2>3 DEF TypeOK, RestTypeOK, SubmitInvalidRun
  <2> QED  BY <1>0, <1>1, <2>4, RowsStep
<1>6. ASSUME NEW s \in Shot, NEW v \in {"validated", "invalid"}, CheckRevision(s, v)
      PROVE  IInv'
  <2>1. RestTypeOK' /\ attempt' = attempt
    BY <1>0, <1>1, <1>6 DEF TypeOK, RestTypeOK, CheckRevision
  <2> QED  BY <1>0, <1>1, <2>1, RowsStep
<1> QED  BY <1>2, <1>3, <1>4, <1>5, <1>6 DEF ApiStep, SubmitRun, CreateAttempt, RetryAttempt

(* Time and the executor.  A lease that runs out under a worker is the one  *)
(* thing the invariant does not survive, and gives the attempt up.          *)
LEMMA EnvironmentInv == IInv /\ Environment => IInv'
<1> SUFFICES ASSUME IInv, Environment PROVE IInv'
  OBVIOUS
<1>1. TypeOK
  BY DEF IInv
<1>2. ASSUME NEW a \in Attempt, LeaseLapse(a)
      PROVE  IInv'
  <2>1. RestTypeOK' /\ stalled \subseteq stalled'
    BY <1>1, <1>2 DEF TypeOK, RestTypeOK, LeaseLapse
  <2>2. /\ attempt' \in [Attempt -> AttemptRow]
        /\ \A b \in Attempt : b # a => attempt'[b] = attempt[b]
        /\ attempt'[a].prompt = attempt[a].prompt
        /\ attempt'[a].status = attempt[a].status
    <3>1. attempt' = [attempt EXCEPT ![a].lease = "lapsed"]
      BY <1>2 DEF LeaseLapse
    <3>2. attempt \in [Attempt -> AttemptRow]
      BY <1>1 DEF TypeOK
    <3> QED  BY <3>1, <3>2 DEF AttemptRow
  <2>3. CASE a \in stalled' \/ \A w \in Worker : Job(w) # a
    <3>1. /\ UNCHANGED <<worker, posts, jobs>> /\ jobs' \in [Attempt -> [Post -> JobState]]
          /\ \A b \in Attempt, k \in Post : jobs[b][k] = "unsent" => jobs'[b][k] = "unsent"
      BY <1>1, <1>2 DEF LeaseLapse, TypeOK
    <3> QED  BY <2>1, <2>2, <2>3, <3>1, RowsStep
  <2>4. CASE a \notin stalled' /\ \E w \in Worker : Job(w) = a
    <3>1. PICK w \in Worker : Job(w) = a
      BY <2>4
    <3>2. /\ stalled' = stalled /\ a \notin stalled
          /\ ~HolderAtWork(a)
      BY <1>2, <2>4 DEF LeaseLapse
    <3>3. /\ worker[w].pc \in Working
          /\ attempt[a].status \notin {"absent", "queued"} \cup LeasedStatus
      BY <3>1, <3>2 DEF IInv, JobWhileWorking, JobIsHeld, HolderAtWork, Job, Row
    <3> DEFINE x == [attempt[a] EXCEPT !.lease = "lapsed"]
    <3>4. /\ x \in AttemptRow /\ attempt' = [attempt EXCEPT ![Job(w)] = x]
          /\ x.status = attempt[a].status /\ x.prompt = attempt[a].prompt
      <4>1. attempt[a] \in AttemptRow
        BY <1>1 DEF TypeOK
      <4>2. x \in AttemptRow /\ x.status = attempt[a].status /\ x.prompt = attempt[a].prompt
        BY <4>1 DEF AttemptRow
      <4>3. attempt' = [attempt EXCEPT ![a] = x]
        BY <1>1, <1>2 DEF TypeOK, LeaseLapse
      <4> QED  BY <3>1, <4>2, <4>3
    <3>5. worker' = [worker EXCEPT ![w] = worker[w]] /\ worker[w] \in WorkerRecord
      BY <1>1, <1>2 DEF TypeOK, LeaseLapse
    <3>6. Sound(worker[w], x, posts[Job(w)])
      BY <3>1, <3>2, <3>3, <3>4 DEF IInv, LocalsAreSound, Sound, Row
    <3>7. /\ posts[Job(w)] > 0 => x.status # "claimed"
          /\ x.prompt # 0 => posts[Job(w)] > 0
      BY <3>1, <3>2, <3>4 DEF IInv, SentOnceDurably
    <3>8. UNCHANGED <<jobs, posts, stalled>>
      BY <1>2, <3>2 DEF LeaseLapse
    <3> HIDE DEF x
    <3> QED  BY <2>1, <3>1, <3>2, <3>3, <3>4, <3>5, <3>6, <3>7, <3>8, JobStep DEF Job
  <2> QED  BY <2>3, <2>4
<1>3. ASSUME UNCHANGED <<rows, posts, executor, stalled, worker>>, faults' \in 0 .. MaxFaults,
             NEW a \in Attempt, NEW k \in Post, jobs[a][k] # "unsent",
             NEW to \in JobState, jobs' = [jobs EXCEPT ![a][k] = to]
      PROVE  IInv'
  <2>1. RestTypeOK'
    BY <1>1, <1>3 DEF TypeOK, RestTypeOK, rows
  <2>2. /\ jobs' \in [Attempt -> [Post -> JobState]]
        /\ \A b \in Attempt, i \in Post : jobs[b][i] = "unsent" => jobs'[b][i] = "unsent"
    BY <1>1, <1>3 DEF TypeOK
  <2>3. attempt' = attempt /\ attempt' \in [Attempt -> AttemptRow]
    BY <1>1, <1>3 DEF rows, TypeOK
  <2> QED  BY <1>3, <2>1, <2>2, <2>3, RowsStep
<1>4. ASSUME NEW a \in Attempt, NEW k \in Post,
             ReceivePrompt(a, k) \/ FinishJob(a, k) \/ LosePrompt(a, k)
      PROVE  IInv'
  <2>1. faults' \in 0 .. MaxFaults
    BY <1>1, <1>4 DEF TypeOK, ReceivePrompt, FinishJob, LosePrompt, Fault
  <2>2. PICK from \in {{"transit"}, {"open"}, {"open"} \cup Finished}, to \in JobState :
          ExecutorStep(a, k, from, to)
    BY <1>4 DEF ReceivePrompt, FinishJob, LosePrompt, JobState, Finished
  <2> QED  BY <1>3, <2>1, <2>2 DEF ExecutorStep, Finished
<1>5. ASSUME ExecutorVanishes
      PROVE  IInv'
  <2>1. RestTypeOK'
    BY <1>1, <1>5 DEF TypeOK, RestTypeOK, ExecutorVanishes, rows
  <2>2. /\ UNCHANGED <<worker, posts, jobs, stalled, attempt>>
        /\ attempt' \in [Attempt -> AttemptRow]
        /\ jobs' \in [Attempt -> [Post -> JobState]]
    BY <1>1, <1>5 DEF ExecutorVanishes, rows, TypeOK
  <2> QED  BY <2>1, <2>2, RowsStep
<1> QED  BY <1>2, <1>4, <1>5 DEF Environment

-----------------------------------------------------------------------------
(* The steps of a worker. *)

(* A worker at work has a job; the job of another is not stalled. *)
LEMMA JobFacts ==
  ASSUME IInv, NEW w \in Worker
  PROVE  IF worker[w].pc \in Working THEN Job(w) \in Attempt ELSE Job(w) \notin stalled
BY DEF IInv, TypeOK, JobWhileWorking, Job, WorkerRecord

(* What the invariant says of a worker on an attempt that never stalled. *)
LEMMA WorkingFacts ==
  ASSUME IInv, NEW w \in Worker, worker[w].pc \in Working, Job(w) \notin stalled
  PROVE  /\ Job(w) \in Attempt /\ ShotOf[Job(w)] \in Shot
         /\ Row(w) \in AttemptRow /\ worker[w] \in WorkerRecord
         /\ attempt \in [Attempt -> AttemptRow]
         /\ worker \in [Worker -> WorkerRecord]
         /\ Row(w).status \notin {"absent", "queued"}
         /\ Row(w).status \in LeasedStatus => Row(w).owner = w /\ Row(w).lease = "live"
         /\ posts[Job(w)] > 0 => Row(w).status # "claimed"
         /\ Row(w).prompt # 0 => posts[Job(w)] > 0
         /\ Sound(worker[w], Row(w), posts[Job(w)])
         /\ posts[Job(w)] \in 0 .. MaxPosts
<1>1. Job(w) \in Attempt
  BY DEF IInv, TypeOK, JobWhileWorking, Job, WorkerRecord
<1>2. Row(w) \in AttemptRow /\ worker[w] \in WorkerRecord /\ posts[Job(w)] \in 0 .. MaxPosts
      /\ attempt \in [Attempt -> AttemptRow] /\ worker \in [Worker -> WorkerRecord]
  BY <1>1 DEF IInv, TypeOK, Row
<1> QED  BY <1>1, <1>2 DEF IInv, JobIsHeld, SentOnceDurably, LocalsAreSound, Row

(* Typing of what a step leaves alone. *)
LEMMA RestUnchanged ==
  ASSUME IInv, UNCHANGED <<evaluation, shot, project, revision, executor, stalled, faults>>
  PROVE  RestTypeOK'
BY DEF IInv, TypeOK, RestTypeOK

(* A step that only changes the locals of w. *)
LEMMA LocalStep ==
  ASSUME IInv, RestTypeOK', NEW w \in Worker, worker[w].pc \in Working,
         Job(w) \notin stalled,
         NEW r \in WorkerRecord, worker' = [worker EXCEPT ![w] = r],
         UNCHANGED <<attempt, jobs, posts, stalled>>,
         r.pc \in Working, r.job = Job(w),
         Sound(r, Row(w), posts[Job(w)])
  PROVE  IInv'
<1>1. attempt' = [attempt EXCEPT ![Job(w)] = Row(w)]
  BY WorkingFacts DEF Row
<1> QED  BY <1>1, WorkingFacts, JobStep

(* The program points at which Sound says nothing of the row. *)
Later == Working \ {"load", "intent", "lookup", "validate", "post"}

LEMMA SoundLater ==
  ASSUME NEW r, NEW row, NEW sent \in Nat,
         r.pc \in Later, r.prompt # 0 => sent > 0, r.pc \in AfterPost => sent > 0
  PROVE  Sound(r, row, sent)
BY DEF Sound, Later

(* Going on to a later point, and ending in failAttempt. *)
LEMMA StepLater ==
  ASSUME IInv, NEW w \in Worker, worker[w].pc \in Working,
         Job(w) \notin stalled,
         UNCHANGED <<attempt, jobs, posts, stalled>>, RestTypeOK',
         NEW pc \in Later, Step(w, pc),
         pc \in AfterPost => posts[Job(w)] > 0
  PROVE  IInv'
<1> DEFINE r == [worker[w] EXCEPT !.pc = pc]
<1>1. /\ r \in WorkerRecord /\ r.pc = pc /\ r.job = Job(w) /\ r.prompt = worker[w].prompt
      /\ pc \in Working
  BY WorkingFacts DEF WorkerRecord, Job, Later, Working
<1>2. worker' = [worker EXCEPT ![w] = r]
  BY WorkingFacts DEF Step
<1>3. r.prompt # 0 => posts[Job(w)] > 0
  BY <1>1, WorkingFacts DEF Sound
<1>4. posts[Job(w)] \in Nat
  BY WorkingFacts
<1> HIDE DEF r
<1>5. Sound(r, Row(w), posts[Job(w)])
  BY <1>1, <1>3, <1>4, SoundLater
<1> QED  BY <1>1, <1>2, <1>5, LocalStep

LEMMA FailingFacts ==
  ASSUME NEW r \in WorkerRecord, NEW code \in FailureCode
  PROVE  /\ Failing(r, code) \in WorkerRecord /\ Failing(r, code).job = r.job
         /\ Failing(r, code).prompt = r.prompt /\ Failing(r, code).pc = "fail"
BY DEF Failing, WorkerRecord, Locals, History

LEMMA StepToFail ==
  ASSUME IInv, NEW w \in Worker, worker[w].pc \in Working,
         Job(w) \notin stalled,
         UNCHANGED <<attempt, jobs, posts, stalled>>, RestTypeOK',
         NEW code \in FailureCode, StepFail(w, code)
  PROVE  IInv'
<1> DEFINE r == Failing(worker[w], code)
<1>1. /\ r \in WorkerRecord /\ r.pc = "fail" /\ r.job = Job(w)
      /\ r.prompt = worker[w].prompt
  <2>1. worker[w] \in WorkerRecord
    BY WorkingFacts
  <2> QED  BY <2>1, FailingFacts DEF Job
<1>2. worker' = [worker EXCEPT ![w] = r]
  BY WorkingFacts DEF StepFail
<1>3. r.prompt # 0 => posts[Job(w)] > 0
  BY <1>1, WorkingFacts DEF Sound
<1>4. posts[Job(w)] \in Nat
  BY WorkingFacts
<1> HIDE DEF r
<1>5. r.pc \in Later /\ r.pc \notin AfterPost /\ r.pc \in Working
  BY <1>1 DEF Later, AfterPost, Working, Locals
<1>6. Sound(r, Row(w), posts[Job(w)])
  BY <1>3, <1>4, <1>5, SoundLater
<1> QED  BY <1>1, <1>2, <1>5, <1>6, LocalStep

(* Where Observing leads. *)
LEMMA ObservingFacts ==
  ASSUME NEW r \in WorkerRecord, NEW h
  PROVE  LET o == Observing(r, h)
         IN /\ o \in WorkerRecord /\ o.job = r.job /\ o.prompt = r.prompt
            /\ o.pc \in {"done", "markrun", "fail", "stream"}
<1>1. "COMFY_EXECUTION_FAILED" \in FailureCode /\ "COMFY_INTERRUPTED" \in FailureCode
  BY DEF FailureCode
<1> DEFINE go(pc) == [r EXCEPT !.pc = pc, !.hist = "null"]
<1>2. \A pc \in {"done", "markrun", "stream"} :
        go(pc) \in WorkerRecord /\ go(pc).job = r.job /\ go(pc).prompt = r.prompt
        /\ go(pc).pc = pc
  BY DEF WorkerRecord, Locals, History
<1>3. Observing(r, h) \in {go("done"), go("markrun"), go("stream"),
                          Failing(r, "COMFY_EXECUTION_FAILED"), Failing(r, "COMFY_INTERRUPTED")}
  BY DEF Observing
<1> HIDE DEF go
<1> QED  BY <1>1, <1>2, <1>3, FailingFacts

(* A worker that dies, whether or not its stop() released the attempt. *)
LEMMA DieInv ==
  ASSUME IInv, NEW w \in Worker, Die(w), UNCHANGED outside, faults' \in 0 .. MaxFaults
  PROVE  IInv'
<1>1. RestTypeOK' /\ UNCHANGED <<jobs, posts, stalled>>
  BY DEF IInv, TypeOK, RestTypeOK, Die, outside
<1>2. worker[w].stopping => worker[w].pc \in Working
  BY DEF IInv, JobWhileWorking
<1>3. /\ \/ attempt' = attempt
         \/ worker[w].pc \in Working /\ attempt' = Released(w, Job(w))
      /\ worker' = [worker EXCEPT ![w] = Blank("down")]
  BY <1>2 DEF Die
<1> QED  BY <1>1, <1>3, LeaveStep

(* Typing when all a worker changes is its locals. *)
LEMMA Quiet ==
  ASSUME IInv, UNCHANGED rows, WorkerUnchanged
  PROVE  RestTypeOK' /\ UNCHANGED <<attempt, jobs, posts, stalled>>
BY RestUnchanged DEF rows, outside, WorkerUnchanged

LEMMA DieQuietly ==
  ASSUME IInv, NEW w \in Worker, Die(w), WorkerUnchanged
  PROVE  IInv'
<1>1. UNCHANGED outside /\ faults' \in 0 .. MaxFaults
  BY DEF WorkerUnchanged, IInv, TypeOK
<1> QED  BY <1>1, DieInv

LEMMA ClaimedLocals ==
  ASSUME NEW a \in Attempt, NEW f \in BOOLEAN
  PROVE  LET r == [Blank("load") EXCEPT !.job = a, !.fresh = f]
         IN /\ r \in WorkerRecord /\ r.pc = "load" /\ r.job = a /\ ~r.stopping
            /\ r.fresh = f /\ r.prompt = 0
<1>1. /\ Blank("load") \in WorkerRecord /\ Blank("load").pc = "load"
      /\ ~Blank("load").stopping /\ Blank("load").prompt = 0
  BY DEF Blank, WorkerRecord, Locals, Post, History
<1>2. \A b \in WorkerRecord : LET r == [b EXCEPT !.job = a, !.fresh = f]
                             IN /\ r \in WorkerRecord /\ r.pc = b.pc /\ r.job = a
                                /\ r.stopping = b.stopping /\ r.fresh = f
                                /\ r.prompt = b.prompt
  BY DEF WorkerRecord
<1> QED  BY <1>1, <1>2

(* Claims.  A claimed or recovered attempt that never stalled is nobody's   *)
(* job: a job is leased to its worker alive, or settled.                    *)
LEMMA ClaimInv ==
  ASSUME IInv, NEW w \in Worker, NEW a \in Attempt,
         ClaimForRecovery(w, a) \/ ClaimNext(w, a)
  PROVE  IInv'
<1>d. CASE Die(w) /\ WorkerUnchanged
  BY <1>d, DieQuietly
<1>c. SUFFICES ASSUME Writable(a) PROVE IInv'
  BY <1>d DEF ClaimForRecovery, ClaimNext, Claim
<1> DEFINE status == IF attempt[a].status = "queued" THEN "claimed" ELSE attempt[a].status
           fresh == (status = "claimed")
           r == [Blank("load") EXCEPT !.job = a, !.fresh = fresh]
           x == [attempt[a] EXCEPT !.status = status, !.owner = w, !.lease = "live"]
<1>0. TypeOK /\ attempt[a] \in AttemptRow
  BY DEF IInv, TypeOK
<1>1. /\ Claim(w, a, status) /\ worker[w].pc = "poll"
      /\ status \in LeasedStatus /\ attempt[a].lease # "live"
      /\ attempt[a].status \in {"queued"} \cup RecoveryStatus
      /\ status = "claimed" <=> attempt[a].status = "queued"
  BY DEF ClaimForRecovery, ClaimNext, Recoverable, Claimable, RecoveryStatus, LeasedStatus, At
<1>2. \A v \in Worker : a \notin stalled => Job(v) # a
  BY <1>1 DEF IInv, JobWhileWorking, JobIsHeld, Job, Row, RecoveryStatus
<1>3. /\ r \in WorkerRecord /\ r.pc = "load" /\ r.job = a /\ ~r.stopping
      /\ r.fresh = fresh /\ r.prompt = 0
  <2>1. fresh \in BOOLEAN
    OBVIOUS
  <2> HIDE DEF fresh
  <2> QED  BY <2>1, ClaimedLocals
<1>4. /\ x \in AttemptRow /\ x.status = status /\ x.owner = w /\ x.lease = "live"
      /\ x.prompt = attempt[a].prompt
  <2>1. status \in AttemptStatus
    BY <1>1, Statuses DEF LeasedStatus
  <2> QED  BY <1>0, <2>1 DEF AttemptRow
<1>5. attempt' = [attempt EXCEPT ![a] = x] /\ worker' = [worker EXCEPT ![w] = r]
      /\ UNCHANGED <<evaluation, shot, project, revision, jobs, posts, executor, stalled, faults>>
  BY <1>0, <1>1, <1>c DEF Claim, WorkerUnchanged, outside, TypeOK
<1> HIDE DEF status, r, x
<1>6. /\ attempt'[a] = x /\ worker'[w] = r
      /\ \A b \in Attempt : b # a => attempt'[b] = attempt[b]
      /\ \A v \in Worker : v # w => worker'[v] = worker[v]
  BY <1>0, <1>5 DEF TypeOK
<1>7. TypeOK'
  BY <1>0, <1>3, <1>4, <1>5 DEF TypeOK
<1>8. OneWorkerPerAttempt'
  BY <1>2, <1>3, <1>5, <1>6 DEF IInv, OneWorkerPerAttempt, Job
<1>9. JobWhileWorking'
  BY <1>3, <1>6 DEF IInv, JobWhileWorking, Job, Working, Locals
<1>10. \A v \in Worker : v # w /\ worker[v].pc \in Working /\ Job(v) \notin stalled =>
         Job(v) \in Attempt /\ attempt'[Job(v)] = attempt[Job(v)]
  BY <1>2, <1>6, JobFacts
<1>11. JobIsHeld'
  BY <1>1, <1>3, <1>4, <1>5, <1>6, <1>10 DEF IInv, JobIsHeld, Job, Row, LeasedStatus
<1>12. SentOnceDurably'
  BY <1>1, <1>4, <1>5, <1>6 DEF IInv, SentOnceDurably, LeasedStatus
<1>13. LocalsAreSound'
  <2>1. Sound(r, x, posts[a])
    BY <1>3, <1>4 DEF Sound, AfterPost
  <2> QED  BY <1>3, <1>5, <1>6, <1>10, <2>1 DEF IInv, LocalsAreSound, Job, Row
<1> QED  BY <1>7, <1>8, <1>9, <1>11, <1>12, <1>13 DEF IInv

LEMMA Requeued ==
  ASSUME NEW row \in AttemptRow
  PROVE  LET x == [row EXCEPT !.status = "queued", !.owner = NoWorker, !.lease = "none"]
         IN x \in AttemptRow /\ x.status = "queued" /\ x.prompt = row.prompt
<1>1. "queued" \in AttemptStatus
  BY Statuses
<1> QED  BY <1>1 DEF AttemptRow

(* recoverStale requeues only claims whose lease has lapsed, which are      *)
(* nobody's job; idle workers stay idle.                                    *)
LEMMA PollInv ==
  ASSUME IInv, NEW w \in Worker, RecoverStale(w) \/ NothingToClaim(w)
  PROVE  IInv'
<1>d. CASE Die(w) /\ WorkerUnchanged
  BY <1>d, DieQuietly
<1>c. SUFFICES ASSUME ~Die(w) PROVE IInv'
  BY <1>d DEF RecoverStale, NothingToClaim
<1>p. PICK pc \in {"idle", "poll"} : Step(w, pc)
  BY <1>c DEF RecoverStale, NothingToClaim
<1> DEFINE r == [worker[w] EXCEPT !.pc = pc]
<1>0. TypeOK /\ worker[w] \in WorkerRecord
  BY DEF IInv, TypeOK
<1>1. /\ worker[w].pc \notin Working /\ pc \notin Working
      /\ UNCHANGED <<evaluation, shot, project, revision, jobs, posts, executor, stalled, faults>>
  BY <1>c DEF RecoverStale, NothingToClaim, At, Working, WorkerUnchanged, outside, rows
<1>2. /\ r \in WorkerRecord /\ r.pc = pc /\ r.job = worker[w].job
      /\ r.stopping = worker[w].stopping
  BY <1>0 DEF WorkerRecord, Locals
<1>3. worker' = [worker EXCEPT ![w] = r]
  BY <1>0, <1>p DEF Step, TypeOK
<1> HIDE DEF r
<1>4. /\ worker'[w] = r
      /\ \A v \in Worker : v # w => worker'[v] = worker[v]
      /\ \A v \in Worker : Job(v)' = Job(v)
  BY <1>0, <1>2, <1>3 DEF TypeOK, Job
<1>5. /\ attempt' \in [Attempt -> AttemptRow]
      /\ \A b \in Attempt :
           \/ attempt'[b] = attempt[b]
           \/ /\ attempt[b].status = "claimed" /\ attempt[b].lease = "lapsed"
              /\ attempt'[b].status = "queued" /\ attempt'[b].prompt = attempt[b].prompt
  <2>1. CASE attempt' = attempt
    BY <1>0, <2>1 DEF TypeOK
  <2>2. CASE attempt' = [a \in Attempt |->
                   IF StaleClaim(a)
                   THEN [attempt[a] EXCEPT !.status = "queued", !.owner = NoWorker,
                                           !.lease = "none"]
                   ELSE attempt[a]]
    <3>1. "queued" \in AttemptStatus /\ attempt \in [Attempt -> AttemptRow]
      BY <1>0, Statuses DEF TypeOK
    <3> DEFINE x(a) == [attempt[a] EXCEPT !.status = "queued", !.owner = NoWorker,
                                          !.lease = "none"]
    <3>2. \A a \in Attempt : /\ x(a) \in AttemptRow /\ x(a).status = "queued"
                             /\ x(a).prompt = attempt[a].prompt
      BY <3>1, Requeued
    <3>3. attempt' = [a \in Attempt |->
                        IF StaleClaim(a) THEN x(a) ELSE attempt[a]]
      BY <2>2
    <3> HIDE DEF x
    <3> QED  BY <3>1, <3>2, <3>3 DEF StaleClaim
  <2> QED  BY <1>c, <2>1, <2>2 DEF RecoverStale, NothingToClaim, rows
<1>6. TypeOK'
  BY <1>0, <1>1, <1>2, <1>3, <1>5 DEF TypeOK
<1>7. OneWorkerPerAttempt'
  BY <1>1, <1>4 DEF IInv, OneWorkerPerAttempt
<1>8. JobWhileWorking'
  BY <1>1, <1>2, <1>4 DEF IInv, JobWhileWorking
<1>9. \A v \in Worker : worker'[v].pc \in Working /\ Job(v) \notin stalled =>
        /\ v # w /\ worker[v].pc \in Working
        /\ Job(v) \in Attempt /\ attempt'[Job(v)] = attempt[Job(v)]
  BY <1>1, <1>2, <1>4, <1>5, WorkingFacts DEF LeasedStatus, Row
<1>10. JobIsHeld'
  BY <1>1, <1>4, <1>9 DEF IInv, JobIsHeld, Row
<1>11. SentOnceDurably'
  BY <1>1, <1>5 DEF IInv, SentOnceDurably
<1>12. LocalsAreSound'
  BY <1>1, <1>4, <1>9 DEF IInv, LocalsAreSound, Row
<1> QED  BY <1>6, <1>7, <1>8, <1>10, <1>11, <1>12 DEF IInv

(* Load keeps the invariant: a worker that claimed off the queue still      *)
(* finds its row claimed.                                                   *)
LEMMA LoadInv == ASSUME IInv, NEW w \in Worker, Job(w) \notin stalled, Load(w) PROVE IInv'
<1>1. /\ worker[w].pc = "load" /\ worker[w].pc \in Working
      /\ UNCHANGED rows /\ WorkerUnchanged
  BY DEF Load, At, Working, Locals
<1>2. RestTypeOK' /\ UNCHANGED <<attempt, jobs, posts, stalled>>
  BY <1>1, Quiet
<1>3. CASE Step(w, "done")
  BY <1>1, <1>2, <1>3, StepLater DEF Later, Working, Locals, AfterPost
<1>4. CASE StepFail(w, "CAPABILITY_DRIFT")
  BY <1>1, <1>2, <1>4, StepToFail DEF FailureCode
<1>5. ASSUME NEW pc, pc = IF Row(w).status = "claimed" THEN "intent" ELSE "lookup",
             worker' = [worker EXCEPT ![w].pc = pc, ![w].prompt = Row(w).prompt]
      PROVE  IInv'
  <2> DEFINE r == [worker[w] EXCEPT !.pc = pc, !.prompt = Row(w).prompt]
  <2>1. pc \in Locals /\ pc \in Working /\ Row(w).prompt \in Post \cup {0}
    BY <1>1, <1>5, WorkingFacts DEF Locals, Working, AttemptRow
  <2>2. /\ r \in WorkerRecord /\ r.pc = pc /\ r.prompt = Row(w).prompt
        /\ r.job = Job(w) /\ r.fresh = worker[w].fresh
    <3>1. worker[w] \in WorkerRecord /\ Job(w) = worker[w].job
      BY <1>1, WorkingFacts DEF Job
    <3> QED  BY <2>1, <3>1 DEF WorkerRecord
  <2>3. worker' = [worker EXCEPT ![w] = r]
    BY <1>1, <1>5, WorkingFacts
  <2> HIDE DEF r
  <2>4. /\ worker[w].fresh <=> Row(w).status = "claimed"
        /\ Row(w).prompt # 0 => posts[Job(w)] > 0
    BY <1>1, WorkingFacts DEF Sound
  <2>5. Sound(r, Row(w), posts[Job(w)])
    BY <1>5, <2>2, <2>4 DEF Sound, AfterPost
  <2> QED  BY <1>1, <1>2, <2>1, <2>2, <2>3, <2>5, LocalStep
<1> QED  BY <1>3, <1>4, <1>5 DEF Load

(* The durable intent.  Nothing was sent before it. *)
LEMMA RecordIntentInv == ASSUME IInv, NEW w \in Worker, Job(w) \notin stalled, RecordIntent(w) PROVE IInv'
<1>1. /\ worker[w].pc = "intent" /\ worker[w].pc \in Working /\ WorkerUnchanged
  BY DEF RecordIntent, At, Working, Locals
<1>2. /\ Row(w).status = "claimed" /\ worker[w].fresh /\ posts[Job(w)] = 0
      /\ Row(w).prompt = 0
  BY <1>1, WorkingFacts DEF Sound, Post
<1>3. CASE Die(w)
  BY <1>1, <1>3, DieQuietly
<1>4. ASSUME attempt' = [attempt EXCEPT ![Job(w)].status = "submitting",
                                        ![Job(w)].owner = w, ![Job(w)].lease = "live"],
             worker' = [worker EXCEPT ![w].pc = "lookup", ![w].prompt = Row(w).prompt],
             UNCHANGED <<evaluation, shot, project, revision>>
      PROVE  IInv'
  <2> DEFINE r == [worker[w] EXCEPT !.pc = "lookup", !.prompt = Row(w).prompt]
             x == [Row(w) EXCEPT !.status = "submitting", !.owner = w, !.lease = "live"]
  <2>1. "lookup" \in Locals /\ "lookup" \in Working /\ Row(w).prompt \in Post \cup {0}
        /\ "submitting" \in AttemptStatus
    BY <1>1, WorkingFacts, Statuses DEF Locals, Working, AttemptRow
  <2>2. /\ r \in WorkerRecord /\ r.pc = "lookup" /\ r.prompt = Row(w).prompt
        /\ r.job = Job(w) /\ r.fresh = worker[w].fresh
    <3>1. worker[w] \in WorkerRecord /\ Job(w) = worker[w].job
      BY <1>1, WorkingFacts DEF Job
    <3> QED  BY <2>1, <3>1 DEF WorkerRecord
  <2>3. worker' = [worker EXCEPT ![w] = r]
    BY <1>1, <1>4, WorkingFacts
  <2>4. /\ x \in AttemptRow /\ x.status = "submitting" /\ x.owner = w
        /\ x.lease = "live" /\ x.prompt = 0
    BY <1>1, <1>2, <2>1, WorkingFacts DEF AttemptRow
  <2>5. attempt' = [attempt EXCEPT ![Job(w)] = x]
    BY <1>1, <1>4, WorkingFacts DEF Row
  <2>6. RestTypeOK' /\ UNCHANGED <<jobs, posts, stalled>>
    BY <1>1, <1>4, RestUnchanged DEF WorkerUnchanged, outside
  <2> HIDE DEF r, x
  <2>7. Sound(r, x, posts[Job(w)])
    BY <1>2, <2>2, <2>4 DEF Sound, AfterPost
  <2> QED  BY <1>1, <1>2, <2>1, <2>2, <2>3, <2>4, <2>5, <2>6, <2>7, JobStep
<1> QED  BY <1>2, <1>3, <1>4 DEF RecordIntent, AttemptTerminal

(* What a history that lists something implies. *)
LEMMA LookupFacts ==
  ASSUME IInv, NEW a \in Attempt \ stalled, NEW p \in Post \cup {0}, p # 0 => posts[a] > 0,
         NEW r \in Lookups(a, p)
  PROVE  /\ r.hist \in History /\ r.prompt \in Post \cup {0}
         /\ r.hist # "null" => r.prompt \in Post /\ posts[a] > 0
         /\ p # 0 => r.prompt = p
<1>1. \A k \in Post : HistoryOf(a, k) \subseteq History
  BY DEF HistoryOf, History, Finished
<1>2. \A k \in Post : HistoryOf(a, k) # {"null"} => posts[a] > 0
  <2>1. ASSUME NEW k \in Post, HistoryOf(a, k) # {"null"}
        PROVE  posts[a] > 0
    <3>1. jobs[a][k] # "unsent"
      BY <2>1 DEF HistoryOf, Finished
    <3>2. ~ (k > posts[a]) /\ posts[a] \in Nat /\ k \in Nat /\ k > 0
      BY <3>1 DEF IInv, TypeOK, SentOnceDurably, Post
    <3> QED  BY <3>2
  <2> QED  BY <2>1
<1>3. CASE p # 0
  BY <1>1, <1>2, <1>3 DEF Lookups
<1>4. CASE p = 0
  <2> DEFINE none == [prompt |-> 0, hist |-> "null"]
  <2>1. r = none \/ (r.hist \in History \ {"null"} /\ r.prompt \in Post
                     /\ r.hist \in HistoryOf(a, r.prompt))
    BY <1>4 DEF Lookups
  <2>2. CASE r = none
    BY <1>4, <2>2 DEF History
  <2>3. CASE /\ r.hist \in History \ {"null"} /\ r.prompt \in Post
             /\ r.hist \in HistoryOf(a, r.prompt)
    BY <1>2, <1>4, <2>3
  <2> QED  BY <2>1, <2>2, <2>3
<1> QED  BY <1>3, <1>4

(* What the step to a point with a prompt found in the history needs. *)
LEMMA AdoptStep ==
  ASSUME IInv, NEW w \in Worker, worker[w].pc \in Working,
         Job(w) \notin stalled, RestTypeOK',
         UNCHANGED <<attempt, jobs, posts, stalled>>,
         NEW pc \in {"adopt", "persist"}, NEW p \in Post, NEW h \in History,
         posts[Job(w)] > 0,
         worker' = [worker EXCEPT ![w].pc = pc, ![w].prompt = p, ![w].hist = h]
  PROVE  IInv'
<1> DEFINE r == [worker[w] EXCEPT !.pc = pc, !.prompt = p, !.hist = h]
<1>1. worker[w] \in WorkerRecord /\ Job(w) = worker[w].job /\ posts[Job(w)] \in Nat
  BY WorkingFacts DEF Job
<1>2. pc \in Locals /\ pc \in Working /\ pc \in Later
  BY DEF Locals, Working, Later
<1>3. r \in WorkerRecord /\ r.pc = pc /\ r.job = Job(w)
  BY <1>1, <1>2 DEF WorkerRecord
<1>4. worker' = [worker EXCEPT ![w] = r]
  BY WorkingFacts
<1> HIDE DEF r
<1>5. Sound(r, Row(w), posts[Job(w)])
  BY <1>1, <1>2, <1>3, SoundLater
<1> QED  BY <1>2, <1>3, <1>4, <1>5, LocalStep

(* Observing the prompt the worker knows. *)
LEMMA ObservingStep ==
  ASSUME IInv, NEW w \in Worker, worker[w].pc \in Working,
         Job(w) \notin stalled,
         posts[Job(w)] > 0, NEW h,
         worker' = [worker EXCEPT ![w] = Observing(worker[w], h)],
         UNCHANGED <<attempt, jobs, posts, stalled>>, RestTypeOK'
  PROVE  IInv'
<1> DEFINE r == Observing(worker[w], h)
<1>1. worker[w] \in WorkerRecord /\ posts[Job(w)] \in Nat
  BY WorkingFacts
<1>2. /\ r \in WorkerRecord /\ r.job = Job(w)
      /\ r.pc \in {"done", "markrun", "fail", "stream"}
  BY <1>1, ObservingFacts DEF Job
<1> HIDE DEF r
<1>3. r.pc \in Working /\ r.pc \in Later
  BY <1>2 DEF Working, Later, Locals
<1>4. Sound(r, Row(w), posts[Job(w)])
  BY <1>1, <1>3, SoundLater
<1>5. worker' = [worker EXCEPT ![w] = r]
  BY DEF r
<1> QED  BY <1>2, <1>3, <1>4, <1>5, LocalStep

(* The history comes before the POST, and a recovered attempt stops here. *)
LEMMA LookUpHistoryInv == ASSUME IInv, NEW w \in Worker, Job(w) \notin stalled, LookUpHistory(w) PROVE IInv'
<1>1. worker[w].pc = "lookup" /\ worker[w].pc \in Working /\ WorkerUnchanged
  BY DEF LookUpHistory, At, Working, Locals
<1>2. /\ worker[w].fresh => Row(w).status = "submitting" /\ posts[Job(w)] = 0
      /\ worker[w].prompt # 0 => posts[Job(w)] > 0
      /\ worker[w].prompt \in Post \cup {0} /\ Job(w) \in Attempt
      /\ worker[w] \in WorkerRecord
  BY <1>1, WorkingFacts DEF Sound, WorkerRecord
<1>3. CASE Die(w)
  BY <1>1, <1>3, DieQuietly
<1>4. ASSUME UNCHANGED rows, NEW r \in Lookups(Job(w), worker[w].prompt),
             \/ /\ r.hist = "null" /\ ~worker[w].fresh
                /\ StepFail(w, "COMFY_SUBMISSION_UNCERTAIN")
             \/ /\ r.hist = "null" /\ worker[w].fresh
                /\ Step(w, IF Managed(Job(w)) THEN "validate" ELSE "post")
             \/ /\ r.hist # "null" /\ worker[w].prompt = 0
                /\ worker' = [worker EXCEPT ![w].pc = "adopt", ![w].prompt = r.prompt,
                                            ![w].hist = r.hist]
             \/ /\ r.hist # "null" /\ worker[w].prompt # 0
                /\ worker' = [worker EXCEPT ![w] = Observing(@, r.hist)]
      PROVE  IInv'
  <2>1. RestTypeOK' /\ UNCHANGED <<attempt, jobs, posts, stalled>>
    BY <1>1, <1>4, Quiet
  <2>2. /\ r.hist \in History
        /\ r.hist # "null" => r.prompt \in Post /\ posts[Job(w)] > 0
    BY <1>2, LookupFacts
  <2>3. CASE StepFail(w, "COMFY_SUBMISSION_UNCERTAIN")
    BY <1>1, <2>1, <2>3, StepToFail DEF FailureCode
  <2>4. ASSUME worker[w].fresh, NEW pc \in {"validate", "post"}, Step(w, pc)
        PROVE  IInv'
    <3> DEFINE q == [worker[w] EXCEPT !.pc = pc]
    <3>1. pc \in Locals /\ pc \in Working
      BY DEF Locals, Working
    <3>2. /\ q \in WorkerRecord /\ q.pc = pc /\ q.job = Job(w) /\ q.fresh = worker[w].fresh
          /\ q.prompt = worker[w].prompt
      BY <1>2, <3>1 DEF WorkerRecord, Job
    <3>3. worker' = [worker EXCEPT ![w] = q]
      BY <1>1, <2>4, WorkingFacts DEF Step
    <3> HIDE DEF q
    <3>4. Sound(q, Row(w), posts[Job(w)])
      BY <1>2, <2>4, <3>2 DEF Sound, AfterPost
    <3> QED  BY <1>1, <2>1, <3>1, <3>2, <3>3, <3>4, LocalStep
  <2>5. CASE /\ r.hist # "null"
             /\ worker' = [worker EXCEPT ![w].pc = "adopt", ![w].prompt = r.prompt,
                                         ![w].hist = r.hist]
    BY <1>1, <2>1, <2>2, <2>5, AdoptStep
  <2>6. CASE /\ worker[w].prompt # 0
             /\ worker' = [worker EXCEPT ![w] = Observing(@, r.hist)]
    BY <1>1, <1>2, <2>1, <2>6, ObservingStep
  <2> QED  BY <1>4, <2>3, <2>4, <2>5, <2>6
<1> QED  BY <1>3, <1>4 DEF LookUpHistory

LEMMA RevalidateInv == ASSUME IInv, NEW w \in Worker, Job(w) \notin stalled, Revalidate(w) PROVE IInv'
<1>1. /\ worker[w].pc = "validate" /\ worker[w].pc \in Working
      /\ UNCHANGED <<attempt, evaluation, shot, project>> /\ WorkerUnchanged
  BY DEF Revalidate, At, Working, Locals
<1>2. UNCHANGED <<attempt, jobs, posts, stalled>> /\ RestTypeOK'
  BY <1>1 DEF Revalidate, WorkerUnchanged, outside, IInv, TypeOK, RestTypeOK
<1>3. CASE StepFail(w, "CAPABILITY_DRIFT")
  BY <1>1, <1>2, <1>3, StepToFail DEF FailureCode
<1>4. CASE Step(w, "post")
  <2> DEFINE q == [worker[w] EXCEPT !.pc = "post"]
  <2>1. "post" \in Locals /\ "post" \in Working /\ worker[w] \in WorkerRecord
    BY <1>1, WorkingFacts DEF Locals, Working
  <2>2. /\ q \in WorkerRecord /\ q.pc = "post" /\ q.job = Job(w)
        /\ q.fresh = worker[w].fresh /\ q.prompt = worker[w].prompt
    BY <2>1 DEF WorkerRecord, Job
  <2>3. worker' = [worker EXCEPT ![w] = q]
    BY <1>1, <1>4, WorkingFacts DEF Step
  <2>4. /\ worker[w].fresh /\ Row(w).status = "submitting" /\ posts[Job(w)] = 0
        /\ worker[w].prompt # 0 => posts[Job(w)] > 0
    BY <1>1, WorkingFacts DEF Sound
  <2> HIDE DEF q
  <2>5. Sound(q, Row(w), posts[Job(w)])
    BY <2>2, <2>4 DEF Sound, AfterPost
  <2> QED  BY <1>1, <1>2, <2>1, <2>2, <2>3, <2>5, LocalStep
<1> QED  BY <1>3, <1>4 DEF Revalidate

(* The POST: the invariant says that nothing was sent for the attempt yet,  *)
(* and that the intent is durable.                                          *)
LEMMA PostPromptInv == ASSUME IInv, NEW w \in Worker, Job(w) \notin stalled, PostPrompt(w) PROVE IInv'
<1> DEFINE a == Job(w)
           r == [worker[w] EXCEPT !.pc = "await", !.prompt = 1]
<1>1. /\ worker[w].pc = "post" /\ worker[w].pc \in Working
      /\ UNCHANGED <<rows, executor, stalled, faults>>
  BY DEF PostPrompt, At, Working, Locals
<1>2. /\ worker[w].fresh /\ Row(w).status = "submitting" /\ posts[a] = 0
      /\ a \in Attempt /\ worker[w] \in WorkerRecord /\ 1 \in Post
  BY <1>1, WorkingFacts DEF Sound, Post
<1>3. /\ posts' = [posts EXCEPT ![a] = 1]
      /\ jobs' = [jobs EXCEPT ![a] = [@ EXCEPT ![1] = "transit"]]
      /\ worker' = [worker EXCEPT ![w] = r]
  <2>1. posts \in [Attempt -> 0 .. MaxPosts] /\ worker \in [Worker -> WorkerRecord]
        /\ posts[a] + 1 = 1
    BY <1>2 DEF IInv, TypeOK
  <2>2. /\ posts' = [posts EXCEPT ![a] = posts[a] + 1]
        /\ jobs' = [jobs EXCEPT ![a] = [@ EXCEPT ![posts[a] + 1] = "transit"]]
    BY DEF PostPrompt
  <2>3. worker' = [worker EXCEPT ![w].pc = "await", ![w].prompt = posts[a] + 1]
    BY DEF PostPrompt
  <2> QED  BY <2>1, <2>2, <2>3
<1>4. /\ r \in WorkerRecord /\ r.pc = "await" /\ r.job = a /\ r.prompt = 1
      /\ r.stopping = worker[w].stopping
  BY <1>2 DEF WorkerRecord, Locals, Job
<1>5. "await" \in Working
  BY DEF Working, Locals
<1> HIDE DEF r
<1>6. /\ worker'[w] = r
      /\ \A v \in Worker : v # w => worker'[v] = worker[v]
      /\ \A v \in Worker : Job(v)' = Job(v)
  BY <1>3, <1>4 DEF IInv, TypeOK, Job
<1>7. posts'[a] = 1 /\ \A b \in Attempt : b # a => posts'[b] = posts[b]
  BY <1>2, <1>3 DEF IInv, TypeOK
<1>8. TypeOK'
  BY <1>1, <1>2, <1>3, <1>4 DEF IInv, TypeOK, rows, Post, JobState
<1>9. OneWorkerPerAttempt'
  BY <1>1, <1>6 DEF IInv, OneWorkerPerAttempt
<1>10. JobWhileWorking'
  BY <1>1, <1>4, <1>5, <1>6 DEF IInv, JobWhileWorking
<1>11. JobIsHeld'
  BY <1>1, <1>6 DEF IInv, JobIsHeld, Row, rows
<1>12. SentOnceDurably'
  <2>1. attempt' = attempt /\ attempt[a].status = "submitting"
    BY <1>1, <1>2 DEF rows, Row
  <2>2. \A b \in Attempt \ stalled : \A k \in Post : k > posts'[b] => jobs'[b][k] = "unsent"
    <3>0. a \notin stalled
      OBVIOUS
    <3>1. \A b \in Attempt : b # a => jobs'[b] = jobs[b]
      BY <1>2, <1>3 DEF IInv, TypeOK
    <3>2. \A k \in Post : k > 1 => jobs'[a][k] = jobs[a][k]
      BY <1>2, <1>3 DEF IInv, TypeOK, Post
    <3>3. \A k \in Post : k \in Nat /\ (k > 1 => k > posts[a])
      BY <1>2 DEF Post
    <3> QED  BY <1>7, <3>0, <3>1, <3>2, <3>3 DEF IInv, SentOnceDurably
  <2> QED  BY <1>1, <1>7, <2>1, <2>2 DEF IInv, SentOnceDurably
<1>13. LocalsAreSound'
  <2>1. \A v \in Worker : v # w /\ worker[v].pc \in Working => Job(v) \in Attempt \ {a}
    BY <1>1, <1>2, JobFacts DEF IInv, OneWorkerPerAttempt, JobWhileWorking
  <2>2. Sound(r, attempt[a], 1)
    BY <1>4, SoundLater DEF Later, Working, Locals
  <2> QED  BY <1>1, <1>2, <1>6, <1>7, <2>1, <2>2 DEF IInv, LocalsAreSound, Row, rows
<1> QED  BY <1>8, <1>9, <1>10, <1>11, <1>12, <1>13 DEF IInv

(* The answer to the POST, and the one look at the history without it. *)
LEMMA ReceiveAnswerInv == ASSUME IInv, NEW w \in Worker, Job(w) \notin stalled, ReceiveAnswer(w) PROVE IInv'
<1>1. /\ worker[w].pc = "await" /\ worker[w].pc \in Working
      /\ UNCHANGED rows /\ WorkerUnchanged
  BY DEF ReceiveAnswer, At, Working, Locals
<1>2. RestTypeOK' /\ UNCHANGED <<attempt, jobs, posts, stalled>> /\ posts[Job(w)] > 0
  BY <1>1, Quiet, WorkingFacts DEF Sound, AfterPost
<1>3. CASE Step(w, "readback")
  BY <1>1, <1>2, <1>3, StepLater DEF Later, Working, Locals
<1>4. CASE StepFail(w, "COMFY_UNAVAILABLE")
  BY <1>1, <1>2, <1>4, StepToFail DEF FailureCode
<1> QED  BY <1>3, <1>4 DEF ReceiveAnswer

LEMMA LoseAnswerInv == ASSUME IInv, NEW w \in Worker, Job(w) \notin stalled, LoseAnswer(w) PROVE IInv'
<1> DEFINE r == [worker[w] EXCEPT !.pc = "reconcile", !.prompt = 0]
<1>1. /\ worker[w].pc = "await" /\ worker[w].pc \in Working
      /\ UNCHANGED rows /\ WorkerUnchanged
  BY DEF LoseAnswer, At, Working, Locals
<1>2. RestTypeOK' /\ UNCHANGED <<attempt, jobs, posts, stalled>> /\ posts[Job(w)] > 0
      /\ worker[w] \in WorkerRecord /\ posts[Job(w)] \in Nat
  BY <1>1, Quiet, WorkingFacts DEF Sound, AfterPost
<1>3. /\ r \in WorkerRecord /\ r.pc = "reconcile" /\ r.job = Job(w)
      /\ worker' = [worker EXCEPT ![w] = r] /\ r.prompt = 0
  <2>1. r \in WorkerRecord /\ r.pc = "reconcile" /\ r.job = Job(w) /\ r.prompt = 0
    BY <1>2 DEF WorkerRecord, Locals, Job
  <2>2. worker' = [worker EXCEPT ![w].pc = "reconcile", ![w].prompt = 0]
    BY DEF LoseAnswer
  <2>3. worker' = [worker EXCEPT ![w] = r]
    BY <1>1, <2>2, WorkingFacts
  <2> QED  BY <2>1, <2>3
<1> HIDE DEF r
<1>4. Sound(r, Row(w), posts[Job(w)]) /\ r.pc \in Working
  BY <1>2, <1>3, SoundLater DEF Later, Working, Locals
<1> QED  BY <1>1, <1>2, <1>3, <1>4, LocalStep

LEMMA ReadBackInv == ASSUME IInv, NEW w \in Worker, Job(w) \notin stalled, ReadBack(w) PROVE IInv'
<1>1. /\ worker[w].pc = "readback" /\ worker[w].pc \in Working
      /\ UNCHANGED <<rows, outside>> /\ faults' \in 0 .. MaxFaults
  BY DEF ReadBack, At, Working, Locals, Fault, IInv, TypeOK
<1>2. RestTypeOK' /\ UNCHANGED <<attempt, jobs, posts, stalled>>
  BY <1>1 DEF rows, outside, IInv, TypeOK, RestTypeOK
<1>3. /\ posts[Job(w)] > 0 /\ posts[Job(w)] \in Nat /\ Job(w) \in Attempt
      /\ worker[w] \in WorkerRecord
  BY <1>1, WorkingFacts DEF Sound, AfterPost
<1>4. CASE StepFail(w, "COMFY_UNAVAILABLE")
  BY <1>1, <1>2, <1>4, StepToFail DEF FailureCode
<1>5. ASSUME NEW l \in Lookups(Job(w), worker[w].prompt),
             worker' = [worker EXCEPT ![w].pc = "persist", ![w].hist = l.hist]
      PROVE  IInv'
  <2> DEFINE r == [worker[w] EXCEPT !.pc = "persist", !.hist = l.hist]
  <2>1. worker[w].prompt \in Post \cup {0}
    BY <1>3 DEF WorkerRecord
  <2>2. l.hist \in History
    BY <1>3, <2>1, LookupFacts
  <2>3. r \in WorkerRecord /\ r.pc = "persist" /\ r.job = Job(w)
    BY <1>3, <2>2 DEF WorkerRecord, Locals, Job
  <2>4. worker' = [worker EXCEPT ![w] = r]
    BY <1>1, <1>5, WorkingFacts
  <2> HIDE DEF r
  <2>5. Sound(r, Row(w), posts[Job(w)]) /\ r.pc \in Working
    BY <1>3, <2>3, SoundLater DEF Later, Working, Locals
  <2> QED  BY <1>1, <1>2, <2>3, <2>4, <2>5, LocalStep
<1> QED  BY <1>4, <1>5 DEF ReadBack

LEMMA ReconcileUncertainInv ==
  ASSUME IInv, NEW w \in Worker, Job(w) \notin stalled, ReconcileUncertain(w) PROVE IInv'
<1>1. worker[w].pc = "reconcile" /\ worker[w].pc \in Working /\ WorkerUnchanged
  BY DEF ReconcileUncertain, At, Working, Locals
<1>2. Job(w) \in Attempt
  BY <1>1, WorkingFacts
<1>3. CASE Die(w)
  BY <1>1, <1>3, DieQuietly
<1>4. ASSUME UNCHANGED rows, NEW l \in Lookups(Job(w), 0),
             IF l.hist = "null"
             THEN StepFail(w, "COMFY_SUBMISSION_UNCERTAIN")
             ELSE worker' = [worker EXCEPT ![w].pc = "adopt", ![w].prompt = l.prompt,
                                           ![w].hist = l.hist]
      PROVE  IInv'
  <2>1. RestTypeOK' /\ UNCHANGED <<attempt, jobs, posts, stalled>>
    BY <1>1, <1>4, Quiet
  <2>2. /\ l.hist \in History
        /\ l.hist # "null" => l.prompt \in Post /\ posts[Job(w)] > 0
    BY <1>2, LookupFacts
  <2>3. CASE l.hist = "null"
    BY <1>1, <1>4, <2>1, <2>3, StepToFail DEF FailureCode
  <2>4. CASE l.hist # "null"
    BY <1>1, <1>4, <2>1, <2>2, <2>4, AdoptStep
  <2> QED  BY <2>3, <2>4
<1> QED  BY <1>3, <1>4 DEF ReconcileUncertain

(* The only statuses that move to submitted. *)
LEMMA MovesToSubmitted ==
  ASSUME NEW s \in AttemptStatus, CanMove(AttemptMoves, s, "submitted")
  PROVE  s = "submitting"
BY Statuses DEF CanMove, AttemptMoves

LEMMA PersistSubmittedInv ==
  ASSUME IInv, NEW w \in Worker, Job(w) \notin stalled, worker[w].pc \in {"persist", "adopt"},
         PersistSubmitted(w), UNCHANGED outside, faults' \in 0 .. MaxFaults
  PROVE  IInv'
<1> DEFINE r == Observing(worker[w], worker[w].hist)
           p == worker[w].prompt
           x == [Row(w) EXCEPT !.status = "submitted", !.prompt = p]
<1>1. /\ worker[w].pc \in Working
      /\ UNCHANGED <<evaluation, shot, project, revision>>
  BY DEF PersistSubmitted, Working, Locals
<1>2. RestTypeOK' /\ UNCHANGED <<jobs, posts, stalled>>
  BY <1>1 DEF outside, IInv, TypeOK, RestTypeOK
<1>3. /\ posts[Job(w)] > 0 /\ worker[w] \in WorkerRecord /\ posts[Job(w)] \in Nat
      /\ Row(w) \in AttemptRow /\ Row(w).status # "absent" /\ p \in Post \cup {0}
  BY <1>1, WorkingFacts DEF Sound, AfterPost, WorkerRecord
<1>4. worker' = [worker EXCEPT ![w] = r]
  BY DEF PersistSubmitted
<1>5. CASE attempt' = attempt
  BY <1>1, <1>2, <1>3, <1>4, <1>5, ObservingStep
<1>6. CASE /\ CanMove(AttemptMoves, Row(w).status, "submitted")
           /\ attempt' = [attempt EXCEPT ![Job(w)].status = "submitted",
                                         ![Job(w)].prompt = p]
  <2>1. Row(w).status = "submitting"
    BY <1>3, <1>6, MovesToSubmitted DEF AttemptRow
  <2>2. "submitted" \in AttemptStatus
    BY Statuses
  <2>3. /\ x \in AttemptRow /\ x.status = "submitted"
        /\ x.owner = Row(w).owner /\ x.lease = Row(w).lease
    BY <1>3, <2>2 DEF AttemptRow
  <2>4. attempt' = [attempt EXCEPT ![Job(w)] = x]
    BY <1>1, <1>6, WorkingFacts DEF Row
  <2>5. /\ r \in WorkerRecord /\ r.job = Job(w)
        /\ r.pc \in {"done", "markrun", "fail", "stream"}
    BY <1>3, ObservingFacts DEF Job
  <2> HIDE DEF r, x
  <2>6. r.pc \in Working /\ Sound(r, x, posts[Job(w)])
    BY <1>3, <2>5, SoundLater DEF Later, Working, Locals
  <2>7. Row(w).owner = w /\ Row(w).lease = "live"
    BY <1>1, <2>1, WorkingFacts DEF LeasedStatus
  <2> QED  BY <1>1, <1>2, <1>3, <1>4, <2>3, <2>4, <2>5, <2>6, <2>7, JobStep
<1> QED  BY <1>5, <1>6 DEF PersistSubmitted

LEMMA PersistInv == ASSUME IInv, NEW w \in Worker, Job(w) \notin stalled, Persist(w) PROVE IInv'
<1>1. /\ worker[w].pc = "persist" /\ worker[w].pc \in Working /\ UNCHANGED outside
      /\ faults' \in 0 .. MaxFaults
  BY DEF Persist, At, Working, Locals, Fault, IInv, TypeOK
<1>2. CASE PersistSubmitted(w)
  BY <1>1, <1>2, PersistSubmittedInv
<1>3. CASE StepFail(w, "COMFY_UNAVAILABLE") /\ UNCHANGED rows
  <2>1. RestTypeOK' /\ UNCHANGED <<attempt, jobs, posts, stalled>>
    BY <1>1, <1>3 DEF rows, outside, IInv, TypeOK, RestTypeOK
  <2> QED  BY <1>1, <1>3, <2>1, StepToFail DEF FailureCode
<1> QED  BY <1>2, <1>3 DEF Persist

LEMMA AdoptInv == ASSUME IInv, NEW w \in Worker, Job(w) \notin stalled, Adopt(w) PROVE IInv'
<1>1. worker[w].pc = "adopt" /\ WorkerUnchanged
  BY DEF Adopt, At
<1>2. UNCHANGED outside /\ faults' \in 0 .. MaxFaults
  BY <1>1 DEF WorkerUnchanged, IInv, TypeOK
<1> QED  BY <1>1, <1>2, DieInv, PersistSubmittedInv DEF Adopt

(* markRunning, for the two places that call it. *)
LEMMA MarkRunningInv ==
  ASSUME IInv, NEW w \in Worker, worker[w].pc \in Working, Job(w) \notin stalled, NEW pc \in Later,
         pc \in AfterPost => posts[Job(w)] > 0, MarkRunning(w, pc), WorkerUnchanged
  PROVE  IInv'
<1>1. CASE Die(w)
  BY <1>1, DieQuietly
<1>2. CASE Step(w, pc) /\ UNCHANGED rows
  BY <1>2, Quiet, StepLater
<1>3. ASSUME Row(w).status \in {"queued", "submitted"},
             attempt' = [attempt EXCEPT ![Job(w)].status = "running"],
             shot' = [shot EXCEPT ![ShotOf[Job(w)]].status =
                        IF @ = "queued" THEN "generating" ELSE @],
             Step(w, pc), UNCHANGED <<evaluation, project, revision>>
      PROVE  IInv'
  <2> DEFINE r == [worker[w] EXCEPT !.pc = pc]
             x == [Row(w) EXCEPT !.status = "running"]
  <2>1. /\ worker[w] \in WorkerRecord /\ pc \in Locals /\ posts[Job(w)] \in Nat
        /\ Row(w) \in AttemptRow /\ "running" \in AttemptStatus
    BY WorkingFacts, Statuses DEF Later, Working
  <2>2. /\ r \in WorkerRecord /\ r.pc = pc /\ r.job = Job(w) /\ r.prompt = worker[w].prompt
        /\ r.pc \in Working
    BY <2>1 DEF WorkerRecord, Job, Later, Working
  <2>3. worker' = [worker EXCEPT ![w] = r]
    BY <1>3, WorkingFacts DEF Step
  <2>4. /\ x \in AttemptRow /\ x.status = "running" /\ x.owner = Row(w).owner
        /\ x.lease = Row(w).lease /\ x.prompt = Row(w).prompt
    BY <2>1 DEF AttemptRow
  <2>5. attempt' = [attempt EXCEPT ![Job(w)] = x]
    BY <1>3, WorkingFacts DEF Row
  <2>6. /\ Row(w).owner = w /\ Row(w).lease = "live"
        /\ Row(w).prompt # 0 => posts[Job(w)] > 0
        /\ worker[w].prompt # 0 => posts[Job(w)] > 0
    BY <1>3, WorkingFacts DEF LeasedStatus, Sound
  <2>7. RestTypeOK' /\ UNCHANGED <<jobs, posts, stalled>>
    <3>1. "generating" \in ShotStatus
      BY Statuses
    <3>2. shot' \in [Shot -> [status   : {"absent"} \cup ShotStatus,
                              accepted : Attempt \cup {NoAttempt}]]
      <4> DEFINE s == ShotOf[Job(w)]
                 v == IF shot[s].status = "queued" THEN "generating" ELSE shot[s].status
      <4>1. s \in Shot
        BY WorkingFacts
      <4>2. v \in {"absent"} \cup ShotStatus
        BY <3>1, <4>1 DEF IInv, TypeOK
      <4>3. shot' = [shot EXCEPT ![s].status = v]
        BY <1>3
      <4> HIDE DEF v, s
      <4> QED  BY <4>1, <4>2, <4>3, ShotUpdate DEF IInv, TypeOK
    <3> QED  BY <1>3, <3>2 DEF WorkerUnchanged, outside, IInv, TypeOK, RestTypeOK
  <2> HIDE DEF r, x
  <2>8. Sound(r, x, posts[Job(w)])
    BY <2>1, <2>2, <2>6, SoundLater
  <2> QED  BY <2>2, <2>3, <2>4, <2>5, <2>6, <2>7, <2>8, JobStep
<1> QED  BY <1>1, <1>2, <1>3 DEF MarkRunning

LEMMA ObserveInv ==
  ASSUME IInv, NEW w \in Worker, Job(w) \notin stalled,
        
         \/ MarkRunningThenFinish(w) \/ StreamStarted(w) \/ StreamEnded(w)
         \/ StreamAborted(w) \/ StreamDisconnected(w) \/ PollHistory(w)
  PROVE  IInv'
<1>1. /\ worker[w].pc \in {"markrun", "stream", "history"} /\ WorkerUnchanged
      /\ worker[w].pc \in Working
  BY DEF MarkRunningThenFinish, StreamStarted, StreamEnded, StreamAborted,
         StreamDisconnected, PollHistory, At, Working, Locals
<1>2. posts[Job(w)] > 0
  BY <1>1, WorkingFacts DEF Sound, AfterPost
<1>3. {"finish", "done", "history", "stream"} \subseteq Later
  BY DEF Later, Working, Locals
<1>4. CASE MarkRunningThenFinish(w)
  BY <1>1, <1>2, <1>3, <1>4, MarkRunningInv DEF MarkRunningThenFinish
<1>5. CASE StreamStarted(w)
  BY <1>1, <1>2, <1>3, <1>5, MarkRunningInv DEF StreamStarted
<1>6. ASSUME UNCHANGED rows,
             \/ \E pc \in {"finish", "done", "history"} : Step(w, pc)
             \/ \E code \in FailureCode : StepFail(w, code)
      PROVE  IInv'
  <2>1. RestTypeOK' /\ UNCHANGED <<attempt, jobs, posts, stalled>>
    BY <1>1, <1>6, Quiet
  <2> QED  BY <1>1, <1>2, <1>3, <1>6, <2>1, StepLater, StepToFail
<1>7. CASE Die(w)
  BY <1>1, <1>7, DieQuietly
<1>8. {"COMFY_EXECUTION_FAILED", "COMFY_INTERRUPTED", "GENERATION_TIMEOUT"} \subseteq FailureCode
  BY DEF FailureCode
<1>9. CASE StreamEnded(w) \/ StreamAborted(w)
  BY <1>6, <1>8, <1>9 DEF StreamEnded, StreamAborted
<1>10. CASE StreamDisconnected(w)
  BY <1>6, <1>10 DEF StreamDisconnected
<1>11. CASE PollHistory(w)
  BY <1>6, <1>7, <1>8, <1>11 DEF PollHistory
<1> QED  BY <1>4, <1>5, <1>9, <1>10, <1>11

LEMMA IngestInv ==
  ASSUME IInv, NEW w \in Worker, Job(w) \notin stalled, Finish(w) \/ Ingest(w) PROVE IInv'
<1>1. /\ worker[w].pc \in {"finish", "ingest"} /\ worker[w].pc \in Working
      /\ UNCHANGED rows /\ WorkerUnchanged
  BY DEF Finish, Ingest, At, Working, Locals
<1>2. RestTypeOK' /\ UNCHANGED <<attempt, jobs, posts, stalled>> /\ posts[Job(w)] > 0
      /\ worker[w] \in WorkerRecord /\ posts[Job(w)] \in Nat /\ Job(w) \in Attempt
  BY <1>1, Quiet, WorkingFacts DEF Sound, AfterPost
<1>3. ASSUME NEW pc \in {"done", "ingest"}, Step(w, pc)
      PROVE  IInv'
  BY <1>1, <1>2, <1>3, StepLater DEF Later, Working, Locals
<1>4. ASSUME NEW code \in {"ARTIFACT_DOWNLOAD_FAILED", "ARTIFACT_STORAGE_FAILED"},
             StepFail(w, code)
      PROVE  IInv'
  BY <1>1, <1>2, <1>4, StepToFail DEF FailureCode
<1>5. ASSUME NEW v \in {"none", "passed", "failed"}, NEW known \in BOOLEAN,
             worker' = [worker EXCEPT ![w].pc = "commit", ![w].stored = known,
                                      ![w].verdict = v]
      PROVE  IInv'
  <2> DEFINE r == [worker[w] EXCEPT !.pc = "commit", !.stored = known, !.verdict = v]
  <2>1. r \in WorkerRecord /\ r.pc = "commit" /\ r.job = Job(w)
    BY <1>2 DEF WorkerRecord, Locals, Job
  <2>2. worker' = [worker EXCEPT ![w] = r]
    BY <1>1, <1>5, WorkingFacts
  <2> HIDE DEF r
  <2>3. Sound(r, Row(w), posts[Job(w)]) /\ r.pc \in Working
    BY <1>2, <2>1, SoundLater DEF Later, Working, Locals
  <2> QED  BY <1>1, <1>2, <2>1, <2>2, <2>3, LocalStep
<1>6. CASE Finish(w)
  BY <1>3, <1>6 DEF Finish
<1>7. CASE Ingest(w)
  <2> DEFINE known == evaluation[Job(w)] # "none"
  <2>1. known \in BOOLEAN /\ evaluation[Job(w)] \in {"none", "passed", "failed"}
    BY <1>2 DEF IInv, TypeOK
  <2>2. \/ \E v \in {"none", "passed", "failed"} :
             worker' = [worker EXCEPT ![w].pc = "commit", ![w].stored = known,
                                      ![w].verdict = v]
        \/ \E code \in {"ARTIFACT_DOWNLOAD_FAILED", "ARTIFACT_STORAGE_FAILED"} :
             StepFail(w, code)
    BY <1>7, <2>1 DEF Ingest
  <2> HIDE DEF known
  <2> QED  BY <1>4, <1>5, <2>1, <2>2
<1> QED  BY <1>6, <1>7

(* Ending a job with its row settled or handed to review. *)
LEMMA SettleStep ==
  ASSUME IInv, NEW w \in Worker, worker[w].pc \in Working,
         Job(w) \notin stalled, RestTypeOK',
         NEW status \in AttemptTerminal \cup {"awaiting_review"},
         NEW code \in FailureCode \cup {"none"},
         attempt' = Settled(Job(w), status, code), Step(w, "done"),
         UNCHANGED <<jobs, posts, stalled>>
  PROVE  IInv'
<1> DEFINE r == [worker[w] EXCEPT !.pc = "done"]
           x == [Row(w) EXCEPT !.status = status, !.failure = code,
                               !.owner = NoWorker, !.lease = "none"]
<1>1. /\ worker[w] \in WorkerRecord /\ posts[Job(w)] \in Nat /\ Row(w) \in AttemptRow
      /\ status \in AttemptStatus
  BY WorkingFacts, Statuses DEF AttemptTerminal
<1>2. r \in WorkerRecord /\ r.pc = "done" /\ r.job = Job(w) /\ r.prompt = worker[w].prompt
  BY <1>1 DEF WorkerRecord, Locals, Job
<1>3. worker' = [worker EXCEPT ![w] = r]
  BY WorkingFacts DEF Step
<1>4. x \in AttemptRow /\ x.status = status /\ x.prompt = Row(w).prompt
  BY <1>1 DEF AttemptRow
<1>5. attempt' = [attempt EXCEPT ![Job(w)] = x]
  BY DEF Settled, Row
<1>6. /\ Row(w).prompt # 0 => posts[Job(w)] > 0
      /\ worker[w].prompt # 0 => posts[Job(w)] > 0
  BY WorkingFacts DEF Sound
<1> HIDE DEF r, x
<1>7. r.pc \in Working /\ Sound(r, x, posts[Job(w)])
  BY <1>1, <1>2, <1>6, SoundLater DEF Later, Working, Locals, AfterPost
<1>8. x.status \notin {"absent", "queued", "claimed"} \cup LeasedStatus
  BY <1>4 DEF AttemptTerminal, LeasedStatus
<1> QED  BY <1>2, <1>3, <1>4, <1>5, <1>6, <1>7, <1>8, JobStep

LEMMA CommitResultInv == ASSUME IInv, NEW w \in Worker, Job(w) \notin stalled, CommitResult(w) PROVE IInv'
<1> DEFINE a == Job(w)
           v == worker[w].verdict
<1>1. worker[w].pc = "commit" /\ worker[w].pc \in Working /\ WorkerUnchanged
  BY DEF CommitResult, At, Working, Locals
<1>2. /\ v \in {"none", "passed", "failed"} /\ a \in Attempt /\ ShotOf[a] \in Shot
      /\ Row(w).failure \in FailureCode \cup {"none"} /\ posts[a] > 0
  BY <1>1, WorkingFacts DEF WorkerRecord, AttemptRow, Sound, AfterPost
<1>3. CASE Die(w)
  BY <1>1, <1>3, DieQuietly
<1>4. CASE Step(w, "done") /\ UNCHANGED rows
  BY <1>1, <1>2, <1>4, Quiet, StepLater DEF Later, Working, Locals
<1>5. ASSUME attempt' = IF v = "passed"
                        THEN Settled(a, "awaiting_review", Row(w).failure)
                        ELSE Settled(a, "failed", "MEDIA_INVALID"),
             evaluation' = [evaluation EXCEPT ![a] = v],
             shot' = [shot EXCEPT ![ShotOf[a]].status = ShotAfterVerdict(@, v)],
             project' = IF project = "generating" THEN ProjectAfterVerdict(v) ELSE project,
             Step(w, "done"), UNCHANGED revision
      PROVE  IInv'
  <2> DEFINE s == ShotOf[a]
             z == ShotAfterVerdict(shot[s].status, v)
  <2>1. z \in {"absent"} \cup ShotStatus
    BY <1>2, Statuses DEF ShotAfterVerdict, IInv, TypeOK
  <2>2. shot' = [shot EXCEPT ![s].status = z]
    BY <1>5
  <2> HIDE DEF z
  <2>3. shot' \in [Shot -> [status   : {"absent"} \cup ShotStatus,
                            accepted : Attempt \cup {NoAttempt}]]
    BY <1>2, <2>1, <2>2, ShotUpdate DEF IInv, TypeOK
  <2>4. project' \in ProjectStatus
    BY <1>5, Statuses DEF ProjectAfterVerdict, IInv, TypeOK
  <2>5. evaluation' \in [Attempt -> {"none", "passed", "failed"}]
    BY <1>2, <1>5 DEF IInv, TypeOK
  <2>6. RestTypeOK' /\ UNCHANGED <<jobs, posts, stalled>>
    BY <1>1, <1>5, <2>3, <2>4, <2>5 DEF IInv, TypeOK, RestTypeOK, WorkerUnchanged, outside
  <2>7. "failed" \in AttemptTerminal /\ "MEDIA_INVALID" \in FailureCode
    BY DEF AttemptTerminal, FailureCode
  <2> QED  BY <1>1, <1>2, <1>5, <2>6, <2>7, SettleStep
<1> QED  BY <1>3, <1>4, <1>5 DEF CommitResult

LEMMA FailureFacts ==
  ASSUME NEW code
  PROVE  /\ FailureStatus(code) \in AttemptTerminal
         /\ ShotAfterFailure(code) \in ShotStatus
         /\ ProjectAfterFailure(code) \in ProjectStatus
<1>1. FailureStatus(code) \in AttemptTerminal
  BY DEF FailureStatus, AttemptTerminal
<1>2. ShotAfterFailure(code) \in {"cancelled", "retryable", "failed"}
  BY DEF ShotAfterFailure
<1>3. ProjectAfterFailure(code) \in {"cancelled", "needs_attention", "failed"}
  BY DEF ProjectAfterFailure
<1> QED  BY <1>1, <1>2, <1>3, Statuses

LEMMA FailAttemptInv == ASSUME IInv, NEW w \in Worker, Job(w) \notin stalled, FailAttempt(w) PROVE IInv'
<1> DEFINE a == Job(w)
           s == ShotOf[a]
           code == worker[w].code
<1>1. worker[w].pc = "fail" /\ worker[w].pc \in Working /\ WorkerUnchanged
  BY DEF FailAttempt, At, Working, Locals
<1>2. code \in FailureCode \cup {"none"} /\ a \in Attempt /\ s \in Shot
  BY <1>1, WorkingFacts DEF WorkerRecord
<1>3. CASE Die(w)
  BY <1>1, <1>3, DieQuietly
<1>4. CASE Step(w, "done") /\ UNCHANGED rows
  BY <1>1, <1>4, Quiet, StepLater DEF Later, Working, Locals, AfterPost
<1>5. ASSUME attempt' = Settled(a, FailureStatus(code), code),
             shot' = [shot EXCEPT ![s].status =
                        IF @ \in {"queued", "generating"} THEN ShotAfterFailure(code) ELSE @],
             project' = IF project = "generating" THEN ProjectAfterFailure(code) ELSE project,
             Step(w, "done"), UNCHANGED <<evaluation, revision>>
      PROVE  IInv'
  <2> DEFINE z == IF shot[s].status \in {"queued", "generating"}
                  THEN ShotAfterFailure(code) ELSE shot[s].status
  <2>1. z \in {"absent"} \cup ShotStatus
    BY <1>2, FailureFacts DEF IInv, TypeOK
  <2>2. shot' = [shot EXCEPT ![s].status = z]
    BY <1>5
  <2> HIDE DEF z
  <2>3. shot' \in [Shot -> [status   : {"absent"} \cup ShotStatus,
                            accepted : Attempt \cup {NoAttempt}]]
    BY <1>2, <2>1, <2>2, ShotUpdate DEF IInv, TypeOK
  <2>4. project' \in ProjectStatus
    BY <1>5, FailureFacts DEF IInv, TypeOK
  <2>5. RestTypeOK' /\ UNCHANGED <<jobs, posts, stalled>>
    BY <1>1, <1>5, <2>3, <2>4 DEF IInv, TypeOK, RestTypeOK, WorkerUnchanged, outside
  <2> QED  BY <1>1, <1>2, <1>5, <2>5, FailureFacts, SettleStep
<1> QED  BY <1>3, <1>4, <1>5 DEF FailAttempt

(* The end of a job and the life cycle of the process. *)
LEMMA LifeCycleInv ==
  ASSUME IInv, NEW w \in Worker, Job(w) \notin stalled,
        
         EndOfWork(w) \/ Heartbeat(w) \/ Crash(w) \/ Stop(w) \/ Restart(w)
  PROVE  IInv'
<1>1. CASE EndOfWork(w)
  <2>1. /\ worker[w].pc = "done" /\ worker[w].pc \in Working
        /\ UNCHANGED <<evaluation, shot, project, revision>> /\ WorkerUnchanged
    BY <1>1 DEF EndOfWork, At, Working, Locals
  <2>2. RestTypeOK' /\ UNCHANGED <<jobs, posts, stalled>>
    BY <2>1, RestUnchanged DEF WorkerUnchanged, outside
  <2>3. CASE /\ worker' = [worker EXCEPT ![w] = Blank("idle")]
             /\ UNCHANGED attempt
    BY <2>2, <2>3, LeaveStep
  <2>4. CASE /\ worker' = [worker EXCEPT ![w] = Blank("down")]
             /\ attempt' = Released(w, Job(w)) \/ UNCHANGED attempt
    BY <2>1, <2>2, <2>4, LeaveStep
  <2> QED  BY <1>1, <2>3, <2>4 DEF EndOfWork
<1>2. CASE Heartbeat(w)    \* there is no lapsed lease to renew
  <2>1. Die(w) /\ WorkerUnchanged
    BY <1>2, WorkingFacts DEF Heartbeat, WorkerUnchanged
  <2> QED  BY <2>1, DieQuietly
<1>3. CASE Crash(w)
  <2>1. Die(w) /\ UNCHANGED outside /\ faults' \in 0 .. MaxFaults
    BY <1>3 DEF Crash, Fault, IInv, TypeOK
  <2> QED  BY <2>1, DieInv
<1>4. CASE Stop(w)
  <2>1. RestTypeOK' /\ UNCHANGED <<attempt, jobs, posts, stalled>>
    BY <1>4 DEF Stop, rows, outside, Fault, IInv, TypeOK, RestTypeOK
  <2>2. /\ worker[w] \in WorkerRecord /\ worker \in [Worker -> WorkerRecord]
        /\ worker[w].pc # "down"
    BY <1>4 DEF IInv, TypeOK, Stop, At
  <2>3. CASE worker[w].pc \in {"idle", "poll"}
    <3>1. worker' = [worker EXCEPT ![w] = Blank("down")]
      BY <1>4, <2>2, <2>3 DEF Stop
    <3> QED  BY <2>1, <3>1, LeaveStep
  <2>4. CASE worker[w].pc \notin {"idle", "poll"}
    <3> DEFINE r == [worker[w] EXCEPT !.stopping = TRUE]
    <3>1. worker[w].pc \in Working
      BY <2>2, <2>4 DEF WorkerRecord, Working
    <3>2. /\ r \in WorkerRecord /\ r.pc = worker[w].pc /\ r.job = Job(w)
          /\ r.prompt = worker[w].prompt /\ r.fresh = worker[w].fresh
      BY <2>2 DEF WorkerRecord, Job
    <3>3. worker' = [worker EXCEPT ![w] = r]
      BY <1>4, <2>2, <2>4 DEF Stop
    <3> HIDE DEF r
    <3>4. Sound(r, Row(w), posts[Job(w)])
      BY <3>1, <3>2, WorkingFacts DEF Sound
    <3> QED  BY <2>1, <3>1, <3>2, <3>3, <3>4, LocalStep
  <2> QED  BY <2>3, <2>4
<1>5. CASE Restart(w)
  <2>1. /\ worker' = [worker EXCEPT ![w] = Blank("idle")]
        /\ UNCHANGED rows /\ WorkerUnchanged
    BY <1>5 DEF Restart
  <2> QED  BY <2>1, Quiet, LeaveStep
<1> QED  BY <1>1, <1>2, <1>3, <1>4, <1>5

LEMMA WorkerInv == ASSUME IInv, NEW w \in Worker, Job(w) \notin stalled, WorkerStep(w) PROVE IInv'
BY PollInv, ClaimInv, LoadInv, RecordIntentInv, LookUpHistoryInv, RevalidateInv,
   PostPromptInv, ReceiveAnswerInv, LoseAnswerInv, ReadBackInv, ReconcileUncertainInv,
   PersistInv, AdoptInv, ObserveInv, IngestInv, CommitResultInv, FailAttemptInv,
   LifeCycleInv
   DEF WorkerStep

-----------------------------------------------------------------------------
(* A worker on an attempt whose lease once ran out may do what it likes     *)
(* there: its steps reach no other attempt and no other worker.             *)

OnlyItsOwn(w) ==
  /\ \A b \in Attempt \ {Job(w)} : /\ attempt'[b] = attempt[b]
                                   /\ posts'[b] = posts[b] /\ jobs'[b] = jobs[b]
  /\ \A v \in Worker \ {w} : worker'[v] = worker[v]
  /\ worker'[w].job \in {Job(w), NoAttempt}
  /\ stalled' = stalled

LEMMA GivenUp ==
  ASSUME IInv, TypeOK', JobWhileWorking', NEW w \in Worker,
         Job(w) \in stalled, OnlyItsOwn(w)
  PROVE  IInv'
<1>1. Job(w)' \in stalled \cup {NoAttempt} /\ stalled' = stalled /\ stalled \subseteq Attempt
  BY DEF OnlyItsOwn, Job, IInv, TypeOK
<1>2. \A v \in Worker \ {w} : worker'[v] = worker[v] /\ Job(v)' = Job(v)
  BY DEF OnlyItsOwn, Job
<1>3. \A b \in Attempt \ stalled :
        attempt'[b] = attempt[b] /\ posts'[b] = posts[b] /\ jobs'[b] = jobs[b]
  BY DEF OnlyItsOwn
<1>4. ASSUME NEW v \in Worker, worker'[v].pc \in Working, Job(v)' \notin stalled
      PROVE  /\ worker'[v] = worker[v] /\ Job(v)' = Job(v)
             /\ Job(v) \in Attempt \ stalled
  <2>1. v # w
    BY <1>1, <1>4 DEF JobWhileWorking
  <2> QED  BY <1>2, <1>4, <2>1, JobFacts
<1>5. OneWorkerPerAttempt'
  <2>1. ASSUME NEW u \in Worker, NEW v \in Worker, u # v, Job(u)' # NoAttempt,
               Job(u)' = Job(v)', Job(u)' \notin stalled
        PROVE  FALSE
    <3>1. u # w /\ v # w
      BY <1>1, <2>1
    <3> QED  BY <1>2, <2>1, <3>1 DEF IInv, OneWorkerPerAttempt
  <2> QED  BY <1>1, <2>1 DEF OneWorkerPerAttempt
<1>6. JobIsHeld'
  <2>1. ASSUME NEW v \in Worker, worker'[v].pc \in Working, Job(v)' \notin stalled
        PROVE  Row(v)' = Row(v) /\ worker[v].pc \in Working /\ Job(v) \notin stalled
    BY <1>3, <1>4, <2>1 DEF Row
  <2> QED  BY <1>1, <2>1 DEF IInv, JobIsHeld
<1>7. SentOnceDurably'
  BY <1>1, <1>3 DEF IInv, SentOnceDurably
<1>8. LocalsAreSound'
  <2>1. ASSUME NEW v \in Worker, worker'[v].pc \in Working, Job(v)' \notin stalled
        PROVE  Sound(worker'[v], Row(v)', posts'[Job(v)'])
    <3>1. /\ Row(v)' = Row(v) /\ posts'[Job(v)'] = posts[Job(v)]
          /\ worker'[v] = worker[v]
      BY <1>3, <1>4, <2>1 DEF Row
    <3>2. Sound(worker[v], Row(v), posts[Job(v)])
      BY <1>4, <2>1 DEF IInv, LocalsAreSound
    <3> QED  BY <3>1, <3>2
  <2> QED  BY <1>1, <2>1 DEF LocalsAreSound
<1> QED  BY <1>5, <1>6, <1>7, <1>8 DEF IInv

(* The locals of w after a step that keeps its job or lets it go. *)
OwnLocals(w) ==
  /\ \A v \in Worker \ {w} : worker'[v] = worker[v]
  /\ worker'[w].job \in {Job(w), NoAttempt}

LEMMA OwnStep ==
  ASSUME TypeOK, NEW w \in Worker
  PROVE  /\ \A pc : Step(w, pc) => OwnLocals(w)
         /\ \A code : StepFail(w, code) => OwnLocals(w)
         /\ \A h : worker' = [worker EXCEPT ![w] = Observing(worker[w], h)] => OwnLocals(w)
<1>1. worker \in [Worker -> WorkerRecord] /\ worker[w] \in WorkerRecord
      /\ Job(w) = worker[w].job
  BY DEF TypeOK, Job
<1>2. ASSUME NEW r, r.job = worker[w].job, worker' = [worker EXCEPT ![w] = r]
      PROVE  OwnLocals(w)
  BY <1>1, <1>2 DEF OwnLocals
<1>3. \A pc : [worker[w] EXCEPT !.pc = pc].job = worker[w].job
  BY <1>1 DEF WorkerRecord
<1>4. \A code : Failing(worker[w], code).job = worker[w].job
  BY <1>1 DEF Failing, WorkerRecord
<1>5. \A h : Observing(worker[w], h).job = worker[w].job
  BY <1>1, <1>4 DEF Observing, WorkerRecord
<1>6. ASSUME NEW pc, Step(w, pc) PROVE OwnLocals(w)
  BY <1>1, <1>2, <1>3, <1>6 DEF Step
<1>7. ASSUME NEW code, StepFail(w, code) PROVE OwnLocals(w)
  BY <1>2, <1>4, <1>7 DEF StepFail
<1>8. ASSUME NEW h, worker' = [worker EXCEPT ![w] = Observing(worker[w], h)]
      PROVE  OwnLocals(w)
  BY <1>2, <1>5, <1>8
<1> QED  BY <1>6, <1>7, <1>8

(* A step that writes the row of the worker's job at most. *)
LEMMA OwnRow ==
  ASSUME TypeOK, NEW w \in Worker, OwnLocals(w), UNCHANGED outside,
         \A b \in Attempt \ {Job(w)} : attempt'[b] = attempt[b]
  PROVE  OnlyItsOwn(w)
BY DEF OwnLocals, OnlyItsOwn, outside

LEMMA OwnDeath ==
  ASSUME TypeOK, NEW w \in Worker, Die(w), UNCHANGED outside
  PROVE  OnlyItsOwn(w)
<1>1. worker \in [Worker -> WorkerRecord] /\ attempt \in [Attempt -> AttemptRow]
  BY DEF TypeOK
<1>2. OwnLocals(w)
  BY <1>1 DEF Die, OwnLocals, Blank
<1>3. \A b \in Attempt \ {Job(w)} : attempt'[b] = attempt[b]
  BY <1>1 DEF Die, Released
<1> QED  BY <1>2, <1>3, OwnRow

LEMMA OwnQuiet ==
  ASSUME TypeOK, NEW w \in Worker, OwnLocals(w), UNCHANGED rows, UNCHANGED outside
  PROVE  OnlyItsOwn(w)
BY OwnRow DEF rows

(* The steps of a worker at work, one by one. *)
LEMMA OwnSteps ==
  ASSUME TypeOK, NEW w \in Worker, worker[w].pc \in Working,
         WorkerStep(w) \/ Heartbeat(w) \/ Crash(w) \/ Stop(w)
  PROVE  OnlyItsOwn(w)
<1>1. worker \in [Worker -> WorkerRecord] /\ worker[w] \in WorkerRecord
      /\ attempt \in [Attempt -> AttemptRow] /\ Job(w) = worker[w].job
  BY DEF TypeOK, Job
<1>2. CASE Load(w) \/ ReceiveAnswer(w) \/ LoseAnswer(w)
  <2>1. ASSUME NEW pc, NEW p,
               worker' = [worker EXCEPT ![w].pc = pc, ![w].prompt = p]
        PROVE  OwnLocals(w)
    BY <1>1, <2>1 DEF OwnLocals, WorkerRecord
  <2>2. OwnLocals(w)
    BY <1>2, <2>1, OwnStep DEF Load, ReceiveAnswer, LoseAnswer
  <2> QED  BY <1>2, <2>2, OwnQuiet DEF Load, ReceiveAnswer, LoseAnswer, WorkerUnchanged
<1>3. CASE RecordIntent(w)
  <2>1. ASSUME worker' = [worker EXCEPT ![w].pc = "lookup", ![w].prompt = Row(w).prompt]
        PROVE  OwnLocals(w)
    BY <1>1, <2>1 DEF OwnLocals, WorkerRecord
  <2>2. ASSUME UNCHANGED rows \/ attempt' = [attempt EXCEPT ![Job(w)].status = "submitting",
                                   ![Job(w)].owner = w, ![Job(w)].lease = "live"]
        PROVE  \A b \in Attempt \ {Job(w)} : attempt'[b] = attempt[b]
    BY <1>1, <2>2 DEF rows
  <2>3. UNCHANGED outside
    BY <1>3 DEF RecordIntent, WorkerUnchanged
  <2>4. Die(w) \/ (OwnLocals(w) /\ \A b \in Attempt \ {Job(w)} : attempt'[b] = attempt[b])
    BY <1>3, <2>1, <2>2 DEF RecordIntent
  <2> QED  BY <2>3, <2>4, OwnDeath, OwnRow
<1>4. CASE LookUpHistory(w) \/ ReadBack(w) \/ ReconcileUncertain(w)
  <2>1. ASSUME NEW pc, NEW p, NEW h,
               \/ worker' = [worker EXCEPT ![w].pc = pc, ![w].prompt = p, ![w].hist = h]
               \/ worker' = [worker EXCEPT ![w].pc = pc, ![w].hist = h]
        PROVE  OwnLocals(w)
    BY <1>1, <2>1 DEF OwnLocals, WorkerRecord
  <2>2. UNCHANGED outside
    BY <1>4 DEF LookUpHistory, ReadBack, ReconcileUncertain, WorkerUnchanged
  <2>3. Die(w) \/ (OwnLocals(w) /\ UNCHANGED rows)
    <3>1. CASE LookUpHistory(w)
      BY <2>1, <3>1, OwnStep DEF LookUpHistory
    <3>2. CASE ReadBack(w)
      BY <2>1, <3>2, OwnStep DEF ReadBack
    <3>3. CASE ReconcileUncertain(w)
      BY <2>1, <3>3, OwnStep DEF ReconcileUncertain
    <3> QED  BY <1>4, <3>1, <3>2, <3>3
  <2> QED  BY <2>2, <2>3, OwnDeath, OwnQuiet
<1>5. CASE Revalidate(w)
  BY <1>5, OwnStep, OwnRow DEF Revalidate, WorkerUnchanged
<1>6. CASE PostPrompt(w)
  <2>1. OwnLocals(w)
    <3>1. worker' = [worker EXCEPT ![w].pc = "await", ![w].prompt = posts[Job(w)] + 1]
      BY <1>6 DEF PostPrompt
    <3> QED  BY <1>1, <3>1 DEF OwnLocals, WorkerRecord
  <2>2. /\ \A b \in Attempt \ {Job(w)} : posts'[b] = posts[b] /\ jobs'[b] = jobs[b]
        /\ UNCHANGED <<attempt, stalled>>
    BY <1>6 DEF PostPrompt, TypeOK, rows
  <2> QED  BY <2>1, <2>2 DEF OnlyItsOwn, OwnLocals
<1>7. CASE Persist(w) \/ Adopt(w)
  <2>1. UNCHANGED outside
    BY <1>7 DEF Persist, Adopt, WorkerUnchanged
  <2>2. ASSUME PersistSubmitted(w)
        PROVE  OwnLocals(w) /\ \A b \in Attempt \ {Job(w)} : attempt'[b] = attempt[b]
    <3>1. worker' = [worker EXCEPT ![w] = Observing(worker[w], worker[w].hist)]
      BY <2>2 DEF PersistSubmitted
    <3>2. \A b \in Attempt \ {Job(w)} : attempt'[b] = attempt[b]
      BY <1>1, <2>2 DEF PersistSubmitted
    <3> QED  BY <3>1, <3>2, OwnStep
  <2>3. CASE PersistSubmitted(w)
    BY <2>1, <2>2, <2>3, OwnRow
  <2>4. CASE StepFail(w, "COMFY_UNAVAILABLE") /\ UNCHANGED rows
    BY <2>1, <2>4, OwnStep, OwnQuiet
  <2>5. CASE Die(w)
    BY <2>1, <2>5, OwnDeath
  <2> QED  BY <1>7, <2>3, <2>4, <2>5 DEF Persist, Adopt
<1>8. CASE MarkRunningThenFinish(w) \/ StreamStarted(w)
  <2>1. UNCHANGED outside
    BY <1>8 DEF MarkRunningThenFinish, StreamStarted, WorkerUnchanged
  <2>2. PICK pc \in {"finish", "stream"} : MarkRunning(w, pc)
    BY <1>8 DEF MarkRunningThenFinish, StreamStarted
  <2>3. Die(w) \/ (Step(w, pc) /\ \A b \in Attempt \ {Job(w)} : attempt'[b] = attempt[b])
    BY <1>1, <2>2 DEF MarkRunning, rows
  <2> QED  BY <2>1, <2>3, OwnStep, OwnDeath, OwnRow
<1>9. CASE StreamEnded(w) \/ StreamAborted(w) \/ StreamDisconnected(w) \/ PollHistory(w)
  <2>1. UNCHANGED outside
    BY <1>9 DEF StreamEnded, StreamAborted, StreamDisconnected, PollHistory, WorkerUnchanged
  <2>2. \/ Die(w)
        \/ UNCHANGED rows /\ \E pc : Step(w, pc) \/ StepFail(w, pc)
    BY <1>9 DEF StreamEnded, StreamAborted, StreamDisconnected, PollHistory
  <2> QED  BY <2>1, <2>2, OwnStep, OwnDeath, OwnQuiet
<1>10. CASE Finish(w) \/ Ingest(w)
  <2>1. UNCHANGED rows /\ UNCHANGED outside
    BY <1>10 DEF Finish, Ingest, WorkerUnchanged
  <2>2. ASSUME NEW k, NEW v, worker' = [worker EXCEPT ![w].pc = "commit", ![w].stored = k,
                                                     ![w].verdict = v]
        PROVE  OwnLocals(w)
    BY <1>1, <2>2 DEF OwnLocals, WorkerRecord
  <2>3. OwnLocals(w)
    BY <1>10, <2>2, OwnStep DEF Finish, Ingest
  <2> QED  BY <2>1, <2>3, OwnQuiet
<1>11. CASE CommitResult(w) \/ FailAttempt(w)
  <2>1. UNCHANGED outside
    BY <1>11 DEF CommitResult, FailAttempt, WorkerUnchanged
  <2>2. \A status, code : attempt' = Settled(Job(w), status, code) =>
          \A b \in Attempt \ {Job(w)} : attempt'[b] = attempt[b]
    BY <1>1 DEF Settled
  <2>3. Die(w) \/ (Step(w, "done") /\ \A b \in Attempt \ {Job(w)} : attempt'[b] = attempt[b])
    <3>1. CASE CommitResult(w)
      BY <2>2, <3>1 DEF CommitResult, rows
    <3>2. CASE FailAttempt(w)
      BY <2>2, <3>2 DEF FailAttempt, rows
    <3> QED  BY <1>11, <3>1, <3>2
  <2> QED  BY <2>1, <2>3, OwnStep, OwnDeath, OwnRow
<1>12. CASE EndOfWork(w)
  <2>1. UNCHANGED outside
    BY <1>12 DEF EndOfWork, WorkerUnchanged
  <2>2. OwnLocals(w)
    BY <1>1, <1>12 DEF EndOfWork, OwnLocals, Blank
  <2>3. \A b \in Attempt \ {Job(w)} : attempt'[b] = attempt[b]
    BY <1>1, <1>12 DEF EndOfWork, Released
  <2> QED  BY <2>1, <2>2, <2>3, OwnRow
<1>13. CASE Heartbeat(w)
  <2>1. UNCHANGED outside
    BY <1>13 DEF Heartbeat
  <2>2. CASE Die(w)
    BY <2>1, <2>2, OwnDeath
  <2>3. CASE attempt' = [attempt EXCEPT ![Job(w)].lease = "live"] /\ UNCHANGED worker
    <3>1. OwnLocals(w)
      BY <1>1, <2>3 DEF OwnLocals
    <3>2. \A b \in Attempt \ {Job(w)} : attempt'[b] = attempt[b]
      BY <1>1, <2>3
    <3> QED  BY <2>1, <3>1, <3>2, OwnRow
  <2> QED  BY <1>13, <2>2, <2>3 DEF Heartbeat
<1>14. CASE Crash(w)
  BY <1>14, OwnDeath DEF Crash
<1>15. CASE Stop(w)
  <2>1. OwnLocals(w)
    <3>1. \/ worker' = [worker EXCEPT ![w] = Blank("down")]
          \/ worker' = [worker EXCEPT ![w] = [worker[w] EXCEPT !.stopping = TRUE]]
      BY <1>1, <1>15 DEF Stop
    <3>2. Blank("down").job = NoAttempt
      BY DEF Blank
    <3>3. [worker[w] EXCEPT !.stopping = TRUE].job = Job(w)
      BY <1>1 DEF WorkerRecord
    <3> QED  BY <1>1, <3>1, <3>2, <3>3 DEF OwnLocals
  <2> QED  BY <1>15, <2>1, OwnQuiet DEF Stop
<1>16. CASE \/ RecoverStale(w) \/ NothingToClaim(w)
            \/ \E a \in Attempt : ClaimForRecovery(w, a) \/ ClaimNext(w, a)
  BY <1>16 DEF RecoverStale, NothingToClaim, ClaimForRecovery, ClaimNext, At, Working
<1> QED
  BY <1>2, <1>3, <1>4, <1>5, <1>6, <1>7, <1>8, <1>9, <1>10, <1>11, <1>12, <1>13, <1>14,
     <1>15, <1>16 DEF WorkerStep

-----------------------------------------------------------------------------
(* IInv is inductive.  That a step keeps the types, and that exactly the    *)
(* workers at work have a job, is proved with RowInv below.                 *)

LEMMA NextIInv ==
  ASSUME IInv, [Next]_vars, TypeOK', JobWhileWorking' PROVE IInv'
<1>1. CASE ApiStep
  BY <1>1, ApiInv
<1>2. CASE Environment
  BY <1>2, EnvironmentInv
<1>3. ASSUME NEW w \in Worker,
             WorkerStep(w) \/ Heartbeat(w) \/ Crash(w) \/ Stop(w) \/ Restart(w)
      PROVE  IInv'
  <2>1. CASE Job(w) \notin stalled
    BY <1>3, <2>1, WorkerInv, LifeCycleInv
  <2>2. CASE Job(w) \in stalled
    <3>1. worker[w].pc \in Working /\ TypeOK
      BY <2>2, JobFacts DEF IInv
    <3>2. ~Restart(w)
      BY <3>1 DEF Restart, At, Working
    <3> QED  BY <1>3, <2>2, <3>1, <3>2, OwnSteps, GivenUp
  <2> QED  BY <2>1, <2>2
<1>4. CASE UNCHANGED vars
  BY <1>4 DEF vars, IInv, TypeOK, OneWorkerPerAttempt, JobWhileWorking, JobIsHeld,
              SentOnceDurably, LocalsAreSound, Job, Row
<1> QED  BY <1>1, <1>2, <1>3, <1>4 DEF Next

-----------------------------------------------------------------------------
(* What the rows say of each other and of the executor.  Nothing here      *)
(* assumes that leases outlast the work, so two workers may be on one      *)
(* attempt at any time, until the last section, where the module is shown  *)
(* to keep the contract of RunContract.                                    *)

Verdict == {"none", "passed", "failed"}

(* The part of RowInv that is about one attempt at a time. *)
Base ==
  /\ TypeOK
  /\ JobWhileWorking
  /\ RowsAreSound
  /\ WorkersRecall
  /\ ReviewedIsEvaluated

(* The part that is about all the attempts of a shot or a project. *)
Together ==
  /\ ReviewHoldsShot
  /\ ShotFollowsAttempt
  /\ GeneratingHasWork

(* What a step must not do to a settled attempt. *)
Final ==
  \A a \in Attempt : attempt[a].status \in AttemptTerminal => attempt'[a] = attempt[a]

(* A legal rewrite of row x with verdict e to row y with verdict f. *)
Rewrites(x, y, e, f, sent) ==
  /\ x.status \notin AttemptTerminal /\ y.status # "absent"
  /\ RowIsSound(y, f)
  /\ y.prompt = x.prompt \/ x.prompt = 0
  /\ e # "none" => f # "none"
  /\ y.status \in {"awaiting_review", "accepted"} =>
       f = "passed" /\ Delivered(sent, y.prompt)

-----------------------------------------------------------------------------
(* What steps of each kind keep *)

LEMMA RecallsStays ==
  ASSUME NEW r \in WorkerRecord, NEW x \in AttemptRow, NEW y \in AttemptRow,
         NEW e, NEW f, NEW sent, NEW after,
         Recalls(r, x, e, sent), y.status # "absent",
         y.prompt = x.prompt \/ x.prompt = 0,
         e # "none" => f # "none",
         \A k \in Post : sent[k] \in {"success", "lost"} => after[k] \in {"success", "lost"}
  PROVE  Recalls(r, y, f, after)
<1>1. r.prompt \in Post \cup {0}
  BY DEF WorkerRecord
<1>2. Delivered(sent, r.prompt) => Delivered(after, r.prompt)
  BY <1>1 DEF Delivered
<1>3. r.prompt # 0 /\ r.prompt = x.prompt => r.prompt = y.prompt
  OBVIOUS
<1>4. r.prompt \in {0, x.prompt} => r.prompt \in {0, y.prompt}
  OBVIOUS
<1> QED
  BY <1>2, <1>3, <1>4 DEF Recalls

(* Each attempt is left alone or legally rewritten, each worker is left     *)
(* alone, lets go, or recalls its row, and the executor forgets at most.    *)
LEMMA Keeps ==
  ASSUME RowInv, TypeOK',
         \A b \in Attempt, k \in Post :
           /\ jobs[b][k] \in {"success", "lost"} => jobs'[b][k] \in {"success", "lost"}
           /\ k > posts'[b] => jobs'[b][k] = "unsent",
         \A b \in Attempt :
           \/ attempt'[b] = attempt[b] /\ evaluation'[b] = evaluation[b]
           \/ Rewrites(attempt[b], attempt'[b], evaluation[b], evaluation'[b], jobs'[b]),
         \A v \in Worker :
           \/ worker'[v] = worker[v]
           \/ /\ worker'[v].pc \notin Working /\ worker'[v].job = NoAttempt
              /\ ~worker'[v].stopping
           \/ /\ worker'[v].pc \in Working /\ worker'[v].job \in Attempt
              /\ Recalls(worker'[v], attempt'[worker'[v].job],
                         evaluation'[worker'[v].job], jobs'[worker'[v].job])
  PROVE  Base' /\ Final
<1>0. /\ \A b \in Attempt : attempt[b] \in AttemptRow /\ attempt'[b] \in AttemptRow
      /\ \A v \in Worker : worker[v] \in WorkerRecord
      /\ TypeOK
  BY DEF RowInv, TypeOK
<1>1. JobWhileWorking'
  <2>1. ASSUME NEW v \in Worker
        PROVE  /\ worker'[v].pc \in Working <=> worker'[v].job # NoAttempt
               /\ worker'[v].stopping => worker'[v].pc \in Working
    BY DEF RowInv, JobWhileWorking, Job
  <2> QED
    BY <2>1 DEF JobWhileWorking, Job
<1>2. \A b \in Attempt : RowIsSound(attempt'[b], evaluation'[b])
  BY DEF RowInv, RowsAreSound, Rewrites
<1>3. RowsAreSound'
  BY <1>2 DEF RowsAreSound
<1>4. ASSUME NEW v \in Worker, worker'[v].pc \in Working
      PROVE  Recalls(worker'[v], attempt'[worker'[v].job],
                     evaluation'[worker'[v].job], jobs'[worker'[v].job])
  <2>1. CASE worker'[v] = worker[v]
    <3> DEFINE b == worker[v].job
    <3>1. b \in Attempt
      BY <1>0, <1>4, <2>1 DEF RowInv, JobWhileWorking, Job, WorkerRecord
    <3>2. Recalls(worker[v], attempt[b], evaluation[b], jobs[b])
      BY <1>4, <2>1 DEF RowInv, WorkersRecall, Job, Row
    <3>3. /\ attempt'[b].prompt = attempt[b].prompt \/ attempt[b].prompt = 0
          /\ evaluation[b] # "none" => evaluation'[b] # "none"
          /\ attempt'[b].status # "absent"
      BY <3>1, <3>2 DEF Rewrites, Recalls
    <3>4. Recalls(worker[v], attempt'[b], evaluation'[b], jobs'[b])
      BY <1>0, <3>1, <3>2, <3>3, RecallsStays
    <3> QED
      BY <2>1, <3>4
  <2> QED
    BY <1>4, <2>1
<1>5. WorkersRecall'
  BY <1>4 DEF WorkersRecall, Job, Row
<1>6. ASSUME NEW b \in Attempt, attempt'[b].status \in {"awaiting_review", "accepted"}
      PROVE  /\ evaluation'[b] = "passed"
             /\ attempt'[b].prompt # 0
             /\ jobs'[b][attempt'[b].prompt] \in {"success", "lost"}
  <2>1. CASE attempt'[b] = attempt[b] /\ evaluation'[b] = evaluation[b]
    <3>1. /\ evaluation[b] = "passed" /\ attempt[b].prompt # 0
          /\ jobs[b][attempt[b].prompt] \in {"success", "lost"}
      BY <1>6, <2>1 DEF RowInv, ReviewedIsEvaluated
    <3>2. attempt[b].prompt \in Post
      BY <1>0, <3>1 DEF AttemptRow
    <3> QED
      BY <2>1, <3>1, <3>2
  <2>2. CASE Rewrites(attempt[b], attempt'[b], evaluation[b], evaluation'[b], jobs'[b])
    BY <1>6, <2>2 DEF Rewrites, Delivered
  <2> QED
    BY <2>1, <2>2
<1>7. ReviewedIsEvaluated'
  BY <1>6 DEF ReviewedIsEvaluated
<1>8. Final
  BY DEF Final, Rewrites
<1> QED
  BY <1>1, <1>3, <1>5, <1>7, <1>8 DEF Base

(* No attempt ends or begins, and a shot at most starts generating. *)
LEMMA TogetherStays ==
  ASSUME RowInv,
         \A b \in Attempt :
           /\ attempt'[b].status \in AttemptLive <=> attempt[b].status \in AttemptLive
           /\ attempt'[b].status = "awaiting_review" <=> attempt[b].status = "awaiting_review",
         \A s \in Shot :
           \/ shot'[s].status = shot[s].status
           \/ /\ shot[s].status = "queued" /\ shot'[s].status = "generating"
              /\ \E b \in Attempt : ShotOf[b] = s /\ attempt[b].status \in AttemptLive,
         project' = project
  PROVE  Together'
<1>1. \A b \in Attempt : attempt'[b].status \in Pending <=> attempt[b].status \in Pending
  BY DEF Pending
<1>2. \A b \in Attempt : ShotOf[b] \in Shot
  OBVIOUS
<1>3. /\ \A b \in Attempt : attempt[b].status \in AttemptLive =>
           shot[ShotOf[b]].status \in {"queued", "generating"}
      /\ \A b, c \in Attempt : b # c /\ ShotOf[b] = ShotOf[c] =>
           ~(attempt[b].status \in Pending /\ attempt[c].status \in Pending)
      /\ \A s \in Shot : shot[s].status \in {"queued", "generating", "awaiting_review"} =>
           \E b \in AttemptsOf(s) : attempt[b].status \in Pending
  BY DEF RowInv, ShotFollowsAttempt
<1>4. ReviewHoldsShot'
  <2>1. ASSUME NEW b \in Attempt, attempt'[b].status = "awaiting_review"
        PROVE  shot'[ShotOf[b]].status \in {"queued", "awaiting_review"}
    <3>1. attempt[b].status = "awaiting_review"
      BY <2>1
    <3>2. ~ \E c \in Attempt : ShotOf[c] = ShotOf[b] /\ attempt[c].status \in AttemptLive
      BY <1>3, <3>1 DEF Pending, AttemptLive, LeasedStatus
    <3> QED
      BY <1>2, <3>1, <3>2 DEF RowInv, ReviewHoldsShot
  <2> QED
    BY <2>1 DEF ReviewHoldsShot
<1>5. ShotFollowsAttempt'
  <2>1. \A b \in Attempt : attempt'[b].status \in AttemptLive =>
          shot'[ShotOf[b]].status \in {"queued", "generating"}
    BY <1>2, <1>3
  <2>2. ASSUME NEW s \in Shot,
               shot'[s].status \in {"queued", "generating", "awaiting_review"}
        PROVE  \E b \in AttemptsOf(s)' : attempt'[b].status \in Pending
    <3>1. PICK b \in AttemptsOf(s) : attempt[b].status \in Pending
      BY <1>3, <2>2
    <3>2. b \in Attempt /\ ShotOf[b] = s /\ attempt'[b].status \in Pending
      BY <1>1, <3>1 DEF AttemptsOf
    <3>3. attempt'[b].status # "absent"
      BY <3>2 DEF Pending, AttemptLive, LeasedStatus
    <3> QED
      BY <3>2, <3>3 DEF AttemptsOf
  <2> QED
    BY <1>1, <1>3, <2>1, <2>2 DEF ShotFollowsAttempt
<1>6. GeneratingHasWork'
  BY DEF RowInv, GeneratingHasWork
<1> QED
  BY <1>4, <1>5, <1>6 DEF Together

(* What the invariant says of a worker at work. *)
LEMMA AtWork ==
  ASSUME RowInv, NEW w \in Worker, worker[w].pc \in Working
  PROVE  /\ TypeOK
         /\ Job(w) \in Attempt /\ ShotOf[Job(w)] \in Shot
         /\ Job(w) = worker[w].job /\ Row(w) = attempt[Job(w)]
         /\ Row(w) \in AttemptRow /\ worker[w] \in WorkerRecord
         /\ evaluation[Job(w)] \in Verdict
         /\ jobs[Job(w)] \in [Post -> JobState] /\ posts[Job(w)] \in 0 .. MaxPosts
         /\ attempt \in [Attempt -> AttemptRow]
         /\ worker \in [Worker -> WorkerRecord]
         /\ evaluation \in [Attempt -> Verdict]
         /\ RowIsSound(Row(w), evaluation[Job(w)])
         /\ Row(w).status # "absent" /\ Row(w).status \in AttemptStatus
         /\ Recalls(worker[w], Row(w), evaluation[Job(w)], jobs[Job(w)])
<1>1. Job(w) \in Attempt
  BY DEF RowInv, TypeOK, JobWhileWorking, Job, WorkerRecord
<1>2. /\ Row(w) \in AttemptRow /\ worker[w] \in WorkerRecord
      /\ evaluation[Job(w)] \in Verdict
      /\ jobs[Job(w)] \in [Post -> JobState] /\ posts[Job(w)] \in 0 .. MaxPosts
      /\ attempt \in [Attempt -> AttemptRow] /\ worker \in [Worker -> WorkerRecord]
      /\ evaluation \in [Attempt -> Verdict]
  BY <1>1 DEF RowInv, TypeOK, Row, Verdict
<1>3. /\ RowIsSound(Row(w), evaluation[Job(w)]) /\ TypeOK
      /\ Recalls(worker[w], Row(w), evaluation[Job(w)], jobs[Job(w)])
  BY <1>1 DEF RowInv, RowsAreSound, WorkersRecall, Row
<1>4. Row(w).status # "absent" /\ Row(w).status \in AttemptStatus
  BY <1>2, <1>3 DEF Recalls, AttemptRow
<1> QED
  BY <1>1, <1>2, <1>3, <1>4 DEF Row, Job

(* A step of a worker on the row of its job and on its locals. *)
LEMMA OnJob ==
  ASSUME RowInv, RestTypeOK', NEW w \in Worker, worker[w].pc \in Working,
         NEW x \in AttemptRow, NEW e \in Verdict, NEW r \in WorkerRecord,
         attempt' = [attempt EXCEPT ![Job(w)] = x],
         evaluation' = [evaluation EXCEPT ![Job(w)] = e],
         worker' = [worker EXCEPT ![w] = r],
         UNCHANGED <<jobs, posts>>,
         \/ x = Row(w) /\ e = evaluation[Job(w)]
         \/ Rewrites(Row(w), x, evaluation[Job(w)], e, jobs[Job(w)]),
         \/ r.pc \notin Working /\ r.job = NoAttempt /\ ~r.stopping
         \/ r.pc \in Working /\ r.job = Job(w) /\ Recalls(r, x, e, jobs[Job(w)])
  PROVE  Base' /\ Final
<1> DEFINE a == Job(w)
<1>1. /\ TypeOK /\ a \in Attempt /\ Row(w) = attempt[a]
      /\ attempt \in [Attempt -> AttemptRow] /\ worker \in [Worker -> WorkerRecord]
      /\ evaluation \in [Attempt -> Verdict]
  BY AtWork
<1> HIDE DEF a
<1>2. TypeOK'
  BY <1>1 DEF TypeOK, RestTypeOK, a
<1>3. /\ attempt'[a] = x /\ evaluation'[a] = e
      /\ \A b \in Attempt : b # a => attempt'[b] = attempt[b] /\ evaluation'[b] = evaluation[b]
      /\ worker'[w] = r
      /\ \A v \in Worker : v # w => worker'[v] = worker[v]
  BY <1>1 DEF a
<1>4. \A b \in Attempt, k \in Post :
        /\ jobs[b][k] \in {"success", "lost"} => jobs'[b][k] \in {"success", "lost"}
        /\ k > posts'[b] => jobs'[b][k] = "unsent"
  BY DEF RowInv, RowsAreSound
<1>5. \A b \in Attempt :
        \/ attempt'[b] = attempt[b] /\ evaluation'[b] = evaluation[b]
        \/ Rewrites(attempt[b], attempt'[b], evaluation[b], evaluation'[b], jobs'[b])
  BY <1>1, <1>3 DEF a
<1>6. \A v \in Worker :
        \/ worker'[v] = worker[v]
        \/ /\ worker'[v].pc \notin Working /\ worker'[v].job = NoAttempt
           /\ ~worker'[v].stopping
        \/ /\ worker'[v].pc \in Working /\ worker'[v].job \in Attempt
           /\ Recalls(worker'[v], attempt'[worker'[v].job],
                      evaluation'[worker'[v].job], jobs'[worker'[v].job])
  BY <1>1, <1>3 DEF a
<1> QED
  BY <1>2, <1>4, <1>5, <1>6, Keeps

(* RowInv is its two parts. *)
LEMMA Parts == ASSUME Base', Together' PROVE RowInv'
BY DEF Base, Together, RowInv

(* A step that changes the locals of a worker at work, and perhaps what a   *)
(* revision is found to be.                                                 *)
LEMMA Locally ==
  ASSUME RowInv, RestTypeOK', NEW w \in Worker, worker[w].pc \in Working,
         NEW r \in WorkerRecord, worker' = [worker EXCEPT ![w] = r],
         UNCHANGED <<attempt, evaluation, shot, project, jobs, posts>>,
         r.pc \in Working, r.job = Job(w),
         Recalls(r, Row(w), evaluation[Job(w)], jobs[Job(w)])
  PROVE  RowInv' /\ Final
<1>1. /\ attempt' = [attempt EXCEPT ![Job(w)] = Row(w)]
      /\ evaluation' = [evaluation EXCEPT ![Job(w)] = evaluation[Job(w)]]
      /\ Row(w) \in AttemptRow /\ evaluation[Job(w)] \in Verdict
  BY AtWork
<1>2. Base' /\ Final
  BY <1>1, OnJob
<1>3. Together'
  BY TogetherStays
<1> QED
  BY <1>2, <1>3, Parts

(* Program points whose locals say nothing of the row. *)
LEMMA NothingRecalled ==
  ASSUME NEW r, NEW row, NEW verdict, NEW sent, row.status # "absent",
         r.pc \in {"load", "intent", "validate", "post", "reconcile", "fail", "done"}
  PROVE  Recalls(r, row, verdict, sent)
BY DEF Recalls

(* What the code remembers of the prompt while it observes it. *)
LEMMA StillRecalled ==
  ASSUME NEW r, NEW o, NEW row, NEW verdict, NEW sent,
         Recalls(r, row, verdict, sent), o.prompt = r.prompt,
         \/ /\ r.pc \in {"stream", "history"} /\ o.pc \in {"stream", "history"}
         \/ /\ r.pc \in {"markrun", "finish"}
            /\ o.pc \in {"markrun", "finish", "ingest"}
         \/ /\ r.pc \in {"stream", "history"} /\ o.pc = "finish"
            /\ sent[r.prompt] = "success"
  PROVE  Recalls(o, row, verdict, sent)
BY DEF Recalls, Delivered

LEMMA Quietly ==
  ASSUME RowInv, UNCHANGED rows, WorkerUnchanged
  PROVE  RestTypeOK' /\ UNCHANGED <<attempt, evaluation, shot, project, jobs, posts>>
BY DEF RowInv, TypeOK, RestTypeOK, rows, outside, WorkerUnchanged

(* Going on to another point of the code with the locals as they are. *)
LEMMA GoesOn ==
  ASSUME RowInv, RestTypeOK', NEW w \in Worker, worker[w].pc \in Working,
         NEW pc \in Working, Step(w, pc),
         UNCHANGED <<attempt, evaluation, shot, project, jobs, posts>>,
         \A r \in WorkerRecord : r.pc = pc /\ r.prompt = worker[w].prompt =>
           Recalls(r, Row(w), evaluation[Job(w)], jobs[Job(w)])
  PROVE  RowInv' /\ Final
<1> DEFINE r == [worker[w] EXCEPT !.pc = pc]
<1>1. /\ worker[w] \in WorkerRecord /\ pc \in Locals /\ Job(w) = worker[w].job
      /\ worker \in [Worker -> WorkerRecord]
  BY AtWork DEF Working
<1>2. r \in WorkerRecord /\ r.pc = pc /\ r.prompt = worker[w].prompt /\ r.job = Job(w)
  BY <1>1 DEF WorkerRecord
<1>3. worker' = [worker EXCEPT ![w] = r]
  BY <1>1 DEF Step
<1> HIDE DEF r
<1> QED
  BY <1>2, <1>3, Locally

LEMMA GoesToFail ==
  ASSUME RowInv, RestTypeOK', NEW w \in Worker, worker[w].pc \in Working,
         NEW code \in FailureCode, StepFail(w, code),
         UNCHANGED <<attempt, evaluation, shot, project, jobs, posts>>
  PROVE  RowInv' /\ Final
<1> DEFINE r == Failing(worker[w], code)
<1>1. worker[w] \in WorkerRecord /\ Job(w) = worker[w].job
      /\ worker \in [Worker -> WorkerRecord]
  BY AtWork
<1>2. r \in WorkerRecord /\ r.pc = "fail" /\ r.job = Job(w)
  BY <1>1, FailingFacts
<1>3. worker' = [worker EXCEPT ![w] = r]
  BY <1>1 DEF StepFail
<1>4. "fail" \in Working
  BY DEF Working, Locals
<1> HIDE DEF r
<1>5. Recalls(r, Row(w), evaluation[Job(w)], jobs[Job(w)])
  BY <1>2, AtWork, NothingRecalled
<1> QED
  BY <1>2, <1>3, <1>4, <1>5, Locally

(* A worker that lets go of its job, releasing the row or not. *)
LEMMA Leaves ==
  ASSUME RowInv, RestTypeOK', NEW w \in Worker, NEW pc \in {"idle", "down"},
         \/ attempt' = attempt
         \/ worker[w].pc \in Working /\ attempt' = Released(w, Job(w)),
         worker' = [worker EXCEPT ![w] = Blank(pc)],
         UNCHANGED <<evaluation, shot, project, jobs, posts>>
  PROVE  RowInv' /\ Final
<1> DEFINE a == Job(w)
           x == attempt[a]
           y == [x EXCEPT !.status = IF x.status = "claimed" THEN "queued" ELSE x.status,
                          !.owner = NoWorker, !.lease = "none"]
<1>1. TypeOK
  BY DEF RowInv
<1>2. /\ Blank(pc) \in WorkerRecord /\ Blank(pc).pc \notin Working
      /\ Blank(pc).job = NoAttempt /\ ~Blank(pc).stopping
  BY DEF Blank, WorkerRecord, Locals, Working, Post, History
<1>3. /\ worker' \in [Worker -> WorkerRecord] /\ worker'[w] = Blank(pc)
      /\ \A v \in Worker : v # w => worker'[v] = worker[v]
  BY <1>1, <1>2 DEF TypeOK
<1>4. ASSUME worker[w].pc \in Working, x.status \in LeasedStatus
      PROVE  /\ a \in Attempt /\ y \in AttemptRow /\ y.prompt = x.prompt
             /\ y.status = IF x.status = "claimed" THEN "queued" ELSE x.status
             /\ Rewrites(x, y, evaluation[a], evaluation[a], jobs[a])
  <2>1. a \in Attempt /\ x \in AttemptRow /\ RowIsSound(x, evaluation[a])
    BY <1>4, AtWork
  <2>2. "queued" \in AttemptStatus
    BY Statuses
  <2>3. /\ y \in AttemptRow /\ y.prompt = x.prompt /\ y.lease = "none"
        /\ y.status = IF x.status = "claimed" THEN "queued" ELSE x.status
    BY <2>1, <2>2 DEF AttemptRow
  <2> HIDE DEF x, y
  <2>4. x.status \in AttemptLive /\ y.status \in AttemptLive /\ x.status \notin AttemptTerminal
        /\ y.status \notin {"awaiting_review", "accepted"}
    BY <1>4, <2>3 DEF AttemptLive, LeasedStatus, AttemptTerminal
  <2>5. RowIsSound(y, evaluation[a]) /\ y.status # "absent"
    BY <1>4, <2>1, <2>3, <2>4 DEF RowIsSound, AttemptLive, LeasedStatus
  <2> QED
    BY <2>1, <2>3, <2>4, <2>5 DEF Rewrites
<1>5. attempt' = attempt
      \/ (worker[w].pc \in Working /\ x.status \in LeasedStatus
          /\ attempt' = [attempt EXCEPT ![a] = y])
  <2>1. CASE worker[w].pc \in Working /\ attempt' = Released(w, Job(w))
    BY <1>1, <2>1, AtWork DEF Released, TypeOK
  <2> QED
    BY <2>1
<1> HIDE DEF a, x, y
<1>6. \A b \in Attempt :
        \/ attempt'[b] = attempt[b]
        \/ /\ b = a /\ worker[w].pc \in Working /\ x.status \in LeasedStatus
           /\ attempt[b] = x /\ attempt'[b] = y
  BY <1>1, <1>4, <1>5 DEF TypeOK, x
<1>7. attempt' \in [Attempt -> AttemptRow]
  BY <1>1, <1>4, <1>5 DEF TypeOK
<1>8. TypeOK'
  BY <1>1, <1>3, <1>7 DEF TypeOK, RestTypeOK
<1>9. \A b \in Attempt :
        \/ attempt'[b] = attempt[b] /\ evaluation'[b] = evaluation[b]
        \/ Rewrites(attempt[b], attempt'[b], evaluation[b], evaluation'[b], jobs'[b])
  BY <1>4, <1>6
<1>10. \A v \in Worker :
        \/ worker'[v] = worker[v]
        \/ /\ worker'[v].pc \notin Working /\ worker'[v].job = NoAttempt
           /\ ~worker'[v].stopping
  BY <1>2, <1>3
<1>11. \A b \in Attempt, k \in Post :
        /\ jobs[b][k] \in {"success", "lost"} => jobs'[b][k] \in {"success", "lost"}
        /\ k > posts'[b] => jobs'[b][k] = "unsent"
  BY DEF RowInv, RowsAreSound
<1>12. Base' /\ Final
  BY <1>8, <1>9, <1>10, <1>11, Keeps
<1>13. \A b \in Attempt :
        /\ attempt'[b].status \in AttemptLive <=> attempt[b].status \in AttemptLive
        /\ attempt'[b].status = "awaiting_review" <=> attempt[b].status = "awaiting_review"
  BY <1>4, <1>6 DEF AttemptLive, LeasedStatus
<1>14. Together'
  BY <1>13, TogetherStays
<1> QED
  BY <1>12, <1>14, Parts

LEMMA Dies ==
  ASSUME RowInv, NEW w \in Worker, Die(w), UNCHANGED outside, faults' \in 0 .. MaxFaults
  PROVE  RowInv' /\ Final
<1>1. RestTypeOK' /\ UNCHANGED <<evaluation, shot, project, jobs, posts>>
  BY DEF RowInv, TypeOK, RestTypeOK, Die, outside
<1>2. worker[w].stopping => worker[w].pc \in Working
  BY DEF RowInv, JobWhileWorking
<1> QED
  BY <1>1, <1>2, Leaves DEF Die

LEMMA DiesQuietly ==
  ASSUME RowInv, NEW w \in Worker, Die(w), WorkerUnchanged
  PROVE  RowInv' /\ Final
<1>1. UNCHANGED outside /\ faults' \in 0 .. MaxFaults
  BY DEF WorkerUnchanged, RowInv, TypeOK
<1> QED
  BY <1>1, Dies

-----------------------------------------------------------------------------
(* The steps of a worker *)

(* A step of an idle worker, and a claim: rows of attempts that wait for a  *)
(* worker change, and the worker gets a fresh record or keeps its own.      *)
LEMMA Waits ==
  ASSUME RowInv, NEW w \in Worker, NEW r \in WorkerRecord,
         worker' = [worker EXCEPT ![w] = r],
         \/ r.pc \notin Working /\ r.job = NoAttempt /\ ~r.stopping
         \/ r.pc = "load" /\ r.job \in Attempt /\ attempt'[r.job].status # "absent",
         UNCHANGED <<evaluation, shot, project, revision>>, WorkerUnchanged,
         attempt' \in [Attempt -> AttemptRow],
         \A b \in Attempt :
           \/ attempt'[b] = attempt[b]
           \/ /\ attempt[b].status \in AttemptLive /\ attempt'[b].status \in AttemptLive
              /\ attempt'[b].prompt = attempt[b].prompt
              /\ RowIsSound(attempt'[b], evaluation[b])
  PROVE  RowInv' /\ Final
<1>1. TypeOK'
  BY DEF RowInv, TypeOK, WorkerUnchanged, outside
<1>2. \A b \in Attempt :
        \/ attempt'[b] = attempt[b] /\ evaluation'[b] = evaluation[b]
        \/ Rewrites(attempt[b], attempt'[b], evaluation[b], evaluation'[b], jobs'[b])
  BY DEF Rewrites, AttemptLive, LeasedStatus, AttemptTerminal
<1>3. "load" \in Working
  BY DEF Working, Locals
<1>4. /\ worker'[w] = r
      /\ \A v \in Worker : v # w => worker'[v] = worker[v]
  BY DEF RowInv, TypeOK
<1>5. r.pc = "load" => Recalls(r, attempt'[r.job], evaluation'[r.job], jobs'[r.job])
  BY <1>3, NothingRecalled
<1>6. \A v \in Worker :
        \/ worker'[v] = worker[v]
        \/ /\ worker'[v].pc \notin Working /\ worker'[v].job = NoAttempt
           /\ ~worker'[v].stopping
        \/ /\ worker'[v].pc \in Working /\ worker'[v].job \in Attempt
           /\ Recalls(worker'[v], attempt'[worker'[v].job],
                      evaluation'[worker'[v].job], jobs'[worker'[v].job])
  BY <1>3, <1>4, <1>5
<1>7. \A b \in Attempt, k \in Post :
        /\ jobs[b][k] \in {"success", "lost"} => jobs'[b][k] \in {"success", "lost"}
        /\ k > posts'[b] => jobs'[b][k] = "unsent"
  BY DEF RowInv, RowsAreSound, WorkerUnchanged, outside
<1>8. Base' /\ Final
  BY <1>1, <1>2, <1>6, <1>7, Keeps
<1>9. \A b \in Attempt :
        /\ attempt'[b].status \in AttemptLive <=> attempt[b].status \in AttemptLive
        /\ attempt'[b].status = "awaiting_review" <=> attempt[b].status = "awaiting_review"
  BY DEF AttemptLive, LeasedStatus
<1>10. Together'
  BY <1>9, TogetherStays
<1> QED
  BY <1>8, <1>10, Parts

LEMMA Polls ==
  ASSUME RowInv, NEW w \in Worker, RecoverStale(w) \/ NothingToClaim(w)
  PROVE  RowInv' /\ Final
<1>d. CASE Die(w) /\ WorkerUnchanged
  BY <1>d, DiesQuietly
<1>c. SUFFICES ASSUME ~Die(w) PROVE RowInv' /\ Final
  BY <1>d DEF RecoverStale, NothingToClaim
<1>p. PICK pc \in {"idle", "poll"} : Step(w, pc)
  BY <1>c DEF RecoverStale, NothingToClaim
<1> DEFINE r == [worker[w] EXCEPT !.pc = pc]
           y(b) == [attempt[b] EXCEPT !.status = "queued", !.owner = NoWorker, !.lease = "none"]
<1>0. /\ TypeOK /\ worker[w] \in WorkerRecord
      /\ \A b \in Attempt : attempt[b] \in AttemptRow /\ RowIsSound(attempt[b], evaluation[b])
  BY DEF RowInv, TypeOK, RowsAreSound
<1>1. /\ worker[w].pc \notin Working /\ pc \notin Working
      /\ UNCHANGED <<evaluation, shot, project, revision>> /\ WorkerUnchanged
  BY <1>c DEF RecoverStale, NothingToClaim, At, Working, rows
<1>2. worker[w].job = NoAttempt /\ ~worker[w].stopping
  BY <1>1, <1>0 DEF RowInv, JobWhileWorking, Job, WorkerRecord
<1>3. /\ r \in WorkerRecord /\ r.pc = pc /\ r.job = NoAttempt /\ ~r.stopping
      /\ worker' = [worker EXCEPT ![w] = r]
  BY <1>0, <1>2, <1>p DEF WorkerRecord, Locals, Step, TypeOK
<1> HIDE DEF r
<1>4. \A b \in Attempt : /\ y(b) \in AttemptRow /\ y(b).status = "queued"
                         /\ y(b).prompt = attempt[b].prompt /\ y(b).lease = "none"
  <2>1. "queued" \in AttemptStatus
    BY Statuses
  <2> QED
    BY <1>0, <2>1 DEF AttemptRow
<1>5. \/ attempt' = attempt
      \/ attempt' = [b \in Attempt |-> IF StaleClaim(b) THEN y(b) ELSE attempt[b]]
  BY <1>c DEF RecoverStale, NothingToClaim, rows
<1> HIDE DEF y
<1>6. /\ attempt' \in [Attempt -> AttemptRow]
      /\ \A b \in Attempt : \/ attempt'[b] = attempt[b]
                            \/ StaleClaim(b) /\ attempt'[b] = y(b)
  <2>1. attempt \in [Attempt -> AttemptRow]
    BY <1>0 DEF TypeOK
  <2>2. CASE attempt' = [b \in Attempt |-> IF StaleClaim(b) THEN y(b) ELSE attempt[b]]
    BY <2>1, <2>2, <1>4
  <2> QED
    BY <1>5, <2>1, <2>2
<1>7. ASSUME NEW b \in Attempt, StaleClaim(b), attempt'[b] = y(b)
      PROVE  /\ attempt[b].status \in AttemptLive /\ attempt'[b].status \in AttemptLive
             /\ attempt'[b].prompt = attempt[b].prompt
             /\ RowIsSound(attempt'[b], evaluation[b])
  <2>1. attempt[b].status = "claimed" /\ RowIsSound(attempt[b], evaluation[b])
    BY <1>0, <1>7 DEF StaleClaim
  <2>2. attempt[b].prompt = 0 /\ evaluation[b] = "none"
    BY <2>1 DEF RowIsSound, AttemptLive, LeasedStatus
  <2> QED
    BY <1>4, <1>7, <2>1, <2>2 DEF RowIsSound, AttemptLive, LeasedStatus
<1> QED
  BY <1>1, <1>3, <1>6, <1>7, Waits

LEMMA Claims ==
  ASSUME RowInv, NEW w \in Worker, NEW a \in Attempt,
         ClaimForRecovery(w, a) \/ ClaimNext(w, a)
  PROVE  RowInv' /\ Final
<1>d. CASE Die(w) /\ WorkerUnchanged
  BY <1>d, DiesQuietly
<1>c. SUFFICES ASSUME Writable(a) PROVE RowInv' /\ Final
  BY <1>d DEF ClaimForRecovery, ClaimNext, Claim
<1> DEFINE status == IF attempt[a].status = "queued" THEN "claimed" ELSE attempt[a].status
           fresh == (status = "claimed")
           r == [Blank("load") EXCEPT !.job = a, !.fresh = fresh]
           y == [attempt[a] EXCEPT !.status = status, !.owner = w, !.lease = "live"]
<1>0. TypeOK /\ attempt[a] \in AttemptRow /\ RowIsSound(attempt[a], evaluation[a])
  BY DEF RowInv, TypeOK, RowsAreSound
<1>1. /\ Claim(w, a, status)
      /\ status \in LeasedStatus
      /\ attempt[a].status \in {"queued"} \cup RecoveryStatus
      /\ status = "claimed" <=> attempt[a].status = "queued"
      /\ attempt[a].status # "queued" => status = attempt[a].status
  BY DEF ClaimForRecovery, ClaimNext, Recoverable, Claimable, RecoveryStatus, LeasedStatus
<1>2. r \in WorkerRecord /\ r.pc = "load" /\ r.job = a
  <2>1. fresh \in BOOLEAN
    OBVIOUS
  <2> HIDE DEF fresh
  <2> QED
    BY <2>1, ClaimedLocals
<1>3. /\ y \in AttemptRow /\ y.status = status /\ y.lease = "live"
      /\ y.prompt = attempt[a].prompt
  <2>1. status \in AttemptStatus
    BY <1>1, Statuses DEF LeasedStatus
  <2> QED
    BY <1>0, <2>1 DEF AttemptRow
<1>4. attempt' = [attempt EXCEPT ![a] = y] /\ worker' = [worker EXCEPT ![w] = r]
      /\ UNCHANGED <<evaluation, shot, project, revision>> /\ WorkerUnchanged
  BY <1>0, <1>1, <1>c DEF Claim, TypeOK
<1> HIDE DEF r, y
<1>5. /\ attempt' \in [Attempt -> AttemptRow] /\ attempt'[a] = y
      /\ \A b \in Attempt : b # a => attempt'[b] = attempt[b]
  BY <1>0, <1>3, <1>4 DEF TypeOK
<1>6. /\ attempt[a].status \in AttemptLive /\ y.status \in AttemptLive
      /\ evaluation[a] = "none"
  BY <1>0, <1>1, <1>3 DEF AttemptLive, LeasedStatus, RecoveryStatus, RowIsSound
<1>7. RowIsSound(y, evaluation[a]) /\ y.status # "absent"
  BY <1>0, <1>1, <1>3, <1>6 DEF RowIsSound, RecoveryStatus, AttemptLive, LeasedStatus
<1> QED
  BY <1>2, <1>3, <1>4, <1>5, <1>6, <1>7, Waits

(* The moves that lead to each status a worker writes. *)
LEMMA OnlyTo ==
  ASSUME NEW status \in AttemptStatus \cup {"absent"}
  PROVE  /\ CanMove(AttemptMoves, status, "submitting") /\ status # "absent" =>
              status = "claimed"
         /\ CanMove(AttemptMoves, status, "submitted") /\ status # "absent" =>
              status = "submitting"
         /\ \A code : CanMove(AttemptMoves, status, FailureStatus(code)) /\ status # "absent" =>
              status \in AttemptLive
<1>1. \A code : FailureStatus(code) \in {"failed", "timed_out", "cancelled"}
  BY DEF FailureStatus
<1> QED
  BY <1>1, Statuses DEF CanMove, AttemptMoves, AttemptLive, LeasedStatus

(* Reading the prompt id of the row on the way to the look at the history.  *)
LEMMA ReadsPrompt ==
  ASSUME RowInv, RestTypeOK', NEW w \in Worker, worker[w].pc \in Working,
         NEW pc \in {"intent", "lookup"},
         worker' = [worker EXCEPT ![w].pc = pc, ![w].prompt = Row(w).prompt],
         UNCHANGED <<attempt, evaluation, shot, project, jobs, posts>>
  PROVE  RowInv' /\ Final
<1> DEFINE r == [worker[w] EXCEPT !.pc = pc, !.prompt = Row(w).prompt]
<1>1. /\ worker[w] \in WorkerRecord /\ Job(w) = worker[w].job
      /\ worker \in [Worker -> WorkerRecord]
      /\ Row(w).prompt \in Post \cup {0}
  BY AtWork DEF AttemptRow
<1>2. /\ r \in WorkerRecord /\ r.pc = pc /\ r.prompt = Row(w).prompt /\ r.job = Job(w)
      /\ r.pc \in Working
  BY <1>1 DEF WorkerRecord, Locals, Working
<1>3. worker' = [worker EXCEPT ![w] = r]
  BY <1>1
<1> HIDE DEF r
<1>4. Recalls(r, Row(w), evaluation[Job(w)], jobs[Job(w)])
  BY <1>2, AtWork DEF Recalls
<1> QED
  BY <1>2, <1>3, <1>4, Locally

(* A row that stays alive under a shot that stays as it is. *)
LEMMA StaysAlive ==
  ASSUME RowInv, NEW w \in Worker, worker[w].pc \in Working, NEW x \in AttemptRow,
         attempt' = [attempt EXCEPT ![Job(w)] = x],
         Row(w).status \in AttemptLive, x.status \in AttemptLive,
         UNCHANGED <<shot, project>>
  PROVE  Together'
<1>1. \A b \in Attempt :
        /\ attempt'[b].status \in AttemptLive <=> attempt[b].status \in AttemptLive
        /\ attempt'[b].status = "awaiting_review" <=> attempt[b].status = "awaiting_review"
  BY AtWork DEF AttemptLive, LeasedStatus
<1> QED
  BY <1>1, TogetherStays

LEMMA Loads == ASSUME RowInv, NEW w \in Worker, Load(w) PROVE RowInv' /\ Final
<1>1. /\ worker[w].pc = "load" /\ worker[w].pc \in Working
      /\ UNCHANGED rows /\ WorkerUnchanged
  BY DEF Load, At, Working, Locals
<1>2. RestTypeOK' /\ UNCHANGED <<attempt, evaluation, shot, project, jobs, posts>>
  BY <1>1, Quietly
<1>3. CASE Step(w, "done")
  <2>1. "done" \in Working
    BY DEF Working, Locals
  <2>2. \A r \in WorkerRecord : r.pc = "done" =>
          Recalls(r, Row(w), evaluation[Job(w)], jobs[Job(w)])
    BY <1>1, AtWork, NothingRecalled
  <2> QED
    BY <1>1, <1>2, <1>3, <2>1, <2>2, GoesOn
<1>4. CASE StepFail(w, "CAPABILITY_DRIFT")
  BY <1>1, <1>2, <1>4, GoesToFail DEF FailureCode
<1>5. ASSUME NEW pc \in {"intent", "lookup"},
             worker' = [worker EXCEPT ![w].pc = pc, ![w].prompt = Row(w).prompt]
      PROVE  RowInv' /\ Final
  BY <1>1, <1>2, <1>5, ReadsPrompt
<1>6. (IF Row(w).status = "claimed" THEN "intent" ELSE "lookup") \in {"intent", "lookup"}
  OBVIOUS
<1> QED
  BY <1>3, <1>4, <1>5, <1>6 DEF Load

(* The durable intent.  The row may have been taken by another worker since *)
(* it was loaded.                                                           *)
LEMMA RecordsIntent == ASSUME RowInv, NEW w \in Worker, RecordIntent(w) PROVE RowInv' /\ Final
<1>1. worker[w].pc = "intent" /\ worker[w].pc \in Working /\ WorkerUnchanged
  BY DEF RecordIntent, At, Working, Locals
<1>2. CASE Die(w)
  BY <1>1, <1>2, DiesQuietly
<1>3. CASE /\ UNCHANGED rows
           /\ worker' = [worker EXCEPT ![w].pc = "lookup", ![w].prompt = Row(w).prompt]
  <2>1. RestTypeOK' /\ UNCHANGED <<attempt, evaluation, shot, project, jobs, posts>>
    BY <1>1, <1>3, Quietly
  <2> QED
    BY <1>1, <1>3, <2>1, ReadsPrompt
<1>4. ASSUME CanMove(AttemptMoves, Row(w).status, "submitting"),
             attempt' = [attempt EXCEPT ![Job(w)].status = "submitting",
                                        ![Job(w)].owner = w, ![Job(w)].lease = "live"],
             worker' = [worker EXCEPT ![w].pc = "lookup", ![w].prompt = Row(w).prompt],
             UNCHANGED <<evaluation, shot, project, revision>>
      PROVE  RowInv' /\ Final
  <2> DEFINE r == [worker[w] EXCEPT !.pc = "lookup", !.prompt = Row(w).prompt]
             x == [Row(w) EXCEPT !.status = "submitting", !.owner = w, !.lease = "live"]
  <2>1. /\ TypeOK /\ Job(w) \in Attempt /\ Row(w) \in AttemptRow /\ worker[w] \in WorkerRecord
        /\ Job(w) = worker[w].job /\ Row(w) = attempt[Job(w)]
        /\ RowIsSound(Row(w), evaluation[Job(w)])
        /\ evaluation[Job(w)] \in Verdict
    BY <1>1, AtWork
  <2>2. Row(w).status = "claimed"
    <3>1. Row(w).status \in AttemptStatus /\ Row(w).status # "absent"
      BY <1>1, AtWork
    <3> QED
      BY <1>4, <3>1, OnlyTo
  <2>3. /\ r \in WorkerRecord /\ r.pc = "lookup" /\ r.prompt = Row(w).prompt
        /\ r.job = Job(w) /\ r.pc \in Working
    <3>1. "lookup" \in Locals /\ "lookup" \in Working /\ Row(w).prompt \in Post \cup {0}
      BY <2>1 DEF Locals, Working, AttemptRow
    <3> QED
      BY <2>1, <3>1 DEF WorkerRecord
  <2>4. /\ x \in AttemptRow /\ x.status = "submitting" /\ x.lease = "live"
        /\ x.prompt = Row(w).prompt
    <3>1. "submitting" \in AttemptStatus
      BY Statuses
    <3> QED
      BY <2>1, <3>1 DEF AttemptRow
  <2>5. /\ attempt' = [attempt EXCEPT ![Job(w)] = x]
        /\ worker' = [worker EXCEPT ![w] = r]
        /\ evaluation' = [evaluation EXCEPT ![Job(w)] = evaluation[Job(w)]]
        /\ UNCHANGED <<jobs, posts>>
    BY <1>1, <1>4, <2>1 DEF TypeOK, WorkerUnchanged, outside
  <2>6. RestTypeOK'
    BY <1>1, <1>4, <2>1 DEF TypeOK, RestTypeOK, WorkerUnchanged, outside
  <2> HIDE DEF r, x
  <2>7. Row(w).prompt = 0 /\ evaluation[Job(w)] = "none"
    BY <2>1, <2>2 DEF RowIsSound, AttemptLive, LeasedStatus
  <2>8. Rewrites(Row(w), x, evaluation[Job(w)], evaluation[Job(w)], jobs[Job(w)])
    BY <2>2, <2>4, <2>7 DEF Rewrites, RowIsSound, LeasedStatus, AttemptTerminal
  <2>9. Recalls(r, x, evaluation[Job(w)], jobs[Job(w)])
    BY <2>3, <2>4 DEF Recalls
  <2>10. Base' /\ Final
    BY <1>1, <2>1, <2>3, <2>4, <2>5, <2>6, <2>8, <2>9, OnJob
  <2>11. Together'
    BY <1>1, <1>4, <2>1, <2>2, <2>4, <2>5, StaysAlive DEF AttemptLive, LeasedStatus
  <2> QED
    BY <2>10, <2>11, Parts
<1> QED
  BY <1>2, <1>3, <1>4 DEF RecordIntent

(* What the history lists of an attempt. *)
LEMMA Listed ==
  ASSUME TypeOK, NEW a \in Attempt, NEW p \in Post \cup {0}, NEW r \in Lookups(a, p)
  PROVE  /\ r.hist \in History /\ r.prompt \in Post \cup {0}
         /\ r.hist # "null" \/ p # 0 => r.prompt \in Post
         /\ p # 0 => r.prompt = p
         /\ r.hist = "success" => Delivered(jobs[a], r.prompt)
<1>1. \A k \in Post : /\ HistoryOf(a, k) \subseteq History
                      /\ "success" \in HistoryOf(a, k) => Delivered(jobs[a], k)
  BY DEF HistoryOf, History, Finished, Delivered, Post
<1>2. CASE p # 0
  BY <1>1, <1>2 DEF Lookups
<1>3. CASE p = 0
  <2> DEFINE none == [prompt |-> 0, hist |-> "null"]
  <2>1. r = none \/ (r.hist \in History \ {"null"} /\ r.prompt \in Post
                     /\ r.hist \in HistoryOf(a, r.prompt))
    BY <1>3 DEF Lookups
  <2>2. CASE r = none
    BY <1>3, <2>2 DEF History
  <2>3. CASE /\ r.hist \in History \ {"null"} /\ r.prompt \in Post
             /\ r.hist \in HistoryOf(a, r.prompt)
    BY <1>1, <1>3, <2>3
  <2> QED
    BY <2>1, <2>2, <2>3
<1> QED
  BY <1>2, <1>3

(* A prompt id and what the history said of it become the worker's. *)
LEMMA LearnsPrompt ==
  ASSUME RowInv, RestTypeOK', NEW w \in Worker, worker[w].pc \in Working,
         NEW pc \in {"adopt", "persist"}, NEW p \in Post, NEW h \in History,
         h = "success" => Delivered(jobs[Job(w)], p),
         worker' = [worker EXCEPT ![w].pc = pc, ![w].prompt = p, ![w].hist = h],
         UNCHANGED <<attempt, evaluation, shot, project, jobs, posts>>
  PROVE  RowInv' /\ Final
<1> DEFINE r == [worker[w] EXCEPT !.pc = pc, !.prompt = p, !.hist = h]
<1>1. worker[w] \in WorkerRecord /\ Job(w) = worker[w].job
      /\ worker \in [Worker -> WorkerRecord]
  BY AtWork
<1>2. /\ r \in WorkerRecord /\ r.pc = pc /\ r.prompt = p /\ r.hist = h /\ r.job = Job(w)
      /\ r.pc \in Working
  <2>1. pc \in Locals /\ pc \in Working
    BY DEF Locals, Working
  <2> QED
    BY <1>1, <2>1 DEF WorkerRecord
<1>3. worker' = [worker EXCEPT ![w] = r]
  BY <1>1
<1> HIDE DEF r
<1>4. p # 0
  BY DEF Post
<1>5. Recalls(r, Row(w), evaluation[Job(w)], jobs[Job(w)])
  BY <1>2, <1>4, AtWork DEF Recalls
<1> QED
  BY <1>2, <1>3, <1>5, Locally

(* Observing a prompt that is the row's. *)
LEMMA ObservingRecalls ==
  ASSUME NEW r \in WorkerRecord, NEW h, NEW row, NEW verdict, NEW sent,
         row.status # "absent", r.prompt # 0, row.prompt = r.prompt,
         h = "success" => Delivered(sent, r.prompt)
  PROVE  Recalls(Observing(r, h), row, verdict, sent)
<1> DEFINE o == Observing(r, h)
<1>1. o.prompt = r.prompt /\ o.pc \in {"done", "markrun", "fail", "stream"}
  BY ObservingFacts
<1>2. o.pc = "markrun" => h = "success"
  <2>1. "markrun" \notin {"done", "fail", "stream"}
    OBVIOUS
  <2>2. CASE r.stopping
    BY <2>2 DEF Observing, WorkerRecord
  <2>3. CASE ~r.stopping /\ h # "success"
    BY <2>3 DEF Observing, Failing, WorkerRecord
  <2> QED
    BY <2>2, <2>3
<1> HIDE DEF o
<1>3. Recalls(o, row, verdict, sent)
  BY <1>1, <1>2 DEF Recalls
<1> QED
  BY <1>3 DEF o

(* A recovered attempt whose id is known is observed, one that the history  *)
(* lists is adopted, and only a fresh one goes on to the POST.              *)
LEMMA LooksUp == ASSUME RowInv, NEW w \in Worker, LookUpHistory(w) PROVE RowInv' /\ Final
<1>1. worker[w].pc = "lookup" /\ worker[w].pc \in Working /\ WorkerUnchanged
  BY DEF LookUpHistory, At, Working, Locals
<1>2. CASE Die(w)
  BY <1>1, <1>2, DiesQuietly
<1>3. ASSUME UNCHANGED rows, NEW r \in Lookups(Job(w), worker[w].prompt),
             \/ StepFail(w, "COMFY_SUBMISSION_UNCERTAIN")
             \/ Step(w, IF Managed(Job(w)) THEN "validate" ELSE "post")
             \/ /\ r.hist # "null" /\ worker[w].prompt = 0
                /\ worker' = [worker EXCEPT ![w].pc = "adopt", ![w].prompt = r.prompt,
                                            ![w].hist = r.hist]
             \/ /\ r.hist # "null" /\ worker[w].prompt # 0
                /\ worker' = [worker EXCEPT ![w] = Observing(@, r.hist)]
      PROVE  RowInv' /\ Final
  <2>1. RestTypeOK' /\ UNCHANGED <<attempt, evaluation, shot, project, jobs, posts>>
    BY <1>1, <1>3, Quietly
  <2>2. /\ TypeOK /\ Job(w) \in Attempt /\ worker[w] \in WorkerRecord
        /\ worker[w].prompt \in Post \cup {0} /\ Row(w).status # "absent"
        /\ worker \in [Worker -> WorkerRecord] /\ Job(w) = worker[w].job
        /\ worker[w].prompt \in {0, Row(w).prompt}
    BY <1>1, AtWork DEF WorkerRecord, Recalls
  <2>3. /\ r.hist \in History /\ r.prompt \in Post \cup {0}
        /\ r.hist # "null" \/ worker[w].prompt # 0 => r.prompt \in Post
        /\ worker[w].prompt # 0 => r.prompt = worker[w].prompt
        /\ r.hist = "success" => Delivered(jobs[Job(w)], r.prompt)
    BY <2>2, Listed
  <2>4. CASE StepFail(w, "COMFY_SUBMISSION_UNCERTAIN")
    BY <1>1, <2>1, <2>4, GoesToFail DEF FailureCode
  <2>5. CASE Step(w, IF Managed(Job(w)) THEN "validate" ELSE "post")
    <3>1. PICK pc \in {"validate", "post"} : Step(w, pc)
      BY <2>5
    <3>2. pc \in Working
      BY DEF Working, Locals
    <3>3. \A o \in WorkerRecord : o.pc = pc =>
            Recalls(o, Row(w), evaluation[Job(w)], jobs[Job(w)])
      BY <2>2, NothingRecalled
    <3> QED
      BY <1>1, <2>1, <3>1, <3>2, <3>3, GoesOn
  <2>6. CASE /\ r.hist # "null" /\ worker[w].prompt = 0
             /\ worker' = [worker EXCEPT ![w].pc = "adopt", ![w].prompt = r.prompt,
                                         ![w].hist = r.hist]
    BY <1>1, <2>1, <2>3, <2>6, LearnsPrompt
  <2>7. CASE /\ r.hist # "null" /\ worker[w].prompt # 0
             /\ worker' = [worker EXCEPT ![w] = Observing(@, r.hist)]
    <3> DEFINE o == Observing(worker[w], r.hist)
    <3>1. /\ o \in WorkerRecord /\ o.job = Job(w)
          /\ o.pc \in {"done", "markrun", "fail", "stream"}
      BY <2>2, ObservingFacts
    <3>2. Recalls(o, Row(w), evaluation[Job(w)], jobs[Job(w)])
      BY <2>2, <2>3, <2>7, ObservingRecalls
    <3>3. worker' = [worker EXCEPT ![w] = o]
      BY <2>7
    <3> HIDE DEF o
    <3>4. o.pc \in Working
      BY <3>1 DEF Working, Locals
    <3> QED
      BY <1>1, <2>1, <3>1, <3>2, <3>3, <3>4, Locally
  <2> QED
    BY <1>3, <2>4, <2>5, <2>6, <2>7
<1> QED
  BY <1>2, <1>3 DEF LookUpHistory

LEMMA Revalidates == ASSUME RowInv, NEW w \in Worker, Revalidate(w) PROVE RowInv' /\ Final
<1>1. /\ worker[w].pc = "validate" /\ worker[w].pc \in Working /\ WorkerUnchanged
      /\ UNCHANGED <<attempt, evaluation, shot, project>>
  BY DEF Revalidate, At, Working, Locals
<1>2. revision' \in [Shot -> {"none", "validated", "invalid"}]
  BY DEF Revalidate, RowInv, TypeOK
<1>3. RestTypeOK' /\ UNCHANGED <<jobs, posts>>
  BY <1>1, <1>2 DEF RowInv, TypeOK, RestTypeOK, WorkerUnchanged, outside
<1>4. CASE Step(w, "post")
  <2>1. "post" \in Working
    BY DEF Working, Locals
  <2>2. \A o \in WorkerRecord : o.pc = "post" =>
          Recalls(o, Row(w), evaluation[Job(w)], jobs[Job(w)])
    BY <1>1, AtWork, NothingRecalled
  <2> QED
    BY <1>1, <1>3, <1>4, <2>1, <2>2, GoesOn
<1>5. CASE StepFail(w, "CAPABILITY_DRIFT")
  BY <1>1, <1>3, <1>5, GoesToFail DEF FailureCode
<1> QED
  BY <1>4, <1>5 DEF Revalidate

(* The POST.  What was sent before stays with the executor as it is. *)
LEMMA Posts == ASSUME RowInv, NEW w \in Worker, PostPrompt(w) PROVE RowInv' /\ Final
<1> DEFINE a == Job(w)
           n == posts[a] + 1
           r == [worker[w] EXCEPT !.pc = "await", !.prompt = n]
<1>1. /\ worker[w].pc = "post" /\ worker[w].pc \in Working
      /\ posts[a] < MaxPosts /\ posts' = [posts EXCEPT ![a] = @ + 1]
      /\ jobs' = [jobs EXCEPT ![a][n] = "transit"]
      /\ worker' = [worker EXCEPT ![w].pc = "await", ![w].prompt = n]
      /\ UNCHANGED <<attempt, evaluation, shot, project, revision, executor, stalled, faults>>
  BY DEF PostPrompt, At, Working, Locals, rows
<1>2. /\ TypeOK /\ a \in Attempt /\ worker[w] \in WorkerRecord /\ a = worker[w].job
      /\ worker \in [Worker -> WorkerRecord] /\ posts[a] \in 0 .. MaxPosts
      /\ Row(w) = attempt[a] /\ Row(w).status # "absent"
  BY <1>1, AtWork
<1>3. n \in Post /\ n # 0 /\ posts[a] \in Nat
  BY <1>1, <1>2 DEF Post
<1>4. /\ r \in WorkerRecord /\ r.pc = "await" /\ r.prompt = n /\ r.job = a
      /\ worker' = [worker EXCEPT ![w] = r]
  <2>1. "await" \in Locals
    BY DEF Locals
  <2> HIDE DEF n, a
  <2> QED
    BY <1>1, <1>2, <1>3, <2>1 DEF WorkerRecord
<1>5. /\ posts' \in [Attempt -> 0 .. MaxPosts] /\ posts'[a] = n
      /\ \A b \in Attempt : b # a => posts'[b] = posts[b]
  BY <1>1, <1>2, <1>3 DEF TypeOK, Post
<1> HIDE DEF n, r, a
<1>6. /\ jobs' \in [Attempt -> [Post -> JobState]]
      /\ jobs'[a][n] = "transit"
      /\ \A b \in Attempt, k \in Post : b # a \/ k # n => jobs'[b][k] = jobs[b][k]
  BY <1>1, <1>2, <1>3 DEF TypeOK, JobState
<1>7. TypeOK'
  <2>1. worker' \in [Worker -> WorkerRecord]
    BY <1>2, <1>4
  <2>2. posts' \in [Attempt -> 0 .. MaxPosts] /\ jobs' \in [Attempt -> [Post -> JobState]]
    BY <1>5, <1>6
  <2> QED
    BY <1>1, <1>2, <2>1, <2>2 DEF TypeOK
<1>8. ASSUME NEW b \in Attempt, NEW k \in Post
      PROVE  /\ jobs[b][k] \in {"success", "lost"} => jobs'[b][k] \in {"success", "lost"}
             /\ k > posts'[b] => jobs'[b][k] = "unsent"
  <2>1. k > posts[b] => jobs[b][k] = "unsent"
    BY DEF RowInv, RowsAreSound
  <2>2. CASE b = a /\ k = n
    BY <1>2, <1>3, <1>5, <2>1, <2>2 DEF n, Post
  <2>3. CASE b = a /\ k # n
    BY <1>2, <1>3, <1>5, <1>6, <2>1, <2>3 DEF n, Post
  <2>4. CASE b # a
    BY <1>5, <1>6, <2>1, <2>4
  <2> QED
    BY <2>2, <2>3, <2>4
<1>9. "await" \in Working
  BY DEF Working, Locals
<1>10. Recalls(r, attempt'[a], evaluation'[a], jobs'[a])
  BY <1>1, <1>2, <1>3, <1>4 DEF Recalls
<1>11. \A v \in Worker :
        \/ worker'[v] = worker[v]
        \/ /\ worker'[v].pc \in Working /\ worker'[v].job \in Attempt
           /\ Recalls(worker'[v], attempt'[worker'[v].job],
                      evaluation'[worker'[v].job], jobs'[worker'[v].job])
  BY <1>2, <1>4, <1>9, <1>10
<1>12. Base' /\ Final
  BY <1>1, <1>7, <1>8, <1>11, Keeps
<1>13. Together'
  BY <1>1, TogetherStays
<1> QED
  BY <1>12, <1>13, Parts

(* From the answer, or the lack of one, to the persisted prompt id. *)
LEMMA HearsAnswer ==
  ASSUME RowInv, NEW w \in Worker, ReceiveAnswer(w) \/ LoseAnswer(w)
  PROVE  RowInv' /\ Final
<1>1. /\ worker[w].pc = "await" /\ worker[w].pc \in Working
      /\ UNCHANGED rows /\ WorkerUnchanged
  BY DEF ReceiveAnswer, LoseAnswer, At, Working, Locals
<1>2. RestTypeOK' /\ UNCHANGED <<attempt, evaluation, shot, project, jobs, posts>>
  BY <1>1, Quietly
<1>3. /\ worker[w] \in WorkerRecord /\ worker[w].prompt # 0 /\ Row(w).status # "absent"
      /\ worker \in [Worker -> WorkerRecord] /\ Job(w) = worker[w].job
  BY <1>1, AtWork DEF Recalls
<1>4. CASE Step(w, "readback")
  <2>1. "readback" \in Working
    BY DEF Working, Locals
  <2>2. \A o \in WorkerRecord : o.pc = "readback" /\ o.prompt = worker[w].prompt =>
          Recalls(o, Row(w), evaluation[Job(w)], jobs[Job(w)])
    BY <1>3 DEF Recalls
  <2> QED
    BY <1>1, <1>2, <1>4, <2>1, <2>2, GoesOn
<1>5. CASE StepFail(w, "COMFY_UNAVAILABLE")
  BY <1>1, <1>2, <1>5, GoesToFail DEF FailureCode
<1>6. CASE worker' = [worker EXCEPT ![w].pc = "reconcile", ![w].prompt = 0]
  <2> DEFINE r == [worker[w] EXCEPT !.pc = "reconcile", !.prompt = 0]
  <2>1. /\ r \in WorkerRecord /\ r.pc = "reconcile" /\ r.job = Job(w)
        /\ worker' = [worker EXCEPT ![w] = r] /\ r.pc \in Working
    BY <1>3, <1>6 DEF WorkerRecord, Locals, Working
  <2> HIDE DEF r
  <2>2. Recalls(r, Row(w), evaluation[Job(w)], jobs[Job(w)])
    BY <1>3, <2>1, NothingRecalled
  <2> QED
    BY <1>1, <1>2, <2>1, <2>2, Locally
<1> QED
  BY <1>4, <1>5, <1>6 DEF ReceiveAnswer, LoseAnswer

LEMMA ReadsBack == ASSUME RowInv, NEW w \in Worker, ReadBack(w) PROVE RowInv' /\ Final
<1>1. /\ worker[w].pc = "readback" /\ worker[w].pc \in Working
      /\ UNCHANGED rows /\ UNCHANGED outside
  BY DEF ReadBack, At, Working, Locals
<1>2. faults' \in 0 .. MaxFaults
  BY DEF ReadBack, Fault, RowInv, TypeOK
<1>3. RestTypeOK' /\ UNCHANGED <<attempt, evaluation, shot, project, jobs, posts>>
  BY <1>1, <1>2 DEF RowInv, TypeOK, RestTypeOK, rows, outside
<1>4. /\ worker[w] \in WorkerRecord /\ worker[w].prompt # 0 /\ TypeOK
      /\ worker[w].prompt \in Post \cup {0} /\ Job(w) \in Attempt
      /\ worker \in [Worker -> WorkerRecord]
  BY <1>1, AtWork DEF Recalls, WorkerRecord
<1>5. ASSUME NEW r \in Lookups(Job(w), worker[w].prompt),
             worker' = [worker EXCEPT ![w].pc = "persist", ![w].hist = r.hist]
      PROVE  RowInv' /\ Final
  <2>1. /\ r.hist \in History /\ r.prompt \in Post /\ r.prompt = worker[w].prompt
        /\ r.hist = "success" => Delivered(jobs[Job(w)], r.prompt)
    BY <1>4, Listed
  <2> DEFINE o == [worker[w] EXCEPT !.pc = "persist", !.hist = r.hist]
  <2>2. "persist" \in Locals /\ "persist" \in Working /\ Job(w) = worker[w].job
    BY DEF Locals, Working, Job
  <2>3. /\ o \in WorkerRecord /\ o.pc = "persist" /\ o.prompt = worker[w].prompt
        /\ o.hist = r.hist /\ o.job = Job(w) /\ worker' = [worker EXCEPT ![w] = o]
    BY <1>4, <1>5, <2>1, <2>2 DEF WorkerRecord
  <2> HIDE DEF o
  <2>4. Recalls(o, Row(w), evaluation[Job(w)], jobs[Job(w)])
    BY <1>1, <1>4, <2>1, <2>3, AtWork DEF Recalls
  <2> QED
    BY <1>1, <1>3, <2>2, <2>3, <2>4, Locally
<1>6. CASE StepFail(w, "COMFY_UNAVAILABLE")
  BY <1>1, <1>3, <1>6, GoesToFail DEF FailureCode
<1> QED
  BY <1>5, <1>6 DEF ReadBack

LEMMA Reconciles ==
  ASSUME RowInv, NEW w \in Worker, ReconcileUncertain(w) PROVE RowInv' /\ Final
<1>1. worker[w].pc = "reconcile" /\ worker[w].pc \in Working /\ WorkerUnchanged
  BY DEF ReconcileUncertain, At, Working, Locals
<1>2. CASE Die(w)
  BY <1>1, <1>2, DiesQuietly
<1>3. ASSUME UNCHANGED rows, NEW r \in Lookups(Job(w), 0),
             IF r.hist = "null"
             THEN StepFail(w, "COMFY_SUBMISSION_UNCERTAIN")
             ELSE worker' = [worker EXCEPT ![w].pc = "adopt", ![w].prompt = r.prompt,
                                           ![w].hist = r.hist]
      PROVE  RowInv' /\ Final
  <2>1. RestTypeOK' /\ UNCHANGED <<attempt, evaluation, shot, project, jobs, posts>>
    BY <1>1, <1>3, Quietly
  <2>2. /\ r.hist \in History
        /\ r.hist # "null" => r.prompt \in Post
        /\ r.hist = "success" => Delivered(jobs[Job(w)], r.prompt)
    BY <1>1, <1>3, AtWork, Listed
  <2>3. CASE StepFail(w, "COMFY_SUBMISSION_UNCERTAIN")
    BY <1>1, <2>1, <2>3, GoesToFail DEF FailureCode
  <2>4. CASE /\ r.hist # "null"
             /\ worker' = [worker EXCEPT ![w].pc = "adopt", ![w].prompt = r.prompt,
                                         ![w].hist = r.hist]
    BY <1>1, <2>1, <2>2, <2>4, LearnsPrompt
  <2> QED
    BY <1>3, <2>3, <2>4
<1> QED
  BY <1>2, <1>3 DEF ReconcileUncertain

(* The prompt id is recorded once, with the submission. *)
LEMMA PersistsSubmitted ==
  ASSUME RowInv, NEW w \in Worker, worker[w].pc \in {"persist", "adopt"},
         PersistSubmitted(w), WorkerUnchanged
  PROVE  RowInv' /\ Final
<1> DEFINE a == Job(w)
           p == worker[w].prompt
           o == Observing(worker[w], worker[w].hist)
           x == [Row(w) EXCEPT !.status = "submitted", !.prompt = p]
<1>1. worker[w].pc \in Working
  BY DEF Working, Locals
<1>2. /\ TypeOK /\ a \in Attempt /\ worker[w] \in WorkerRecord /\ a = worker[w].job
      /\ Row(w) = attempt[a] /\ Row(w) \in AttemptRow
      /\ attempt \in [Attempt -> AttemptRow] /\ worker \in [Worker -> WorkerRecord]
      /\ evaluation[a] \in Verdict /\ evaluation \in [Attempt -> Verdict]
      /\ RowIsSound(Row(w), evaluation[a])
      /\ Row(w).status # "absent" /\ Row(w).status \in AttemptStatus
  BY <1>1, AtWork
<1>3. /\ p # 0 /\ p \in Post
      /\ worker[w].hist = "success" => Delivered(jobs[a], p)
  <2>1. Recalls(worker[w], Row(w), evaluation[a], jobs[a])
    BY <1>1, AtWork
  <2>2. p # 0 /\ p \in Post \cup {0}
    BY <1>2, <2>1 DEF Recalls, WorkerRecord
  <2> QED
    BY <2>1, <2>2 DEF Recalls
<1>4. /\ o \in WorkerRecord /\ o.job = a /\ o.pc \in Working
      /\ worker' = [worker EXCEPT ![w] = o]
      /\ UNCHANGED <<evaluation, shot, project, revision, jobs, posts, executor, stalled, faults>>
  <2>1. o \in WorkerRecord /\ o.job = a /\ o.pc \in {"done", "markrun", "fail", "stream"}
    BY <1>2, ObservingFacts
  <2> QED
    BY <2>1 DEF Working, Locals, PersistSubmitted, WorkerUnchanged, outside
<1>5. RestTypeOK'
  BY <1>2, <1>4 DEF TypeOK, RestTypeOK
<1>6. CASE UNCHANGED attempt /\ Row(w).prompt = p
  <2>1. Recalls(o, Row(w), evaluation[a], jobs[a])
    BY <1>2, <1>3, <1>6, ObservingRecalls
  <2> HIDE DEF o
  <2> QED
    BY <1>1, <1>4, <1>5, <1>6, <2>1, Locally
<1>7. CASE /\ CanMove(AttemptMoves, Row(w).status, "submitted")
           /\ attempt' = [attempt EXCEPT ![a].status = "submitted", ![a].prompt = p]
  <2>1. Row(w).status = "submitting"
    BY <1>2, <1>7, OnlyTo
  <2>2. Row(w).prompt = 0 /\ evaluation[a] = "none"
    BY <1>2, <2>1 DEF RowIsSound, AttemptLive, LeasedStatus
  <2>3. /\ x \in AttemptRow /\ x.status = "submitted" /\ x.prompt = p
        /\ x.lease = Row(w).lease
    <3>1. "submitted" \in AttemptStatus
      BY Statuses
    <3> QED
      BY <1>2, <1>3, <3>1 DEF AttemptRow
  <2>4. attempt' = [attempt EXCEPT ![a] = x]
        /\ evaluation' = [evaluation EXCEPT ![a] = evaluation[a]]
    BY <1>2, <1>4, <1>7
  <2>5. Recalls(o, x, evaluation[a], jobs[a])
    BY <1>2, <1>3, <2>3, ObservingRecalls
  <2> HIDE DEF o, x, p
  <2>6. Rewrites(Row(w), x, evaluation[a], evaluation[a], jobs[a])
    BY <1>2, <2>1, <2>2, <2>3 DEF Rewrites, RowIsSound, LeasedStatus, AttemptTerminal
  <2>7. Base' /\ Final
    BY <1>1, <1>2, <1>4, <1>5, <2>3, <2>4, <2>5, <2>6, OnJob
  <2>8. Together'
    BY <1>1, <1>4, <2>1, <2>3, <2>4, StaysAlive DEF AttemptLive, LeasedStatus
  <2> QED
    BY <2>7, <2>8, Parts
<1> QED
  BY <1>6, <1>7 DEF PersistSubmitted

LEMMA Persists == ASSUME RowInv, NEW w \in Worker, Persist(w) PROVE RowInv' /\ Final
<1>1. worker[w].pc = "persist" /\ worker[w].pc \in Working /\ UNCHANGED outside
  BY DEF Persist, At, Working, Locals
<1>2. CASE PersistSubmitted(w) /\ UNCHANGED faults
  BY <1>1, <1>2, PersistsSubmitted DEF WorkerUnchanged
<1>3. CASE StepFail(w, "COMFY_UNAVAILABLE") /\ UNCHANGED rows /\ faults' \in 0 .. MaxFaults
  <2>1. RestTypeOK' /\ UNCHANGED <<attempt, evaluation, shot, project, jobs, posts>>
    BY <1>1, <1>3 DEF RowInv, TypeOK, RestTypeOK, rows, outside
  <2> QED
    BY <1>1, <1>3, <2>1, GoesToFail DEF FailureCode
<1>4. Fault \/ UNCHANGED faults => faults' \in 0 .. MaxFaults
  BY DEF Fault, RowInv, TypeOK
<1> QED
  BY <1>2, <1>3, <1>4 DEF Persist

LEMMA Adopts == ASSUME RowInv, NEW w \in Worker, Adopt(w) PROVE RowInv' /\ Final
BY PersistsSubmitted, DiesQuietly DEF Adopt, At

(* markRunning: a row that was submitted, and its shot, are seen running.   *)
LEMMA MarksRunning ==
  ASSUME RowInv, NEW w \in Worker,
         NEW pc \in {"stream", "finish"},
         worker[w].pc = IF pc = "finish" THEN "markrun" ELSE "stream",
         MarkRunning(w, pc), WorkerUnchanged
  PROVE  RowInv' /\ Final
<1> DEFINE a == Job(w)
           s == ShotOf[a]
           r == [worker[w] EXCEPT !.pc = pc]
           x == [Row(w) EXCEPT !.status = "running"]
           z == IF shot[s].status = "queued" THEN "generating" ELSE shot[s].status
<1>1. worker[w].pc \in Working /\ pc \in Working /\ pc \in Locals
  BY DEF Working, Locals
<1>2. /\ TypeOK /\ a \in Attempt /\ s \in Shot /\ worker[w] \in WorkerRecord
      /\ a = worker[w].job
      /\ Row(w) = attempt[a] /\ Row(w) \in AttemptRow
      /\ attempt \in [Attempt -> AttemptRow] /\ worker \in [Worker -> WorkerRecord]
      /\ evaluation[a] \in Verdict /\ evaluation \in [Attempt -> Verdict]
      /\ RowIsSound(Row(w), evaluation[a])
      /\ Recalls(worker[w], Row(w), evaluation[a], jobs[a])
  BY <1>1, AtWork
<1>3. /\ r \in WorkerRecord /\ r.pc = pc /\ r.prompt = worker[w].prompt /\ r.job = a
  BY <1>1, <1>2 DEF WorkerRecord
<1> HIDE DEF r
<1>4. Recalls(r, Row(w), evaluation[a], jobs[a])
  BY <1>2, <1>3, StillRecalled
<1>5. CASE Die(w)
  BY <1>5, DiesQuietly
<1>6. CASE Step(w, pc) /\ UNCHANGED rows
  <2>1. RestTypeOK' /\ UNCHANGED <<attempt, evaluation, shot, project, jobs, posts>>
    BY <1>6, Quietly
  <2>2. worker' = [worker EXCEPT ![w] = r]
    BY <1>2, <1>6 DEF Step, r
  <2> QED
    BY <1>1, <1>3, <1>4, <2>1, <2>2, Locally
<1>7. ASSUME Row(w).status \in {"queued", "submitted"},
             attempt' = [attempt EXCEPT ![a].status = "running"],
             shot' = [shot EXCEPT ![s].status = IF @ = "queued" THEN "generating" ELSE @],
             Step(w, pc), UNCHANGED <<evaluation, project, revision>>
      PROVE  RowInv' /\ Final
  <2>1. /\ Row(w).prompt = worker[w].prompt /\ worker[w].prompt # 0
        /\ Row(w).status = "submitted"
    BY <1>2, <1>7 DEF Recalls, RowIsSound
  <2>2. /\ x \in AttemptRow /\ x.status = "running" /\ x.prompt = Row(w).prompt
        /\ x.lease = Row(w).lease
    <3>1. "running" \in AttemptStatus
      BY Statuses
    <3> QED
      BY <1>2, <3>1 DEF AttemptRow
  <2>3. /\ attempt' = [attempt EXCEPT ![a] = x]
        /\ evaluation' = [evaluation EXCEPT ![a] = evaluation[a]]
        /\ worker' = [worker EXCEPT ![w] = r]
        /\ shot' = [shot EXCEPT ![s].status = z]
        /\ UNCHANGED <<jobs, posts, executor, stalled, faults>>
    BY <1>2, <1>7 DEF Step, r, WorkerUnchanged, outside
  <2>4. z \in {"absent"} \cup ShotStatus /\ "generating" \in ShotStatus
    BY <1>2, Statuses DEF TypeOK
  <2> HIDE DEF x, z, s, a
  <2>5. shot' \in [Shot -> [status   : {"absent"} \cup ShotStatus,
                            accepted : Attempt \cup {NoAttempt}]]
    BY <1>2, <2>3, <2>4, ShotUpdate DEF TypeOK
  <2>6. RestTypeOK'
    BY <1>2, <1>7, <2>3, <2>5 DEF TypeOK, RestTypeOK
  <2>7. evaluation[a] = "none"
    BY <1>2, <2>1 DEF RowIsSound, AttemptLive, LeasedStatus
  <2>8. Rewrites(Row(w), x, evaluation[a], evaluation[a], jobs[a])
    BY <1>2, <2>1, <2>2, <2>7 DEF Rewrites, RowIsSound, LeasedStatus, AttemptTerminal
  <2>9. Recalls(r, x, evaluation[a], jobs[a])
    BY <1>2, <1>3, <1>4, <2>1, <2>2, <2>7, RecallsStays
  <2>10. Base' /\ Final
    BY <1>1, <1>2, <1>3, <2>2, <2>3, <2>6, <2>8, <2>9, OnJob DEF a
  <2>11. \A b \in Attempt :
          /\ attempt'[b].status \in AttemptLive <=> attempt[b].status \in AttemptLive
          /\ attempt'[b].status = "awaiting_review" <=> attempt[b].status = "awaiting_review"
    BY <1>2, <2>1, <2>2, <2>3 DEF AttemptLive, LeasedStatus
  <2>12. \A q \in Shot :
          \/ shot'[q].status = shot[q].status
          \/ /\ shot[q].status = "queued" /\ shot'[q].status = "generating"
             /\ \E b \in Attempt : ShotOf[b] = q /\ attempt[b].status \in AttemptLive
    <3>1. attempt[a].status \in AttemptLive
      BY <1>2, <2>1 DEF AttemptLive, LeasedStatus
    <3>2. \A q \in Shot : shot'[q].status = IF q = s THEN z ELSE shot[q].status
      BY <1>2, <2>3 DEF TypeOK
    <3> QED
      BY <1>2, <3>1, <3>2 DEF z, s
  <2>13. Together'
    BY <1>7, <2>11, <2>12, TogetherStays
  <2> QED
    BY <2>10, <2>13, Parts
<1> QED
  BY <1>5, <1>6, <1>7 DEF MarkRunning

(* The observation of a prompt, by its stream and by the history. *)
LEMMA Observes ==
  ASSUME RowInv, NEW w \in Worker,
         \/ StreamStarted(w) \/ StreamEnded(w) \/ StreamAborted(w)
         \/ StreamDisconnected(w) \/ PollHistory(w)
  PROVE  RowInv' /\ Final
<1>1. /\ worker[w].pc \in {"stream", "history"} /\ worker[w].pc \in Working
      /\ WorkerUnchanged
  BY DEF StreamStarted, StreamEnded, StreamAborted, StreamDisconnected, PollHistory,
         At, Working, Locals
<1>2. CASE StreamStarted(w)
  BY <1>2, MarksRunning DEF StreamStarted, At
<1>3. CASE Die(w)
  BY <1>1, <1>3, DiesQuietly
<1>4. ASSUME UNCHANGED rows,
             \/ /\ Observed(w) = "success" /\ Step(w, "finish")
             \/ Step(w, "done")
             \/ worker[w].pc = "stream" /\ Step(w, "history")
             \/ \E code \in FailureCode : StepFail(w, code)
      PROVE  RowInv' /\ Final
  <2>1. RestTypeOK' /\ UNCHANGED <<attempt, evaluation, shot, project, jobs, posts>>
    BY <1>1, <1>4, Quietly
  <2>2. /\ Recalls(worker[w], Row(w), evaluation[Job(w)], jobs[Job(w)])
        /\ Row(w).status # "absent"
    BY <1>1, AtWork
  <2>3. "finish" \in Working /\ "done" \in Working /\ "history" \in Working
    BY DEF Working, Locals
  <2>4. CASE Observed(w) = "success" /\ Step(w, "finish")
    <3>1. \A o \in WorkerRecord : o.pc = "finish" /\ o.prompt = worker[w].prompt =>
            Recalls(o, Row(w), evaluation[Job(w)], jobs[Job(w)])
      BY <1>1, <2>2, <2>4, StillRecalled DEF Observed
    <3> QED
      BY <1>1, <2>1, <2>3, <2>4, <3>1, GoesOn
  <2>5. CASE Step(w, "done")
    <3>1. \A o \in WorkerRecord : o.pc = "done" =>
            Recalls(o, Row(w), evaluation[Job(w)], jobs[Job(w)])
      BY <2>2, NothingRecalled
    <3> QED
      BY <1>1, <2>1, <2>3, <2>5, <3>1, GoesOn
  <2>6. CASE Step(w, "history")
    <3>1. \A o \in WorkerRecord : o.pc = "history" /\ o.prompt = worker[w].prompt =>
            Recalls(o, Row(w), evaluation[Job(w)], jobs[Job(w)])
      BY <1>1, <2>2, StillRecalled
    <3> QED
      BY <1>1, <2>1, <2>3, <2>6, <3>1, GoesOn
  <2>7. CASE \E code \in FailureCode : StepFail(w, code)
    BY <1>1, <2>1, <2>7, GoesToFail
  <2> QED
    BY <1>4, <2>4, <2>5, <2>6, <2>7
<1>5. /\ "COMFY_EXECUTION_FAILED" \in FailureCode /\ "COMFY_INTERRUPTED" \in FailureCode
      /\ "GENERATION_TIMEOUT" \in FailureCode
  BY DEF FailureCode
<1>6. CASE StreamEnded(w)
  BY <1>4, <1>5, <1>6 DEF StreamEnded
<1>7. CASE StreamAborted(w)
  BY <1>4, <1>5, <1>7 DEF StreamAborted
<1>8. CASE StreamDisconnected(w)
  BY <1>4, <1>8 DEF StreamDisconnected, At
<1>9. CASE PollHistory(w)
  BY <1>3, <1>4, <1>5, <1>9 DEF PollHistory
<1> QED
  BY <1>2, <1>6, <1>7, <1>8, <1>9

LEMMA Finishes == ASSUME RowInv, NEW w \in Worker, Finish(w) PROVE RowInv' /\ Final
<1>1. /\ worker[w].pc = "finish" /\ worker[w].pc \in Working
      /\ UNCHANGED rows /\ WorkerUnchanged
  BY DEF Finish, At, Working, Locals
<1>2. RestTypeOK' /\ UNCHANGED <<attempt, evaluation, shot, project, jobs, posts>>
  BY <1>1, Quietly
<1>3. /\ Recalls(worker[w], Row(w), evaluation[Job(w)], jobs[Job(w)])
      /\ Row(w).status # "absent"
  BY <1>1, AtWork
<1>4. PICK pc \in {"done", "ingest"} : Step(w, pc)
  BY DEF Finish
<1>5. pc \in Working
  BY DEF Working, Locals
<1>6. \A o \in WorkerRecord : o.pc = pc /\ o.prompt = worker[w].prompt =>
        Recalls(o, Row(w), evaluation[Job(w)], jobs[Job(w)])
  BY <1>1, <1>3, NothingRecalled, StillRecalled
<1> QED
  BY <1>1, <1>2, <1>4, <1>5, <1>6, GoesOn

(* The verdict, found in the rows or reached now. *)
LEMMA Ingests == ASSUME RowInv, NEW w \in Worker, Ingest(w) PROVE RowInv' /\ Final
<1> DEFINE known == evaluation[Job(w)] # "none"
<1>1. /\ worker[w].pc = "ingest" /\ worker[w].pc \in Working
      /\ UNCHANGED rows /\ WorkerUnchanged
  BY DEF Ingest, At, Working, Locals
<1>2. RestTypeOK' /\ UNCHANGED <<attempt, evaluation, shot, project, jobs, posts>>
  BY <1>1, Quietly
<1>3. /\ Recalls(worker[w], Row(w), evaluation[Job(w)], jobs[Job(w)])
      /\ worker[w] \in WorkerRecord /\ Job(w) = worker[w].job
      /\ worker \in [Worker -> WorkerRecord]
      /\ evaluation[Job(w)] \in Verdict
  BY <1>1, AtWork
<1>4. ASSUME NEW v \in {"passed", "failed"}, NEW b \in BOOLEAN, b <=> known,
             worker' = [worker EXCEPT ![w].pc = "commit", ![w].stored = b,
                                      ![w].verdict = v]
      PROVE  RowInv' /\ Final
  <2> DEFINE r == [worker[w] EXCEPT !.pc = "commit", !.stored = b, !.verdict = v]
  <2>1. "commit" \in Locals /\ "commit" \in Working
    BY DEF Locals, Working
  <2>2. /\ r \in WorkerRecord /\ r.pc = "commit" /\ r.prompt = worker[w].prompt
        /\ r.stored = b /\ r.verdict = v /\ r.job = Job(w)
        /\ worker' = [worker EXCEPT ![w] = r]
    BY <1>3, <1>4, <2>1 DEF WorkerRecord
  <2> HIDE DEF r
  <2>3. Recalls(r, Row(w), evaluation[Job(w)], jobs[Job(w)])
    BY <1>1, <1>3, <1>4, <2>2 DEF Recalls
  <2> QED
    BY <1>1, <1>2, <2>1, <2>2, <2>3, Locally
<1>5. CASE \/ StepFail(w, "ARTIFACT_DOWNLOAD_FAILED")
           \/ StepFail(w, "ARTIFACT_STORAGE_FAILED")
  BY <1>1, <1>2, <1>5, GoesToFail DEF FailureCode
<1>6. known => evaluation[Job(w)] \in {"passed", "failed"}
  BY <1>3 DEF Verdict
<1>7. known \in BOOLEAN
  OBVIOUS
<1>8. \/ known /\ worker' = [worker EXCEPT ![w].pc = "commit", ![w].stored = known,
                                          ![w].verdict = evaluation[Job(w)]]
      \/ \E v \in {"passed", "failed"} :
           worker' = [worker EXCEPT ![w].pc = "commit", ![w].stored = known,
                                    ![w].verdict = v]
      \/ StepFail(w, "ARTIFACT_DOWNLOAD_FAILED") \/ StepFail(w, "ARTIFACT_STORAGE_FAILED")
  BY DEF Ingest
<1> HIDE DEF known
<1> QED
  BY <1>4, <1>5, <1>6, <1>7, <1>8

(* An attempt that is in nobody's hands any more leaves its shot free. *)
LEMMA TogetherEnds ==
  ASSUME RowInv, NEW a \in Attempt,
         attempt[a].status \in Pending, attempt'[a].status \notin Pending,
         \A b \in Attempt : b # a => attempt'[b].status = attempt[b].status,
         shot'[ShotOf[a]].status \notin {"queued", "generating", "awaiting_review"},
         \A s \in Shot : s # ShotOf[a] => shot'[s].status = shot[s].status,
         project' = "generating" =>
           project = "generating" /\ attempt[a].status \notin AttemptLive
  PROVE  Together'
<1>1. /\ \A b \in Attempt : attempt[b].status \in AttemptLive =>
           shot[ShotOf[b]].status \in {"queued", "generating"}
      /\ \A b, c \in Attempt : b # c /\ ShotOf[b] = ShotOf[c] =>
           ~(attempt[b].status \in Pending /\ attempt[c].status \in Pending)
      /\ \A s \in Shot : shot[s].status \in {"queued", "generating", "awaiting_review"} =>
           \E b \in AttemptsOf(s) : attempt[b].status \in Pending
      /\ \A b \in Attempt : ShotOf[b] \in Shot
  BY DEF RowInv, ShotFollowsAttempt
<1>2. AttemptLive \subseteq Pending /\ "awaiting_review" \in Pending /\ "absent" \notin Pending
  BY DEF Pending, AttemptLive, LeasedStatus
<1>3. \A b \in Attempt : attempt'[b].status \in Pending =>
        /\ b # a /\ attempt[b].status = attempt'[b].status
        /\ ShotOf[b] # ShotOf[a] /\ shot'[ShotOf[b]].status = shot[ShotOf[b]].status
  BY <1>1
<1>4. ReviewHoldsShot'
  BY <1>2, <1>3 DEF RowInv, ReviewHoldsShot
<1>5. ShotFollowsAttempt'
  <2>1. \A b, c \in Attempt : b # c /\ ShotOf[b] = ShotOf[c] =>
          ~(attempt'[b].status \in Pending /\ attempt'[c].status \in Pending)
    BY <1>1, <1>3
  <2>2. \A b \in Attempt : attempt'[b].status \in AttemptLive =>
          shot'[ShotOf[b]].status \in {"queued", "generating"}
    BY <1>1, <1>2, <1>3
  <2>3. ASSUME NEW s \in Shot,
               shot'[s].status \in {"queued", "generating", "awaiting_review"}
        PROVE  \E b \in AttemptsOf(s)' : attempt'[b].status \in Pending
    <3>1. s # ShotOf[a] /\ shot[s].status = shot'[s].status
      BY <2>3
    <3>2. PICK b \in AttemptsOf(s) : attempt[b].status \in Pending
      BY <1>1, <2>3, <3>1
    <3>3. b \in Attempt /\ ShotOf[b] = s /\ attempt'[b].status = attempt[b].status
      BY <3>1, <3>2 DEF AttemptsOf
    <3> QED
      BY <1>2, <3>2, <3>3 DEF AttemptsOf
  <2> QED
    BY <2>1, <2>2, <2>3 DEF ShotFollowsAttempt
<1>6. GeneratingHasWork'
  <2>1. ASSUME project' = "generating"
        PROVE  \E b \in Attempt : attempt'[b].status \in AttemptLive
    <3>1. PICK b \in Attempt : attempt[b].status \in AttemptLive
      BY <2>1 DEF RowInv, GeneratingHasWork
    <3>2. b # a
      BY <2>1, <3>1
    <3> QED
      BY <3>1, <3>2
  <2> QED
    BY <2>1 DEF GeneratingHasWork
<1> QED
  BY <1>4, <1>5, <1>6 DEF Together

(* A result that comes up for review keeps its shot, and lets the project   *)
(* go on.                                                                   *)
LEMMA TogetherReviews ==
  ASSUME RowInv, NEW a \in Attempt,
         attempt[a].status \in AttemptLive, attempt'[a].status = "awaiting_review",
         \A b \in Attempt : b # a => attempt'[b].status = attempt[b].status,
         shot'[ShotOf[a]].status \in {"queued", "awaiting_review"},
         \A s \in Shot : s # ShotOf[a] => shot'[s].status = shot[s].status,
         project' # "generating"
  PROVE  Together'
<1>1. /\ \A b \in Attempt : attempt[b].status \in AttemptLive =>
           shot[ShotOf[b]].status \in {"queued", "generating"}
      /\ \A b, c \in Attempt : b # c /\ ShotOf[b] = ShotOf[c] =>
           ~(attempt[b].status \in Pending /\ attempt[c].status \in Pending)
      /\ \A s \in Shot : shot[s].status \in {"queued", "generating", "awaiting_review"} =>
           \E b \in AttemptsOf(s) : attempt[b].status \in Pending
      /\ \A b \in Attempt : ShotOf[b] \in Shot
  BY DEF RowInv, ShotFollowsAttempt
<1>2. /\ AttemptLive \subseteq Pending /\ "awaiting_review" \in Pending
      /\ "absent" \notin Pending /\ "awaiting_review" \notin AttemptLive
  BY DEF Pending, AttemptLive, LeasedStatus
<1>3. \A b \in Attempt : b # a /\ attempt'[b].status \in Pending =>
        /\ attempt[b].status = attempt'[b].status
        /\ ShotOf[b] # ShotOf[a] /\ shot'[ShotOf[b]].status = shot[ShotOf[b]].status
  BY <1>1, <1>2
<1>4. ReviewHoldsShot'
  BY <1>2, <1>3 DEF RowInv, ReviewHoldsShot
<1>5. ShotFollowsAttempt'
  <2>1. \A b, c \in Attempt : b # c /\ ShotOf[b] = ShotOf[c] =>
          ~(attempt'[b].status \in Pending /\ attempt'[c].status \in Pending)
    BY <1>1, <1>2, <1>3
  <2>2. \A b \in Attempt : attempt'[b].status \in AttemptLive =>
          shot'[ShotOf[b]].status \in {"queued", "generating"}
    BY <1>1, <1>2, <1>3
  <2>3. ASSUME NEW s \in Shot,
               shot'[s].status \in {"queued", "generating", "awaiting_review"}
        PROVE  \E b \in AttemptsOf(s)' : attempt'[b].status \in Pending
    <3>1. CASE s = ShotOf[a]
      BY <1>2, <3>1 DEF AttemptsOf
    <3>2. CASE s # ShotOf[a]
      <4>1. PICK b \in AttemptsOf(s) : attempt[b].status \in Pending
        BY <1>1, <2>3, <3>2
      <4>2. b \in Attempt /\ ShotOf[b] = s /\ attempt'[b].status = attempt[b].status
        BY <3>2, <4>1 DEF AttemptsOf
      <4> QED
        BY <1>2, <4>1, <4>2 DEF AttemptsOf
    <3> QED
      BY <3>1, <3>2
  <2> QED
    BY <2>1, <2>2, <2>3 DEF ShotFollowsAttempt
<1>6. GeneratingHasWork'
  BY DEF GeneratingHasWork
<1> QED
  BY <1>4, <1>5, <1>6 DEF Together

(* The end of an attempt, in a worker's hands: the settled row, and shot and *)
(* project after it.                                                         *)
LEMMA EndsJob ==
  ASSUME RowInv, NEW w \in Worker, worker[w].pc \in Working,
         Row(w).status \in AttemptLive,
         NEW status \in AttemptStatus, NEW code \in FailureCode \cup {"none"},
         NEW e \in Verdict, NEW z \in ShotStatus,
         attempt' = Settled(Job(w), status, code),
         evaluation' = [evaluation EXCEPT ![Job(w)] = e],
         shot' = [shot EXCEPT ![ShotOf[Job(w)]].status = z],
         project' \in ProjectStatus, project' # "generating",
         UNCHANGED revision, WorkerUnchanged, Step(w, "done"),
         \/ /\ status = "awaiting_review" /\ e = "passed"
            /\ Delivered(jobs[Job(w)], Row(w).prompt)
            /\ z \in {"queued", "awaiting_review"}
         \/ /\ status \in AttemptTerminal \ {"accepted"}
            /\ z \notin {"queued", "generating", "awaiting_review"}
  PROVE  RowInv' /\ Final
<1> DEFINE a == Job(w)
           s == ShotOf[a]
           r == [worker[w] EXCEPT !.pc = "done"]
           y == [Row(w) EXCEPT !.status = status, !.failure = code,
                               !.owner = NoWorker, !.lease = "none"]
<1>1. /\ TypeOK /\ a \in Attempt /\ s \in Shot /\ worker[w] \in WorkerRecord
      /\ a = worker[w].job
      /\ Row(w) = attempt[a] /\ Row(w) \in AttemptRow
      /\ attempt \in [Attempt -> AttemptRow] /\ worker \in [Worker -> WorkerRecord]
      /\ evaluation[a] \in Verdict /\ evaluation \in [Attempt -> Verdict]
      /\ RowIsSound(Row(w), evaluation[a])
  BY AtWork
<1>2. /\ r \in WorkerRecord /\ r.pc = "done" /\ r.job = a /\ "done" \in Working
      /\ worker' = [worker EXCEPT ![w] = r]
  BY <1>1 DEF WorkerRecord, Locals, Working, Step
<1>3. /\ y \in AttemptRow /\ y.status = status /\ y.lease = "none"
      /\ y.prompt = Row(w).prompt
  BY <1>1 DEF AttemptRow
<1>4. attempt' = [attempt EXCEPT ![a] = y] /\ UNCHANGED <<jobs, posts, executor, stalled, faults>>
  BY <1>1 DEF Settled, WorkerUnchanged, outside
<1> HIDE DEF a, s, r, y
<1>5. shot' \in [Shot -> [status   : {"absent"} \cup ShotStatus,
                          accepted : Attempt \cup {NoAttempt}]]
  BY <1>1, ShotUpdate DEF TypeOK, s, a
<1>6. RestTypeOK'
  BY <1>1, <1>4, <1>5 DEF TypeOK, RestTypeOK, Verdict, a
<1>7. evaluation[a] = "none"
  BY <1>1 DEF RowIsSound
<1>8. status \notin {"absent", "accepted"} \cup AttemptLive
      /\ status \notin {"queued", "claimed", "submitting"}
  BY Statuses DEF AttemptTerminal, AttemptLive, LeasedStatus
<1>9. Rewrites(Row(w), y, evaluation[a], e, jobs[a])
  <2>1. Row(w).status \notin AttemptTerminal
    BY DEF AttemptTerminal, AttemptLive, LeasedStatus
  <2>2. RowIsSound(y, e)
    BY <1>3, <1>8 DEF RowIsSound
  <2>3. y.status \in {"awaiting_review", "accepted"} =>
          e = "passed" /\ Delivered(jobs[a], y.prompt)
    BY <1>3, <1>8 DEF AttemptTerminal, a
  <2> QED
    BY <1>3, <1>7, <1>8, <2>1, <2>2, <2>3 DEF Rewrites
<1>10. Recalls(r, y, e, jobs[a])
  BY <1>2, <1>3, <1>8, NothingRecalled
<1>11. Base' /\ Final
  BY <1>1, <1>2, <1>3, <1>4, <1>6, <1>9, <1>10, OnJob DEF a
<1>12. /\ attempt'[a] = y
       /\ \A b \in Attempt : b # a => attempt'[b].status = attempt[b].status
       /\ shot'[s].status = z
       /\ \A q \in Shot : q # s => shot'[q].status = shot[q].status
       /\ s = ShotOf[a]
  BY <1>1, <1>4 DEF TypeOK, s, a
<1>13. attempt[a].status \in AttemptLive
  BY <1>1
<1>14. Together'
  <2>1. CASE status = "awaiting_review"
    <3>1. z \in {"queued", "awaiting_review"}
      BY <2>1 DEF AttemptTerminal
    <3> QED
      BY <1>1, <1>3, <1>12, <1>13, <2>1, <3>1, TogetherReviews
  <2>2. CASE status \in AttemptTerminal
    <3>1. z \notin {"queued", "generating", "awaiting_review"}
      BY <2>2 DEF AttemptTerminal
    <3>2. attempt[a].status \in Pending /\ status \notin Pending
      BY <1>13, <2>2 DEF Pending, AttemptTerminal, AttemptLive, LeasedStatus
    <3> QED
      BY <1>1, <1>3, <1>12, <3>1, <3>2, TogetherEnds
  <2> QED
    BY <2>1, <2>2
<1> QED
  BY <1>11, <1>14, Parts

LEMMA CommitsResult == ASSUME RowInv, NEW w \in Worker, CommitResult(w) PROVE RowInv' /\ Final
<1> DEFINE a == Job(w)
           s == ShotOf[a]
           v == worker[w].verdict
<1>1. worker[w].pc = "commit" /\ worker[w].pc \in Working /\ WorkerUnchanged
  BY DEF CommitResult, At, Working, Locals
<1>2. /\ TypeOK /\ a \in Attempt /\ s \in Shot /\ worker[w] \in WorkerRecord
      /\ Row(w) = attempt[a] /\ Row(w) \in AttemptRow
      /\ Recalls(worker[w], Row(w), evaluation[a], jobs[a])
      /\ RowIsSound(Row(w), evaluation[a])
      /\ Row(w).status # "absent"
  BY <1>1, AtWork
<1>3. CASE Die(w)
  BY <1>1, <1>3, DiesQuietly
<1>4. CASE Step(w, "done") /\ UNCHANGED rows
  <2>1. RestTypeOK' /\ UNCHANGED <<attempt, evaluation, shot, project, jobs, posts>>
    BY <1>1, <1>4, Quietly
  <2>2. "done" \in Working
    BY DEF Working, Locals
  <2>3. \A o \in WorkerRecord : o.pc = "done" =>
          Recalls(o, Row(w), evaluation[Job(w)], jobs[Job(w)])
    BY <1>2, NothingRecalled
  <2> QED
    BY <1>1, <1>4, <2>1, <2>2, <2>3, GoesOn
<1>5. ASSUME Row(w).status \in CanEvaluate,
             attempt' = IF v = "passed"
                        THEN Settled(a, "awaiting_review", Row(w).failure)
                        ELSE Settled(a, "failed", "MEDIA_INVALID"),
             evaluation' = [evaluation EXCEPT ![a] = v],
             shot' = [shot EXCEPT ![s].status = ShotAfterVerdict(@, v)],
             project' = IF project = "generating" THEN ProjectAfterVerdict(v) ELSE project,
             Step(w, "done"), UNCHANGED revision
      PROVE  RowInv' /\ Final
  <2>1. Row(w).status \in AttemptLive /\ shot[s].status \in {"queued", "generating"}
    <3>1. Row(w).status \in AttemptLive
      BY <1>5 DEF CanEvaluate, AttemptLive, LeasedStatus
    <3> QED
      BY <1>2, <3>1 DEF RowInv, ShotFollowsAttempt
  <2>2. v \in {"passed", "failed"} /\ v \in Verdict
    BY <1>1, <1>2 DEF Recalls, WorkerRecord, Verdict
  <2>3. Delivered(jobs[a], Row(w).prompt)
    BY <1>1, <1>2 DEF Recalls
  <2>4. project' \in ProjectStatus /\ project' # "generating"
    BY <1>2, <1>5, Statuses DEF TypeOK, ProjectAfterVerdict
  <2>5. /\ shot' = [shot EXCEPT ![s].status = ShotAfterVerdict(shot[s].status, v)]
        /\ Row(w).failure \in FailureCode \cup {"none"}
        /\ "MEDIA_INVALID" \in FailureCode
        /\ "awaiting_review" \in AttemptStatus /\ "failed" \in AttemptStatus
        /\ "failed" \in AttemptTerminal \ {"accepted"}
    BY <1>2, <1>5, Statuses DEF AttemptRow, FailureCode, AttemptTerminal
  <2>6. CASE v = "passed"
    <3>1. ShotAfterVerdict(shot[s].status, v) \in {"queued", "awaiting_review"}
      BY <2>1, <2>6 DEF ShotAfterVerdict
    <3>2. ShotAfterVerdict(shot[s].status, v) \in ShotStatus
      BY <3>1, Statuses
    <3> QED
      BY <1>1, <1>5, <2>1, <2>2, <2>3, <2>4, <2>5, <2>6, <3>1, <3>2, EndsJob
  <2>7. CASE v = "failed"
    <3>1. ShotAfterVerdict(shot[s].status, v) = "failed"
      BY <2>1, <2>7 DEF ShotAfterVerdict
    <3>2. "failed" \in ShotStatus
      BY Statuses
    <3> QED
      BY <1>1, <1>5, <2>1, <2>2, <2>4, <2>5, <2>7, <3>1, <3>2, EndsJob
  <2> QED
    BY <2>2, <2>6, <2>7
<1> QED
  BY <1>3, <1>4, <1>5 DEF CommitResult

LEMMA FailsAttempt == ASSUME RowInv, NEW w \in Worker, FailAttempt(w) PROVE RowInv' /\ Final
<1> DEFINE a == Job(w)
           s == ShotOf[a]
           code == worker[w].code
<1>1. worker[w].pc = "fail" /\ worker[w].pc \in Working /\ WorkerUnchanged
  BY DEF FailAttempt, At, Working, Locals
<1>2. /\ TypeOK /\ a \in Attempt /\ s \in Shot /\ worker[w] \in WorkerRecord
      /\ Row(w) = attempt[a]
      /\ Row(w).status # "absent" /\ Row(w).status \in AttemptStatus
      /\ code \in FailureCode \cup {"none"}
      /\ evaluation[a] \in Verdict /\ evaluation \in [Attempt -> Verdict]
  BY <1>1, AtWork DEF WorkerRecord
<1>3. CASE Die(w)
  BY <1>1, <1>3, DiesQuietly
<1>4. CASE Step(w, "done") /\ UNCHANGED rows
  <2>1. RestTypeOK' /\ UNCHANGED <<attempt, evaluation, shot, project, jobs, posts>>
    BY <1>1, <1>4, Quietly
  <2>2. "done" \in Working
    BY DEF Working, Locals
  <2>3. \A o \in WorkerRecord : o.pc = "done" =>
          Recalls(o, Row(w), evaluation[Job(w)], jobs[Job(w)])
    BY <1>2, NothingRecalled
  <2> QED
    BY <1>1, <1>4, <2>1, <2>2, <2>3, GoesOn
<1>5. ASSUME CanMove(AttemptMoves, Row(w).status, FailureStatus(code)),
             attempt' = Settled(a, FailureStatus(code), code),
             shot' = [shot EXCEPT ![s].status =
                        IF @ \in {"queued", "generating"} THEN ShotAfterFailure(code) ELSE @],
             project' = IF project = "generating" THEN ProjectAfterFailure(code) ELSE project,
             Step(w, "done"), UNCHANGED <<evaluation, revision>>
      PROVE  RowInv' /\ Final
  <2>1. Row(w).status \in AttemptLive /\ shot[s].status \in {"queued", "generating"}
    <3>1. Row(w).status \in AttemptLive
      BY <1>2, <1>5, OnlyTo
    <3> QED
      BY <1>2, <3>1 DEF RowInv, ShotFollowsAttempt
  <2>2. /\ FailureStatus(code) \in AttemptTerminal \ {"accepted"}
        /\ FailureStatus(code) \in AttemptStatus
    <3>1. FailureStatus(code) \in {"failed", "timed_out", "cancelled"}
      BY DEF FailureStatus
    <3> QED
      BY <3>1, Statuses DEF AttemptTerminal
  <2>3. /\ ShotAfterFailure(code) \in ShotStatus
        /\ ShotAfterFailure(code) \notin {"queued", "generating", "awaiting_review"}
    <3>1. ShotAfterFailure(code) \in {"cancelled", "retryable", "failed"}
      BY DEF ShotAfterFailure
    <3> QED
      BY <3>1, Statuses
  <2>4. project' \in ProjectStatus /\ project' # "generating"
    <3>1. ProjectAfterFailure(code) \in {"cancelled", "needs_attention", "failed"}
      BY DEF ProjectAfterFailure
    <3> QED
      BY <1>2, <1>5, <3>1, Statuses DEF TypeOK
  <2>5. /\ shot' = [shot EXCEPT ![s].status = ShotAfterFailure(code)]
        /\ evaluation' = [evaluation EXCEPT ![a] = evaluation[a]]
    BY <1>2, <1>5, <2>1 DEF TypeOK
  <2> QED
    BY <1>1, <1>2, <1>5, <2>1, <2>2, <2>3, <2>4, <2>5, EndsJob
<1> QED
  BY <1>3, <1>4, <1>5 DEF FailAttempt

(* The end of a job and the life cycle of the process. *)
LEMMA LivesOn ==
  ASSUME RowInv, NEW w \in Worker,
         EndOfWork(w) \/ Heartbeat(w) \/ Crash(w) \/ Stop(w) \/ Restart(w)
  PROVE  RowInv' /\ Final
<1>1. CASE EndOfWork(w)
  <2>1. /\ worker[w].pc = "done" /\ worker[w].pc \in Working
        /\ UNCHANGED <<evaluation, shot, project, revision>> /\ WorkerUnchanged
    BY <1>1 DEF EndOfWork, At, Working, Locals
  <2>2. RestTypeOK' /\ UNCHANGED <<evaluation, shot, project, jobs, posts>>
    BY <2>1 DEF RowInv, TypeOK, RestTypeOK, WorkerUnchanged, outside
  <2>3. /\ attempt' = attempt \/ attempt' = Released(w, Job(w))
        /\ \E pc \in {"idle", "down"} : worker' = [worker EXCEPT ![w] = Blank(pc)]
    BY <1>1 DEF EndOfWork
  <2> QED
    BY <2>1, <2>2, <2>3, Leaves
<1>2. CASE Heartbeat(w)
  <2>1. CASE Die(w) /\ UNCHANGED <<outside, faults>>
    BY <2>1, DiesQuietly DEF WorkerUnchanged
  <2>2. ASSUME worker[w].pc \in Working, Row(w).status \in LeasedStatus,
               attempt' = [attempt EXCEPT ![Job(w)].lease = "live"],
               UNCHANGED <<evaluation, shot, project, revision, worker, outside, faults>>
        PROVE  RowInv' /\ Final
    <3> DEFINE x == [Row(w) EXCEPT !.lease = "live"]
    <3>1. /\ TypeOK /\ Job(w) \in Attempt /\ Row(w) \in AttemptRow /\ worker[w] \in WorkerRecord
          /\ Job(w) = worker[w].job /\ Row(w) = attempt[Job(w)]
          /\ RowIsSound(Row(w), evaluation[Job(w)])
          /\ Recalls(worker[w], Row(w), evaluation[Job(w)], jobs[Job(w)])
          /\ evaluation[Job(w)] \in Verdict
      BY <2>2, AtWork
    <3>2. /\ x \in AttemptRow /\ x.status = Row(w).status /\ x.lease = "live"
          /\ x.prompt = Row(w).prompt
      BY <3>1 DEF AttemptRow
    <3>3. /\ attempt' = [attempt EXCEPT ![Job(w)] = x]
          /\ worker' = [worker EXCEPT ![w] = worker[w]]
          /\ evaluation' = [evaluation EXCEPT ![Job(w)] = evaluation[Job(w)]]
          /\ UNCHANGED <<jobs, posts>>
      BY <2>2, <3>1 DEF TypeOK, outside
    <3>4. RestTypeOK'
      BY <2>2, <3>1 DEF TypeOK, RestTypeOK, outside
    <3> HIDE DEF x
    <3>5. Rewrites(Row(w), x, evaluation[Job(w)], evaluation[Job(w)], jobs[Job(w)])
      BY <2>2, <3>1, <3>2 DEF Rewrites, RowIsSound, LeasedStatus, AttemptTerminal
    <3>6. Recalls(worker[w], x, evaluation[Job(w)], jobs[Job(w)])
      BY <3>1, <3>2 DEF Recalls
    <3>7. Base' /\ Final
      <4>1. PICK r : r = worker[w]
        OBVIOUS
      <4>2. /\ r \in WorkerRecord /\ r.pc \in Working /\ r.job = Job(w)
            /\ worker' = [worker EXCEPT ![w] = r]
            /\ Recalls(r, x, evaluation[Job(w)], jobs[Job(w)])
        BY <2>2, <3>1, <3>3, <3>6, <4>1
      <4>3. worker[w].pc \in Working
        BY <2>2
      <4> QED
        BY <3>1, <3>2, <3>3, <3>4, <3>5, <4>2, <4>3, OnJob
    <3>8. Together'
      BY <2>2, <3>2, <3>3, StaysAlive DEF AttemptLive
    <3> QED
      BY <3>7, <3>8, Parts
  <2> QED
    BY <1>2, <2>1, <2>2 DEF Heartbeat
<1>3. CASE Crash(w)
  BY <1>3, Dies DEF Crash, Fault, RowInv, TypeOK
<1>4. CASE Stop(w)
  <2>1. /\ UNCHANGED <<rows, outside>> /\ faults' \in 0 .. MaxFaults
        /\ UNCHANGED <<attempt, evaluation, shot, project, jobs, posts>>
    BY <1>4 DEF Stop, Fault, rows, outside, RowInv, TypeOK
  <2>2. RestTypeOK'
    BY <2>1 DEF RowInv, TypeOK, RestTypeOK, rows, outside
  <2>3. CASE worker' = [worker EXCEPT ![w] = Blank("down")]
    BY <2>1, <2>2, <2>3, Leaves
  <2>4. CASE /\ worker[w].pc \notin {"idle", "poll", "down"}
             /\ worker' = [worker EXCEPT ![w] = [@ EXCEPT !.stopping = TRUE]]
    <3> DEFINE r == [worker[w] EXCEPT !.stopping = TRUE]
    <3>1. worker[w].pc \in Working
      BY <2>4 DEF RowInv, TypeOK, WorkerRecord, Working
    <3>2. /\ worker[w] \in WorkerRecord /\ Job(w) = worker[w].job
          /\ Recalls(worker[w], Row(w), evaluation[Job(w)], jobs[Job(w)])
      BY <3>1, AtWork
    <3>3. /\ r \in WorkerRecord /\ r.pc = worker[w].pc /\ r.job = Job(w)
          /\ r.prompt = worker[w].prompt /\ r.hist = worker[w].hist
          /\ r.verdict = worker[w].verdict /\ r.stored = worker[w].stored
          /\ worker' = [worker EXCEPT ![w] = r]
      BY <2>4, <3>2 DEF WorkerRecord
    <3> HIDE DEF r
    <3>4. Recalls(r, Row(w), evaluation[Job(w)], jobs[Job(w)])
      BY <3>2, <3>3 DEF Recalls
    <3> QED
      BY <2>1, <2>2, <3>1, <3>3, <3>4, Locally
  <2> QED
    BY <1>4, <2>3, <2>4 DEF Stop, At
<1>5. CASE Restart(w)
  <2>1. RestTypeOK' /\ UNCHANGED <<attempt, evaluation, shot, project, jobs, posts>>
    BY <1>5, Quietly DEF Restart
  <2> QED
    BY <1>5, <2>1, Leaves DEF Restart
<1> QED
  BY <1>1, <1>2, <1>3, <1>4, <1>5

-----------------------------------------------------------------------------
(* The initial state, the API's transactions and the environment *)

LEMMA InitRowInv == Init => RowInv
<1> SUFFICES ASSUME Init PROVE RowInv
  OBVIOUS
<1>1. TypeOK /\ JobWhileWorking
  BY InitIInv DEF IInv
<1>2. /\ \A a \in Attempt : /\ attempt[a].status = "absent" /\ attempt[a].lease = "none"
                            /\ attempt[a].prompt = 0 /\ evaluation[a] = "none"
      /\ \A a \in Attempt, k \in Post : jobs[a][k] = "unsent"
      /\ \A s \in Shot : shot[s].status = "absent"
      /\ project = "ready_for_generation"
  BY DEF Init
<1>3. \A w \in Worker : worker[w].pc \notin Working
  BY DEF Init, Blank, Working
<1>4. RowsAreSound
  BY <1>2 DEF RowsAreSound, RowIsSound
<1>5. WorkersRecall
  BY <1>3 DEF WorkersRecall
<1>6. ReviewedIsEvaluated /\ ReviewHoldsShot /\ GeneratingHasWork
  BY <1>2 DEF ReviewedIsEvaluated, ReviewHoldsShot, GeneratingHasWork
<1>7. ShotFollowsAttempt
  BY <1>2 DEF ShotFollowsAttempt, Pending, AttemptLive, LeasedStatus
<1> QED
  BY <1>1, <1>4, <1>5, <1>6, <1>7 DEF RowInv

LEMMA ApiFrame ==
  ASSUME RowInv, ApiUnchanged
  PROVE  UNCHANGED <<jobs, posts, executor, worker, faults>> /\ stalled' \in SUBSET Attempt
BY DEF ApiUnchanged, outside, RowInv, TypeOK

(* A step that leaves workers and executor alone. *)
LEMMA ByApi ==
  ASSUME RowInv, UNCHANGED <<jobs, posts, executor, worker, faults>>,
         stalled' \in SUBSET Attempt, UNCHANGED evaluation,
         attempt' \in [Attempt -> AttemptRow],
         shot' \in [Shot -> [status   : {"absent"} \cup ShotStatus,
                             accepted : Attempt \cup {NoAttempt}]],
         project' \in ProjectStatus,
         revision' \in [Shot -> {"none", "validated", "invalid"}],
         \A b \in Attempt :
           \/ attempt'[b] = attempt[b]
           \/ Rewrites(attempt[b], attempt'[b], evaluation[b], evaluation[b], jobs[b])
  PROVE  Base' /\ Final
<1>1. UNCHANGED <<jobs, posts, executor, worker, faults>>
  OBVIOUS
<1>2. TypeOK'
  BY <1>1 DEF RowInv, TypeOK
<1>3. \A b \in Attempt, k \in Post :
        /\ jobs[b][k] \in {"success", "lost"} => jobs'[b][k] \in {"success", "lost"}
        /\ k > posts'[b] => jobs'[b][k] = "unsent"
  BY <1>1 DEF RowInv, RowsAreSound
<1>4. \A b \in Attempt :
        \/ attempt'[b] = attempt[b] /\ evaluation'[b] = evaluation[b]
        \/ Rewrites(attempt[b], attempt'[b], evaluation[b], evaluation'[b], jobs'[b])
  BY <1>1
<1>5. \A v \in Worker : worker'[v] = worker[v]
  BY <1>1
<1> QED
  BY <1>2, <1>3, <1>4, <1>5, Keeps

(* What the rows say of one attempt. *)
LEMMA RowFacts ==
  ASSUME RowInv, NEW a \in Attempt
  PROVE  /\ TypeOK /\ attempt \in [Attempt -> AttemptRow] /\ attempt[a] \in AttemptRow
         /\ ShotOf[a] \in Shot /\ RowIsSound(attempt[a], evaluation[a])
         /\ shot \in [Shot -> [status   : {"absent"} \cup ShotStatus,
                               accepted : Attempt \cup {NoAttempt}]]
         /\ project \in ProjectStatus
         /\ revision \in [Shot -> {"none", "validated", "invalid"}]
BY DEF RowInv, TypeOK, RowsAreSound

(* A new attempt on a shot that was ready for one. *)
LEMMA Enqueues ==
  ASSUME RowInv, NEW a \in Attempt, Enqueue(a), ApiUnchanged, UNCHANGED evaluation,
         shot[ShotOf[a]].status \in {"absent"} \cup ReadyShot,
         revision' \in [Shot -> {"none", "validated", "invalid"}]
  PROVE  RowInv' /\ Final
<1> DEFINE s == ShotOf[a]
           x == [attempt[a] EXCEPT !.status = "queued"]
<1>0. /\ TypeOK /\ attempt \in [Attempt -> AttemptRow] /\ attempt[a] \in AttemptRow
      /\ s \in Shot /\ RowIsSound(attempt[a], evaluation[a])
      /\ shot \in [Shot -> [status   : {"absent"} \cup ShotStatus,
                            accepted : Attempt \cup {NoAttempt}]]
  BY RowFacts
<1>1. /\ attempt[a].status = "absent"
      /\ attempt' = [attempt EXCEPT ![a] = x]
      /\ shot' = [shot EXCEPT ![s].status = "queued"]
      /\ project' = "generating"
  BY <1>0 DEF Enqueue
<1>2. /\ "queued" \in AttemptStatus /\ "queued" \in ShotStatus /\ "queued" # "absent"
      /\ "generating" \in ProjectStatus
  BY Statuses
<1>3. x \in AttemptRow /\ x.status = "queued" /\ x.prompt = attempt[a].prompt
      /\ x.lease = attempt[a].lease
  BY <1>0, <1>2 DEF AttemptRow
<1> HIDE DEF x
<1>4. shot' \in [Shot -> [status   : {"absent"} \cup ShotStatus,
                          accepted : Attempt \cup {NoAttempt}]]
  BY <1>0, <1>1, <1>2, ShotUpdate
<1>5. /\ attempt' \in [Attempt -> AttemptRow] /\ attempt'[a] = x
      /\ \A b \in Attempt : b # a => attempt'[b] = attempt[b]
      /\ shot'[s].status = "queued"
      /\ \A q \in Shot : q # s => shot'[q].status = shot[q].status
  BY <1>0, <1>1, <1>3
<1>6. Rewrites(attempt[a], x, evaluation[a], evaluation[a], jobs[a])
  <2>1. evaluation[a] = "none" /\ attempt[a].lease # "live" /\ attempt[a].prompt = 0
    BY <1>0, <1>1 DEF RowIsSound, LeasedStatus
  <2> QED
    BY <1>1, <1>3, <2>1 DEF Rewrites, RowIsSound, AttemptTerminal
<1>7. Base' /\ Final
  BY <1>1, <1>2, <1>4, <1>5, <1>6, ApiFrame, ByApi
<1>8. /\ \A b \in Attempt : attempt[b].status \in AttemptLive =>
           shot[ShotOf[b]].status \in {"queued", "generating"}
      /\ \A b \in Attempt : attempt[b].status = "awaiting_review" =>
           shot[ShotOf[b]].status \in {"queued", "awaiting_review"}
      /\ \A b, c \in Attempt : b # c /\ ShotOf[b] = ShotOf[c] =>
           ~(attempt[b].status \in Pending /\ attempt[c].status \in Pending)
      /\ \A q \in Shot : shot[q].status \in {"queued", "generating", "awaiting_review"} =>
           \E b \in AttemptsOf(q) : attempt[b].status \in Pending
      /\ \A b \in Attempt : ShotOf[b] \in Shot
  BY DEF RowInv, ShotFollowsAttempt, ReviewHoldsShot
<1>9. /\ \A b \in Attempt : attempt[b].status \in Pending => ShotOf[b] # s
      /\ "queued" \in AttemptLive /\ AttemptLive \subseteq Pending
      /\ "absent" \notin Pending /\ "queued" # "awaiting_review"
  BY <1>8 DEF Pending, ReadyShot, AttemptLive, LeasedStatus
<1> HIDE DEF s
<1>10. s = ShotOf[a]
  BY DEF s
<1>11. ReviewHoldsShot'
  BY <1>3, <1>5, <1>8, <1>9 DEF ReviewHoldsShot, Pending
<1>12. ShotFollowsAttempt'
  <2>1. \A b, c \in Attempt : b # c /\ ShotOf[b] = ShotOf[c] =>
          ~(attempt'[b].status \in Pending /\ attempt'[c].status \in Pending)
    BY <1>5, <1>8, <1>9, <1>10
  <2>2. \A b \in Attempt : attempt'[b].status \in AttemptLive =>
          shot'[ShotOf[b]].status \in {"queued", "generating"}
    BY <1>5, <1>8, <1>9, <1>10
  <2>3. ASSUME NEW q \in Shot,
               shot'[q].status \in {"queued", "generating", "awaiting_review"}
        PROVE  \E b \in AttemptsOf(q)' : attempt'[b].status \in Pending
    <3>1. CASE q = s
      <4>1. attempt'[a].status = "queued" /\ "queued" \in Pending
        BY <1>3, <1>5, <1>9
      <4> QED
        BY <1>2, <1>10, <3>1, <4>1 DEF AttemptsOf
    <3>2. CASE q # s
      <4>1. PICK b \in AttemptsOf(q) : attempt[b].status \in Pending
        BY <1>5, <1>8, <2>3, <3>2
      <4>2. b \in Attempt /\ ShotOf[b] = q /\ attempt'[b].status = attempt[b].status
        BY <1>5, <1>10, <3>2, <4>1 DEF AttemptsOf
      <4> QED
        BY <1>9, <4>1, <4>2 DEF AttemptsOf
    <3> QED
      BY <3>1, <3>2
  <2> QED
    BY <2>1, <2>2, <2>3 DEF ShotFollowsAttempt
<1>13. GeneratingHasWork'
  BY <1>3, <1>5, <1>9 DEF GeneratingHasWork
<1>14. Together'
  BY <1>11, <1>12, <1>13 DEF Together
<1> QED
  BY <1>7, <1>14, Parts

(* A verdict of the reviewer ends the review and frees the shot. *)
LEMMA Reviews ==
  ASSUME RowInv, NEW a \in Attempt, AcceptAttempt(a) \/ RejectAttempt(a)
  PROVE  RowInv' /\ Final
<1> DEFINE s == ShotOf[a]
<1>0. /\ TypeOK /\ attempt \in [Attempt -> AttemptRow] /\ attempt[a] \in AttemptRow
      /\ s \in Shot /\ RowIsSound(attempt[a], evaluation[a])
      /\ shot \in [Shot -> [status   : {"absent"} \cup ShotStatus,
                            accepted : Attempt \cup {NoAttempt}]]
      /\ project \in ProjectStatus
      /\ revision \in [Shot -> {"none", "validated", "invalid"}]
  BY RowFacts
<1>1. /\ attempt[a].status = "awaiting_review"
      /\ UNCHANGED <<evaluation, revision>> /\ ApiUnchanged
  BY DEF AcceptAttempt, RejectAttempt
<1>2. PICK status \in {"accepted", "rejected"}, code \in FailureCode \cup {"none"},
           z \in {"accepted", "rejected"} :
        /\ attempt' = Settled(a, status, code)
        /\ shot'[s].status = z
        /\ \A q \in Shot : q # s => shot'[q] = shot[q]
        /\ shot' \in [Shot -> [status   : {"absent"} \cup ShotStatus,
                               accepted : Attempt \cup {NoAttempt}]]
        /\ status = "accepted" => evaluation[a] = "passed"
  <2>1. "accepted" \in ShotStatus /\ "rejected" \in ShotStatus
        /\ "REVIEW_REJECTED" \in FailureCode
    BY Statuses DEF FailureCode
  <2>2. CASE AcceptAttempt(a)
    <3>1. shot' = [shot EXCEPT ![s] = [status |-> "accepted", accepted |-> a]]
      BY <2>2 DEF AcceptAttempt, ShotAccepted
    <3>2. attempt' = Settled(a, "accepted", attempt[a].failure)
          /\ attempt[a].failure \in FailureCode \cup {"none"} /\ evaluation[a] = "passed"
      BY <1>0, <2>2 DEF AcceptAttempt, AttemptRow
    <3> QED
      BY <1>0, <2>1, <3>1, <3>2
  <2>3. CASE RejectAttempt(a)
    <3>1. /\ attempt' = Settled(a, "rejected", "REVIEW_REJECTED")
          /\ shot' = [shot EXCEPT ![s].status = "rejected"]
      BY <2>3 DEF RejectAttempt
    <3>2. shot' \in [Shot -> [status   : {"absent"} \cup ShotStatus,
                              accepted : Attempt \cup {NoAttempt}]]
      BY <1>0, <2>1, <3>1, ShotUpdate
    <3> QED
      BY <1>0, <2>1, <3>1, <3>2
  <2> QED
    BY <2>2, <2>3
<1>3. /\ project' \in ProjectStatus
      /\ project' = "generating" => project = "generating"
  BY <1>0, Statuses DEF AcceptAttempt, RejectAttempt
<1> DEFINE y == [attempt[a] EXCEPT !.status = status, !.failure = code,
                                   !.owner = NoWorker, !.lease = "none"]
<1>4. /\ y \in AttemptRow /\ y.status = status /\ y.lease = "none"
      /\ y.prompt = attempt[a].prompt
  <2>1. status \in AttemptStatus
    BY Statuses
  <2> QED
    BY <1>0, <2>1 DEF AttemptRow
<1>5. attempt' = [attempt EXCEPT ![a] = y]
  BY <1>0, <1>2 DEF Settled
<1> HIDE DEF y
<1>6. /\ attempt' \in [Attempt -> AttemptRow] /\ attempt'[a] = y
      /\ \A b \in Attempt : b # a => attempt'[b] = attempt[b]
  BY <1>0, <1>4, <1>5
<1>7. Rewrites(attempt[a], y, evaluation[a], evaluation[a], jobs[a])
  <2>1. Delivered(jobs[a], attempt[a].prompt)
    BY <1>1 DEF RowInv, ReviewedIsEvaluated, Delivered
  <2>2. RowIsSound(y, evaluation[a])
    BY <1>4 DEF RowIsSound, AttemptLive, LeasedStatus
  <2>3. attempt[a].status \notin AttemptTerminal /\ y.status # "absent"
    BY <1>1, <1>4 DEF AttemptTerminal
  <2> QED
    BY <1>2, <1>4, <2>1, <2>2, <2>3 DEF Rewrites
<1>8. Base' /\ Final
  BY <1>1, <1>2, <1>3, <1>0, <1>6, <1>7, ApiFrame, ByApi
<1>9. Together'
  <2>1. attempt[a].status \in Pending /\ attempt[a].status \notin AttemptLive
    BY <1>1 DEF Pending, AttemptLive, LeasedStatus
  <2>2. attempt'[a].status \notin Pending
    BY <1>4, <1>6 DEF Pending, AttemptLive, LeasedStatus
  <2>3. \A b \in Attempt : b # a => attempt'[b].status = attempt[b].status
    BY <1>6
  <2> QED
    BY <1>2, <1>3, <2>1, <2>2, <2>3, TogetherEnds
<1> QED
  BY <1>8, <1>9, Parts

LEMMA ApiKeeps == ASSUME RowInv, ApiStep PROVE RowInv' /\ Final
<1>1. ASSUME NEW a \in Attempt, SubmitRun(a)
      PROVE  RowInv' /\ Final
  <2>1. revision' \in [Shot -> {"none", "validated", "invalid"}]
    BY <1>1, RowFacts DEF SubmitRun
  <2> QED
    BY <1>1, <2>1, Enqueues DEF SubmitRun
<1>2. ASSUME NEW a \in Attempt,
             CreateAttempt(a) \/ \E source \in Attempt : RetryAttempt(a, source)
      PROVE  RowInv' /\ Final
  <2>1. revision' \in [Shot -> {"none", "validated", "invalid"}]
    BY <1>2, RowFacts DEF CreateAttempt, RetryAttempt
  <2> QED
    BY <1>2, <2>1, Enqueues DEF CreateAttempt, RetryAttempt, CanCreate
<1>3. ASSUME NEW a \in Attempt, AcceptAttempt(a) \/ RejectAttempt(a)
      PROVE  RowInv' /\ Final
  BY <1>3, Reviews
<1>4. ASSUME NEW s \in Shot, SubmitInvalidRun(s)
      PROVE  RowInv' /\ Final
  <2>1. /\ shot[s].status = "absent" /\ ApiUnchanged /\ TypeOK
        /\ shot' = [shot EXCEPT ![s].status = "approved_for_generation"]
        /\ revision' = [revision EXCEPT ![s] = "invalid"]
        /\ UNCHANGED <<attempt, evaluation, project>>
    BY <1>4 DEF SubmitInvalidRun, RowInv
  <2>2. "approved_for_generation" \in ShotStatus
    BY Statuses
  <2>3. shot' \in [Shot -> [status   : {"absent"} \cup ShotStatus,
                            accepted : Attempt \cup {NoAttempt}]]
    BY <2>1, <2>2, ShotUpdate DEF TypeOK
  <2>4. /\ shot'[s].status = "approved_for_generation"
        /\ \A q \in Shot : q # s => shot'[q] = shot[q]
    BY <2>1 DEF TypeOK
  <2>5. Base' /\ Final
    BY <2>1, <2>3, ApiFrame, ByApi DEF TypeOK
  <2>6. \A b \in Attempt : attempt[b].status \in Pending => ShotOf[b] # s
    BY <2>1 DEF RowInv, ShotFollowsAttempt, ReviewHoldsShot, Pending
  <2>7. /\ ShotFollowsAttempt /\ ReviewHoldsShot /\ GeneratingHasWork
        /\ AttemptLive \subseteq Pending /\ "awaiting_review" \in Pending
        /\ \A b \in Attempt : ShotOf[b] \in Shot
    BY DEF RowInv, Pending
  <2>8. ReviewHoldsShot' /\ GeneratingHasWork'
    BY <2>1, <2>4, <2>6, <2>7 DEF ReviewHoldsShot, GeneratingHasWork
  <2>9. ShotFollowsAttempt'
    <3>1. \A q \in Shot : AttemptsOf(q)' = AttemptsOf(q)
      BY <2>1 DEF AttemptsOf
    <3> QED
      BY <2>1, <2>4, <2>6, <2>7, <3>1 DEF ShotFollowsAttempt
  <2>10. Together'
    BY <2>8, <2>9 DEF Together
  <2> QED
    BY <2>5, <2>10, Parts
<1>5. ASSUME NEW s \in Shot, NEW v \in {"validated", "invalid"}, CheckRevision(s, v)
      PROVE  RowInv' /\ Final
  <2>1. /\ TypeOK /\ ApiUnchanged /\ UNCHANGED <<attempt, evaluation, shot, project>>
        /\ revision' = [revision EXCEPT ![s] = v]
    BY <1>5 DEF CheckRevision, RowInv
  <2>2. Base' /\ Final
    BY <2>1, ApiFrame, ByApi DEF TypeOK
  <2>3. Together'
    BY <2>1, TogetherStays
  <2> QED
    BY <2>2, <2>3, Parts
<1> QED
  BY <1>1, <1>2, <1>3, <1>4, <1>5 DEF ApiStep

(* Time and the executor: a lease lapses, a job goes on or is forgotten.  A *)
(* finished job stays finished or lost.                                     *)
LEMMA EnvironmentKeeps == ASSUME RowInv, Environment PROVE RowInv' /\ Final
<1>1. ASSUME NEW a \in Attempt, LeaseLapse(a)
      PROVE  RowInv' /\ Final
  <2> DEFINE x == [attempt[a] EXCEPT !.lease = "lapsed"]
  <2>1. /\ attempt[a].lease = "live"
        /\ attempt' = [attempt EXCEPT ![a] = x]
        /\ UNCHANGED <<evaluation, shot, project, revision>>
        /\ UNCHANGED <<jobs, posts, executor, worker, faults>>
        /\ stalled' \in SUBSET Attempt
    BY <1>1, RowFacts DEF LeaseLapse, TypeOK
  <2>2. attempt[a].status \in LeasedStatus /\ evaluation[a] = "none"
    BY <2>1, RowFacts DEF RowIsSound, AttemptLive
  <2>3. /\ x \in AttemptRow /\ x.status = attempt[a].status /\ x.lease = "lapsed"
        /\ x.prompt = attempt[a].prompt
    BY RowFacts DEF AttemptRow
  <2> HIDE DEF x
  <2>4. /\ attempt' \in [Attempt -> AttemptRow] /\ attempt'[a] = x
        /\ \A b \in Attempt : b # a => attempt'[b] = attempt[b]
    BY <2>1, <2>3, RowFacts
  <2>5. Rewrites(attempt[a], x, evaluation[a], evaluation[a], jobs[a])
    BY <2>2, <2>3, RowFacts DEF Rewrites, RowIsSound, LeasedStatus, AttemptTerminal
  <2>6. Base' /\ Final
    BY <2>1, <2>4, <2>5, RowFacts, ByApi
  <2>7. Together'
    BY <2>1, <2>3, <2>4, TogetherStays
  <2> QED
    BY <2>6, <2>7, Parts
<1>2. ASSUME NEW a \in Attempt, NEW k \in Post, NEW from, NEW to \in JobState,
             ExecutorStep(a, k, from, to), faults' \in 0 .. MaxFaults,
             "unsent" \notin from, to # "unsent",
             from \cap {"success", "lost"} # {} => to \in {"success", "lost"}
      PROVE  RowInv' /\ Final
  <2>1. /\ jobs[a][k] \in from /\ jobs' = [jobs EXCEPT ![a][k] = to]
        /\ UNCHANGED <<attempt, evaluation, shot, project, revision, posts, executor, stalled, worker>>
    BY <1>2 DEF ExecutorStep, rows
  <2>2. TypeOK
    BY DEF RowInv
  <2>3. /\ jobs' \in [Attempt -> [Post -> JobState]] /\ jobs'[a][k] = to
        /\ \A b \in Attempt, j \in Post : b # a \/ j # k => jobs'[b][j] = jobs[b][j]
    BY <2>1, <2>2 DEF TypeOK
  <2>4. TypeOK'
    BY <1>2, <2>1, <2>2, <2>3 DEF TypeOK
  <2>5. \A b \in Attempt, j \in Post :
          /\ jobs[b][j] \in {"success", "lost"} => jobs'[b][j] \in {"success", "lost"}
          /\ j > posts'[b] => jobs'[b][j] = "unsent"
    BY <1>2, <2>1, <2>3 DEF RowInv, RowsAreSound
  <2>6. Base' /\ Final
    BY <2>1, <2>4, <2>5, Keeps
  <2>7. Together'
    BY <2>1, TogetherStays
  <2> QED
    BY <2>6, <2>7, Parts
<1>3. ASSUME NEW a \in Attempt, NEW k \in Post,
             ReceivePrompt(a, k) \/ FinishJob(a, k) \/ LosePrompt(a, k)
      PROVE  RowInv' /\ Final
  <2>1. Finished \subseteq JobState /\ {"open", "refused", "lost"} \subseteq JobState
        /\ "unsent" \notin Finished
    BY DEF JobState, Finished
  <2>2. faults' \in 0 .. MaxFaults
    BY <1>3 DEF ReceivePrompt, FinishJob, LosePrompt, Fault, RowInv, TypeOK
  <2>3. CASE ReceivePrompt(a, k)
    BY <1>2, <2>1, <2>2, <2>3 DEF ReceivePrompt
  <2>4. CASE FinishJob(a, k)
    BY <1>2, <2>1, <2>2, <2>4 DEF FinishJob
  <2>5. CASE LosePrompt(a, k)
    BY <1>2, <2>1, <2>2, <2>5 DEF LosePrompt
  <2> QED
    BY <1>3, <2>3, <2>4, <2>5
<1>4. CASE ExecutorVanishes
  <2>1. /\ executor' = "gone" /\ UNCHANGED <<attempt, evaluation, shot, project, revision>>
        /\ UNCHANGED <<jobs, posts, stalled, worker, faults>> /\ TypeOK
    BY <1>4 DEF ExecutorVanishes, rows, RowInv
  <2>2. TypeOK'
    BY <2>1 DEF TypeOK
  <2>3. \A b \in Attempt, j \in Post :
          /\ jobs[b][j] \in {"success", "lost"} => jobs'[b][j] \in {"success", "lost"}
          /\ j > posts'[b] => jobs'[b][j] = "unsent"
    BY <2>1 DEF RowInv, RowsAreSound
  <2>4. Base' /\ Final
    BY <2>1, <2>2, <2>3, Keeps
  <2>5. Together'
    BY <2>1, TogetherStays
  <2> QED
    BY <2>4, <2>5, Parts
<1> QED
  BY <1>1, <1>3, <1>4 DEF Environment

-----------------------------------------------------------------------------
(* The theorems about the rows *)

LEMMA WorkerKeeps == ASSUME RowInv, NEW w \in Worker, WorkerStep(w) PROVE RowInv' /\ Final
BY Polls, Claims, Loads, RecordsIntent, LooksUp, Revalidates, Posts, HearsAnswer,
   ReadsBack, Reconciles, Persists, Adopts, Observes, Finishes, Ingests,
   CommitsResult, FailsAttempt, LivesOn, MarksRunning
   DEF WorkerStep, MarkRunningThenFinish, At

LEMMA NextKeeps == RowInv /\ [Next]_vars => RowInv' /\ Final
<1> SUFFICES ASSUME RowInv, [Next]_vars PROVE RowInv' /\ Final
  OBVIOUS
<1>1. ASSUME NEW w \in Worker,
             WorkerStep(w) \/ Heartbeat(w) \/ Crash(w) \/ Stop(w) \/ Restart(w)
      PROVE  RowInv' /\ Final
  BY <1>1, WorkerKeeps, LivesOn
<1>2. CASE UNCHANGED vars
  <2>1. UNCHANGED <<attempt, evaluation, shot, project, revision, jobs, posts,
                    executor, stalled, worker, faults>>
    BY <1>2 DEF vars
  <2>2. TypeOK'
    BY <2>1 DEF RowInv, TypeOK
  <2>3. \A b \in Attempt, j \in Post :
          /\ jobs[b][j] \in {"success", "lost"} => jobs'[b][j] \in {"success", "lost"}
          /\ j > posts'[b] => jobs'[b][j] = "unsent"
    BY <2>1 DEF RowInv, RowsAreSound
  <2>4. Base' /\ Final
    BY <2>1, <2>2, <2>3, Keeps
  <2>5. Together'
    BY <2>1, TogetherStays
  <2> QED
    BY <2>4, <2>5, Parts
<1> QED
  BY <1>1, <1>2, ApiKeeps, EnvironmentKeeps DEF Next

(* Every reachable state satisfies the row invariant, with leases that      *)
(* outlast the work or without, for any workers, attempts, shots, bounds    *)
(* and faults.                                                              *)
THEOREM RowInvariant == Spec => []RowInv
<1>1. RowInv /\ [Next]_vars => RowInv'
  BY NextKeeps
<1> QED
  BY <1>1, InitRowInv, PTL DEF Spec

(* Type correctness, here without an assumption on the leases. *)
THEOREM AlwaysTyped == Spec => []TypeOK
<1>1. RowInv => TypeOK
  BY DEF RowInv
<1> QED
  BY <1>1, RowInvariant, PTL

(* What is under review or accepted is a result of the attempt's own        *)
(* prompt, which the executor finished and the evaluation passed.           *)
THEOREM ReviewedWasEvaluated == Spec => []ReviewedIsEvaluated
<1>1. RowInv => ReviewedIsEvaluated
  BY DEF RowInv
<1> QED
  BY <1>1, RowInvariant, PTL

(* One attempt at a time is pending on a shot, and the shot's status says   *)
(* so.                                                                      *)
THEOREM ShotsFollow == Spec => []ShotFollowsAttempt
<1>1. RowInv => ShotFollowsAttempt
  BY DEF RowInv
<1> QED
  BY <1>1, RowInvariant, PTL

(* A generating project has an attempt in work. *)
THEOREM GeneratingWorks == Spec => []GeneratingHasWork
<1>1. RowInv => GeneratingHasWork
  BY DEF RowInv
<1> QED
  BY <1>1, RowInvariant, PTL

(* No worker, however late, touches the row of a settled attempt. *)
THEOREM SettledStays == Spec => SettledIsFinal
<1>1. RowInv /\ [Next]_vars =>
        [\A a \in Attempt :
           attempt[a].status \in AttemptTerminal => attempt'[a] = attempt[a]]_vars
  BY NextKeeps DEF Final
<1> QED
  BY <1>1, RowInvariant, PTL DEF Spec, SettledIsFinal

-----------------------------------------------------------------------------
(* What the locals of the workers say of the rows and of what was sent.     *)

(* In every reachable state of every instance what a worker holds in its    *)
(* locals across an await agrees with the rows and with what was sent, as   *)
(* long as the lease of its attempt has not run out under it.               *)
THEOREM InductiveInvariant == Spec => []IInv
<1>1. IInv /\ [Next]_vars /\ RowInv' => IInv'
  BY NextIInv DEF RowInv
<1> QED
  BY <1>1, InitIInv, RowInvariant, PTL DEF Spec

(* processAttempt POSTs an attempt twice only if its lease once ran out     *)
(* under the worker on it: not after a crash between the intent and the     *)
(* POST, not after a lost answer, not after a recovery by another worker,   *)
(* and not because of a stall on another attempt.                           *)
THEOREM PostedAtMostOnce == Spec => []AtMostOnePost
<1>1. IInv => AtMostOnePost
  <2> SUFFICES ASSUME IInv, NEW a \in Attempt, posts[a] > 1, a \notin stalled PROVE FALSE
    BY DEF AtMostOnePost
  <2>1. posts[a] <= 1 /\ posts[a] \in Nat
    BY DEF IInv, TypeOK, SentOnceDurably
  <2> QED
    BY <2>1
<1> QED
  BY <1>1, InductiveInvariant, PTL

(* Claim, recovery and heartbeat statements keep two workers off one        *)
(* attempt until its lease runs out under one of them.                      *)
THEOREM ProcessedByOne == Spec => []OneWorkerPerAttempt
<1>1. IInv => OneWorkerPerAttempt
  BY DEF IInv
<1> QED
  BY <1>1, InductiveInvariant, PTL

-----------------------------------------------------------------------------
(* The contract of a run, kept where leases outlast the work.  A step moves *)
(* at most one attempt from one phase to another, or sends one prompt.      *)

Phased == [a \in Attempt |-> PhaseOf(attempt[a].status)]

(* The moves of RunContract, for one run that was sent so often. *)
Advances(x, y, sent) ==
  LET p == PhaseOf(x.status)
      q == PhaseOf(y.status)
  IN \/ p = q
     \/ p = "absent" /\ q = "waiting"
     \/ p = "waiting" /\ q = "inflight"
     \/ p = "inflight" /\ q = "review" /\ sent = 1
     \/ p \in {"waiting", "inflight", "review"} /\ q = "closed"

(* What every step does to the rows and to what was sent. *)
ContractStep ==
  \/ /\ UNCHANGED posts
     /\ \E a \in Attempt :
          /\ Advances(attempt[a], attempt'[a], posts[a])
          /\ \A b \in Attempt \ {a} :
               PhaseOf(attempt'[b].status) = PhaseOf(attempt[b].status)
  \/ /\ UNCHANGED posts
     /\ \A b \in Attempt : PhaseOf(attempt'[b].status) = PhaseOf(attempt[b].status)
  \/ /\ UNCHANGED attempt
     /\ \E a \in Attempt : /\ PhaseOf(attempt[a].status) = "inflight" /\ posts[a] = 0
                           /\ posts' = [posts EXCEPT ![a] = 1]

LEMMA PhasesOf ==
  /\ PhaseOf("absent") = "absent"
  /\ PhaseOf("queued") = "waiting" /\ PhaseOf("claimed") = "waiting"
  /\ \A s \in RecoveryStatus : PhaseOf(s) = "inflight"
  /\ PhaseOf("awaiting_review") = "review"
  /\ \A s \in AttemptTerminal : PhaseOf(s) = "closed"
BY DEF PhaseOf, RecoveryStatus, LeasedStatus, AttemptTerminal

LEMMA KeepsStep == ContractStep => [Contract!Next]_<<Phased, posts>>
<1> SUFFICES ASSUME ContractStep PROVE [Contract!Next]_<<Phased, posts>>
  OBVIOUS
<1>1. CASE UNCHANGED posts /\ \A b \in Attempt :
             PhaseOf(attempt'[b].status) = PhaseOf(attempt[b].status)
  <2>1. Phased' = Phased
    BY <1>1 DEF Phased
  <2> QED
    BY <1>1, <2>1
<1>2. ASSUME NEW a \in Attempt, UNCHANGED posts,
             Advances(attempt[a], attempt'[a], posts[a]),
             \A b \in Attempt \ {a} :
               PhaseOf(attempt'[b].status) = PhaseOf(attempt[b].status)
      PROVE  [Contract!Next]_<<Phased, posts>>
  <2> DEFINE p == PhaseOf(attempt[a].status)
             q == PhaseOf(attempt'[a].status)
  <2>1. Phased[a] = p /\ Phased' = [Phased EXCEPT ![a] = q]
    BY <1>2 DEF Phased
  <2>2. \A from, to : p = from /\ q = to => Contract!Move(a, from, to)
    BY <1>2, <2>1 DEF Contract!Move, Phased
  <2>3. CASE p = q
    <3>1. Phased' = Phased
      BY <2>1, <2>3 DEF Phased
    <3> QED
      BY <1>2, <3>1
  <2>4. CASE p = "absent" /\ q = "waiting"
    BY <2>2, <2>4 DEF Contract!Next, Contract!Submit
  <2>5. CASE p = "waiting" /\ q = "inflight"
    BY <2>2, <2>5 DEF Contract!Next, Contract!TakeUp
  <2>6. CASE p = "inflight" /\ q = "review" /\ posts[a] = 1
    BY <2>2, <2>6 DEF Contract!Next, Contract!Produce
  <2>7. CASE p \in {"waiting", "inflight", "review"} /\ q = "closed"
    BY <2>2, <2>7 DEF Contract!Next, Contract!Close
  <2> QED
    BY <1>2, <2>3, <2>4, <2>5, <2>6, <2>7 DEF Advances
<1>3. ASSUME NEW a \in Attempt, UNCHANGED attempt,
             PhaseOf(attempt[a].status) = "inflight", posts[a] = 0,
             posts' = [posts EXCEPT ![a] = 1]
      PROVE  [Contract!Next]_<<Phased, posts>>
  <2>1. Phased[a] = "inflight" /\ Phased' = Phased
    BY <1>3 DEF Phased
  <2>2. Contract!Send(a)
    BY <1>3, <2>1 DEF Contract!Send, Phased
  <2> QED
    BY <2>2 DEF Contract!Next
<1> QED
  BY <1>1, <1>2, <1>3 DEF ContractStep

(* A step that writes the row of one attempt at most, and sends nothing. *)
LEMMA OneRow ==
  ASSUME TypeOK, NEW a \in Attempt, NEW y, UNCHANGED posts,
         attempt' = [attempt EXCEPT ![a] = y],
         Advances(attempt[a], y, posts[a])
  PROVE  ContractStep
<1>1. attempt'[a] = y /\ \A b \in Attempt \ {a} : attempt'[b] = attempt[b]
  BY DEF TypeOK
<1> QED
  BY <1>1 DEF ContractStep

LEMMA SameRowsStep == ASSUME UNCHANGED <<attempt, posts>> PROVE ContractStep
BY DEF ContractStep

(* clearLease and setFailure on a row. *)
Closing(row, status, code) ==
  [row EXCEPT !.status = status, !.failure = code, !.owner = NoWorker, !.lease = "none"]

LEMMA ClosingStep ==
  ASSUME TypeOK, NEW a \in Attempt, NEW v \in AttemptStatus, NEW code,
         attempt' = Settled(a, v, code), UNCHANGED posts,
         \/ /\ PhaseOf(attempt[a].status) \in {"waiting", "inflight", "review"}
            /\ PhaseOf(v) = "closed"
         \/ /\ PhaseOf(attempt[a].status) = "inflight" /\ posts[a] = 1
            /\ PhaseOf(v) = "review"
  PROVE  ContractStep
<1>1. attempt' = [attempt EXCEPT ![a] = Closing(attempt[a], v, code)]
  BY DEF Settled, Closing, TypeOK
<1>2. Closing(attempt[a], v, code).status = v
  BY DEF Closing, TypeOK, AttemptRow
<1>3. Advances(attempt[a], Closing(attempt[a], v, code), posts[a])
  BY <1>2 DEF Advances
<1> QED
  BY <1>1, <1>3, OneRow


(* A worker that ends leaves a claim waiting, and everything else in its    *)
(* phase.                                                                   *)
LEMMA LetsGo ==
  ASSUME IInv, stalled = {}, NEW w \in Worker, UNCHANGED posts,
         \/ attempt' = attempt
         \/ worker[w].pc \in Working /\ attempt' = Released(w, Job(w))
  PROVE  ContractStep
<1>1. CASE attempt' = attempt
  BY <1>1, SameRowsStep
<1>2. CASE worker[w].pc \in Working /\ attempt' = Released(w, Job(w))
  <2> DEFINE a == Job(w)
             s == IF attempt[a].status = "claimed" THEN "queued" ELSE attempt[a].status
  <2>1. a \in Attempt /\ TypeOK /\ attempt[a] \in AttemptRow
    BY <1>2, WorkingFacts DEF IInv, TypeOK
  <2>2. \/ attempt' = attempt
        \/ /\ \A b \in Attempt \ {a} : attempt'[b] = attempt[b]
           /\ attempt'[a].status = s
    BY <1>2, <2>1 DEF Released, TypeOK, AttemptRow
  <2>3. PhaseOf(s) = PhaseOf(attempt[a].status)
    BY PhasesOf
  <2> QED
    BY <2>1, <2>2, <2>3, SameRowsStep DEF ContractStep
<1> QED
  BY <1>1, <1>2

LEMMA DiesInPhase ==
  ASSUME IInv, stalled = {}, NEW w \in Worker, Die(w), UNCHANGED posts
  PROVE  ContractStep
<1>1. worker[w].stopping => worker[w].pc \in Working
  BY DEF IInv, JobWhileWorking
<1> QED
  BY <1>1, LetsGo DEF Die

LEMMA ApiAdvances == ASSUME IInv, stalled = {}, ApiStep PROVE ContractStep
<1>1. TypeOK /\ UNCHANGED posts /\ attempt \in [Attempt -> AttemptRow]
  BY DEF IInv, TypeOK, ApiStep, SubmitRun, CreateAttempt, AcceptAttempt, RejectAttempt,
         RetryAttempt, SubmitInvalidRun, CheckRevision, ApiUnchanged, outside
<1>2. ASSUME NEW a \in Attempt, Enqueue(a) PROVE ContractStep
  <2> DEFINE y == [attempt[a] EXCEPT !.status = "queued"]
  <2>1. attempt' = [attempt EXCEPT ![a] = y] /\ attempt[a].status = "absent"
    BY <1>1, <1>2 DEF Enqueue
  <2>2. y.status = "queued"
    BY <1>1 DEF AttemptRow
  <2>3. Advances(attempt[a], y, posts[a])
    BY <2>1, <2>2, PhasesOf DEF Advances
  <2> QED
    BY <1>1, <2>1, <2>3, OneRow
<1>3. ASSUME NEW a \in Attempt, AcceptAttempt(a) \/ RejectAttempt(a) PROVE ContractStep
  <2>1. PICK v, code : v \in {"accepted", "rejected"} /\ attempt' = Settled(a, v, code)
    BY <1>3 DEF AcceptAttempt, RejectAttempt
  <2>2. v \in AttemptStatus /\ PhaseOf(v) = "closed"
    BY <2>1, Statuses, PhasesOf DEF AttemptTerminal
  <2>3. PhaseOf(attempt[a].status) = "review"
    BY <1>3, PhasesOf DEF AcceptAttempt, RejectAttempt
  <2> QED
    BY <1>1, <2>1, <2>2, <2>3, ClosingStep
<1>4. ASSUME NEW s \in Shot,
             SubmitInvalidRun(s) \/ \E v \in {"validated", "invalid"} : CheckRevision(s, v)
      PROVE  ContractStep
  BY <1>1, <1>4, SameRowsStep DEF SubmitInvalidRun, CheckRevision
<1> QED
  BY <1>2, <1>3, <1>4 DEF ApiStep, SubmitRun, CreateAttempt, RetryAttempt

LEMMA EnvironmentAdvances == ASSUME IInv, stalled = {}, Environment PROVE ContractStep
<1>1. TypeOK /\ UNCHANGED posts /\ attempt \in [Attempt -> AttemptRow]
  BY DEF IInv, TypeOK, Environment, LeaseLapse, ReceivePrompt, FinishJob, LosePrompt,
         ExecutorStep, ExecutorVanishes, outside
<1>2. ASSUME NEW a \in Attempt, LeaseLapse(a) PROVE ContractStep
  <2> DEFINE y == [attempt[a] EXCEPT !.lease = "lapsed"]
  <2>1. attempt' = [attempt EXCEPT ![a] = y] /\ y.status = attempt[a].status
    BY <1>1, <1>2 DEF LeaseLapse, AttemptRow
  <2>2. Advances(attempt[a], y, posts[a])
    BY <2>1 DEF Advances
  <2> QED
    BY <1>1, <2>1, <2>2, OneRow
<1>3. CASE UNCHANGED attempt
  BY <1>1, <1>3, SameRowsStep
<1> QED
  BY <1>2, <1>3 DEF Environment, ReceivePrompt, FinishJob, LosePrompt, ExecutorStep,
                    ExecutorVanishes, rows

LEMMA LivesOnInPhase ==
  ASSUME IInv, stalled = {}, NEW w \in Worker, Heartbeat(w) \/ Crash(w) \/ Stop(w) \/ Restart(w)
  PROVE  ContractStep
<1>1. UNCHANGED posts
  BY DEF Heartbeat, Crash, Stop, Restart, WorkerUnchanged, outside
<1>2. CASE Heartbeat(w)
  <2> DEFINE a == Job(w)
             y == [attempt[a] EXCEPT !.lease = "live"]
  <2>1. a \in Attempt /\ TypeOK /\ attempt[a] \in AttemptRow
    BY <1>2, WorkingFacts DEF Heartbeat, IInv, TypeOK
  <2>2. CASE Die(w)
    BY <1>1, <2>2, DiesInPhase
  <2>3. CASE attempt' = [attempt EXCEPT ![a].lease = "live"]
    <3>1. attempt' = [attempt EXCEPT ![a] = y] /\ y.status = attempt[a].status
      BY <2>1, <2>3 DEF AttemptRow
    <3>2. Advances(attempt[a], y, posts[a])
      BY <3>1 DEF Advances
    <3> QED
      BY <1>1, <2>1, <3>1, <3>2, OneRow
  <2> QED
    BY <1>2, <2>2, <2>3 DEF Heartbeat
<1>3. CASE Crash(w)
  BY <1>1, <1>3, DiesInPhase DEF Crash
<1>4. CASE Stop(w) \/ Restart(w)
  BY <1>1, <1>4, SameRowsStep DEF Stop, Restart, rows
<1> QED
  BY <1>2, <1>3, <1>4


(* Stale claims go back on the queue, where they wait on; a claim taken off *)
(* it still waits.                                                          *)
LEMMA PollsInPhase ==
  ASSUME IInv, stalled = {}, NEW w \in Worker, RecoverStale(w) \/ NothingToClaim(w)
  PROVE  ContractStep
<1>1. TypeOK /\ UNCHANGED posts /\ attempt \in [Attempt -> AttemptRow]
  BY DEF IInv, TypeOK, RecoverStale, NothingToClaim, WorkerUnchanged, outside
<1>2. CASE Die(w)
  BY <1>1, <1>2, DiesInPhase
<1>3. CASE UNCHANGED rows
  BY <1>1, <1>3, SameRowsStep DEF rows
<1>4. CASE attempt' = [a \in Attempt |->
                         IF StaleClaim(a)
                         THEN [attempt[a] EXCEPT !.status = "queued", !.owner = NoWorker,
                                                 !.lease = "none"]
                         ELSE attempt[a]]
  <2>1. \A a \in Attempt :
          \/ attempt'[a] = attempt[a]
          \/ attempt[a].status = "claimed" /\ attempt'[a].status = "queued"
    BY <1>1, <1>4 DEF StaleClaim, AttemptRow
  <2>2. \A a \in Attempt : PhaseOf(attempt'[a].status) = PhaseOf(attempt[a].status)
    BY <2>1, PhasesOf
  <2> QED
    BY <1>1, <2>2 DEF ContractStep
<1> QED
  BY <1>2, <1>3, <1>4 DEF RecoverStale, NothingToClaim

LEMMA ClaimsInPhase ==
  ASSUME IInv, stalled = {}, NEW w \in Worker, NEW a \in Attempt,
         ClaimForRecovery(w, a) \/ ClaimNext(w, a)
  PROVE  ContractStep
<1>1. TypeOK /\ UNCHANGED posts /\ attempt \in [Attempt -> AttemptRow]
  BY DEF IInv, TypeOK, ClaimForRecovery, ClaimNext, Claim, WorkerUnchanged, outside
<1>2. CASE Die(w)
  BY <1>1, <1>2, DiesInPhase
<1>3. CASE \E v : /\ v = attempt[a].status \/ (attempt[a].status = "queued" /\ v = "claimed")
                  /\ Claim(w, a, v) /\ ~Die(w)
  <2>0. PICK v : /\ v = attempt[a].status \/ (attempt[a].status = "queued" /\ v = "claimed")
                 /\ attempt' = [attempt EXCEPT ![a].status = v, ![a].owner = w,
                                               ![a].lease = "live"]
    BY <1>3 DEF Claim
  <2> DEFINE y == [attempt[a] EXCEPT !.status = v, !.owner = w, !.lease = "live"]
  <2>1. attempt' = [attempt EXCEPT ![a] = y] /\ y.status = v
    BY <1>1, <2>0 DEF AttemptRow
  <2>2. Advances(attempt[a], y, posts[a])
    BY <2>0, <2>1, PhasesOf DEF Advances
  <2> QED
    BY <1>1, <2>1, <2>2, OneRow
<1> QED
  BY <1>2, <1>3 DEF ClaimForRecovery, ClaimNext, Claimable

(* The intent is what takes a claim out of waiting. *)
LEMMA IntentTakesUp == ASSUME IInv, stalled = {}, NEW w \in Worker, RecordIntent(w) PROVE ContractStep
<1>0. worker[w].pc \in Working /\ UNCHANGED posts
  BY DEF RecordIntent, At, Working, Locals, WorkerUnchanged, outside
<1> DEFINE a == Job(w)
           y == [attempt[a] EXCEPT !.status = "submitting", !.owner = w, !.lease = "live"]
<1>1. /\ TypeOK /\ a \in Attempt /\ attempt[a] \in AttemptRow /\ Row(w) = attempt[a]
      /\ attempt[a].status \in AttemptStatus
  BY <1>0, WorkingFacts DEF IInv, TypeOK, Row, AttemptRow
<1>2. CASE Die(w)
  BY <1>0, <1>2, DiesInPhase
<1>3. CASE UNCHANGED rows
  BY <1>0, <1>3, SameRowsStep DEF rows
<1>4. CASE /\ CanMove(AttemptMoves, Row(w).status, "submitting")
           /\ attempt' = [attempt EXCEPT ![a].status = "submitting", ![a].owner = w,
                                         ![a].lease = "live"]
  <2>1. attempt' = [attempt EXCEPT ![a] = y] /\ y.status = "submitting"
    BY <1>1, <1>4 DEF TypeOK, AttemptRow
  <2>2. attempt[a].status = "claimed"
    BY <1>1, <1>4, Statuses DEF CanMove, AttemptMoves
  <2>3. Advances(attempt[a], y, posts[a])
    BY <2>1, <2>2, PhasesOf DEF Advances, RecoveryStatus, LeasedStatus
  <2> QED
    BY <1>0, <1>1, <2>1, <2>3, OneRow
<1> QED
  BY <1>2, <1>3, <1>4 DEF RecordIntent

(* The one POST finds its attempt in flight and nothing sent. *)
LEMMA PostSends == ASSUME IInv, stalled = {}, NEW w \in Worker, PostPrompt(w) PROVE ContractStep
<1> DEFINE a == Job(w)
<1>1. worker[w].pc \in Working /\ worker[w].pc = "post"
  BY DEF PostPrompt, At, Working, Locals
<1>2. a \in Attempt /\ Sound(worker[w], attempt[a], posts[a])
  BY <1>1, WorkingFacts DEF Row
<1>3. attempt[a].status = "submitting" /\ posts[a] = 0
  BY <1>1, <1>2 DEF Sound
<1>4. PhaseOf(attempt[a].status) = "inflight"
  BY <1>3, PhasesOf DEF RecoveryStatus, LeasedStatus
<1>5. UNCHANGED attempt /\ posts' = [posts EXCEPT ![a] = 1]
  BY <1>2, <1>3 DEF PostPrompt, rows
<1> QED
  BY <1>2, <1>3, <1>4, <1>5 DEF ContractStep

LEMMA PersistStaysInFlight ==
  ASSUME IInv, stalled = {}, NEW w \in Worker, worker[w].pc \in Working, UNCHANGED posts,
         PersistSubmitted(w)
  PROVE  ContractStep
<1> DEFINE a == Job(w)
           y == [attempt[a] EXCEPT !.status = "submitted", !.prompt = worker[w].prompt]
<1>1. /\ TypeOK /\ a \in Attempt /\ attempt[a] \in AttemptRow /\ Row(w) = attempt[a]
      /\ attempt[a].status \in AttemptStatus
  BY WorkingFacts DEF IInv, TypeOK, Row, AttemptRow
<1>2. CASE UNCHANGED attempt
  BY <1>2, SameRowsStep
<1>3. CASE /\ CanMove(AttemptMoves, Row(w).status, "submitted")
           /\ attempt' = [attempt EXCEPT ![a].status = "submitted",
                                         ![a].prompt = worker[w].prompt]
  <2>1. attempt' = [attempt EXCEPT ![a] = y] /\ y.status = "submitted"
    BY <1>1, <1>3 DEF TypeOK, AttemptRow
  <2>2. attempt[a].status = "submitting"
    BY <1>1, <1>3, Statuses DEF CanMove, AttemptMoves
  <2>3. Advances(attempt[a], y, posts[a])
    BY <2>1, <2>2, PhasesOf DEF Advances, RecoveryStatus, LeasedStatus
  <2> QED
    BY <1>1, <2>1, <2>3, OneRow
<1> QED
  BY <1>2, <1>3 DEF PersistSubmitted

LEMMA RunningIsInFlight ==
  ASSUME IInv, stalled = {}, NEW w \in Worker, NEW pc, worker[w].pc \in Working, UNCHANGED posts,
         MarkRunning(w, pc)
  PROVE  ContractStep
<1> DEFINE a == Job(w)
           y == [attempt[a] EXCEPT !.status = "running"]
<1>1. TypeOK /\ a \in Attempt /\ attempt[a] \in AttemptRow /\ Row(w) = attempt[a]
  BY WorkingFacts DEF IInv, TypeOK, Row
<1>2. CASE UNCHANGED rows
  BY <1>2, SameRowsStep DEF rows
<1>3. CASE Die(w)
  BY <1>3, DiesInPhase
<1>4. CASE /\ Row(w).status \in {"queued", "submitted"}
           /\ attempt' = [attempt EXCEPT ![a].status = "running"]
  <2>1. attempt' = [attempt EXCEPT ![a] = y] /\ y.status = "running"
    BY <1>1, <1>4 DEF TypeOK, AttemptRow
  <2>2. Advances(attempt[a], y, posts[a])
    BY <1>1, <1>4, <2>1, PhasesOf DEF Advances, RecoveryStatus, LeasedStatus
  <2> QED
    BY <1>1, <2>1, <2>2, OneRow
<1> QED
  BY <1>2, <1>3, <1>4 DEF MarkRunning


(* Only a prompt that was sent brings its attempt to review. *)
LEMMA CommitReviewsOrCloses ==
  ASSUME IInv, stalled = {}, NEW w \in Worker, CommitResult(w)
  PROVE  ContractStep
<1>0. worker[w].pc = "commit" /\ worker[w].pc \in Working /\ UNCHANGED posts
  BY DEF CommitResult, At, Working, Locals, WorkerUnchanged, outside
<1> DEFINE a == Job(w)
           v == IF worker[w].verdict = "passed" THEN "awaiting_review" ELSE "failed"
<1>1. /\ TypeOK /\ a \in Attempt /\ Row(w) = attempt[a]
      /\ attempt[a].status \notin {"absent", "queued"}
      /\ posts[a] > 0 => attempt[a].status # "claimed"
      /\ Sound(worker[w], attempt[a], posts[a])
  BY <1>0, WorkingFacts DEF IInv, Row
<1>2. posts[a] = 1
  <2>1. posts[a] > 0
    BY <1>0, <1>1 DEF Sound, AfterPost
  <2>2. posts[a] <= 1 /\ posts[a] \in Nat
    BY <1>1 DEF IInv, SentOnceDurably, TypeOK
  <2> QED
    BY <2>1, <2>2
<1>3. CASE Die(w)
  BY <1>0, <1>3, DiesInPhase
<1>4. CASE UNCHANGED rows
  BY <1>0, <1>4, SameRowsStep DEF rows
<1>5. ASSUME NEW code, Row(w).status \in CanEvaluate, attempt' = Settled(a, v, code)
      PROVE  ContractStep
  <2>1. PhaseOf(attempt[a].status) = "inflight"
    BY <1>1, <1>2, <1>5, PhasesOf DEF CanEvaluate, RecoveryStatus, LeasedStatus
  <2>2. v \in AttemptStatus /\ PhaseOf(v) \in {"review", "closed"}
    BY Statuses, PhasesOf DEF AttemptTerminal
  <2> QED
    BY <1>0, <1>1, <1>2, <1>5, <2>1, <2>2, ClosingStep
<1>6. CASE /\ Row(w).status \in CanEvaluate
           /\ attempt' = IF worker[w].verdict = "passed"
                         THEN Settled(a, "awaiting_review", Row(w).failure)
                         ELSE Settled(a, "failed", "MEDIA_INVALID")
  <2>1. \E code : attempt' = Settled(a, v, code)
    BY <1>6
  <2> QED
    BY <1>5, <1>6, <2>1
<1> QED
  BY <1>3, <1>4, <1>6 DEF CommitResult

LEMMA FailureCloses == ASSUME IInv, stalled = {}, NEW w \in Worker, FailAttempt(w) PROVE ContractStep
<1>0. worker[w].pc \in Working /\ UNCHANGED posts
  BY DEF FailAttempt, At, Working, Locals, WorkerUnchanged, outside
<1> DEFINE a == Job(w)
           v == FailureStatus(worker[w].code)
<1>1. /\ TypeOK /\ a \in Attempt /\ Row(w) = attempt[a]
      /\ attempt[a].status \in AttemptStatus
  BY <1>0, WorkingFacts DEF IInv, Row, AttemptRow
<1>2. v \in {"failed", "timed_out", "cancelled"}
  BY DEF FailureStatus
<1>3. v \in AttemptStatus /\ PhaseOf(v) = "closed"
  BY <1>2, Statuses, PhasesOf DEF AttemptTerminal
<1>4. CASE Die(w)
  BY <1>0, <1>4, DiesInPhase
<1>5. CASE UNCHANGED rows
  BY <1>0, <1>5, SameRowsStep DEF rows
<1>6. CASE /\ CanMove(AttemptMoves, Row(w).status, v)
           /\ attempt' = Settled(a, v, worker[w].code)
  <2>1. attempt[a].status \notin AttemptTerminal
    BY <1>1, <1>6 DEF CanMove, AttemptMoves, AttemptTerminal
  <2>2. PhaseOf(attempt[a].status) \in {"waiting", "inflight", "review"}
    BY <1>1, <2>1, Statuses, PhasesOf DEF AttemptTerminal, RecoveryStatus, LeasedStatus
  <2> QED
    BY <1>0, <1>1, <1>3, <1>6, <2>2, ClosingStep
<1> QED
  BY <1>4, <1>5, <1>6 DEF FailAttempt

(* Steps that write no row, but for the last statement of a worker that     *)
(* ends.                                                                    *)
LEMMA ReadsOnly ==
  ASSUME IInv, stalled = {}, NEW w \in Worker, UNCHANGED posts, UNCHANGED attempt \/ Die(w)
  PROVE  ContractStep
BY SameRowsStep, DiesInPhase

LEMMA OthersReadOnly ==
  ASSUME IInv, stalled = {}, NEW w \in Worker,
         \/ Load(w) \/ LookUpHistory(w) \/ Revalidate(w) \/ ReceiveAnswer(w)
         \/ LoseAnswer(w) \/ ReadBack(w) \/ ReconcileUncertain(w) \/ StreamEnded(w)
         \/ StreamAborted(w) \/ StreamDisconnected(w) \/ PollHistory(w) \/ Finish(w)
         \/ Ingest(w)
  PROVE  ContractStep
<1>1. UNCHANGED posts
  BY DEF Load, LookUpHistory, Revalidate, ReceiveAnswer, LoseAnswer, ReadBack,
         ReconcileUncertain, StreamEnded, StreamAborted, StreamDisconnected,
         PollHistory, Finish, Ingest, WorkerUnchanged, outside
<1>2. UNCHANGED attempt \/ Die(w)
  BY DEF Load, LookUpHistory, Revalidate, ReceiveAnswer, LoseAnswer, ReadBack,
         ReconcileUncertain, StreamEnded, StreamAborted, StreamDisconnected,
         PollHistory, Finish, Ingest, rows
<1> QED
  BY <1>1, <1>2, ReadsOnly

LEMMA WorkerAdvances ==
  ASSUME IInv, stalled = {}, NEW w \in Worker, WorkerStep(w)
  PROVE  ContractStep
<1>1. CASE Persist(w) \/ Adopt(w)
  <2>1. UNCHANGED posts /\ worker[w].pc \in Working
    BY <1>1 DEF Persist, Adopt, At, Working, Locals, WorkerUnchanged, outside
  <2>2. PersistSubmitted(w) \/ UNCHANGED attempt \/ Die(w)
    BY <1>1 DEF Persist, Adopt, rows
  <2> QED
    BY <2>1, <2>2, PersistStaysInFlight, ReadsOnly
<1>2. CASE MarkRunningThenFinish(w) \/ StreamStarted(w)
  <2>1. UNCHANGED posts /\ worker[w].pc \in Working
    BY <1>2 DEF MarkRunningThenFinish, StreamStarted, At, Working, Locals,
                WorkerUnchanged, outside
  <2>2. MarkRunning(w, "finish") \/ MarkRunning(w, "stream")
    BY <1>2 DEF MarkRunningThenFinish, StreamStarted
  <2> QED
    BY <2>1, <2>2, RunningIsInFlight
<1>3. CASE EndOfWork(w)
  <2>1. UNCHANGED posts /\ worker[w].pc \in Working
    BY <1>3 DEF EndOfWork, At, Working, Locals, WorkerUnchanged, outside
  <2> QED
    BY <1>3, <2>1, LetsGo DEF EndOfWork
<1> QED
  BY <1>1, <1>2, <1>3, PollsInPhase, ClaimsInPhase, IntentTakesUp, PostSends,
     CommitReviewsOrCloses, FailureCloses, OthersReadOnly DEF WorkerStep

LEMMA NothingStalls == ASSUME ~Stalls PROVE Spec => [](stalled = {})
<1>1. Init => stalled = {}
  BY DEF Init
<1>2. stalled = {} /\ [Next]_vars => (stalled = {})'
  <2> SUFFICES ASSUME stalled = {}, [Next]_vars PROVE stalled' = stalled
    OBVIOUS
  <2>1. CASE UNCHANGED vars
    BY <2>1 DEF vars
  <2>2. CASE ApiStep
    BY <2>2 DEF ApiStep, SubmitRun, SubmitInvalidRun, CreateAttempt, RetryAttempt,
                AcceptAttempt, RejectAttempt, CheckRevision, ApiUnchanged, outside
  <2>3. CASE Environment
    BY <2>3 DEF Environment, LeaseLapse, ReceivePrompt, FinishJob, LosePrompt, ExecutorStep,
                ExecutorVanishes
  <2>4. ASSUME NEW w \in Worker,
               WorkerStep(w) \/ Heartbeat(w) \/ Crash(w) \/ Stop(w) \/ Restart(w)
        PROVE  stalled' = stalled
    BY <2>4 DEF WorkerStep, RecoverStale, NothingToClaim, ClaimForRecovery, ClaimNext, Claim,
                Load, RecordIntent, LookUpHistory, Revalidate, PostPrompt, ReceiveAnswer,
                LoseAnswer, ReadBack, ReconcileUncertain, Persist, Adopt,
                MarkRunningThenFinish, StreamStarted, StreamEnded, StreamAborted,
                StreamDisconnected, PollHistory, Finish, Ingest, CommitResult, FailAttempt,
                EndOfWork, Heartbeat, Crash, Stop, Restart, WorkerUnchanged, outside
  <2> QED
    BY <2>1, <2>2, <2>3, <2>4 DEF Next
<1> QED
  BY <1>1, <1>2, PTL DEF Spec

(* Every attempt is a run of RunContract: crashes, restarts, lost answers   *)
(* and reclaimed leases never take it backwards, never send it twice, and   *)
(* never bring it to review unsent.                                         *)
THEOREM ContractKept ==
  ASSUME ~Stalls PROVE Spec => KeepsContract
<1>1. Init => Contract!Init
  <2>1. Init => \A a \in Attempt : attempt[a].status = "absent"
    BY DEF Init
  <2> QED
    BY <2>1, PhasesOf DEF Init, Contract!Init
<1>2. IInv /\ stalled = {} /\ [Next]_vars => [Contract!Next]_<<Phased, posts>>
  <2> SUFFICES ASSUME IInv, stalled = {}, [Next]_vars PROVE ContractStep
    BY KeepsStep
  <2>1. CASE UNCHANGED vars
    BY <2>1, SameRowsStep DEF vars
  <2> QED
    BY <2>1, ApiAdvances, EnvironmentAdvances, WorkerAdvances, LivesOnInPhase DEF Next
<1>3. Phased = [a \in Attempt |-> PhaseOf(attempt[a].status)]
  BY DEF Phased
<1> QED
  BY <1>1, <1>2, InductiveInvariant, NothingStalls, PTL DEF Spec, KeepsContract, Contract!Spec, Phased
================================================================================
