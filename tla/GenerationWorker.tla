--------------------------- MODULE GenerationWorker ---------------------------
(***************************************************************************)
(* The generation worker of the control plane (apps/api/src/generation.ts, *)
(* class GenerationWorker) together with what it shares state with: the    *)
(* rows of PostgreSQL it leases attempts from and commits results to, the  *)
(* ComfyUI executor it POSTs prompts to, and the API calls that create,    *)
(* retry and review attempts.                                              *)
(*                                                                         *)
(* One action of this module is one database transaction or one call to    *)
(* the executor; whatever the code does between two awaits belongs to the  *)
(* action before it.  Each worker carries the local variables of           *)
(* processAttempt that survive an await, so a transaction that runs        *)
(* between a read and the write that depends on it is a behaviour here.    *)
(***************************************************************************)
EXTENDS VideoOps

CONSTANTS
  Worker,             \* worker processes; a restarted process keeps its id
  Attempt,            \* attempt ids that can be created
  Shot,               \* shot ids of the one project modelled
  NoWorker, NoAttempt,
  ShotOf,             \* the shot each attempt belongs to
  Unmanaged,          \* attempts compiled from a template, with no revision
  MaxPosts,           \* bound: POST /prompt calls considered per attempt
  MaxFaults,          \* bound: crashes, lost replies, conflicts and stops
  MaxAttemptsPerShot, \* generation.ts MAX_ATTEMPTS_PER_SHOT (3)
  Stalls,             \* may a worker outlive its lease while it still works?
  MayVanish           \* may the executor disappear for good?

ASSUME IdsAssumption ==
  /\ NoWorker \notin Worker
  /\ NoAttempt \notin Attempt
  /\ ShotOf \in [Attempt -> Shot]
  /\ Unmanaged \subseteq Attempt

ASSUME BoundsAssumption ==
  /\ MaxPosts \in Nat \ {0}
  /\ MaxFaults \in Nat
  /\ MaxAttemptsPerShot \in Nat \ {0}
  /\ Stalls \in BOOLEAN
  /\ MayVanish \in BOOLEAN

VARIABLES
  attempt,     \* generation_attempts: status, lease, prompt id, failure code
  evaluation,  \* evaluation_results; the artifact row is written with it
  shot,        \* shots: status and accepted_attempt_id
  project,     \* video_projects.status
  revision,    \* workflow_revisions.validation_status of each shot's run
  jobs,        \* the executor's view of each POSTed prompt
  posts,       \* how many times an attempt was POSTed
  executor,    \* "up", or "gone" for good
  stalled,     \* history: attempts whose lease ran out under a worker on them
  worker,      \* the local variables of each worker process
  faults       \* faults injected so far

rows == <<attempt, evaluation, shot, project, revision>>
outside == <<jobs, posts, executor, stalled>>
vars == <<attempt, evaluation, shot, project, revision,
          jobs, posts, executor, stalled, worker, faults>>

Post == 1 .. MaxPosts
Finished == {"success", "error", "interrupted"}
JobState == {"unsent", "transit", "lost", "refused", "open"} \cup Finished
History == {"null", "open"} \cup Finished

Locals ==
  { "down", "idle", "poll", "load", "intent", "lookup", "validate", "post",
    "await", "readback", "reconcile", "persist", "adopt", "markrun", "stream",
    "history", "finish", "ingest", "commit", "fail", "done" }

(* Between the claim and the end of processAttempt. *)
Working == Locals \ {"down", "idle", "poll"}

AttemptRow ==
  [ status  : {"absent"} \cup AttemptStatus,
    owner   : Worker \cup {NoWorker},
    lease   : {"none", "live", "lapsed"},
    prompt  : Post \cup {0},
    failure : FailureCode \cup {"none"} ]

WorkerRecord ==
  [ pc       : Locals,
    job      : Attempt \cup {NoAttempt},
    fresh    : BOOLEAN,                  \* claimed.status = 'claimed'
    prompt   : Post \cup {0},            \* attempt.comfyPromptId as last read
    hist     : History,
    stored   : BOOLEAN,                  \* existingArtifact # null
    verdict  : {"none", "passed", "failed"},
    code     : FailureCode \cup {"none"},
    stopping : BOOLEAN ]

TypeOK ==
  /\ attempt \in [Attempt -> AttemptRow]
  /\ evaluation \in [Attempt -> {"none", "passed", "failed"}]
  /\ shot \in [Shot -> [status   : {"absent"} \cup ShotStatus,
                        accepted : Attempt \cup {NoAttempt}]]
  /\ project \in ProjectStatus
  /\ revision \in [Shot -> {"none", "validated", "invalid"}]
  /\ jobs \in [Attempt -> [Post -> JobState]]
  /\ posts \in [Attempt -> 0 .. MaxPosts]
  /\ executor \in {"up", "gone"}
  /\ stalled \in SUBSET Attempt
  /\ worker \in [Worker -> WorkerRecord]
  /\ faults \in 0 .. MaxFaults

-----------------------------------------------------------------------------
(* Rows and locals before anything has happened. *)

Blank(pc) ==
  [ pc |-> pc, job |-> NoAttempt, fresh |-> FALSE, prompt |-> 0,
    hist |-> "null", stored |-> FALSE, verdict |-> "none", code |-> "none",
    stopping |-> FALSE ]

Init ==
  /\ attempt = [a \in Attempt |-> [status |-> "absent", owner |-> NoWorker,
                                   lease |-> "none", prompt |-> 0,
                                   failure |-> "none"]]
  /\ evaluation = [a \in Attempt |-> "none"]
  /\ shot = [s \in Shot |-> [status |-> "absent", accepted |-> NoAttempt]]
  /\ project = "ready_for_generation"
  /\ revision = [s \in Shot |-> "none"]
  /\ jobs = [a \in Attempt |-> [k \in Post |-> "unsent"]]
  /\ posts = [a \in Attempt |-> 0]
  /\ executor = "up"
  /\ stalled = {}
  /\ worker = [w \in Worker |-> Blank("idle")]
  /\ faults = 0

Job(w) == worker[w].job
Row(w) == attempt[Job(w)]
Managed(a) == a \notin Unmanaged

(* h3_validate_managed_attempt, a trigger before every UPDATE: it raises    *)
(* for a managed attempt whose revision is not validated, whatever the      *)
(* statement wants to write.                                                *)
Writable(a) == Managed(a) => revision[ShotOf[a]] = "validated"

At(w, pc) == worker[w].pc = pc
Fault == faults < MaxFaults /\ faults' = faults + 1

(* Locals of w after a step that goes on to pc. *)
Step(w, pc) == worker' = [worker EXCEPT ![w].pc = pc]

(* Locals of w that is about to call failAttempt with this code. *)
Failing(r, code) == [r EXCEPT !.pc = "fail", !.code = code, !.hist = "null"]
StepFail(w, code) == worker' = [worker EXCEPT ![w] = Failing(@, code)]

(* Mutant of Settled: clearLease forgotten. *)
SettledKeepsLease(a, status, code) ==
  [attempt EXCEPT ![a] = [@ EXCEPT !.status = status, !.failure = code]]

(* The rows after clearLease and setFailure on the row of a. *)
Settled(a, status, code) ==
  [attempt EXCEPT ![a] = [@ EXCEPT !.status = status, !.failure = code,
                                   !.owner = NoWorker, !.lease = "none"]]

(* AttemptRepository.release: a claim goes back on the queue, a submitted  *)
(* attempt only loses its lease.                                           *)
Released(w, a) ==
  IF attempt[a].owner = w /\ attempt[a].status \in LeasedStatus
  THEN [attempt EXCEPT ![a].status = IF @ = "claimed" THEN "queued" ELSE @,
                       ![a].owner = NoWorker,
                       ![a].lease = "none"]
  ELSE attempt

(* An exception that leaves processOnce rejects the promise of run(), which *)
(* nothing awaits: the process ends.  A stop() in progress may or may not   *)
(* have sent its release statement by then.                                 *)
Die(w) ==
  /\ worker' = [worker EXCEPT ![w] = Blank("down")]
  /\ \/ attempt' = attempt
     \/ /\ worker[w].stopping /\ Writable(Job(w))
        /\ attempt' = Released(w, Job(w))
  /\ UNCHANGED <<evaluation, shot, project, revision>>

-----------------------------------------------------------------------------
(* The API's transactions on attempts.  Each is one action: that two of     *)
(* them can read before either commits is the subject of ProjectLedger.     *)

ApiUnchanged == UNCHANGED <<outside, worker, faults>>

AttemptsOf(s) == {a \in Attempt : ShotOf[a] = s /\ attempt[a].status # "absent"}

Enqueue(a) ==
  /\ attempt[a].status = "absent"
  /\ project \in Generable
  /\ attempt' = [attempt EXCEPT ![a].status = "queued"]
  /\ shot' = [shot EXCEPT ![ShotOf[a]].status = "queued"]
  /\ project' = "generating"

(* POST /v1/runs: shot, revision and attempt are created together. *)
SubmitRun(a) ==
  /\ Managed(a)
  /\ shot[ShotOf[a]].status = "absent"
  /\ Enqueue(a)
  /\ revision' = [revision EXCEPT ![ShotOf[a]] = "validated"]
  /\ UNCHANGED evaluation /\ ApiUnchanged

(* POST /v1/runs with a graph that does not validate: the answer is 422,   *)
(* but the shot and the invalid revision are committed.                    *)
SubmitInvalidRun(s) ==
  /\ shot[s].status = "absent"
  /\ shot' = [shot EXCEPT ![s].status = "approved_for_generation"]
  /\ revision' = [revision EXCEPT ![s] = "invalid"]
  /\ UNCHANGED <<attempt, evaluation, project>> /\ ApiUnchanged

(* Mutant of CanCreate: whatever the shot is busy with. *)
CanCreateAnyShot(a) ==
  /\ shot[ShotOf[a]].status # "absent"
  /\ Cardinality(AttemptsOf(ShotOf[a])) < MaxAttemptsPerShot
  /\ Managed(a) => revision[ShotOf[a]] = "validated"

CanCreate(a) ==
  /\ shot[ShotOf[a]].status \in ReadyShot
  /\ Cardinality(AttemptsOf(ShotOf[a])) < MaxAttemptsPerShot
  /\ Managed(a) => revision[ShotOf[a]] = "validated"

(* POST /v1/shots/:shotId/attempts, compiled from the template. *)
CreateAttempt(a) ==
  /\ ~Managed(a)
  /\ CanCreate(a)
  /\ Enqueue(a)
  /\ UNCHANGED <<evaluation, revision>> /\ ApiUnchanged

(* POST /v1/attempts/:id/retry.  An uncertain source needs the caller's    *)
(* explicit resolveUncertain, which the caller is free to give.            *)
RetryAttempt(a, source) ==
  /\ attempt[source].status \in {"rejected", "failed", "timed_out"}
  /\ ShotOf[a] = ShotOf[source]
  /\ Managed(a) <=> Managed(source)
  /\ CanCreate(a)
  /\ Enqueue(a)
  /\ UNCHANGED <<evaluation, revision>> /\ ApiUnchanged

AllAccepted(s) ==
  \A t \in Shot \ {s} : shot[t].status = "absent" \/ shot[t].accepted # NoAttempt

ShotAccepted(a) == [shot EXCEPT ![ShotOf[a]] = [status |-> "accepted", accepted |-> a]]

(* POST /v1/attempts/:id/accept.  A move the tables do not list throws and *)
(* rolls the whole transaction back.                                       *)
AcceptAttempt(a) ==
  LET s == ShotOf[a] IN
  /\ attempt[a].status = "awaiting_review" /\ Writable(a)
  /\ evaluation[a] = "passed"
  /\ shot[s].accepted = NoAttempt
  /\ CanMove(ShotMoves, shot[s].status, "accepted")
  /\ attempt' = Settled(a, "accepted", attempt[a].failure)
  /\ shot' = ShotAccepted(a)
  /\ \/ /\ AllAccepted(s)
        /\ CanMove(ProjectMoves, project, "completed")
        /\ project' = "completed"
     \/ /\ ~AllAccepted(s)
        /\ project' = IF project = "generating" THEN "awaiting_final_review"
                      ELSE project
  /\ UNCHANGED <<evaluation, revision>> /\ ApiUnchanged

(* POST /v1/attempts/:id/reject *)
RejectAttempt(a) ==
  LET s == ShotOf[a] IN
  /\ attempt[a].status = "awaiting_review" /\ Writable(a)
  /\ CanMove(ShotMoves, shot[s].status, "rejected")
  /\ attempt' = Settled(a, "rejected", "REVIEW_REJECTED")
  /\ shot' = [shot EXCEPT ![s].status = "rejected"]
  /\ UNCHANGED <<evaluation, project, revision>> /\ ApiUnchanged

(* POST .../workflow-revisions/:id/validate, whatever the executor offers. *)
CheckRevision(s, verdict) ==
  /\ revision[s] # "none"
  /\ revision' = [revision EXCEPT ![s] = verdict]
  /\ UNCHANGED <<attempt, evaluation, shot, project>> /\ ApiUnchanged

-----------------------------------------------------------------------------
(* Time and the executor. *)

HolderAtWork(a) == \E w \in Worker : attempt[a].owner = w /\ Job(w) = a

(* A lease runs out.  A running worker renews it twice per period, so the   *)
(* holder has stopped working on the attempt, or it stalls: its heartbeats  *)
(* come late or fail while it goes on.  Nothing in the code notices; the    *)
(* history variable stalled remembers it, and no action reads it.           *)
LeaseLapse(a) ==
  /\ attempt[a].lease = "live"
  /\ HolderAtWork(a) => Stalls
  /\ stalled' = IF HolderAtWork(a) THEN stalled \cup {a} ELSE stalled
  /\ attempt' = [attempt EXCEPT ![a].lease = "lapsed"]
  /\ UNCHANGED <<evaluation, shot, project, revision, jobs, posts, executor,
                 worker, faults>>

(* The interval timer of processAttempt: the owner and the status are      *)
(* checked, the expiry is not, so a lapsed lease can come back to life.     *)
(* Its promise is not awaited: a statement that raises ends the process.    *)
Heartbeat(w) ==
  /\ worker[w].pc \in Working
  /\ Row(w).owner = w /\ Row(w).status \in LeasedStatus
  /\ \/ /\ Writable(Job(w)) /\ Row(w).lease = "lapsed"
        /\ attempt' = [attempt EXCEPT ![Job(w)].lease = "live"]
        /\ UNCHANGED <<evaluation, shot, project, revision, worker>>
     \/ ~Writable(Job(w)) /\ Die(w)
  /\ UNCHANGED <<outside, faults>>

ExecutorStep(a, k, from, to) ==
  /\ jobs[a][k] \in from
  /\ jobs' = [jobs EXCEPT ![a][k] = to]
  /\ UNCHANGED <<rows, posts, executor, stalled, worker>>

ReceivePrompt(a, k) ==
  /\ executor = "up"
  /\ \E to \in {"open", "refused"} : ExecutorStep(a, k, {"transit"}, to)
  /\ UNCHANGED faults

FinishJob(a, k) ==
  /\ executor = "up"
  /\ \E to \in Finished : ExecutorStep(a, k, {"open"}, to)
  /\ UNCHANGED faults

(* A request that never arrives; or, as a fault, an executor restart, which *)
(* loses the in-memory queue and history.                                   *)
LosePrompt(a, k) ==
  \/ ExecutorStep(a, k, {"transit"}, "lost") /\ UNCHANGED faults
  \/ ExecutorStep(a, k, {"open"} \cup Finished, "lost") /\ Fault

ExecutorVanishes ==
  /\ MayVanish /\ executor = "up"
  /\ executor' = "gone"
  /\ UNCHANGED <<rows, jobs, posts, stalled, worker, faults>>

(* What /history says of one prompt.  ComfyUI lists finished prompts only;  *)
(* the bundled fake executor lists the others as well.                      *)
HistoryOf(a, k) ==
  CASE jobs[a][k] \in Finished -> {jobs[a][k]}
    [] jobs[a][k] = "open"     -> {"null", "open"}
    [] OTHER                   -> {"null"}

(* getHistory(prompt) when the id is known, else findHistoryByCorrelation. *)
Lookups(a, prompt) ==
  LET none == [prompt |-> 0, hist |-> "null"]
      listed == {r \in [prompt : Post, hist : History \ {"null"}] :
                   r.hist \in HistoryOf(a, r.prompt)}
  IN IF prompt # 0
     THEN {[prompt |-> prompt, hist |-> h] : h \in HistoryOf(a, prompt)}
     ELSE {r \in listed \cup {none} :
             r = none => \A k \in Post : "null" \in HistoryOf(a, k)}

-----------------------------------------------------------------------------
(* processOnce: recover stale claims, claim one attempt. *)

WorkerUnchanged == UNCHANGED <<outside, faults>>

(* Mutant of RecoverStale: every lapsed lease means back on the queue. *)
RecoverStaleAny(w) ==
  /\ At(w, "idle")
  /\ attempt' = [a \in Attempt |->
                   IF attempt[a].status \in LeasedStatus /\ attempt[a].lease = "lapsed"
                   THEN [attempt[a] EXCEPT !.status = "queued", !.owner = NoWorker,
                                           !.lease = "none"]
                   ELSE attempt[a]]
  /\ Step(w, "poll")
  /\ UNCHANGED <<evaluation, shot, project, revision>> /\ WorkerUnchanged

StaleClaim(a) == attempt[a].status = "claimed" /\ attempt[a].lease = "lapsed"

(* One statement for all stale claims: one row that raises fails them all. *)
RecoverStale(w) ==
  /\ At(w, "idle")
  /\ \/ /\ \A a \in Attempt : StaleClaim(a) => Writable(a)
        /\ attempt' = [a \in Attempt |->
                         IF StaleClaim(a)
                         THEN [attempt[a] EXCEPT !.status = "queued", !.owner = NoWorker,
                                                 !.lease = "none"]
                         ELSE attempt[a]]
        /\ Step(w, "poll")
        /\ UNCHANGED <<evaluation, shot, project, revision>>
     \/ (\E a \in Attempt : StaleClaim(a) /\ ~Writable(a)) /\ Die(w)
  /\ WorkerUnchanged

HoldsLease(w) ==
  \E a \in Attempt : /\ attempt[a].owner = w /\ attempt[a].lease = "live"
                     /\ attempt[a].status \in LeasedStatus

(* Mutants of Recoverable: a live lease is no obstacle; an attempt whose    *)
(* prompt id was never persisted is not recovered.                          *)
RecoverableAnyLease(a) == attempt[a].status \in RecoveryStatus
RecoverableSubmitted(a) ==
  /\ attempt[a].status \in RecoveryStatus \ {"submitting"}
  /\ attempt[a].lease # "live"

Recoverable(a) == attempt[a].status \in RecoveryStatus /\ attempt[a].lease # "live"
Claimable(a) == attempt[a].status = "queued" /\ attempt[a].lease # "live"

Claim(w, a, status) ==
  /\ \/ /\ Writable(a)
        /\ attempt' = [attempt EXCEPT ![a].status = status, ![a].owner = w,
                                      ![a].lease = "live"]
        /\ worker' = [worker EXCEPT ![w] = [Blank("load") EXCEPT
                                              !.job = a, !.fresh = (status = "claimed")]]
        /\ UNCHANGED <<evaluation, shot, project, revision>>
     \/ ~Writable(a) /\ Die(w)
  /\ WorkerUnchanged

(* The oldest update goes first in the code; any order is allowed here. *)
ClaimForRecovery(w, a) ==
  /\ At(w, "poll")
  /\ ~HoldsLease(w) /\ Recoverable(a)
  /\ Claim(w, a, attempt[a].status)

ClaimNext(w, a) ==
  /\ At(w, "poll")
  /\ ~HoldsLease(w) /\ Claimable(a)
  /\ \A b \in Attempt : ~Recoverable(b)
  /\ Claim(w, a, "claimed")

NothingToClaim(w) ==
  /\ At(w, "poll")
  /\ HoldsLease(w) \/ \A a \in Attempt : ~Recoverable(a) /\ ~Claimable(a)
  /\ Step(w, "idle")
  /\ UNCHANGED rows /\ WorkerUnchanged

-----------------------------------------------------------------------------
(* processAttempt up to the POST. *)

(* Mutant of Observing: a prompt the history lists is taken for finished. *)
ObservingOpenAsDone(r, h) ==
  IF r.stopping THEN [r EXCEPT !.pc = "done", !.hist = "null"]
  ELSE CASE h \in {"success", "open"} -> [r EXCEPT !.pc = "markrun", !.hist = "null"]
         [] h = "error"       -> Failing(r, "COMFY_EXECUTION_FAILED")
         [] h = "interrupted" -> Failing(r, "COMFY_INTERRUPTED")
         [] OTHER             -> [r EXCEPT !.pc = "stream", !.hist = "null"]

(* After `if (this.stopping) return` and into reconcileOrObserve. *)
Observing(r, h) ==
  IF r.stopping THEN [r EXCEPT !.pc = "done", !.hist = "null"]
  ELSE CASE h = "success"     -> [r EXCEPT !.pc = "markrun", !.hist = "null"]
         [] h = "error"       -> Failing(r, "COMFY_EXECUTION_FAILED")
         [] h = "interrupted" -> Failing(r, "COMFY_INTERRUPTED")
         [] OTHER             -> [r EXCEPT !.pc = "stream", !.hist = "null"]

(* The attempt, its project and its revision are read one after the other;  *)
(* one action reads them all.                                               *)
Load(w) ==
  LET a == Job(w) IN
  /\ At(w, "load")
  /\ \/ /\ Row(w).status \in AttemptTerminal
        /\ Step(w, "done")
     \/ /\ Row(w).status \notin AttemptTerminal
        /\ Managed(a) /\ revision[ShotOf[a]] # "validated"
        /\ StepFail(w, "CAPABILITY_DRIFT")
     \/ /\ Row(w).status \notin AttemptTerminal
        /\ Managed(a) => revision[ShotOf[a]] = "validated"
        /\ worker' = [worker EXCEPT
                        ![w].pc = IF Row(w).status = "claimed" THEN "intent" ELSE "lookup",
                        ![w].prompt = Row(w).prompt]
  /\ UNCHANGED rows /\ WorkerUnchanged

(* The durable submission intent.  The transaction looks at the status but  *)
(* not at the lease owner, and takes the lease for itself.                  *)
RecordIntent(w) ==
  LET a == Job(w) IN
  /\ At(w, "intent")
  /\ \/ /\ Row(w).status \in AttemptTerminal
        /\ worker' = [worker EXCEPT ![w].pc = "lookup", ![w].prompt = Row(w).prompt]
        /\ UNCHANGED rows
     \/ /\ CanMove(AttemptMoves, Row(w).status, "submitting") /\ Writable(a)
        /\ attempt' = [attempt EXCEPT ![a].status = "submitting", ![a].owner = w,
                                      ![a].lease = "live"]
        /\ worker' = [worker EXCEPT ![w].pc = "lookup", ![w].prompt = Row(w).prompt]
        /\ UNCHANGED <<evaluation, shot, project, revision>>
     \/ /\ Row(w).status \notin AttemptTerminal
        /\ ~CanMove(AttemptMoves, Row(w).status, "submitting") \/ ~Writable(a)
        /\ Die(w)
  /\ WorkerUnchanged

(* Mutant of LookUpHistory: a recovered attempt unknown to the history is   *)
(* POSTed like a fresh one.                                                 *)
LookUpHistoryAndPost(w) ==
  /\ At(w, "lookup")
  /\ \/ /\ executor = "up"
        /\ UNCHANGED rows
        /\ \E r \in Lookups(Job(w), worker[w].prompt) :
             \/ /\ r.hist = "null"
                /\ Step(w, IF Managed(Job(w)) THEN "validate" ELSE "post")
             \/ /\ r.hist # "null" /\ worker[w].prompt = 0
                /\ worker' = [worker EXCEPT ![w].pc = "adopt", ![w].prompt = r.prompt,
                                            ![w].hist = r.hist]
             \/ /\ r.hist # "null" /\ worker[w].prompt # 0
                /\ worker' = [worker EXCEPT ![w] = Observing(@, r.hist)]
     \/ executor = "gone" /\ Die(w)
  /\ WorkerUnchanged

(* Reconcile with the executor's history before any POST. *)
LookUpHistory(w) ==
  /\ At(w, "lookup")
  /\ \/ /\ executor = "up"
        /\ UNCHANGED rows
        /\ \E r \in Lookups(Job(w), worker[w].prompt) :
             \/ /\ r.hist = "null" /\ ~worker[w].fresh
                /\ StepFail(w, "COMFY_SUBMISSION_UNCERTAIN")
             \/ /\ r.hist = "null" /\ worker[w].fresh
                /\ Step(w, IF Managed(Job(w)) THEN "validate" ELSE "post")
             \/ /\ r.hist # "null" /\ worker[w].prompt = 0
                /\ worker' = [worker EXCEPT ![w].pc = "adopt", ![w].prompt = r.prompt,
                                            ![w].hist = r.hist]
             \/ /\ r.hist # "null" /\ worker[w].prompt # 0
                /\ worker' = [worker EXCEPT ![w] = Observing(@, r.hist)]
     \/ executor = "gone" /\ Die(w)
  /\ WorkerUnchanged

(* revalidateManagedRevision: the verdict is written to the revision in a   *)
(* transaction of its own; an executor that does not answer is drift.       *)
Revalidate(w) ==
  LET s == ShotOf[Job(w)] IN
  /\ At(w, "validate")
  /\ \/ /\ executor = "up"
        /\ revision' = [revision EXCEPT ![s] = "validated"]
        /\ Step(w, "post")
     \/ /\ revision' = [revision EXCEPT ![s] = "invalid"]
        /\ StepFail(w, "CAPABILITY_DRIFT")
  /\ UNCHANGED <<attempt, evaluation, shot, project>> /\ WorkerUnchanged

(* The one place a prompt is POSTed. *)
PostPrompt(w) ==
  LET a == Job(w) IN
  /\ At(w, "post") /\ posts[a] < MaxPosts
  /\ posts' = [posts EXCEPT ![a] = @ + 1]
  /\ jobs' = [jobs EXCEPT ![a][posts[a] + 1] = "transit"]
  /\ worker' = [worker EXCEPT ![w].pc = "await", ![w].prompt = posts[a] + 1]
  /\ UNCHANGED <<rows, executor, stalled, faults>>

-----------------------------------------------------------------------------
(* processAttempt from the POST's answer to the persisted prompt id. *)

Answered(w) == jobs[Job(w)][worker[w].prompt] \in {"open"} \cup Finished

(* The prompt id came back, or a 4xx did. *)
ReceiveAnswer(w) ==
  /\ At(w, "await")
  /\ \/ Answered(w) /\ Step(w, "readback")
     \/ /\ jobs[Job(w)][worker[w].prompt] = "refused"
        /\ StepFail(w, "COMFY_UNAVAILABLE")
  /\ UNCHANGED rows /\ WorkerUnchanged

(* A timeout, a network error or a 5xx: ComfySubmissionUncertainError,      *)
(* whatever has become of the request.                                      *)
LoseAnswer(w) ==
  /\ At(w, "await")
  /\ worker' = [worker EXCEPT ![w].pc = "reconcile", ![w].prompt = 0]
  /\ UNCHANGED rows /\ WorkerUnchanged

(* getHistory of the id just received.  Its failure, and an answer that     *)
(* does not parse, are not ComfySubmissionUncertainErrors: the attempt is   *)
(* failed as unavailable although the prompt was accepted.                  *)
ReadBack(w) ==
  /\ At(w, "readback")
  /\ \/ /\ executor = "up"
        /\ \E r \in Lookups(Job(w), worker[w].prompt) :
             worker' = [worker EXCEPT ![w].pc = "persist", ![w].hist = r.hist]
        /\ UNCHANGED faults
     \/ /\ Fault \/ (executor = "gone" /\ UNCHANGED faults)
        /\ StepFail(w, "COMFY_UNAVAILABLE")
  /\ UNCHANGED <<rows, outside>>

(* After an uncertain submission: one look at the history. *)
ReconcileUncertain(w) ==
  /\ At(w, "reconcile")
  /\ \/ /\ executor = "up"
        /\ UNCHANGED rows
        /\ \E r \in Lookups(Job(w), 0) :
             IF r.hist = "null"
             THEN StepFail(w, "COMFY_SUBMISSION_UNCERTAIN")
             ELSE worker' = [worker EXCEPT ![w].pc = "adopt", ![w].prompt = r.prompt,
                                           ![w].hist = r.hist]
     \/ executor = "gone" /\ Die(w)
  /\ WorkerUnchanged

(* persistSubmitted with this worker's prompt id, when it can commit. *)
PersistSubmitted(w) ==
  LET a == Job(w)
      p == worker[w].prompt
  IN /\ \/ /\ Row(w).prompt = p /\ Row(w).status # "submitting"
           /\ UNCHANGED attempt
        \/ /\ Row(w).prompt # p \/ Row(w).status = "submitting"
           /\ CanMove(AttemptMoves, Row(w).status, "submitted") /\ Writable(a)
           /\ attempt' = [attempt EXCEPT ![a].status = "submitted", ![a].prompt = p]
     /\ worker' = [worker EXCEPT ![w] = Observing(@, @.hist)]
     /\ UNCHANGED <<evaluation, shot, project, revision>>

CannotPersist(w) ==
  /\ Row(w).prompt # worker[w].prompt \/ Row(w).status = "submitting"
  /\ ~CanMove(AttemptMoves, Row(w).status, "submitted") \/ ~Writable(Job(w))

(* Inside the try block of the POST: an illegal move, or a version conflict *)
(* with the heartbeat or a reviewer's note, fails the attempt.              *)
Persist(w) ==
  /\ At(w, "persist")
  /\ \/ PersistSubmitted(w) /\ UNCHANGED faults
     \/ /\ (CannotPersist(w) /\ UNCHANGED faults) \/ Fault
        /\ StepFail(w, "COMFY_UNAVAILABLE") /\ UNCHANGED rows
  /\ UNCHANGED outside

(* The same transaction for a prompt id found in the history: there an      *)
(* exception is not caught.                                                 *)
Adopt(w) ==
  /\ At(w, "adopt")
  /\ PersistSubmitted(w) \/ (CannotPersist(w) /\ Die(w))
  /\ WorkerUnchanged

-----------------------------------------------------------------------------
(* reconcileOrObserve *)

(* The transaction of markRunning, going on to pc. *)
MarkRunning(w, pc) ==
  LET a == Job(w)
      s == ShotOf[a]
  IN \/ /\ Row(w).status \in {"queued", "submitted"} /\ Writable(a)
        /\ attempt' = [attempt EXCEPT ![a].status = "running"]
        /\ shot' = [shot EXCEPT ![s].status = IF @ = "queued" THEN "generating" ELSE @]
        /\ Step(w, pc)
        /\ UNCHANGED <<evaluation, project, revision>>
     \/ /\ Row(w).status \in {"queued", "submitted", "submitting"}
        /\ Row(w).status # "submitting" => ~Writable(a)    \* no move to running
        /\ Die(w)
     \/ /\ Row(w).status \notin {"queued", "submitted", "submitting"}
        /\ Step(w, pc) /\ UNCHANGED rows

(* The history already said success. *)
MarkRunningThenFinish(w) ==
  At(w, "markrun") /\ MarkRunning(w, "finish") /\ WorkerUnchanged

Observed(w) == jobs[Job(w)][worker[w].prompt]

(* The WebSocket stream of one prompt.  Events may have been missed by a    *)
(* worker that subscribed late; ComfyObserver drops repeated ones.          *)
StreamStarted(w) ==
  /\ At(w, "stream") /\ Answered(w)
  /\ Row(w).status \in {"queued", "submitted", "submitting"}
  /\ MarkRunning(w, "stream")
  /\ WorkerUnchanged

StreamEnded(w) ==
  /\ At(w, "stream")
  /\ \/ Observed(w) = "success"     /\ Step(w, "finish")
     \/ Observed(w) = "error"       /\ StepFail(w, "COMFY_EXECUTION_FAILED")
     \/ Observed(w) = "interrupted" /\ StepFail(w, "COMFY_INTERRUPTED")
  /\ UNCHANGED rows /\ WorkerUnchanged

(* The abort signal ends the stream: stop() or the generation timeout.  A   *)
(* timeout that finds the worker stopping is taken for the stop.            *)
StreamAborted(w) ==
  /\ At(w, "stream")
  /\ \/ worker[w].stopping  /\ Step(w, "done")
     \/ ~worker[w].stopping /\ StepFail(w, "GENERATION_TIMEOUT")
  /\ UNCHANGED rows /\ WorkerUnchanged

StreamDisconnected(w) ==
  At(w, "stream") /\ Step(w, "history") /\ UNCHANGED rows /\ WorkerUnchanged

(* Up to maxReconnects + 1 looks at the history; it is not consulted about  *)
(* stopping.  A success found here goes straight to finishSuccess, without  *)
(* markRunning.  A look that throws, or an executor that is gone, ends the  *)
(* process: only the stream's own disconnect is caught.                     *)
PollHistory(w) ==
  /\ At(w, "history")
  /\ \/ /\ executor = "up"
        /\ \/ Observed(w) = "success"     /\ Step(w, "finish")
           \/ Observed(w) = "error"       /\ StepFail(w, "COMFY_EXECUTION_FAILED")
           \/ Observed(w) = "interrupted" /\ StepFail(w, "COMFY_INTERRUPTED")
           \/ Observed(w) \notin Finished /\ StepFail(w, "GENERATION_TIMEOUT")
        /\ UNCHANGED rows
     \/ executor = "gone" /\ Die(w)
  /\ WorkerUnchanged

-----------------------------------------------------------------------------
(* finishSuccess and failAttempt *)

Finish(w) ==
  /\ At(w, "finish")
  /\ Step(w, IF Row(w).status \in AttemptTerminal \cup {"awaiting_review"}
             THEN "done" ELSE "ingest")
  /\ UNCHANGED rows /\ WorkerUnchanged

(* Read the artifact and evaluation rows, else download, store, evaluate.   *)
(* The executor's record may carry no output reference.                     *)
Ingest(w) ==
  LET known == evaluation[Job(w)] # "none"
      Goto(verdict) ==
        worker' = [worker EXCEPT ![w].pc = "commit", ![w].stored = known,
                                 ![w].verdict = verdict]
  IN /\ At(w, "ingest")
     /\ \/ known /\ Goto(evaluation[Job(w)])
        \/ ~known /\ executor = "up" /\ \E v \in {"passed", "failed"} : Goto(v)
        \/ ~known /\ StepFail(w, "ARTIFACT_DOWNLOAD_FAILED")
        \/ StepFail(w, "ARTIFACT_STORAGE_FAILED")
     /\ UNCHANGED rows /\ WorkerUnchanged

(* The statuses from which the transaction can walk the attempt to          *)
(* evaluating, one transition after another.                                *)
CanEvaluate == {"queued", "claimed", "submitted", "running", "generated", "evaluating"}

CommitResult(w) ==
  LET a == Job(w)
      s == ShotOf[a]
      v == worker[w].verdict
  IN /\ At(w, "commit")
     /\ \/ /\ Row(w).status \in AttemptTerminal
           /\ Step(w, "done") /\ UNCHANGED rows
        \/ /\ Row(w).status \notin AttemptTerminal    \* unique artifact per attempt
           /\ ~worker[w].stored /\ evaluation[a] # "none"
           /\ Die(w)
        \/ /\ Row(w).status \in CanEvaluate \cup {"submitting"}
           /\ Row(w).status # "submitting" => ~Writable(a)
           /\ Die(w)
        \/ /\ Row(w).status = "awaiting_review" /\ worker[w].stored
           /\ Step(w, "done") /\ UNCHANGED rows
        \/ /\ Row(w).status \in CanEvaluate
           /\ worker[w].stored \/ evaluation[a] = "none"
           /\ Writable(a)
           /\ attempt' = IF v = "passed"
                         THEN Settled(a, "awaiting_review", Row(w).failure)
                         ELSE Settled(a, "failed", "MEDIA_INVALID")
           /\ evaluation' = [evaluation EXCEPT ![a] = v]
           /\ shot' = [shot EXCEPT ![s].status = ShotAfterVerdict(@, v)]
           /\ project' = IF project = "generating" THEN ProjectAfterVerdict(v) ELSE project
           /\ Step(w, "done")
           /\ UNCHANGED revision
     /\ WorkerUnchanged

(* The trigger lets no CAPABILITY_DRIFT failure of an invalid revision be   *)
(* recorded: that statement raises too.                                     *)
FailAttempt(w) ==
  LET a == Job(w)
      s == ShotOf[a]
      code == worker[w].code
      status == FailureStatus(code)
  IN /\ At(w, "fail")
     /\ \/ /\ Row(w).status \in AttemptTerminal
           /\ Step(w, "done") /\ UNCHANGED rows
        \/ /\ Row(w).status \notin AttemptTerminal
           /\ ~CanMove(AttemptMoves, Row(w).status, status) \/ ~Writable(a)
           /\ Die(w)
        \/ /\ CanMove(AttemptMoves, Row(w).status, status) /\ Writable(a)
           /\ attempt' = Settled(a, status, code)
           /\ shot' = [shot EXCEPT ![s].status =
                         IF @ \in {"queued", "generating"} THEN ShotAfterFailure(code) ELSE @]
           /\ project' = IF project = "generating" THEN ProjectAfterFailure(code) ELSE project
           /\ Step(w, "done")
           /\ UNCHANGED <<evaluation, revision>>
     /\ WorkerUnchanged

(* processOnce returns: run() goes round again, or stop() releases.         *)
EndOfWork(w) ==
  /\ At(w, "done")
  /\ \/ /\ ~worker[w].stopping
        /\ worker' = [worker EXCEPT ![w] = Blank("idle")]
        /\ UNCHANGED attempt
     \/ /\ worker[w].stopping
        /\ worker' = [worker EXCEPT ![w] = Blank("down")]
        /\ \/ Writable(Job(w)) /\ attempt' = Released(w, Job(w))
           \/ ~Writable(Job(w)) /\ UNCHANGED attempt
  /\ UNCHANGED <<evaluation, shot, project, revision>> /\ WorkerUnchanged

-----------------------------------------------------------------------------
(* Faults and the process life cycle. *)

(* A crash; also any exception of a remote read, of the evaluator, or of a  *)
(* transaction that lost an optimistic-locking race, where none is caught.  *)
Crash(w) ==
  /\ ~At(w, "down")
  /\ Fault
  /\ Die(w)
  /\ UNCHANGED outside

(* stop(): the signal reaches the stream, the flag is read after the POST.  *)
(* Without a claim there is nothing to wait for.                            *)
Stop(w) ==
  /\ ~At(w, "down") /\ ~worker[w].stopping
  /\ Fault
  /\ worker' = [worker EXCEPT ![w] = IF @.pc \in {"idle", "poll"} THEN Blank("down")
                                     ELSE [@ EXCEPT !.stopping = TRUE]]
  /\ UNCHANGED <<rows, outside>>

Restart(w) ==
  /\ At(w, "down")
  /\ worker' = [worker EXCEPT ![w] = Blank("idle")]
  /\ UNCHANGED rows /\ WorkerUnchanged

-----------------------------------------------------------------------------
(* One step of the loop of worker w, in program order. *)
WorkerStep(w) ==
  \/ RecoverStale(w) \/ NothingToClaim(w)
  \/ \E a \in Attempt : ClaimForRecovery(w, a) \/ ClaimNext(w, a)
  \/ Load(w) \/ RecordIntent(w) \/ LookUpHistory(w) \/ Revalidate(w)
  \/ PostPrompt(w) \/ ReceiveAnswer(w) \/ LoseAnswer(w)
  \/ ReadBack(w) \/ ReconcileUncertain(w) \/ Persist(w) \/ Adopt(w)
  \/ MarkRunningThenFinish(w)
  \/ StreamStarted(w) \/ StreamEnded(w) \/ StreamAborted(w)
  \/ StreamDisconnected(w) \/ PollHistory(w)
  \/ Finish(w) \/ Ingest(w) \/ CommitResult(w) \/ FailAttempt(w)
  \/ EndOfWork(w)

ApiStep ==
  \/ \E a \in Attempt : \/ SubmitRun(a) \/ CreateAttempt(a)
                        \/ AcceptAttempt(a) \/ RejectAttempt(a)
                        \/ \E source \in Attempt : RetryAttempt(a, source)
  \/ \E s \in Shot : \/ SubmitInvalidRun(s)
                     \/ \E v \in {"validated", "invalid"} : CheckRevision(s, v)

Environment ==
  \/ \E a \in Attempt : \/ LeaseLapse(a)
                        \/ \E k \in Post : \/ ReceivePrompt(a, k) \/ FinishJob(a, k)
                                           \/ LosePrompt(a, k)
  \/ ExecutorVanishes

Next ==
  \/ ApiStep
  \/ Environment
  \/ \E w \in Worker : WorkerStep(w) \/ Heartbeat(w) \/ Crash(w) \/ Stop(w) \/ Restart(w)

Spec == Init /\ [][Next]_vars

(* A worker process keeps running its loop (every await in it has a         *)
(* timeout), a supervisor restarts a process that ended, and an abandoned   *)
(* lease runs out.  Nothing is assumed of the executor.                     *)
Fairness ==
  /\ \A w \in Worker : WF_vars(WorkerStep(w)) /\ WF_vars(Restart(w))
  /\ \A a \in Attempt : WF_vars(LeaseLapse(a))

FairSpec == Spec /\ Fairness

-----------------------------------------------------------------------------
(* Safety *)

(* A second POST of an attempt has one cause only: its own lease once ran   *)
(* out under the worker on it.  Crashes, lost answers, restarts and the     *)
(* recovery of abandoned leases, and stalls on other attempts, never lead   *)
(* to one: GenerationWorker.processAttempt makes the intent durable first   *)
(* and never POSTs for an attempt it recovered.                             *)
AtMostOnePost == \A a \in Attempt : posts[a] > 1 => a \in stalled

(* Two workers on the same attempt at the same time have that one cause     *)
(* too: no claim, recovery or restart gives an attempt to a second worker   *)
(* while the first still works on it under a live lease.                    *)
OneWorkerPerAttempt ==
  \A v, w \in Worker :
    v # w /\ Job(v) # NoAttempt /\ Job(v) = Job(w) => Job(v) \in stalled

Pending == AttemptLive \cup {"awaiting_review"}

(* A shot has at most one attempt in progress or under review, and a shot   *)
(* that waits for a worker has exactly one: attempt, shot and project rows  *)
(* are written by different transactions in worker and API.                 *)
ShotFollowsAttempt ==
  /\ \A a, b \in Attempt :
       a # b /\ ShotOf[a] = ShotOf[b] =>
         ~(attempt[a].status \in Pending /\ attempt[b].status \in Pending)
  /\ \A a \in Attempt :
       attempt[a].status \in AttemptLive => shot[ShotOf[a]].status \in {"queued", "generating"}
  /\ \A s \in Shot :
       shot[s].status \in {"queued", "generating", "awaiting_review"} =>
         \E a \in AttemptsOf(s) : attempt[a].status \in Pending

(* A project shown as generating has an attempt some worker will finish:    *)
(* whatever ends an attempt takes the project out of generating.            *)
GeneratingHasWork ==
  project = "generating" => \E a \in Attempt : attempt[a].status \in AttemptLive

(* What a human reviews, and what is accepted, came from this attempt's own *)
(* prompt, which the executor finished, and passed the evaluation.          *)
ReviewedIsEvaluated ==
  \A a \in Attempt :
    attempt[a].status \in {"awaiting_review", "accepted"} =>
      /\ evaluation[a] = "passed"
      /\ attempt[a].prompt # 0
      /\ jobs[a][attempt[a].prompt] \in {"success", "lost"}

(* A settled attempt is never touched again: late results, second failures  *)
(* and lease statements of a worker that lost its claim leave it alone.     *)
SettledIsFinal ==
  [][\A a \in Attempt :
       attempt[a].status \in AttemptTerminal => attempt'[a] = attempt[a]]_vars

-----------------------------------------------------------------------------
(* The inductive invariant behind AtMostOnePost, OneWorkerPerAttempt and    *)
(* KeepsContract, part by part.  It says nothing of an attempt once its     *)
(* lease ran out under a worker on it, and everything of the others.        *)

(* A worker has a job exactly while it works, and only then stops late. *)
JobWhileWorking ==
  \A w \in Worker : /\ worker[w].pc \in Working <=> Job(w) # NoAttempt
                    /\ worker[w].stopping => worker[w].pc \in Working

(* What a worker works on is either settled or leased to it, and the lease  *)
(* is alive.  It cannot be queued, so nobody can claim it.                  *)
JobIsHeld ==
  \A w \in Worker : worker[w].pc \in Working /\ Job(w) \notin stalled =>
    /\ Row(w).status \notin {"absent", "queued"}
    /\ Row(w).status \in LeasedStatus => Row(w).owner = w /\ Row(w).lease = "live"

(* Only attempts with a durable intent were ever sent, and once; a prompt   *)
(* id stands for a prompt that was sent.                                    *)
SentOnceDurably ==
  \A a \in Attempt \ stalled :
    /\ posts[a] <= 1
    /\ posts[a] > 0 => attempt[a].status \notin {"absent", "queued", "claimed"}
    /\ attempt[a].prompt # 0 => posts[a] > 0
    /\ \A k \in Post : k > posts[a] => jobs[a][k] = "unsent"

(* The program points only reached with a prompt that was sent. *)
AfterPost == {"await", "readback", "reconcile", "persist", "adopt", "markrun",
              "stream", "history", "finish", "ingest", "commit"}

(* What the locals r of a worker say of its row and of the posts of its     *)
(* attempt.  Up to the POST, a worker that claimed off the queue finds the  *)
(* row as it left it and nothing sent; one that recovered an attempt does   *)
(* not get as far as the POST.                                              *)
Sound(r, row, sent) ==
  /\ r.pc = "load" => (r.fresh <=> row.status = "claimed")
  /\ r.pc = "intent" => r.fresh /\ row.status = "claimed"
  /\ r.pc \in {"validate", "post"} => r.fresh
  /\ r.pc \in {"lookup", "validate", "post"} /\ r.fresh =>
       row.status = "submitting" /\ sent = 0
  /\ r.prompt # 0 => sent > 0
  /\ r.pc \in AfterPost => sent > 0

LocalsAreSound ==
  \A w \in Worker :
    worker[w].pc \in Working /\ Job(w) \notin stalled =>
      Sound(worker[w], Row(w), posts[Job(w)])

IInv ==
  /\ TypeOK
  /\ OneWorkerPerAttempt
  /\ JobWhileWorking
  /\ JobIsHeld
  /\ SentOnceDurably
  /\ LocalsAreSound

-----------------------------------------------------------------------------
(* The inductive invariant behind the properties of the rows.  It does not  *)
(* need leases that outlast the work: the rows are guarded by what a        *)
(* transaction finds in them, not by who holds the lease.                   *)

(* The executor finished the k-th POST of what was sent, though it may have *)
(* forgotten it since.                                                      *)
Delivered(sent, k) == k # 0 /\ sent[k] \in {"success", "lost"}

(* A lease is alive only where there is something to do; a prompt id is     *)
(* recorded with the submission, never before; an evaluation ends the work. *)
RowIsSound(row, verdict) ==
  /\ row.lease = "live" => row.status \in LeasedStatus
  /\ row.status \in {"absent", "queued", "claimed", "submitting"} => row.prompt = 0
  /\ verdict # "none" => row.status \notin {"absent"} \cup AttemptLive

(* What the locals r of a worker have in common with the row, whoever else  *)
(* works on it: a prompt id once read or recorded is still the row's, and   *)
(* only a prompt the executor finished gets as far as finishSuccess.        *)
Recalls(r, row, verdict, sent) ==
  /\ row.status # "absent"
  /\ r.pc = "lookup" => r.prompt \in {0, row.prompt}
  /\ r.pc \in {"await", "readback", "persist", "adopt"} => r.prompt # 0
  /\ r.pc \in {"persist", "adopt"} /\ r.hist = "success" => Delivered(sent, r.prompt)
  /\ r.pc \in {"markrun", "stream", "history", "finish", "ingest", "commit"} =>
       r.prompt # 0 /\ r.prompt = row.prompt
  /\ r.pc \in {"markrun", "finish", "ingest", "commit"} => Delivered(sent, r.prompt)
  /\ r.pc = "commit" => r.verdict # "none" /\ (r.stored => verdict # "none")

RowsAreSound ==
  \A a \in Attempt :
    /\ RowIsSound(attempt[a], evaluation[a])
    /\ \A k \in Post : k > posts[a] => jobs[a][k] = "unsent"

WorkersRecall ==
  \A w \in Worker :
    worker[w].pc \in Working =>
      Recalls(worker[w], Row(w), evaluation[Job(w)], jobs[Job(w)])

(* A result under review keeps its shot from being generated again, also    *)
(* where the shot was never seen generating.                                *)
ReviewHoldsShot ==
  \A a \in Attempt :
    attempt[a].status = "awaiting_review" =>
      shot[ShotOf[a]].status \in {"queued", "awaiting_review"}

RowInv ==
  /\ TypeOK
  /\ JobWhileWorking
  /\ RowsAreSound
  /\ WorkersRecall
  /\ ReviewedIsEvaluated
  /\ ReviewHoldsShot
  /\ ShotFollowsAttempt
  /\ GeneratingHasWork

-----------------------------------------------------------------------------
(* Liveness *)

Settles(a) == attempt[a].status \in AttemptTerminal \cup {"awaiting_review"}

(* Every attempt that is queued is eventually reviewed or settled, unless   *)
(* its revision is found invalid: from then on no statement can write the   *)
(* row.  Each time the revision is validated the promise holds anew.  An    *)
(* executor that is gone for good is the other excuse: the look at the      *)
(* history throws, and ends the worker, again and again.                    *)
EveryAttemptSettles ==
  \A a \in Attempt :
    attempt[a].status \in AttemptLive ~>
      Settles(a) \/ ~Writable(a) \/ executor = "gone"

-----------------------------------------------------------------------------
(* Refinement: rows, workers and executor together keep the contract of a   *)
(* run.  A claim is not yet a take-up: a stale one goes back on the queue.  *)

PhaseOf(status) ==
  CASE status = "absent"               -> "absent"
    [] status \in {"queued", "claimed"} -> "waiting"
    [] status \in RecoveryStatus       -> "inflight"
    [] status = "awaiting_review"      -> "review"
    [] OTHER                           -> "closed"

Contract == INSTANCE RunContract WITH
              Run <- Attempt,
              phase <- [a \in Attempt |-> PhaseOf(attempt[a].status)],
              sent <- posts

(* Every run of the system is a run of RunContract (~Stalls): crashes,      *)
(* restarts, lost answers and reclaimed leases never take a run backwards,  *)
(* send it twice, or bring it to review unsent.                             *)
KeepsContract == Contract!Spec

-----------------------------------------------------------------------------
(* What the documentation says and the code does not do. *)

(* generation.test.ts:275: a successful execution brings attempt and shot   *)
(* to awaiting_review, where accept and reject can take them.               *)
ReviewableShot ==
  \A a \in Attempt :
    attempt[a].status = "awaiting_review" => shot[ShotOf[a]].status = "awaiting_review"
================================================================================
