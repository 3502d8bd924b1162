# H3 VideoOps, verified

TLA+ models, model-checking runs and machine-checked proofs for the H3 VideoOps
control plane (`apps/`, `packages/` of this repository): the service that takes
ComfyUI graphs from a browser, queues them in PostgreSQL, runs them on one GPU
executor and brings every result before a human reviewer.

The first half of this document says what the system is and which part is
modelled where; the second half what each run checks, what is proved, and what
is left.

## 1. The system

| Part | State it keeps | Operations | Model |
|---|---|---|---|
| Domain (`packages/domain`) | none | statuses, transition tables, failure codes | `VideoOps` |
| Generation worker (`apps/api/src/generation.ts`, `GenerationWorker`) | locals of `processAttempt` | claim, submit, reconcile, observe, ingest, fail, heartbeat, stop | `GenerationWorker` |
| Attempt queue (`packages/db`, `PostgresAttemptRepository`) | `generation_attempts` rows: status, lease owner and expiry, prompt id | `claimNext`, `claimForRecovery`, `heartbeat`, `release`, `recoverStale` | `GenerationWorker` |
| Database repositories (`packages/db`, `PostgresStore`) | every table | create, update, find, claim; resource mutations; transactions | `PostgresStore` |
| In-memory store (`packages/db`, `InMemoryStore`) | the same tables as maps | the same interface | `MemoryStore`, beside PostgreSQL's in `Stores` |
| Generation service (`generation.ts`) | `shots`, `video_projects`, attempts | create, retry, accept, reject, pin, unpin | `GenerationWorker` (atomic), `ProjectLedger` (overlapping) |
| Optimistic rows (`packages/db`) | a `version` per row | `UPDATE ... WHERE version` | `ProjectLedger` |
| Constraints and triggers (`packages/db/migrations`) | none | refuse rows | `PostgresStore`; `Writable` of `GenerationWorker` |
| ComfyUI client and executor (`packages/comfy-client`) | prompts, history, stream | POST, history by id or correlation, WebSocket | `GenerationWorker`, its environment |
| Direct runs (`apps/api/src/app.ts`, `application.ts`) | project, implicit shot, revision, attempt | `POST /v1/runs` | both |
| Outbox dispatcher (`packages/db`) | `outbox_events` | enqueue, `claimNext`, `markDelivered`, `markFailed`, `pollOnce` | `Outbox` |
| Operational agent (`operator.ts`) and webhook (`notify.ts`) | agent runs, findings | consume, deferred model call, tell | `Outbox` |
| Idempotency keys (`app.ts`, `packages/db`) | `idempotency_records` | reserve, complete, release, deferred or not | `Idempotency` |
| Digest (`digest.ts`) | its agent run | `createDigest` | the deferred work of `Idempotency` |
| Workflow drafts and revisions (`workflow.ts`) | drafts, revisions, validation status | create, update, save, get a draft; create and validate a revision | `WorkflowStudio` |
| MiniMax H3 profile (`packages/workflow-compiler/src/minimax-h3.ts`) | none | validate a canvas and its export; fingerprint of an executor | `H3Profile`, run by `ManagedCanvas` |
| Preview template (`packages/workflow-compiler/src/index.ts`) | none | check a manifest, bind a run's parameters | `TemplateCompiler`, run by `ManagedCanvas` |
| Event stream (`app.ts`) | sequence numbers | SSE replay and follow | planned |
| Media evaluator (`packages/evaluator`) | none | run the tools, check a clip, name the failure | `MediaEvaluator`, run by `ManagedCanvas` |
| Incident window, redaction | none | pure functions | planned (algorithms) |
| ComfyUI bridge (`integrations/comfyui-videoops/web`) | iframe, `connected`, `latestStatus` | attach, detach, load, messages, Managed Run, destroy | `Bridge` |
| Studio panel (`ManagedPanelPage` of `apps/web/src/App.tsx`) | `bridgeReady`, snapshot, what it sent and handled | handshake, export to run, template, status | `Bridge` |
| Rest of Studio, UI, scripts, infrastructure | client side | - | not modelled |

How they interact. The API, the generation worker and the outbox worker are
three loops of one Node.js process (`app.ts:2239-2250`); several such processes
may share a database, and a worker keeps its id over a restart
(`app.ts:2010-2017`). They communicate through rows only: the API inserts a
queued attempt and moves its shot and project; a worker leases it, POSTs the
graph to the executor, follows the prompt over WebSocket or by polling the
history, stores the artifact and writes attempt, shot, project and evaluation
in one transaction; the reviewer's accept or reject is another transaction on
the same rows.

What a user draws becomes a run in four steps: ComfyUI exports the canvas as an
API graph, the workflow service validates both against the profile and the
executor's `object_info` and freezes them in a revision, an attempt pins the
revision with the parameters the validation found, and the worker validates it
again, normalises it and POSTs it.

In the browser, a plugin of ComfyUI's page holds Studio's panel in an iframe;
the two windows talk by `postMessage`, and the panel alone calls the API.

What is hard. Everything between two awaits of the worker: its lease may lapse,
the row may be reviewed or retried, the executor may forget the prompt, the
process may die. Nothing catches an exception of the worker's loop
(`void generationWorker.run()`), so every uncaught one is a crash here. All
writes are whole rows guarded by a version, so every transaction may act on a
row that is no longer there. A client that got no answer sends its command again
while the first one may still be running. Canvas and API graph are validated as
two independent documents, by a list of checks that never follows the graph, and
the executor may change after every verdict. Nearly all service tests run on a
store that is not the one of production. In the browser the iframe is a new
document after every change of tabs, while messages of the old one are still on
their way. The full list, with the line of each, is under `hazards` in
`PROJECT.json`.

What makes each part correct: the worker sends a prompt at most once while its lease
lasts, loses no attempt, and never touches a settled one; the rows of attempt, shot and project
tell one story whichever transaction ends first; a closed project stays closed;
spending stays within the budget; no save of a draft is lost and no command
takes effect twice; a revision found valid makes what its canvas shows; both
stores answer alike; the browser shows what the panel in its frame
says, and keeps the user's graph once a run is shown.

## 2. The modules

- **`VideoOps`** - no state: the transition tables of the domain package as
  functions from status to set of statuses, the failure codes, and what a
  failure or a verdict does to shot and project.
- **`GenerationWorker`** - the core. Variables: the rows (`attempt`,
  `evaluation`, `shot`, `project`, `revision`), the executor (`jobs`, `posts`,
  `executor`), and for each worker process the program point and the locals of
  `processAttempt` that survive an await (`worker`). One action is one database
  transaction or one call of the executor; what runs between two awaits belongs
  to the action before. The order of the actions is the order of the code:
  `RecoverStale`, `ClaimForRecovery` or `ClaimNext`, `Load`, `RecordIntent`,
  `LookUpHistory`, `Revalidate`, `PostPrompt`, `ReceiveAnswer` or `LoseAnswer`,
  `ReadBack` or `ReconcileUncertain`, `Persist` or `Adopt`, the stream or
  `PollHistory`, `Finish`, `Ingest`, `CommitResult` or `FailAttempt`,
  `EndOfWork`. `Heartbeat`, `Crash`, `Stop` and `Restart` come in between;
  `SubmitRun`, `CreateAttempt`, `RetryAttempt`, `AcceptAttempt`,
  `RejectAttempt` and `CheckRevision` are the API; `LeaseLapse`,
  `ReceivePrompt`, `FinishJob`, `LosePrompt` and `ExecutorVanishes` are time and
  the executor. With `Stalls` a lease may also lapse under a worker that is at
  work (`HolderAtWork`); the history variable `stalled`, which no action reads,
  remembers whose did.
- **`RunContract`** - the abstract specification: what the submitter of a run
  is promised. `GenerationWorker!KeepsContract` is the refinement.
- **`ProjectLedger`** - the same rows seen as versioned rows. A transaction
  (`tx`) reads the rows one by one in the code's order, each read checked by the
  guard the code has there (`Admits`), and commits everything it writes at once
  if the versions it read still stand. Two clients overlap in any order.
- **`Outbox`** - the transactional outbox. Variables: the message of each
  trigger event and of each finding (`outbox`), the agent's `run` and `finding`
  of a trigger, the paid `calls` and webhook `posts`, and where each worker
  process is in `pollOnce` and `afterCommit` (`worker`). `Claim` takes the row
  lock; `CommitClaim` is everything the claim's transaction commits, and
  `CommitUnseen`, `ConsumeThrows` its failures. `Unresolved` are the triggers
  without a project or whose resource is not found, which are delivered and left
  at that (`operator.ts:545`, `571`, `761`). After the commit `CheckRun`,
  `CallModel`, `SaveOutcome` (the agent) run beside `Tell` (the webhook).
- **`Idempotency`** - a client's key. Variables: the `record` of each key, each
  request in progress (`handler`), and what the world saw: executions `applied`,
  paid `calls`, responses `told`. `Insert` and `Select` are the two
  statements of `reserve`; `CommitMutation` ends `executeIdempotent`;
  `RefuseWork`, `CallModel`, `SaveRun`, `Release` and `Complete` are
  `executeIdempotentDeferred` around the digest.
- **`Bridge`** - the two pages of a managed run. Variables of ComfyUI's page: the
  `frame`'s document, `connected`, `status`, and how far each click's export is
  (`clicks`); of each document: whether it has `loaded`, the `panel` in it, and
  the messages under way (`toComfy`, `toPanel`). Every `attach` begins a new
  document. `HandleMessage` and `HandleParentMessage` are the two listeners,
  `ClickRun` and `FinishExport` the two sides of the await in
  `exportCurrentWorkflow`, `CreateRun` the panel's mutation, `SendTemplate` and
  `SendStatus` its effects, `Render`, `SignIn` and `SignOut` the token gate.
- **`StoreRows`, `PostgresStore`, `MemoryStore`, `Stores`** - the repositories.
  A store is a record of tables (`StoreRows`); a repository call is an operator
  from a store and its arguments to a new store, an answer and a value. In
  `PostgresStore` a call is its statements in order, with the constraints and
  triggers of the migrations as the reasons a row is refused (`ShotFault`,
  `RevisionFits`, ...) and the driver's SQLSTATE as its answer; in `MemoryStore`
  it is the code over maps. `Stores` makes every call on both, in transactions
  that commit, are refused or throw: variables `mem`, `pg`, what they were when
  the transaction `begun`, and the `last` call's two answers.
- **`WorkflowStudio`** - the workflow service over `PostgresStore`. Variables: the
  committed `store`, the `command` each client waits for and how often it sent
  it (`try`), the transactions that have read and not yet written (`running`),
  and the draft each client last saw (`seen`). `Send` and `Resend` begin a
  transaction with what it reads (`Read`: scope, draft, revision, the
  executor's answer); `Finish` writes and commits (`Written`: `SaveDraft`,
  `CreateRevision`, `ValidateRevision`, each under `Mutation`, the two-level
  key); `Die` is a transaction lost with its process.
- **`H3Profile`** - no state: `validateMinimaxH3T2vaPreview`, its parsing of
  both graphs, the wiring, the compared fields, the profile's limits and the
  executor's capabilities, over graphs with a handful of value kinds.
- **`TemplateCompiler`** - no state: `compileWorkflow`, its manifest checks and
  the binding of parameters.
- **`MediaEvaluator`** - no state: `evaluate`, its checks of a clip's bytes, of
  what `ffprobe` says and of two runs of `ffmpeg`, one that decodes and one that
  looks for motion, and the code of the first that fails. Each run ends well or
  not on its own, and what the process runner has read when it resolves may be cut
  short (`ToolRuns`).
- **`ManagedCanvas`** - composes the three with what happens to a graph: edits of
  the canvas and of the export, `Export`, `CreateRevision`, validations that ask
  the executor and write later (`StartValidation`, `FinishValidation`), an
  executor that changes, the attempt (`QueueAttempt`), the worker's part up to
  the POST (`Claim`, `ReadRevision`, `RecordIntent`, `LookUp` after a recovery,
  `Submitted`), and the clip the executor makes of the prompt, with a blemish or
  none, and its evaluation (`Finish`). The attempt's `state` is how far its worker
  is; the steps that write its row, `Claim`, `RecordIntent`, `Refuse` and `Finish`,
  are only taken while the trigger lets them (`Writable`: the revision is valid).
  Where it does not, the statement throws and the worker ends (`WorkerDies`, which
  may come at any step), and the row stays as it is. What an executor
  makes of a graph (`Makes`) is read from the output back along the links
  (`Behind`, `Taps`), never by the classes the profile looks for.
- **`GenerationWorker_proofs`, `ProjectLedger_proofs`, `Stores_proofs`,
  `WorkflowStudio_proofs`, `ManagedCanvas_proofs`, `Outbox_proofs`,
  `Idempotency_proofs`, `Bridge_proofs`** - the theorems (section 4).
- **`MCWorker`, `MCLedger`, `MCOutbox`, `MCIdempotency`, `MCBridge`, `MCStores`,
  `MCCanvas`, `MCStudio`** - the constants of the runs.

Abstractions worth knowing. Prompts, artifacts and graphs have no content; a
prompt is its ordinal among the POSTs of its attempt. `MEDIA_INVALID` stands for
the evaluator's codes, none of them recoverable. The history lists finished
prompts, and may or may not list open ones (ComfyUI does not, the bundled fake
does). The check of the budget in `processAttempt` is left out: no route changes
a budget, and the recorded spend never passes it. In `ProjectLedger` an attempt
between the queue and the executor is "queued", and `reviewAttempt`, which only
bumps a version, is an `Abort` of whoever loses to it. In the stores a row has the columns that some check,
refusal or property tells apart; a hash is the value hashed (a graph's includes
its parameters), so two graphs never collide. In `WorkflowStudio` the writes of a
transaction are one step: two transactions with one key wait for each other at
the key's row, two of one shot at the lock the repositories take, so the order of
their commits decides; the reads before are what may be stale. In `H3Profile` a
JSON value is its kind and its value, durations are hundredths of a second, and a
message of the error list is its code and subject. In `Bridge` the list of runs
is the number of changes it has gone through; request ids are unique, so the
replay checks of both sides never refuse a message of theirs and are left out; a
reload of the panel's document in place is left out too (nothing in the code
causes one).

## 3. The runs

| Run | Instance | Shows |
|---|---|---|
| `worker_race` | 2 workers whose leases outlast their work, 1 run, 2 posts, 3 faults, executor may vanish, fairness | `AtMostOnePost`, `OneWorkerPerAttempt`, `KeepsContract`, `EveryAttemptSettles` |
| `worker_stalls` | 2 workers that may sleep past their lease, 1 run | `ReviewedIsEvaluated`, `SettledIsFinal` |
| `worker_retry` | 1 worker, 3 attempts of a shot with limit 2, a second shot, 1 fault | `ShotFollowsAttempt`, `GeneratingHasWork` |
| `ledger_race` | 2 transactions, 1 shot, 3 attempts with limit 2 | `OnePendingPerShot`, `AttemptLimit`, `AcceptedIsUnique`, `PinsSurvive` |
| `ledger_closing` | 2 transactions, 2 shots, 2 attempts | `CompletedIsAccepted`, `ClosedIsFinal` |
| `stores_lockstep` | 8 kinds of sessions of up to 3 calls on both stores, 2 units of time | `SameRows`, `KnownSplits`, `SameCodes`, `RetryIsAnswered`, `TerminalIsFrozen` |
| `canvas_export` | the shipped canvas, 2 changes to it, to its export or to the executor; 6 blemishes of a clip and none; the template with intact and damaged manifests | `RunsAsShown`, `ExportIsValid`, `VerdictFitsFingerprint`, `SubmittedAsRecorded`, `OnlyPreviewsAreReviewed`, `TemplateMakesInput` |
| `studio_drafts` | 2 clients, 3 commands, 1 fault | `EditsAreSeen`, `CommittedIsAnswered` |
| `outbox_answers` | 2 workers, 2 triggers (the webhook is told of one) and one without its resource, either provider, 3 faults, fairness | `AtMostOnePaidCall`, `ToldAtMostOnce`, `LostFindingIsVisible`, `EveryTriggerIsAnswered` |
| `idempotency_keys` | 3 requests in progress under 1 key, 1 mutation, 2 digests, 2 times, 2 faults, fairness | `AppliedOnce`, `ReplayIsFaithful`, `NoCallAfterAnswer`, `EveryReservationEnds` |
| `bridge_tabs` | 2 documents of the panel, 1 click, 1 change of the runs, 1 sign-out, fairness | `FeedIsOfThisFrame`, `NoTemplateOverRun`, `ReadyAfterLoadConnects`, `EveryPanelGetsContext`, `HeardExportIsPosted` |
| `ledger_budget` | 2 transactions, 3 shots, 3 attempts, budget for 2 | violated: `BudgetGoverns`, section 5 |

What the new ones say. `EditsAreSeen`: a draft is only ever replaced by a client
that saw exactly what it replaces. `CommittedIsAnswered`: whoever runs a committed
command again is answered with what it made. `RunsAsShown` follows the wires of
every graph that is found valid, from the one output back, and finds at the end
what the canvas shows: one prompt for picture and sound, the seed, the models, the
frames; the code's checks look at nodes by class and at wires one by one.
`VerdictFitsFingerprint`: verdict and fingerprint of a revision are of one answer
of the executor. `OnlyPreviewsAreReviewed` joins the three places a size and a
duration are kept at, the attempt's record, the graph that is executed and what
the evaluator expects: what passes is sound and of the preview's size and length,
and what is made as asked, by tools that all end well, passes exactly if the
preview was asked for. It speaks of results that were committed: while the revision
is invalid the trigger lets none be, and the attempt stays where it is (section 5,
3). `SameRows`, `SameCodes` and `KnownSplits` compare the store of the
tests with the store of production; `OnlyMemory`, `OnlyPostgres` and `OtherRow` of
`Stores` list all calls at which they part, each a gap of the tests: the in-memory
store has no foreign keys, does not check a shot's ordinal on update, lets an
attempt of an invalid revision be written, and delays no failed message.

Bounds, and why they are enough. `MaxPosts = 2` lets the second POST happen that
`AtMostOnePost` forbids. `MaxFaults` counts crashes, stops, lost executor state,
lost version races: three of them let a worker die before the POST, its
successor die after it, and a third one meet the remains. Two workers are the
fewest that contend for a lease; one attempt is enough for that, two for what a
retry does to the rows of the first, and the shot's limit of two makes the limit
bite. In `ProjectLedger` two clients are the fewest that overlap;
`NewProject` says where a project begins, and `ledger_closing` begins with a
ready one: a draft only spends a version on getting ready.
`MaxVersion` ends the otherwise endless pinning and unpinning, and transactions
that reread after an `Abort` are the same transactions again. `SYMMETRY` is on
clients only (`studio_drafts` too), whose identity no property names.

In `Outbox` two triggers are the fewest that can be mixed up, and a hosted
process next to a free one covers a change of provider; three faults let a claim
fail, its successor die after the commit, and a third process meet the run; the
third trigger has no resource. In
`Idempotency` three requests are a holder, one that waits for it, and one that
comes after a release; keys do not interact, so one is enough, and the two digests
differ in whether their body names the end of the window.

In `stores_lockstep` a session begins with the rows its calls refer to and ends at
the first call the stores answer differently, since from there the two services
are in different states; three calls are enough for a mutation, one that changes
what it did, and its retry, and for a claim, a recovery and a late write. In
`studio_drafts` the third command is the one that comes between a first command
and its retry of the other client; the shot has one revision, so that there is a
base to set or clear, and another shot has one to be refused. In `canvas_export`
two changes are one on each side of the comparison, or one that hides another;
the edits are chosen so that each kind of check has one that only it catches.
Six nodes stand for those that may be deleted; validations, the attempt, its clip
(blemished in one way at most) and the template run come on top.

In `Bridge` two documents are the hidden first one and the one of the opened tab,
so messages of a panel that is gone meet its successor; one change of the runs
tells an empty list from one with a run, which is all the template asks.

`MaxAttempts` and `MaxShots` bound the tables; deadlock checking stays on in
every run but those of `Idempotency` and `WorkflowStudio`, where all requests may
be answered and no client sends another, of `Bridge`, whose page may be closed,
and of `Stores` and `ManagedCanvas`, whose sessions end. The loop of a worker and the transactions of a client
always have a next step.

Fairness (`worker_race`, `outbox_answers`, `idempotency_keys`, `bridge_tabs`). Weak fairness of
each worker's next step: every await in the loop has a timeout or polls. Weak
fairness of `Restart`: the process runs under a supervisor. Weak fairness of
`LeaseLapse`: time passes. Nothing is assumed of the executor, of the API's users
or of the network: attempts settle although the executor may hang on to a prompt
for ever, because the generation timeout of the stream ends it. In `Outbox` the
second after a failed delivery passes too; in `Idempotency` each step of a request
is fair, because the model call and the connection pool have timeouts, and an
unfinished transaction ends with its process. In `Bridge` the event loops of both
pages go on: documents load and render, messages are delivered, promises settle;
users need do nothing. In `GenerationWorker` two things do hold them up, and
`EveryAttemptSettles` excludes them: a revision that became invalid, and an
executor that is gone (section 5, 2 and 3).

Every property has a mutant, a plausible bug put into one definition, that makes
the run fail: see `mutants` in `PROJECT.json`. The mutated forms stand before the
definitions they replace.

## 4. The proofs

Every theorem holds for all values of the constants: any number of workers,
clients, transactions, rows, versions and faults.

| Module | Inductive invariant | Properties | Assumes |
|---|---|---|---|
| `GenerationWorker_proofs` | `InductiveInvariant` | `PostedAtMostOnce`, `ProcessedByOne` | |
| | `RowInvariant` | `ReviewedWasEvaluated`, `ShotsFollow`, `GeneratingWorks`, `SettledStays`, `AlwaysTyped` | |
| | both | `ContractKept`, the refinement of `RunContract` | `~Stalls` |
| `ProjectLedger_proofs` | `LedgerInvariant` | `OnePending`, `LimitHolds`, `OneAcceptance`, `CompletedOverAccepted`, `ClosedStays`, `PinsStay`, `TypeCorrect` | |
| `Stores_proofs` | `StoresInvariant` | `StoresHoldTheSameRows`, `StoresPartWhereKnown`, `StoresRefuseAlike`, `RetriesAreAnswered`, `TerminalAttemptsAreFrozen` | |
| `WorkflowStudio_proofs` | `StudioInvariant` | `CommittedAnswered`, `EditsSeen` | |
| `ManagedCanvas_proofs` | `CanvasInvariant` | `ValidGraphsRunAsShown`, `VerdictAndFingerprintAgree`, `SubmittedPromptsMakeWhatIsRecorded`, `PreviewsAloneAreReviewed`, `ExportsAreValid`, `TemplatesMakeTheirInput` | |
| `Outbox_proofs` | `OutboxInvariant` | `PaidAtMostOnce`, `ToldOnce`, `NoSilentLoss` | |
| `Idempotency_proofs` | `KeyInvariant` | `KeyAppliedOnce`, `FaithfulReplay`, `PaidBeforeAnswer` | |
| `Bridge_proofs` | `BridgeInvariant` | `FeedIsCurrent`, `CanvasIsSpared` | |

The constants have their types and nothing else is assumed of them, with three
exceptions: `NullAssumption` of `Stores` says that `None`, the NULL of a column, is
no number, no status and no error code; `NoneAssumption` of `WorkflowStudio` says
the same of numbers, error codes and drafts; and `CanvasAssumption` of
`ManagedCanvas` says two things: a blemish of a clip is one, that is, not as the
evaluation wants it; and the manifests are restricted: a binding whose name the
compiler knows and whose node and path are an input of the template is the shipped
one of that name. So a manifest may miss, repeat, reorder or misspell bindings, but
not bind a name to another input that exists, which the compiler could not tell.
Each action has a lemma that it
keeps the inductive invariant; lemmas about one row, one record or one transaction
carry what several actions share.

**The worker's prompts** (`IInv` of `GenerationWorker`). `AtMostOnePost` is not
inductive: that nobody POSTs an attempt again rests on what the workers believe.
`IInv` says what that is, of every attempt whose lease has not run out under the
worker on it (of every attempt but the `stalled`):

- `JobWhileWorking`: a worker has an attempt exactly between claim and end;
- `JobIsHeld`: that attempt is settled, or leased to it with a live lease, so
  no other worker can claim or recover it;
- `SentOnceDurably`: a prompt that was sent has a durable intent, so its
  attempt is never on the queue again, where a fresh claim could find it;
- `LocalsAreSound`: at each program point, what the locals say of the row and
  of the POSTs. The heart of it: a worker that gets as far as the POST claimed
  its attempt from the queue (`fresh`), its row still says `submitting`, and
  nothing was sent; a worker that recovered an attempt never reaches the POST.

General lemmas say what a step of one worker leaves alone of the others and of
the rows. A worker renews its lease twice per period, so as a rule it only lapses
once its holder stopped; but a worker may sleep, and the code does not look at the
lease's owner when it records the intent (`generation.ts:1719` looks at the status),
nor again at the row before the POST (`generation.ts:1774` looks at what was
claimed). The lapse of such a lease makes its attempt `stalled`, and there `IInv`
gives up: two workers may have it, and a second POST is reachable. What is proved is
that nothing else leads there: `PostedAtMostOnce` says that an attempt POSTed twice
is a stalled one, `ProcessedByOne` that an attempt two workers have is one, with no
assumption on leases. The stalled attempts do not disturb the others, because a
worker reaches no other attempt and no other worker by a step on its own
(`OnlyItsOwn`, `GivenUp`).

**The worker's rows** (`RowInv`). What the rows tell of attempt, shot, project and
evaluation needs no such assumption, because the transactions that write them
look at what they find in the rows and not at the lease: `SettledIsFinal`,
`ReviewedIsEvaluated`, `ShotFollowsAttempt` and `GeneratingHasWork` hold although
two workers may hold one attempt. Three parts carry the induction. `RowsAreSound`
says of one attempt alone what its row implies: a live lease only where there is
something to do, a prompt id only from the submission on, an evaluation only at
the end. `WorkersRecall` is what a worker's locals have in common with a row that
somebody else may have written since: a prompt id once read is still the row's,
and only a prompt the executor finished gets as far as `finishSuccess`.
`ReviewHoldsShot` covers the shot that never was seen generating (section 5, 1).
In `ContractKept` the one
difficulty is that a step of the worker writes many variables and the contract has
one phase per run: at most one attempt changes its phase in a step
(`OneRow`, `ClosingStep`), each such change is an action of `RunContract`, and
everything else is a stutter. It rests on both invariants and assumes `~Stalls`, that
no lease runs out under the worker that holds it: the contract has no second POST.

**The ledger** (`IInv` of `ProjectLedger`). The rows of one project agree with one
another when nobody is at work (`RowsAgree`); a transaction that has read some of
them may hold what is no longer true. `Known` says how much of it still is: a row
can only have moved on to a greater version, and all that was read of it, with the
guard it passed there (`Admits`), is true as long as its version is the one read.
Some of what is read is not written, and its version is not compared; there the
knowledge hangs on another row's version: the number of a shot's attempts on the
shot's, since whoever adds one writes the shot, and the acceptance of the other
shots on the project's, since whoever reopens one writes the project. A commit
compares the versions of what it writes, so either it fails or what it knows is
true. `CompletedIsAccepted` says nothing of the reverse, which the code does not
keep (section 5, 5).

**The stores** (`IInv` of `Stores_proofs`). Two stores that answer alike are alike
(`Alike`): the tables are the same row for row, but for the time an attempt was
last written, the time a failed message is due again, and the numbers of the
events, of which only the order is shared. That is enough to answer the next call
alike only if both are sound. `MemSound` is what both have: the columns, event
numbers below the next one, and that a completed key of a workflow mutation names
a row in the scope of its request (`KeysNameRows`). `PgSound` adds what PostgreSQL
enforces and the memory does not: its unique indexes (`Indexed`), its foreign keys
(`Referenced`), one draft per shot. The first part of the module compares each of
the repository calls on any two such stores, with any arguments a service can
send (`Compared`): either both refuse, with codes as `SameCodes` has them, or both
go on alike, or the call is one of the listed splits. Where one side is a loop
over a map and the other a `SELECT ... ORDER BY ... LIMIT 1`, the row with the
least time must exist (`LeastNumber`) and be the same row on both sides
(`FirstIsOne`). The rest is about transactions: what a store was at `BEGIN` is
sound too, and everything since is `Later` than it, so a rollback takes both back
to alike stores, except for the sequence of the events, which PostgreSQL does not
take back and whose order survives the gap. `TerminalAttemptsAreFrozen` is the same
`Later` read as an action property: the exclusive conditions of claim, recovery,
heartbeat and release and the version check of an update each leave a terminal
row alone. `RetriesAreAnswered` follows from `KeysNameRows`: a replay looks for the
row in the scope its request names, and finds it.

**The studio** (`IInv` of `WorkflowStudio`). The tables are sound
(`TablesAreSound`: the shot has one draft at most, revisions stay with their shots,
every key is of a command that was sent). A client's `seen` draft and what a transaction
has read are the draft as it is now or as it was before (`WasDraft`,
`ReadIsSound`), and versions only grow. A save goes through only if the version
the client expects is the stored one; the read lies between the two in time, so all
three are the same draft, and what is replaced is what the client saw: `EditsAreSeen`. A committed
command has its key in the table with what it made (`KeyIsTrue`), nobody else's
command has that key (`KeysAreUnique`), and no later write takes it away; whoever
sends the command again finds it, whether before or after its own reads:
`CommittedIsAnswered`.

**The canvas** (`IInv` of `ManagedCanvas`). The heart is a theorem about the list of
checks, for graphs of any size. A graph without issues has exactly one node of each
class but the VAE loaders, of which it has two (`FoundOnce`, `VaeFound`), so the node the profile
finds by a class is a node, and a wire that was compared leads there (`OneBehind`).
`Hops` follows them: from the output back, each input an executor reads leads to
the node the profile has read, also where two paths meet, and so a parameter takes
effect at one place (`OneTap`) with the value the profile has of it (`MadeIsRead`).
That value is the canvas's, because of every compared field something else checked
that both sides have it, and a comparison of two defined values is not skipped
(`ReadAsShown`); the frames are the fewest that cover the duration (`FramesCover`).
Normalisation changes the prefix of the output and nothing else an executor reads
(`NormalizedMakes`). The invariant then carries the verdict: one that is not yet
written is of the stored graphs and of the answer its validation got
(`PendingIsSound`), so whichever validation writes last, verdict and fingerprint are
of one answer; and an attempt that is submitted has the parameters of the revision
and was found valid (`AttemptIsSound`). The evaluation passes a clip when ten checks
do (`Checked`), and of the lengths of the grid 124 frames alone are within a quarter
of 5 s (`OneLength`).

Two theorems are of single graphs. `TemplatesMakeTheirInput`: a compilation that
throws nothing has found each name bound once, at the shipped place
(`ChecksPassed`, `OneSetting`), so the result is the template with its targets set
(`BoundIsShaped`), and a graph of that shape makes what it is read as
(`ShapedLiterals`, `ShapedWired`). `ExportsAreValid`: a canvas that holds the pinned
nodes exports a graph of the same shape (`ExportedIsShaped`) with the values the
profile reads off the canvas (`OthersAreShown`), and for durations of whole frames
both round to one length (`FramesAgree`).

**The outbox.** That nobody pays twice for an event rests on who works after the
commit: `ClaimsAreExclusive` (a claimed message is due and in one transaction),
`AfterIsOwned` (whoever is in `afterCommit` is the only one to have delivered its
message, which nobody can claim again) and `NothingBeforeDelivery` (no call, post,
run or finding of a message not delivered). `FindingIsAnnounced` ties the finding,
the end of the run and the second message together.

**The keys.** `release` and `complete` address a record by its key alone;
`HoldersOwnTheirKey` says why that is enough: between reservation and end a request
is the only one under its key, and the record is the one it reserved. So whoever
completes finds nothing applied and nobody told (`RecordIsTrue`). The mutation in a
transaction holds the key by the lock of its uncommitted insert, the digest by the
committed reservation, and the two exclude each other.

**The bridge.** That no template follows a run that is shown needs an argument
about messages in order. `StatusComesLast`: a panel that reported a run has a list
with a run in it, so behind a status no template is on its way; a status that is
shown was the head of its panel's queue. `NewsIsReal`: who shows or reports a run
learned of it from the API, so every panel that loads its list later finds a run
in it too. `FutureIsBlank`: the document of the next attach has sent nothing, so it
cannot break either.

The inductive invariants are proved, and no run repeats them; while they were
developed TLC checked each on the instances of section 3.

Model-checked only:

- liveness (`EveryAttemptSettles`, `EveryTriggerIsAnswered`, `EveryReservationEnds`,
  `EveryPanelGetsContext`, `HeardExportIsPosted`, `ReadyAfterLoadConnects`):
  fairness is stated with `ENABLED`, which this prover does not treat.

## 5. Where code and documentation disagree

1. A success first seen by polling skips `markRunning`, and
   `finishSuccess` only moves a shot that is `generating`. The attempt awaits
   review under a `queued` shot, which nobody can accept, reject or retry.
2. A run whose executor is gone is not timed out (`generation.ts:2070`, against
   `infra/gpu-executor/README.md:490`): the lookup's exception ends the process on
   every recovery. `EveryAttemptSettles` therefore excuses a vanished executor.
3. The trigger that protects attempts of invalid revisions also
   refuses the statements that would fail or reclaim them, and ends the worker
   (`0004_phase5_project_studio.sql:436`). `EveryAttemptSettles` excuses these, and
   `OnlyPreviewsAreReviewed` speaks of committed results only.
4. `ledger_budget`: a charge to a generating project does not bump the version
   (`generation.ts:706-724`, `909-914`). Two clients that create attempts at once
   read the same spend and the same version, both writes go through, and the second
   writes the sum the first wrote: three attempts on a budget for two. A worker's
   whole-row write of a stale project (`generation.ts:2477`) finds the unchanged
   version too; the run does not show that one.
5. Two acceptances at once leave a finished project open.
6. The default of `untilIso` is the time of the request and is
   hashed with it, so sending the same digest again under its key is answered as
   the reuse of the key for a different request (`app.ts:3695`).
7. The load event of the frame, when it comes after `panel.ready`,
   resets `connected` for as long as the panel lives; the comment of `detach`
   counts on `panel.ready` to restore it.
8. `detach` leaves `connected` true: Managed Run with another tab open exports the
   graph and drops it without an error (`bridge-runtime.js:280`).

9. Canvas and profile raise a duration to the 17-frame grid differently
   (`minimax-h3.ts:970`, `editor.json:1083`): at 5.17 s the canvas exports 124
   frames, the profile expects 141 and refuses the export. `ExportIsValid` is
   stated for durations of whole frames.
10. The template path makes 120 frames of 5 s, which the profile refuses
    (`index.ts:561`, `minimax-h3.ts:1073`).
11. A canvas that sets the frame length itself is stored as validated without a
    duration, and every attempt of it is refused (`generation.ts:265`).
12. A save without a version over an existing draft is answered 422 in memory and
    500 on PostgreSQL (`workflow.ts:647`).
13. The hash of an update includes what it takes from the current draft, so a retry
    may be a conflict (`workflow.ts:537`). `CommittedIsAnswered` is stated for
    commands that name their fields (`NamesItsFields`).

14. The worker evaluates every clip against the preview, 960x544 and 5 s within a
    quarter (`generation.ts:2311`), and not against what the attempt records: a
    valid revision of another size or length is rendered as asked and then failed,
    and a 5 s clip passes for an attempt of 15 s.
15. The process runner of the evaluator resolves at the tool's exit and not when
    its output has ended (`evaluator/src/index.ts:80`): the line that reports a
    black or frozen clip can be missed, and the clip passes.

Only item 4 has a run. Items 14 and 15 are `WhatWasAskedForIsReviewed` and
`BlackIsNotReviewed` of `ManagedCanvas`, violated with the constants of
`canvas_export`. Items 1, 5 and 7 have a definition at the end of their
module, `ReviewableShot`, `AcceptedIsCompleted` and `ReadyRestoresConnected`, which
TLC finds violated with the constants of `worker_race` (one worker and no fault
suffice), `ledger_closing` and `bridge_tabs`; 9 and 13 show when the named
condition is dropped. TLC finds 14 in eleven states and 15 in nine.
Two more without a run: after a stall two workers may POST
the same attempt (section 4; `posts[a] <= 1` with the constants of `worker_stalls`),
and an attempt whose prompt was accepted is failed
as `COMFY_UNAVAILABLE` when the read-back after the POST fails, so that a plain
retry may follow (`generation.ts:1825`, against `README.md:319`).

Seen while modelling, and no disagreement with a document: a clip that decodes is
failed as black or static when the second run of `ffmpeg` alone fails or times out
(`evaluator/src/index.ts:313`); two runs that compile
the same template at once may both find no stored version and one of them fails on
the unique hash (`index.ts:676`); the verdict of a slower validation replaces that
of a newer one; the replay of a revision's creation answers the first verdict
beside the current row; the `project.budget_denied` event of the attempt limit is
rolled back with its transaction (`generation.ts:648`).

## 6. Plan

1. Done: the worker, the rows, the outbox, the keys, the browser bridge, both
   stores, drafts and revisions, the profile, the template and the evaluator;
   theorems about all of them.
2. The event stream and its cursor (`app.ts:3041`), and the incidents of a
   digest's window against a reference definition.

Not modelled, and why: the event stream (its hazard is listed); HTTP routing,
authentication and serialisation, metrics
and tracing, the web client but for its bridge, deployment (I/O without state that another part
reads back); `ffprobe`, `ffmpeg` and object storage appear only as what they answer or the
failure they return.
