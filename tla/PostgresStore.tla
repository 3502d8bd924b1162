----------------------------- MODULE PostgresStore -----------------------------
(***************************************************************************)
(* The PostgreSQL repositories of packages/db, and the constraints and     *)
(* triggers of its migrations that a statement meets.  Each operator is    *)
(* one repository call made on the tables s; it returns what the call      *)
(* returns or throws, and the tables it leaves.  The repositories do not   *)
(* translate the driver's errors: a violated constraint is thrown as its   *)
(* SQLSTATE, in the order in which PostgreSQL meets them (before-row       *)
(* triggers, checks, unique indexes, foreign keys).                        *)
(***************************************************************************)
EXTENDS StoreRows

Unique == "23505"
ForeignKey == "23503"
Check == "23514"
Immutable == "55000"

(* An INSERT or UPDATE that its table's constraints answer with fault.     *)
Write(s, table, id, row, fault) ==
  IF fault = None THEN Ok(Put(s, table, id, row), id) ELSE Refuse(s, fault)

References(s, table, ids) == ids \ {None} \subseteq DOMAIN s[table]

UniqueAmong(rows, row, column) == \A other \in rows : other[column] # row[column]

-----------------------------------------------------------------------------
(* tenants, video_projects, shots                                          *)

TenantsEnsure(s) == Ok([s EXCEPT !.tenant = TRUE], None)

ProjectFault(s) == IF s.tenant THEN None ELSE ForeignKey

ProjectsCreate(s, id, row) ==
  IF Has(s, "projects", id) THEN Refuse(s, Unique)
  ELSE Write(s, "projects", id, row, ProjectFault(s))

(* UPDATE ... WHERE version = expected RETURNING *: no row is a conflict.  *)
ProjectsUpdate(s, id, row, expected) ==
  IF Has(s, "projects", id) /\ s.projects[id].version = expected
  THEN Write(s, "projects", id, row, None)
  ELSE Refuse(s, "OPTIMISTIC_CONFLICT")

ShotFault(s, id, row) ==
  IF row.status = "accepted" /\ row.accepted = None THEN Check
  ELSE IF \E other \in Others(s, "shots", id) :
            other.project = row.project /\ other.ordinal = row.ordinal
  THEN Unique
  ELSE IF ~ References(s, "projects", {row.project}) THEN ForeignKey
  ELSE IF ~ References(s, "attempts", {row.accepted, row.pinned}) THEN ForeignKey
  ELSE None

InsertShot(s, id, row) ==
  IF Has(s, "shots", id) THEN Refuse(s, Unique)
  ELSE Write(s, "shots", id, row, ShotFault(s, id, row))

(* One INSERT after the other; the first that fails throws.                *)
ShotsCreateMany(s, shots) ==
  LET inserted(n) == [s EXCEPT !.shots = WithRows(@, shots, n)]
      insert(i)   == InsertShot(inserted(i - 1), shots[i].id, shots[i].row)
      refused     == {i \in DOMAIN shots : insert(i).answer # "ok"}
  IN  IF refused = {} THEN Ok(inserted(Len(shots)), None)
      ELSE Refuse(inserted(Min(refused) - 1), insert(Min(refused)).answer)

ShotsUpdate(s, id, row, expected) ==
  IF /\ Has(s, "shots", id) /\ s.shots[id].version = expected
     /\ s.shots[id].project = row.project
  THEN Write(s, "shots", id, row, ShotFault(s, id, row))
  ELSE Refuse(s, "OPTIMISTIC_CONFLICT")

-----------------------------------------------------------------------------
(* generation_attempts                                                     *)

(* h3_validate_managed_attempt: the revision of a managed attempt is looked *)
(* up on every write of the attempt, whatever columns the write touches.   *)
RevisionFits(s, row) ==
  row.revision = None \/
  /\ Has(s, "revisions", row.revision)
  /\ LET revision == s.revisions[row.revision]
     IN  /\ InScope(revision, row.project, row.shot)
         /\ revision.validation = "validated"
         /\ revision.hash = row.hash

ExecutionUnchanged(old, row) ==
  old.revision = None \/ row.revision = None \/
  (row.revision = old.revision /\ row.seed = old.seed /\ row.hash = old.hash)

(* h3_generation_attempt_terminal_guard: the review columns, the version   *)
(* and updated_at of a terminal attempt stay writable.                     *)
Lifecycle(row) ==
  <<row.project, row.shot, row.key, row.corr, row.prompt, row.status, row.owner,
    row.expires, row.queuedAt, row.revision, row.hash, row.seed>>

(* Mutant of TerminalUntouched: only the status of a terminal attempt is    *)
(* kept.                                                                   *)
TerminalStatusKept(old, row) == old.status \in AttemptTerminal => row.status = old.status

TerminalUntouched(old, row) ==
  old.status \in AttemptTerminal => Lifecycle(row) = Lifecycle(old)

AttemptIndexes(s, id, row) ==
  LET rows == Others(s, "attempts", id)
  IN  /\ UniqueAmong(rows, row, "key")
      /\ UniqueAmong(rows, row, "corr")
      /\ row.prompt = None \/ UniqueAmong(rows, row, "prompt")
      /\ row.status = "accepted" =>
           \A other \in rows : ~ (other.shot = row.shot /\ other.status = "accepted")

AttemptFault(s, id, row) ==
  IF ~ RevisionFits(s, row) THEN Check
  ELSE IF ~ AttemptIndexes(s, id, row) THEN Unique
  ELSE IF ~ (References(s, "projects", {row.project}) /\ References(s, "shots", {row.shot}))
  THEN ForeignKey
  ELSE None

AttemptsCreate(s, id, row) ==
  IF RevisionFits(s, row) /\ Has(s, "attempts", id) THEN Refuse(s, Unique)
  ELSE Write(s, "attempts", id, row, AttemptFault(s, id, row))

UpdateAttempt(s, id, row) ==
  LET old == s.attempts[id]
  IN  IF ~ RevisionFits(s, row) THEN Refuse(s, Check)
      ELSE IF ~ ExecutionUnchanged(old, row) \/ ~ TerminalUntouched(old, row)
      THEN Refuse(s, Immutable)
      ELSE Write(s, "attempts", id, row, AttemptFault(s, id, row))

AttemptsUpdate(s, id, row, expected) ==
  IF Has(s, "attempts", id) /\ s.attempts[id].version = expected
  THEN UpdateAttempt(s, id, row)
  ELSE Refuse(s, "OPTIMISTIC_CONFLICT")

Bump(row, at) == [row EXCEPT !.version = @ + 1, !.updated = at]

AttemptsReview(s, id, decision, at) ==
  IF Has(s, "attempts", id)
  THEN UpdateAttempt(s, id, [Bump(s.attempts[id], at) EXCEPT !.review = decision])
  ELSE Refuse(s, "NOT_FOUND")

(* The candidate is picked before the row is written: a candidate whose    *)
(* write a trigger refuses is not passed over.                             *)
Lease(s, ids, worker, now, until, by, status) ==
  IF HoldsLease(s, worker, now) \/ ids = {} THEN Ok(s, None)
  ELSE LET id  == First([a \in ids |-> s.attempts[a][by]])
           row == Bump(s.attempts[id], now)
       IN  UpdateAttempt(s, id, [row EXCEPT !.owner = worker, !.expires = until,
                                            !.status = IF status = None THEN @ ELSE status])

AttemptsClaimNext(s, worker, now, until) ==
  Lease(s, {a \in DOMAIN s.attempts : s.attempts[a].status = "queued"
                                      /\ Expired(s.attempts[a], now)},
        worker, now, until, "queuedAt", "claimed")

AttemptsClaimForRecovery(s, worker, now, until) ==
  Lease(s, {a \in DOMAIN s.attempts : s.attempts[a].status \in RecoveryStatus
                                      /\ Expired(s.attempts[a], now)},
        worker, now, until, "updated", None)

(* updated_at is the database's clock, not the caller's.                    *)
AttemptsHeartbeat(s, id, worker, now, until) ==
  IF HeldBy(s, id, worker)
  THEN UpdateAttempt(s, id, [Bump(s.attempts[id], now) EXCEPT !.expires = until])
  ELSE Ok(s, None)

Unleased(row) ==
  [row EXCEPT !.owner = None, !.expires = None,
              !.status = IF @ = "claimed" THEN "queued" ELSE @]

AttemptsRelease(s, id, worker, now) ==
  IF HeldBy(s, id, worker) THEN UpdateAttempt(s, id, Unleased(Bump(s.attempts[id], now)))
                           ELSE Ok(s, None)

(* One statement: a row a trigger refuses takes the others down with it.   *)
(* The indexed columns keep their values.                                  *)
AttemptsRecoverStale(s, now) ==
  LET stale == {a \in DOMAIN s.attempts :
                  s.attempts[a].status = "claimed" /\ s.attempts[a].expires # None
                  /\ s.attempts[a].expires < now}
      row(a) == Unleased(Bump(s.attempts[a], now))
      faults == {UpdateAttempt(s, a, row(a)).answer : a \in stale} \ {"ok"}
  IN  IF faults # {} THEN Refuse(s, CHOOSE fault \in faults : TRUE)
      ELSE Ok([s EXCEPT !.attempts = [a \in DOMAIN @ |-> IF a \in stale THEN row(a) ELSE @[a]]],
              stale)

-----------------------------------------------------------------------------
(* artifacts, evaluation_results, agent_runs, workflow_versions            *)

ArtifactsCreate(s, id, row) ==
  IF Has(s, "artifacts", id) THEN Refuse(s, Unique)
  ELSE IF \E other \in Others(s, "artifacts", id) :
            other.object = row.object \/ other.attempt = row.attempt
  THEN Refuse(s, Unique)
  ELSE Write(s, "artifacts", id, row,
             IF References(s, "attempts", {row.attempt}) THEN None ELSE ForeignKey)

EvaluationsCreate(s, id, row) ==
  IF Has(s, "evaluations", id) THEN Refuse(s, Unique)
  ELSE IF ~ UniqueAmong(Others(s, "evaluations", id), row, "attempt") THEN Refuse(s, Unique)
  ELSE Write(s, "evaluations", id, row,
             IF References(s, "attempts", {row.attempt}) THEN None ELSE ForeignKey)

AgentRunsCreate(s, id, row) ==
  IF Has(s, "agentRuns", id) THEN Refuse(s, Unique)
  ELSE IF ~ UniqueAmong(Others(s, "agentRuns", id), row, "runId") THEN Refuse(s, Unique)
  ELSE Write(s, "agentRuns", id, row,
             IF References(s, "projects", {row.project}) THEN None ELSE ForeignKey)

AgentRunsUpdate(s, id, row, expected) ==
  IF Has(s, "agentRuns", id) /\ s.agentRuns[id].version = expected
  THEN Write(s, "agentRuns", id, row, None)
  ELSE Refuse(s, "OPTIMISTIC_CONFLICT")

AgentRunsCost(s, project) == Ok(s, CostOf(s.agentRuns, project))

WorkflowVersionsCreate(s, id, row) ==
  IF Has(s, "workflowVersions", id)
     \/ ~ UniqueAmong(Others(s, "workflowVersions", id), row, "hash")
  THEN Refuse(s, Unique)
  ELSE Write(s, "workflowVersions", id, row, None)

-----------------------------------------------------------------------------
(* idempotency_records: resource is None until the record is completed.    *)

IdempotencyReserve(s, key, operation, request) ==
  IF ~ Has(s, "keys", key)
  THEN [answer |-> "reserved", value |-> None,
        s |-> Put(s, "keys", key, [operation |-> operation, request |-> request,
                                   resource |-> None])]
  ELSE LET row == s.keys[key]
       IN  [ s |-> s, value |-> row.resource,
             answer |-> IF row.operation # operation \/ row.request # request THEN "conflict"
                        ELSE IF row.resource # None THEN "replay"
                        ELSE "in_progress" ]

IdempotencyComplete(s, key, resource) ==
  IF Has(s, "keys", key) /\ s.keys[key].resource = None
  THEN Ok([s EXCEPT !.keys[key].resource = resource], None)
  ELSE Refuse(s, "DATABASE_ERROR")

IdempotencyRelease(s, key) ==
  Ok(IF Has(s, "keys", key) /\ s.keys[key].resource = None THEN Drop(s, "keys", key) ELSE s,
     None)

-----------------------------------------------------------------------------
(* workflow_drafts, workflow_revisions                                     *)

(* assertProjectShotScope, which also locks the shot.                      *)
ShotInProject(s, project, shot) ==
  Has(s, "projects", project) /\ Has(s, "shots", shot) /\ s.shots[shot].project = project

(* The scope triggers: a parent or base revision is one of the same shot.  *)
RevisionInScope(s, id, row) ==
  id = None \/ (Has(s, "revisions", id) /\ InScope(s.revisions[id], row.project, row.shot))

DraftOf(s, project, shot) ==
  {d \in DOMAIN s.drafts : InScope(s.drafts[d], project, shot)}

DraftFault(s, row, others) ==
  IF ~ RevisionInScope(s, row.base, row) THEN Check
  ELSE IF \E other \in others : InScope(other, row.project, row.shot) THEN Unique
  ELSE None

(* The write and the completion of its key, or the error of the write.     *)
Completing(write, key) ==
  IF write.answer # "ok" THEN write
  ELSE [write EXCEPT !.s = IdempotencyComplete(write.s, key, write.value).s]

(* A replay answers with the shot's present draft when it is the one the   *)
(* key made.                                                               *)
ReplayDraft(s, row, id) ==
  IF DraftOf(s, row.project, row.shot) = {id} THEN Ok(s, id) ELSE Refuse(s, "DATABASE_ERROR")

DraftsCreate(s, id, row, key) ==
  IF ~ DraftIsBounded(row) THEN Refuse(s, "INVALID_ARGUMENT")
  ELSE IF ~ ShotInProject(s, row.project, row.shot) THEN Refuse(s, "SCOPE_VIOLATION")
  ELSE LET key_ == IdempotencyReserve(s, key, "workflow-draft.create", <<id, row>>)
       IN  IF Replayed(key_) THEN ReplayDraft(s, row, key_.value)
           ELSE IF ~ Fresh(key_) THEN ReservationRefused(s)
           ELSE IF Has(s, "drafts", id) THEN Refuse(s, Unique)
           ELSE Completing(Write(key_.s, "drafts", id, row,
                                 DraftFault(s, row, Others(s, "drafts", id))), key)

(* Mutant of DraftsUpdate: the version is compared before the key is looked *)
(* up.                                                                     *)
DraftsUpdateVersionFirst(s, id, row, expected, key) ==
  LET key_ == IdempotencyReserve(s, key, "workflow-draft.update", <<id, row, expected>>)
  IN  IF ~ DraftIsBounded(row) THEN Refuse(s, "INVALID_ARGUMENT")
      ELSE IF ~ ShotInProject(s, row.project, row.shot) THEN Refuse(s, "SCOPE_VIOLATION")
      ELSE IF ~ (Has(s, "drafts", id) /\ s.drafts[id].version = expected)
      THEN Refuse(s, "OPTIMISTIC_CONFLICT")
      ELSE IF Replayed(key_) THEN ReplayDraft(s, row, key_.value)
      ELSE IF Fresh(key_)
      THEN Completing(Write(key_.s, "drafts", id, row, DraftFault(s, row, {})), key)
      ELSE ReservationRefused(s)

DraftsUpdate(s, id, row, expected, key) ==
  IF ~ DraftIsBounded(row) THEN Refuse(s, "INVALID_ARGUMENT")
  ELSE IF ~ ShotInProject(s, row.project, row.shot) THEN Refuse(s, "SCOPE_VIOLATION")
  ELSE LET key_ == IdempotencyReserve(s, key, "workflow-draft.update", <<id, row, expected>>)
       IN  IF Replayed(key_) THEN ReplayDraft(s, row, key_.value)
           ELSE IF ~ Fresh(key_) THEN ReservationRefused(s)
           ELSE IF /\ Has(s, "drafts", id) /\ InScope(s.drafts[id], row.project, row.shot)
                   /\ s.drafts[id].version = expected
           THEN Completing(Write(key_.s, "drafts", id, row, DraftFault(s, row, {})), key)
           ELSE Refuse(s, "OPTIMISTIC_CONFLICT")

RevisionsOf(s, project, shot) ==
  {r \in DOMAIN s.revisions : InScope(s.revisions[r], project, shot)}

(* COALESCE(MAX(revision_number), 0) + 1, under the shot's advisory lock.   *)
NextNumber(s, row) ==
  Max({0} \cup {s.revisions[r].number : r \in RevisionsOf(s, row.project, row.shot)}) + 1

InsertRevision(s, id, row) ==
  LET numbered == [row EXCEPT !.number = NextNumber(s, row)]
  IN  IF ~ RevisionInScope(s, row.parent, row) THEN Refuse(s, Check)
      ELSE IF Has(s, "revisions", id) THEN Refuse(s, Unique)
      ELSE Write(s, "revisions", id, numbered, None)

RevisionsCreate(s, id, row, key) ==
  IF ~ RevisionIsSound(row) THEN Refuse(s, "INVALID_ARGUMENT")
  ELSE IF ~ ShotInProject(s, row.project, row.shot) THEN Refuse(s, "SCOPE_VIOLATION")
  ELSE LET key_ == IdempotencyReserve(s, key, "workflow-revision.create",
                                      <<id, RevisionRequest(row)>>)
       IN  IF Fresh(key_) THEN Completing(InsertRevision(key_.s, id, row), key)
           ELSE IF ~ Replayed(key_) THEN ReservationRefused(s)
           ELSE IF key_.value \in RevisionsOf(s, row.project, row.shot)
           THEN Ok(s, key_.value) ELSE Refuse(s, "DATABASE_ERROR")

RevisionsUpdateValidation(s, project, shot, id, update) ==
  IF ~ ValidationIsBounded(update) THEN Refuse(s, "INVALID_ARGUMENT")
  ELSE IF id \notin RevisionsOf(s, project, shot) THEN Refuse(s, "NOT_FOUND")
  ELSE Write(s, "revisions", id,
             [s.revisions[id] EXCEPT !.validation = update.validation,
                                     !.errors = update.errors], None)

-----------------------------------------------------------------------------
(* domain_events, outbox_events, operational_recommendations               *)

(* The sequence is an identity column: a number is drawn by every INSERT,  *)
(* also by one that is rolled back.                                        *)
EventsAppend(s, id, row) ==
  LET drawn == [s EXCEPT !.nextSequence = @ + 1]
  IN  IF Has(s, "events", id) THEN Refuse(drawn, Unique)
      ELSE IF ~ (/\ References(s, "projects", {row.project})
                 /\ References(s, "shots", {row.shot})
                 /\ References(s, "attempts", {row.attempt}))
      THEN Refuse(drawn, ForeignKey)
      ELSE Write(drawn, "events", id, [row EXCEPT !.sequence = s.nextSequence], None)

OutboxEnqueue(s, id, now) ==
  IF Has(s, "outbox", id) THEN Refuse(s, Unique)
  ELSE Write(s, "outbox", id,
             [available |-> now, tries |-> 0, delivered |-> FALSE, failed |-> FALSE],
             IF Has(s, "events", id) THEN None ELSE ForeignKey)

OutboxDue(s, now) ==
  {m \in DOMAIN s.outbox : ~ s.outbox[m].delivered /\ s.outbox[m].available <= now}

OutboxClaimNext(s, now) ==
  IF OutboxDue(s, now) = {} THEN Ok(s, None)
  ELSE LET id == First([m \in OutboxDue(s, now) |-> s.outbox[m].available])
       IN  Write(s, "outbox", id, [s.outbox[id] EXCEPT !.tries = @ + 1], None)

Pending(s, id) == Has(s, "outbox", id) /\ ~ s.outbox[id].delivered

OutboxMarkDelivered(s, id) ==
  Ok(IF Pending(s, id) THEN [s EXCEPT !.outbox[id].delivered = TRUE] ELSE s, None)

(* A failed message waits a second of the database's clock.                *)
OutboxMarkFailed(s, id, now) ==
  Ok(IF Pending(s, id)
     THEN [s EXCEPT !.outbox[id] = [@ EXCEPT !.failed = TRUE, !.available = now + 1]]
     ELSE s, None)

(* h3_validate_recommendation_scope.                                        *)
RecommendationInScope(s, row) ==
  /\ row.attempt = None \/
       (/\ Has(s, "attempts", row.attempt) /\ s.attempts[row.attempt].project = row.project
        /\ row.shot \in {None, s.attempts[row.attempt].shot})
  /\ Has(s, "events", row.event)
  /\ s.events[row.event].project = row.project
  /\ row.shot \in {None, s.events[row.event].shot}
  /\ row.attempt \in {None, s.events[row.event].attempt}
  /\ row.run = None \/
       (Has(s, "agentRuns", row.run) /\ s.agentRuns[row.run].project = row.project)

SameAdvice(other, row) == other.event = row.event /\ other.code = row.code

RecommendationsCreate(s, id, row) ==
  IF ~ RecommendationIsBounded(row) THEN Refuse(s, "INVALID_ARGUMENT")
  ELSE IF ~ Has(s, "projects", row.project) THEN Refuse(s, "SCOPE_VIOLATION")
  ELSE IF row.shot # None /\ ~ ShotInProject(s, row.project, row.shot)
  THEN Refuse(s, "SCOPE_VIOLATION")
  ELSE IF ~ RecommendationInScope(s, row) THEN Refuse(s, Check)
  ELSE IF Has(s, "recommendations", id) THEN Refuse(s, Unique)
  ELSE IF \E other \in Others(s, "recommendations", id) : SameAdvice(other, row)
  THEN Refuse(s, Unique)
  ELSE Write(s, "recommendations", id, row, None)

RecommendationsUpdateStatus(s, project, id, status, expected) ==
  IF /\ Has(s, "recommendations", id) /\ s.recommendations[id].project = project
     /\ s.recommendations[id].version = expected /\ s.recommendations[id].status = "pending"
  THEN Write(s, "recommendations", id,
             [s.recommendations[id] EXCEPT !.status = status, !.version = @ + 1], None)
  ELSE Refuse(s, "OPTIMISTIC_CONFLICT")

-----------------------------------------------------------------------------
(* ROLLBACK restores the tables; the identity column keeps its place.      *)
Rollback(s, saved) == [saved EXCEPT !.nextSequence = s.nextSequence]
================================================================================
