------------------------------ MODULE MemoryStore ------------------------------
(***************************************************************************)
(* InMemoryStore of packages/db: the repositories over maps that nearly    *)
(* every test of the services runs on.  The operators have the names and   *)
(* arguments of PostgresStore's.  Rows reference each other by value only: *)
(* nothing here stands for a foreign key.                                  *)
(***************************************************************************)
EXTENDS StoreRows

Store(s, table, id, row) == Ok(Put(s, table, id, row), id)

-----------------------------------------------------------------------------
(* tenants, projects, shots                                                *)

TenantsEnsure(s) == Ok([s EXCEPT !.tenant = TRUE], None)

ProjectsCreate(s, id, row) ==
  IF Has(s, "projects", id) THEN Refuse(s, "UNIQUE_VIOLATION")
                            ELSE Store(s, "projects", id, row)

ProjectsUpdate(s, id, row, expected) ==
  IF Has(s, "projects", id) /\ s.projects[id].version = expected
  THEN Store(s, "projects", id, row)
  ELSE Refuse(s, "OPTIMISTIC_CONFLICT")

(* All ordinals are checked before the first shot is stored; the           *)
(* identifiers are not.                                                    *)
ShotsCreateMany(s, shots) ==
  LET place(row) == <<row.project, row.ordinal>>
  IN  IF \E i \in DOMAIN shots :
           \/ \E j \in 1 .. (i - 1) : place(shots[j].row) = place(shots[i].row)
           \/ \E id \in DOMAIN s.shots : place(s.shots[id]) = place(shots[i].row)
      THEN Refuse(s, "UNIQUE_VIOLATION")
      ELSE Ok([s EXCEPT !.shots = WithRows(@, shots, Len(shots))], None)

ShotsUpdate(s, id, row, expected) ==
  IF Has(s, "shots", id) /\ s.shots[id].version = expected
  THEN Store(s, "shots", id, row)
  ELSE Refuse(s, "OPTIMISTIC_CONFLICT")

-----------------------------------------------------------------------------
(* attempts                                                                *)

ManagedRevisionIsValid(s, row) ==
  row.revision = None \/
  /\ Has(s, "revisions", row.revision)
  /\ LET revision == s.revisions[row.revision]
     IN  InScope(revision, row.project, row.shot)
         /\ revision.validation = "validated" /\ revision.hash = row.hash

(* Mutant of AttemptIsNew: correlation ids are not compared.                *)
AttemptKeyIsNew(s, id, row) ==
  ~ Has(s, "attempts", id) /\ \A other \in Others(s, "attempts", id) : other.key # row.key

AttemptIsNew(s, id, row) ==
  /\ ~ Has(s, "attempts", id)
  /\ \A other \in Others(s, "attempts", id) :
       /\ other.key # row.key /\ other.corr # row.corr
       /\ row.prompt = None \/ other.prompt # row.prompt

AttemptsCreate(s, id, row) ==
  IF ~ ManagedRevisionIsValid(s, row) THEN Refuse(s, "SCOPE_VIOLATION")
  ELSE IF ~ AttemptIsNew(s, id, row) THEN Refuse(s, "UNIQUE_VIOLATION")
  ELSE Store(s, "attempts", id, row)

ExecutionKept(old, row) ==
  old.revision = None \/
  (row.revision = old.revision /\ row.seed = old.seed /\ row.hash = old.hash)

AttemptsUpdate(s, id, row, expected) ==
  IF ~ (Has(s, "attempts", id) /\ s.attempts[id].version = expected)
  THEN Refuse(s, "OPTIMISTIC_CONFLICT")
  ELSE IF s.attempts[id].status \in AttemptTerminal \/ ~ ExecutionKept(s.attempts[id], row)
       THEN Refuse(s, "INVALID_ARGUMENT")
       ELSE Store(s, "attempts", id, row)

Touch(row, at) == [row EXCEPT !.version = @ + 1, !.updated = at]

AttemptsReview(s, id, decision, at) ==
  IF ~ Has(s, "attempts", id) THEN Refuse(s, "NOT_FOUND")
  ELSE IF decision \notin {"accepted", "rejected"} THEN Refuse(s, "INVALID_ARGUMENT")
  ELSE Store(s, "attempts", id, [Touch(s.attempts[id], at) EXCEPT !.review = decision])

AttemptsClaimNext(s, worker, now, until) ==
  LET ids == {a \in DOMAIN s.attempts : s.attempts[a].status = "queued"
                                        /\ Expired(s.attempts[a], now)}
      id  == First([a \in ids |-> s.attempts[a].queuedAt])
  IN  IF HoldsLease(s, worker, now) \/ ids = {} THEN Ok(s, None)
      ELSE Store(s, "attempts", id,
                 [Touch(s.attempts[id], now) EXCEPT !.status = "claimed", !.owner = worker,
                                                    !.expires = until])

AttemptsClaimForRecovery(s, worker, now, until) ==
  LET ids == {a \in DOMAIN s.attempts : s.attempts[a].status \in RecoveryStatus
                                        /\ Expired(s.attempts[a], now)}
      id  == First([a \in ids |-> s.attempts[a].updated])
  IN  IF HoldsLease(s, worker, now) \/ ids = {} THEN Ok(s, None)
      ELSE Store(s, "attempts", id,
                 [Touch(s.attempts[id], now) EXCEPT !.owner = worker, !.expires = until])

(* updatedAt becomes the end of the new lease, a time still to come.       *)
AttemptsHeartbeat(s, id, worker, now, until) ==
  IF HeldBy(s, id, worker)
  THEN Store(s, "attempts", id, [Touch(s.attempts[id], until) EXCEPT !.expires = until])
  ELSE Ok(s, None)

(* Mutant of Returned: the attempt goes back with its lease.                *)
ReturnedWithLease(row, at) ==
  [Touch(row, at) EXCEPT !.status = IF @ = "claimed" THEN "queued" ELSE @]

Returned(row, at) ==
  [Touch(row, at) EXCEPT !.owner = None, !.expires = None,
                         !.status = IF @ = "claimed" THEN "queued" ELSE @]

AttemptsRelease(s, id, worker, now) ==
  IF HeldBy(s, id, worker) THEN Store(s, "attempts", id, Returned(s.attempts[id], now))
                           ELSE Ok(s, None)

AttemptsRecoverStale(s, now) ==
  LET stale == {a \in DOMAIN s.attempts :
                  s.attempts[a].status = "claimed" /\ s.attempts[a].expires # None
                  /\ s.attempts[a].expires < now}
  IN  Ok([s EXCEPT !.attempts = [a \in DOMAIN @ |-> IF a \in stale THEN Returned(@[a], now)
                                                                   ELSE @[a]]],
         stale)

-----------------------------------------------------------------------------
(* artifacts, evaluations, agentRuns, workflowVersions                     *)

ArtifactsCreate(s, id, row) ==
  IF Has(s, "artifacts", id)
     \/ \E other \in Others(s, "artifacts", id) :
          other.object = row.object \/ other.attempt = row.attempt
  THEN Refuse(s, "UNIQUE_VIOLATION")
  ELSE Store(s, "artifacts", id, row)

EvaluationsCreate(s, id, row) ==
  IF Has(s, "evaluations", id)
     \/ \E other \in Others(s, "evaluations", id) : other.attempt = row.attempt
  THEN Refuse(s, "UNIQUE_VIOLATION")
  ELSE Store(s, "evaluations", id, row)

AgentRunsCreate(s, id, row) ==
  IF Has(s, "agentRuns", id)
     \/ \E other \in Others(s, "agentRuns", id) : other.runId = row.runId
  THEN Refuse(s, "UNIQUE_VIOLATION")
  ELSE Store(s, "agentRuns", id, row)

AgentRunsUpdate(s, id, row, expected) ==
  IF ~ Has(s, "agentRuns", id) THEN Refuse(s, "NOT_FOUND")
  ELSE IF s.agentRuns[id].version # expected THEN Refuse(s, "OPTIMISTIC_CONFLICT")
  ELSE Store(s, "agentRuns", id, row)

AgentRunsCost(s, project) ==
  Ok(s, CostOf(s.agentRuns, project))

WorkflowVersionsCreate(s, id, row) ==
  IF Has(s, "workflowVersions", id)
     \/ \E other \in Others(s, "workflowVersions", id) : other.hash = row.hash
  THEN Refuse(s, "UNIQUE_VIOLATION")
  ELSE Store(s, "workflowVersions", id, row)

-----------------------------------------------------------------------------
(* idempotency                                                             *)

IdempotencyReserve(s, key, operation, request) ==
  IF ~ Has(s, "keys", key)
  THEN [answer |-> "reserved", value |-> None,
        s |-> Put(s, "keys", key, [operation |-> operation, request |-> request,
                                   resource |-> None])]
  ELSE LET row == s.keys[key]
       IN  [ s |-> s, value |-> row.resource,
             answer |-> IF row.operation # operation \/ row.request # request THEN "conflict"
                        ELSE IF row.resource # None THEN "replay"
                        ELSE "in_progress" ]

IdempotencyComplete(s, key, resource) ==
  IF Has(s, "keys", key) /\ s.keys[key].resource = None
  THEN Ok([s EXCEPT !.keys[key].resource = resource], None)
  ELSE Refuse(s, "DATABASE_ERROR")

IdempotencyRelease(s, key) ==
  Ok(IF Has(s, "keys", key) /\ s.keys[key].resource = None THEN Drop(s, "keys", key) ELSE s,
     None)

-----------------------------------------------------------------------------
(* workflowDrafts, workflowRevisions: the key is reserved before the scope *)
(* is looked at, so a replay answers without it.                           *)

ShotInScope(s, project, shot) ==
  Has(s, "projects", project) /\ Has(s, "shots", shot) /\ s.shots[shot].project = project

RevisionOfShot(s, id, project, shot) ==
  Has(s, "revisions", id) /\ InScope(s.revisions[id], project, shot)

Completed(write, key) ==
  IF write.answer = "ok"
  THEN [write EXCEPT !.s = IdempotencyComplete(write.s, key, write.value).s]
  ELSE write

DraftReplay(s, row, id) ==
  IF Has(s, "drafts", id) /\ InScope(s.drafts[id], row.project, row.shot)
  THEN Ok(s, id) ELSE Refuse(s, "DATABASE_ERROR")

DraftRefusal(s, row) ==
  IF ~ ShotInScope(s, row.project, row.shot) THEN "SCOPE_VIOLATION"
  ELSE IF row.base # None /\ ~ RevisionOfShot(s, row.base, row.project, row.shot)
  THEN "SCOPE_VIOLATION"
  ELSE None

InsertDraft(s, id, row) ==
  IF DraftRefusal(s, row) # None THEN Refuse(s, DraftRefusal(s, row))
  ELSE IF \/ Has(s, "drafts", id)
          \/ \E other \in Others(s, "drafts", id) : InScope(other, row.project, row.shot)
  THEN Refuse(s, "UNIQUE_VIOLATION")
  ELSE Store(s, "drafts", id, row)

(* Mutant of ReplaceDraft: a draft that is gone, or was written meanwhile,  *)
(* is told as missing.                                                     *)
ReplaceDraftOrMissing(s, id, row, expected) ==
  IF ~ ShotInScope(s, row.project, row.shot) THEN Refuse(s, "SCOPE_VIOLATION")
  ELSE IF ~ (/\ Has(s, "drafts", id) /\ InScope(s.drafts[id], row.project, row.shot)
             /\ s.drafts[id].version = expected)
  THEN Refuse(s, "NOT_FOUND")
  ELSE IF DraftRefusal(s, row) # None THEN Refuse(s, DraftRefusal(s, row))
  ELSE Store(s, "drafts", id, row)

ReplaceDraft(s, id, row, expected) ==
  IF ~ ShotInScope(s, row.project, row.shot) THEN Refuse(s, "SCOPE_VIOLATION")
  ELSE IF ~ (/\ Has(s, "drafts", id) /\ InScope(s.drafts[id], row.project, row.shot)
             /\ s.drafts[id].version = expected)
  THEN Refuse(s, "OPTIMISTIC_CONFLICT")
  ELSE IF DraftRefusal(s, row) # None THEN Refuse(s, DraftRefusal(s, row))
  ELSE Store(s, "drafts", id, row)

DraftsCreate(s, id, row, key) ==
  LET key_ == IdempotencyReserve(s, key, "workflow-draft.create", <<id, row>>)
  IN  IF ~ DraftIsBounded(row) THEN Refuse(s, "INVALID_ARGUMENT")
      ELSE IF Replayed(key_) THEN DraftReplay(s, row, key_.value)
      ELSE IF Fresh(key_) THEN Completed(InsertDraft(key_.s, id, row), key)
      ELSE ReservationRefused(s)

DraftsUpdate(s, id, row, expected, key) ==
  LET key_ == IdempotencyReserve(s, key, "workflow-draft.update", <<id, row, expected>>)
  IN  IF ~ DraftIsBounded(row) THEN Refuse(s, "INVALID_ARGUMENT")
      ELSE IF Replayed(key_) THEN DraftReplay(s, row, key_.value)
      ELSE IF Fresh(key_) THEN Completed(ReplaceDraft(key_.s, id, row, expected), key)
      ELSE ReservationRefused(s)

NumbersOf(s, row) ==
  {s.revisions[r].number :
     r \in {q \in DOMAIN s.revisions : InScope(s.revisions[q], row.project, row.shot)}}

InsertRevision(s, id, row) ==
  IF ~ ShotInScope(s, row.project, row.shot) THEN Refuse(s, "SCOPE_VIOLATION")
  ELSE IF row.parent # None /\ ~ RevisionOfShot(s, row.parent, row.project, row.shot)
  THEN Refuse(s, "SCOPE_VIOLATION")
  ELSE IF Has(s, "revisions", id) THEN Refuse(s, "UNIQUE_VIOLATION")
  ELSE Store(s, "revisions", id,
             [row EXCEPT !.number = Max({0} \cup NumbersOf(s, row)) + 1])

RevisionsCreate(s, id, row, key) ==
  LET key_ == IdempotencyReserve(s, key, "workflow-revision.create",
                                 <<id, RevisionRequest(row)>>)
  IN  IF ~ RevisionIsSound(row) THEN Refuse(s, "INVALID_ARGUMENT")
      ELSE IF Fresh(key_) THEN Completed(InsertRevision(key_.s, id, row), key)
      ELSE IF ~ Replayed(key_) THEN ReservationRefused(s)
      ELSE IF RevisionOfShot(s, key_.value, row.project, row.shot)
      THEN Ok(s, key_.value) ELSE Refuse(s, "DATABASE_ERROR")

RevisionsUpdateValidation(s, project, shot, id, update) ==
  IF ~ ValidationIsBounded(update) THEN Refuse(s, "INVALID_ARGUMENT")
  ELSE IF ~ RevisionOfShot(s, id, project, shot) THEN Refuse(s, "NOT_FOUND")
  ELSE Store(s, "revisions", id,
             [s.revisions[id] EXCEPT !.validation = update.validation,
                                     !.errors = update.errors])

-----------------------------------------------------------------------------
(* events, outbox, recommendations                                         *)

EventsAppend(s, id, row) ==
  IF Has(s, "events", id) THEN Refuse(s, "UNIQUE_VIOLATION")
  ELSE Store([s EXCEPT !.nextSequence = @ + 1], "events", id,
             [row EXCEPT !.sequence = s.nextSequence])

OutboxEnqueue(s, id, now) ==
  IF Has(s, "outbox", id) THEN Refuse(s, "UNIQUE_VIOLATION")
  ELSE Store(s, "outbox", id,
             [available |-> now, tries |-> 0, delivered |-> FALSE, failed |-> FALSE])

OutboxClaimNext(s, now) ==
  LET due == {m \in DOMAIN s.outbox : ~ s.outbox[m].delivered /\ s.outbox[m].available <= now}
      id  == First([m \in due |-> s.outbox[m].available])
  IN  IF due = {} THEN Ok(s, None)
      ELSE Store(s, "outbox", id, [s.outbox[id] EXCEPT !.tries = @ + 1])

Undelivered(s, id) == Has(s, "outbox", id) /\ ~ s.outbox[id].delivered

OutboxMarkDelivered(s, id) ==
  Ok(IF Undelivered(s, id) THEN [s EXCEPT !.outbox[id].delivered = TRUE] ELSE s, None)

(* A failed message is due again at once.                                  *)
OutboxMarkFailed(s, id, now) ==
  Ok(IF Undelivered(s, id) THEN [s EXCEPT !.outbox[id].failed = TRUE] ELSE s, None)

AdviceInScope(s, row) ==
  /\ Has(s, "projects", row.project)
  /\ row.shot # None => ShotInScope(s, row.project, row.shot)
  /\ row.attempt # None =>
       /\ Has(s, "attempts", row.attempt) /\ s.attempts[row.attempt].project = row.project
       /\ row.shot # None => s.attempts[row.attempt].shot = row.shot
  /\ Has(s, "events", row.event) /\ s.events[row.event].project = row.project
  /\ row.shot # None => s.events[row.event].shot = row.shot
  /\ row.attempt # None => s.events[row.event].attempt = row.attempt
  /\ row.run # None => Has(s, "agentRuns", row.run) /\ s.agentRuns[row.run].project = row.project

RecommendationsCreate(s, id, row) ==
  IF ~ RecommendationIsBounded(row) THEN Refuse(s, "INVALID_ARGUMENT")
  ELSE IF ~ AdviceInScope(s, row) THEN Refuse(s, "SCOPE_VIOLATION")
  ELSE IF \/ Has(s, "recommendations", id)
          \/ \E other \in Others(s, "recommendations", id) :
               other.event = row.event /\ other.code = row.code
  THEN Refuse(s, "UNIQUE_VIOLATION")
  ELSE Store(s, "recommendations", id, row)

RecommendationsUpdateStatus(s, project, id, status, expected) ==
  IF /\ Has(s, "recommendations", id) /\ s.recommendations[id].project = project
     /\ s.recommendations[id].version = expected /\ s.recommendations[id].status = "pending"
  THEN Store(s, "recommendations", id,
             [s.recommendations[id] EXCEPT !.status = status, !.version = @ + 1])
  ELSE Refuse(s, "OPTIMISTIC_CONFLICT")

-----------------------------------------------------------------------------
(* The snapshot taken at the start of the transaction holds the counter.   *)
Rollback(s, saved) == saved
================================================================================
