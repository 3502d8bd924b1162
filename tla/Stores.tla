--------------------------------- MODULE Stores ---------------------------------
(***************************************************************************)
(* The two implementations of TransactionalStore, side by side: one        *)
(* sequence of repository calls, in transactions that commit or throw, is  *)
(* made on PostgreSQL and on the in-memory store the tests of the services *)
(* use.  A call that throws ends the transaction and rolls it back.        *)
(*                                                                         *)
(* A session begins with the rows its calls refer to (Init) and is about   *)
(* one group of repositories.  It ends at the first call the two answer    *)
(* differently: from there the services are in different states.           *)
(***************************************************************************)
EXTENDS StoreRows

CONSTANTS
  Sessions,    \* pairs of a group and the number of calls a session of it makes
  MaxTime      \* bound of the clock

M == INSTANCE MemoryStore
P == INSTANCE PostgresStore

VARIABLES
  mem, pg,     \* the two stores, with what the open transaction did
  begun,       \* both at the start of the transaction
  last,        \* the last call, what both answered, and whether they part
  group, calls, now

vars == <<mem, pg, begun, last, group, calls, now>>

NoCall == [call |-> "none", mem |-> "ok", pg |-> "ok", apart |-> FALSE]

-----------------------------------------------------------------------------
(* Rows the sessions start from: two projects with a shot each.            *)

Project == [body |-> "a", version |-> 1]
Shot(p) == [project |-> p, ordinal |-> 1, status |-> "generating", accepted |-> None,
            pinned |-> None, version |-> 1]

Base ==
  [EmptyStore EXCEPT !.tenant = TRUE,
     !.projects = [p \in {"p1", "p2"} |-> Project],
     !.shots = [shot \in {"s1", "s2"} |-> Shot(IF shot = "s1" THEN "p1" ELSE "p2")]]

Revision(shot, graph) ==
  [project |-> IF shot = "s1" THEN "p1" ELSE "p2", shot |-> shot, number |-> 1,
   parent |-> None, graph |-> graph, hash |-> HashOf(graph),
   validation |-> "validated", errors |-> 0]

(* A managed attempt has a revision; a leased one a lease that ends at 1.  *)
Attempt(id, status, revision) ==
  [ project |-> "p1", shot |-> "s1", key |-> <<"key", id>>, corr |-> <<"corr", id>>,
    prompt |-> IF status \in {"queued", "claimed", "submitting"} THEN None ELSE <<"prompt", id>>,
    status |-> status,
    owner |-> IF status \in LeasedStatus THEN "w1" ELSE None,
    expires |-> IF status \in LeasedStatus THEN 1 ELSE None,
    queuedAt |-> 0, updated |-> 0, revision |-> revision, hash |-> HashOf("g"),
    seed |-> 1, review |-> None, version |-> 1 ]

SeedStatus ==
  {<<"queued", "queued">>, <<"queued", "claimed">>, <<"running", "running">>,
   <<"failed", "awaiting_review">>}

WithAttempts(s, statuses, revision) ==
  [s EXCEPT !.attempts = [a \in DOMAIN statuses |-> Attempt(a, statuses[a], revision)]]

Start(g) ==
  CASE g = "projects" -> {EmptyStore, WithAttempts(Base, <<"awaiting_review">>, None)}
    [] g \in {"attempts", "queue"} ->
         {WithAttempts([Base EXCEPT !.revisions = [r \in {"r1"} |-> Revision("s1", "g")]],
                       statuses, revision) :
            statuses \in SeedStatus, revision \in {None, "r1"}}
    [] g = "advice" -> {WithAttempts(Base, <<"running">>, None)}
    [] OTHER -> {Base, WithAttempts(Base, <<"running", "running">>, None)}

Init ==
  /\ \E session \in Sessions : group = session[1] /\ calls = session[2]
  /\ mem \in Start(group)
  /\ pg = mem
  /\ begun = [mem |-> mem, pg |-> pg]
  /\ last = NoCall
  /\ now = 0

-----------------------------------------------------------------------------
(* One repository call on both stores.                                     *)

SqlState == {"23503", "23505", "23514", "55000"}
RepositoryError == {"UNIQUE_VIOLATION", "SCOPE_VIOLATION", "OPTIMISTIC_CONFLICT", "NOT_FOUND",
                    "INVALID_ARGUMENT", "IDEMPOTENCY_CONFLICT", "DATABASE_ERROR"}

(* NULL is no number, no status, and not what a call answers or throws.     *)
ASSUME NullAssumption ==
  None \notin Nat \cup AttemptStatus \cup {"ok"} \cup SqlState \cup RepositoryError

Accepted(result) == result.answer \notin SqlState \cup RepositoryError

After(result, restored) == IF Accepted(result) THEN result.s ELSE restored

Call(g, name, m, p) ==   \* a call that sessions of the groups g make
  /\ group \in g /\ calls > 0 /\ ~ last.apart
  /\ calls' = calls - 1
  /\ mem' = After(m, M!Rollback(m.s, begun.mem))
  /\ pg' = After(p, P!Rollback(p.s, begun.pg))
  /\ begun' = [mem |-> IF Accepted(m) THEN begun.mem ELSE mem',
               pg |-> IF Accepted(p) THEN begun.pg ELSE pg']
  /\ last' = [call |-> name, mem |-> m.answer, pg |-> p.answer,
              apart |-> (Accepted(m) <=> ~ Accepted(p)) \/ m.value # p.value]
  /\ UNCHANGED <<group, now>>

Queueing == {"attempts", "queue"}
Versions(f, id) == IF id \in DOMAIN f THEN {f[id].version, f[id].version - 1} ELSE {1}

-----------------------------------------------------------------------------
(* Projects and shots.                                                     *)

TenantsEnsure ==
  Call({"projects"}, "tenants.ensure", M!TenantsEnsure(mem), P!TenantsEnsure(pg))

ProjectsCreate ==
  \E id \in {"p1", "p3"} :
    Call({"projects"}, "projects.create", M!ProjectsCreate(mem, id, Project),
                                        P!ProjectsCreate(pg, id, Project))

ProjectsUpdate ==
  \E id \in {"p1"}, e \in Versions(pg.projects, "p1") :
    LET row == [body |-> "b", version |-> e + 1]
    IN  Call({"projects"}, "projects.update", M!ProjectsUpdate(mem, id, row, e),
                                            P!ProjectsUpdate(pg, id, row, e))

NewShot(id, project, ordinal) == [id |-> id, row |-> [Shot(project) EXCEPT !.ordinal = ordinal]]

ShotBatches ==
  { <<NewShot("s3", "p1", 2)>>, <<NewShot("s3", "p1", 1)>>, <<NewShot("s1", "p1", 2)>>,
    <<NewShot("s3", "p1", 2), NewShot("s4", "p1", 3)>>,
    <<NewShot("s3", "p1", 2), NewShot("s4", "p1", 2)>>, <<NewShot("s3", "p3", 1)>> }

ShotsCreateMany ==
  \E shots \in ShotBatches :
    Call({"projects"}, "shots.createMany", M!ShotsCreateMany(mem, shots),
                                         P!ShotsCreateMany(pg, shots))

(* A verdict that names its attempt, one that does not, a pin, a pin of an *)
(* attempt that is gone, and a new place.                                  *)
ShotWrites(row) ==
  { [row EXCEPT !.status = "accepted", !.accepted = 1], [row EXCEPT !.status = "accepted"],
    [row EXCEPT !.pinned = 1], [row EXCEPT !.pinned = 9], [row EXCEPT !.ordinal = 2] }

ShotsUpdate ==
  \E id \in {"s1", "s3"} \cap DOMAIN pg.shots : \E e \in Versions(pg.shots, id) :
    \E written \in ShotWrites(pg.shots[id]) :
      LET row == [written EXCEPT !.version = e + 1]
      IN  Call({"projects"}, "shots.update", M!ShotsUpdate(mem, id, row, e),
                                           P!ShotsUpdate(pg, id, row, e))

-----------------------------------------------------------------------------
(* Attempts.                                                               *)

AttemptsCreate ==
  \E id \in {1, 3}, like \in {1, 3} :
    LET row == [Attempt(id, "queued", "r1") EXCEPT !.corr = <<"corr", like>>,
                                                   !.queuedAt = now, !.updated = now]
    IN  Call({"attempts"}, "attempts.create", M!AttemptsCreate(mem, id, row),
                                            P!AttemptsCreate(pg, id, row))

(* The lifecycle's moves, which drop the lease at its end; a write that    *)
(* keeps the status; and the adoption of a prompt found by its correlation *)
(* id, which may be another attempt's.                                     *)
AttemptWrites(row) ==
  {[row EXCEPT !.status = to, !.owner = IF to \in LeasedStatus THEN @ ELSE None,
               !.expires = IF to \in LeasedStatus THEN @ ELSE None] : to \in AttemptMoves[row.status]}
  \cup {row, [row EXCEPT !.seed = 2], [row EXCEPT !.prompt = <<"prompt", 2>>]}

AttemptsUpdate ==
  \E id \in {1, 2} \cap DOMAIN pg.attempts : \E e \in Versions(pg.attempts, id) :
    \E written \in AttemptWrites(pg.attempts[id]) :
      LET row == [written EXCEPT !.version = e + 1, !.updated = now]
      IN  /\ e < pg.attempts[id].version => written = pg.attempts[id]
          /\ Call({"attempts"}, "attempts.update", M!AttemptsUpdate(mem, id, row, e),
                                                  P!AttemptsUpdate(pg, id, row, e))

AttemptsReview ==
  \E id \in {1, 9}, decision \in {"accepted"} :
    Call(Queueing, "attempts.review", M!AttemptsReview(mem, id, decision, now),
                                        P!AttemptsReview(pg, id, decision, now))

Worker == {"w1", "w2"}

AttemptsClaimNext ==
  \E w \in Worker :
    Call(Queueing, "attempts.claimNext", M!AttemptsClaimNext(mem, w, now, now + 1),
                                           P!AttemptsClaimNext(pg, w, now, now + 1))

AttemptsClaimForRecovery ==
  \E w \in Worker :
    Call(Queueing, "attempts.claimForRecovery", M!AttemptsClaimForRecovery(mem, w, now, now + 1),
                                                  P!AttemptsClaimForRecovery(pg, w, now, now + 1))

AttemptsHeartbeat ==
  \E id \in {1, 2}, w \in Worker :
    Call(Queueing, "attempts.heartbeat", M!AttemptsHeartbeat(mem, id, w, now, now + 1),
                                           P!AttemptsHeartbeat(pg, id, w, now, now + 1))

AttemptsRelease ==
  \E id \in {1, 2}, w \in Worker :
    Call(Queueing, "attempts.release", M!AttemptsRelease(mem, id, w, now),
                                         P!AttemptsRelease(pg, id, w, now))

AttemptsRecoverStale ==
  Call(Queueing, "attempts.recoverStale", M!AttemptsRecoverStale(mem, now),
                                            P!AttemptsRecoverStale(pg, now))

(* A revision of a queued or running attempt is validated again, against   *)
(* an executor that is away: it becomes invalid.                           *)
RevisionsInvalidate ==
  \E errors \in {1, ListLimit + 1} :
    LET update == [validation |-> "invalid", errors |-> errors]
    IN  Call(Queueing, "revisions.updateValidation",
             M!RevisionsUpdateValidation(mem, "p1", "s1", "r1", update),
             P!RevisionsUpdateValidation(pg, "p1", "s1", "r1", update))

-----------------------------------------------------------------------------
(* Artifacts, evaluations, agent runs, workflow versions.                  *)

ArtifactsCreate ==
  \E id \in {1, 2}, attempt \in {1, 2, 9}, object \in {"o1", "o2"} :
    LET row == [attempt |-> attempt, object |-> object]
    IN  Call({"records"}, "artifacts.create", M!ArtifactsCreate(mem, id, row),
                                            P!ArtifactsCreate(pg, id, row))

EvaluationsCreate ==
  \E id \in {1, 2}, attempt \in {1, 2, 9} :
    LET row == [attempt |-> attempt, verdict |-> "passed"]
    IN  Call({"records"}, "evaluations.create", M!EvaluationsCreate(mem, id, row),
                                              P!EvaluationsCreate(pg, id, row))

AgentRunsCreate ==
  \E id \in {1, 2}, run \in {"run1", "run2"}, project \in {"p1", "p3"} :
    LET row == [project |-> project, runId |-> run, status |-> "running", cost |-> 0, version |-> 1]
    IN  Call({"records"}, "agentRuns.create", M!AgentRunsCreate(mem, id, row),
                                            P!AgentRunsCreate(pg, id, row))

AgentRunsUpdate ==
  \E id \in {1, 2} : \E e \in Versions(pg.agentRuns, id) :
    LET row == [project |-> "p1", runId |-> IF Has(pg, "agentRuns", id) THEN pg.agentRuns[id].runId
                                                                       ELSE "run1",
                status |-> "succeeded", cost |-> 2, version |-> e + 1]
    IN  Call({"records"}, "agentRuns.update", M!AgentRunsUpdate(mem, id, row, e),
                                            P!AgentRunsUpdate(pg, id, row, e))

AgentRunsCost ==
  Call({"records"}, "agentRuns.sumProviderCost", M!AgentRunsCost(mem, "p1"), P!AgentRunsCost(pg, "p1"))

WorkflowVersionsCreate ==
  \E id \in {1, 2}, hash \in {"h1", "h2"} :
    LET row == [name |-> "h3", hash |-> hash]
    IN  Call({"records"}, "workflowVersions.create", M!WorkflowVersionsCreate(mem, id, row),
                                                   P!WorkflowVersionsCreate(pg, id, row))

-----------------------------------------------------------------------------
(* Workflow drafts and revisions, under the keys of their mutations.  A    *)
(* retry carries the same row; the services number revisions 1 and let the *)
(* repository number them.                                                 *)

MutationKey == {"k1", "k2", "k3"}
Scopes == {<<"p1", "s1">>, <<"p2", "s2">>, <<"p1", "s2">>}
Bases == {None, "r1"}

Draft(scope, base, graph, version) ==
  [project |-> scope[1], shot |-> scope[2], base |-> base, graph |-> graph, version |-> version]

DraftsCreate ==
  \E key \in MutationKey, id \in {"d1", "d2"}, scope \in Scopes, base \in Bases,
     graph \in {"g", Oversize} :
    LET row == Draft(scope, base, graph, 1)
    IN  Call({"drafts"}, "drafts.create", M!DraftsCreate(mem, id, row, key),
                                        P!DraftsCreate(pg, id, row, key))

DraftsUpdate ==
  \E key \in MutationKey, id \in {"d1", "d2"}, base \in Bases :
    \E e \in Versions(pg.drafts, id) :
      LET row == Draft(<<"p1", "s1">>, base, "g2", e + 1)
      IN  /\ e > 0
          /\ Call({"drafts"}, "drafts.update", M!DraftsUpdate(mem, id, row, e, key),
                                             P!DraftsUpdate(pg, id, row, e, key))

RevisionsCreate ==
  \E g \in {"drafts", "revisions"}, key \in MutationKey, id \in {"r1", "r2", "r3"},
     scope \in Scopes, parent \in Bases, hash \in {HashOf("g"), HashOf("g2")} :
    LET row == [Revision(scope[2], "g") EXCEPT !.project = scope[1], !.parent = parent,
                                               !.hash = hash]
    IN  /\ g = "drafts" => id = "r1" /\ key = "k3" /\ parent = None
        /\ Call({g}, "revisions.create", M!RevisionsCreate(mem, id, row, key),
                                       P!RevisionsCreate(pg, id, row, key))

RevisionsUpdateValidation ==
  \E id \in {"r1", "r2"}, shot \in {"s1", "s2"} :
    LET update == [validation |-> "validated", errors |-> 0]
    IN  Call({"revisions"}, "revisions.updateValidation",
             M!RevisionsUpdateValidation(mem, "p1", shot, id, update),
             P!RevisionsUpdateValidation(pg, "p1", shot, id, update))

-----------------------------------------------------------------------------
(* Events, the outbox and the recommendations.                             *)

Event(shot, attempt) ==
  [project |-> "p1", shot |-> shot, attempt |-> attempt, sequence |-> 0]

EventsAppend ==
  \E id \in {1, 2}, attempt \in {None, 1, 9} :
    LET row == Event("s1", attempt)
    IN  Call({"advice"}, "events.append", M!EventsAppend(mem, id, row), P!EventsAppend(pg, id, row))

OutboxEnqueue ==
  \E id \in {1, 2} :
    Call({"advice"}, "outbox.enqueue", M!OutboxEnqueue(mem, id, now), P!OutboxEnqueue(pg, id, now))

OutboxClaimNext ==
  Call({"advice"}, "outbox.claimNext", M!OutboxClaimNext(mem, now), P!OutboxClaimNext(pg, now))

OutboxMarkDelivered ==
  \E id \in {1, 2} :
    Call({"advice"}, "outbox.markDelivered", M!OutboxMarkDelivered(mem, id),
                                           P!OutboxMarkDelivered(pg, id))

OutboxMarkFailed ==
  \E id \in {1, 2} :
    Call({"advice"}, "outbox.markFailed", M!OutboxMarkFailed(mem, id, now),
                                        P!OutboxMarkFailed(pg, id, now))

RecommendationsCreate ==
  \E id \in {1, 2}, shot \in {None, "s1", "s2"}, attempt \in {None, 1, 2}, event \in {1, 2},
     run \in {None, 9}, evidence \in {0, ListLimit + 1} :
    LET row == [project |-> "p1", shot |-> shot, attempt |-> attempt, event |-> event, run |-> run,
                code |-> "RETRY", evidence |-> evidence, status |-> "pending", version |-> 1]
    IN  Call({"advice"}, "recommendations.create", M!RecommendationsCreate(mem, id, row),
                                                 P!RecommendationsCreate(pg, id, row))

RecommendationsUpdateStatus ==
  \E status \in {"applied", "dismissed"} : \E e \in Versions(pg.recommendations, 1) :
    Call({"advice"}, "recommendations.updateStatus",
         M!RecommendationsUpdateStatus(mem, "p1", 1, status, e),
         P!RecommendationsUpdateStatus(pg, "p1", 1, status, e))

-----------------------------------------------------------------------------
(* The services' own use of the keys: a request is reserved, completed or  *)
(* given up.                                                               *)

IdempotencyReserve ==
  \E key \in {"k1"}, request \in {<<"body1">>, <<"body2">>} :
    Call({"keys"}, "idempotency.reserve", M!IdempotencyReserve(mem, key, "runs", request),
                                        P!IdempotencyReserve(pg, key, "runs", request))

IdempotencyComplete ==
  Call({"keys"}, "idempotency.complete", M!IdempotencyComplete(mem, "k1", "response"),
                                       P!IdempotencyComplete(pg, "k1", "response"))

IdempotencyRelease ==
  Call({"keys"}, "idempotency.release", M!IdempotencyRelease(mem, "k1"),
                                      P!IdempotencyRelease(pg, "k1"))

-----------------------------------------------------------------------------
(* withTransaction: the work ends and commits, or throws by itself.        *)

Commit ==
  /\ ~ last.apart /\ begun # [mem |-> mem, pg |-> pg]
  /\ begun' = [mem |-> mem, pg |-> pg]
  /\ last' = NoCall
  /\ UNCHANGED <<mem, pg, group, calls, now>>

WorkThrows ==
  /\ ~ last.apart /\ begun # [mem |-> mem, pg |-> pg]
  /\ mem' = M!Rollback(mem, begun.mem)
  /\ pg' = P!Rollback(pg, begun.pg)
  /\ begun' = [mem |-> mem', pg |-> pg']
  /\ last' = NoCall
  /\ UNCHANGED <<group, calls, now>>

(* A transaction is over within a unit of the clock.                       *)
Tick ==
  /\ now < MaxTime /\ calls > 0 /\ group \in {"attempts", "queue", "advice"}
  /\ begun = [mem |-> mem, pg |-> pg] /\ ~ last.apart
  /\ now' = now + 1
  /\ last' = NoCall
  /\ UNCHANGED <<mem, pg, begun, group, calls>>

Next ==
  \/ TenantsEnsure \/ ProjectsCreate \/ ProjectsUpdate \/ ShotsCreateMany \/ ShotsUpdate
  \/ AttemptsCreate \/ AttemptsUpdate \/ AttemptsReview
  \/ AttemptsClaimNext \/ AttemptsClaimForRecovery \/ AttemptsHeartbeat
  \/ AttemptsRelease \/ AttemptsRecoverStale \/ RevisionsInvalidate
  \/ ArtifactsCreate \/ EvaluationsCreate
  \/ AgentRunsCreate \/ AgentRunsUpdate \/ AgentRunsCost \/ WorkflowVersionsCreate
  \/ DraftsCreate \/ DraftsUpdate \/ RevisionsCreate \/ RevisionsUpdateValidation
  \/ EventsAppend \/ OutboxEnqueue \/ OutboxClaimNext
  \/ OutboxMarkDelivered \/ OutboxMarkFailed
  \/ RecommendationsCreate \/ RecommendationsUpdateStatus
  \/ IdempotencyReserve \/ IdempotencyComplete \/ IdempotencyRelease
  \/ Commit \/ WorkThrows \/ Tick

Spec == Init /\ [][Next]_vars

-----------------------------------------------------------------------------
(* Properties.                                                             *)

(* What a service can read of a store: everything but the times that pace  *)
(* the queues, and an event's place among the others, not its number.      *)
Place(s, e) == Cardinality({o \in DOMAIN s.events : s.events[o].sequence <= s.events[e].sequence})
Readable(s) ==
  [s EXCEPT !.nextSequence = 0,
     !.attempts = [a \in DOMAIN s.attempts |-> [s.attempts[a] EXCEPT !.updated = 0]],
     !.outbox = [m \in DOMAIN s.outbox |-> [s.outbox[m] EXCEPT !.available = 0]],
     !.events = [e \in DOMAIN s.events |-> [s.events[e] EXCEPT !.sequence = Place(s, e)]]]

(* While the two stores answer alike they hold the same rows, the events   *)
(* in the same order, through every commit and rollback: what a test sees  *)
(* of the in-memory store, production sees of PostgreSQL.                  *)
SameRows == ~ last.apart => Readable(mem) = Readable(pg)

(* Calls that one store carries out and the other refuses.                 *)
OnlyMemory ==
  {<<"projects.create", "23503">>, <<"shots.createMany", "23503">>,
   <<"shots.createMany", "23505">>, <<"shots.update", "23505">>, <<"shots.update", "23503">>,
   <<"shots.update", "23514">>,
   <<"attempts.update", "23505">>, <<"attempts.update", "23514">>, <<"attempts.review", "23514">>,
   <<"attempts.claimNext", "23514">>, <<"attempts.claimForRecovery", "23514">>,
   <<"attempts.heartbeat", "23514">>, <<"attempts.release", "23514">>,
   <<"attempts.recoverStale", "23514">>,
   <<"artifacts.create", "23503">>, <<"evaluations.create", "23503">>,
   <<"agentRuns.create", "23503">>,
   <<"events.append", "23503">>, <<"outbox.enqueue", "23503">>}

OnlyPostgres == {<<"attempts.update", "INVALID_ARGUMENT">>}

(* Calls that both carry out on different rows.                            *)
OtherRow == {"attempts.claimForRecovery", "outbox.claimNext"}

(* The two stores part, in what they accept, only at the calls listed: a   *)
(* service test that passes in memory holds for PostgreSQL unless it meets *)
(* one of these, and no other call is refused in one of them alone.        *)
KnownSplits ==
  last.apart =>
    \/ last.mem = "ok" /\ <<last.call, last.pg>> \in OnlyMemory
    \/ last.pg = "ok" /\ <<last.call, last.mem>> \in OnlyPostgres
    \/ last.mem = "ok" /\ last.pg = "ok" /\ last.call \in OtherRow

(* Callers tell refusals apart by RepositoryError's code.  A call both     *)
(* refuse has in PostgreSQL the code that tests see of the in-memory       *)
(* store, or an error of the driver that no caller knows.                  *)
SameCodes ==
  ~ last.apart /\ last.mem # last.pg =>
    \/ last.pg \in SqlState
    \/ last.mem = "IDEMPOTENCY_CONFLICT" /\ last.pg = "SCOPE_VIOLATION"
    \/ last.call = "agentRuns.update" /\ last.mem = "NOT_FOUND" /\ last.pg = "OPTIMISTIC_CONFLICT"

(* A mutation that is sent again under its key, with the request it was    *)
(* made with, is answered with the resource the first call made and        *)
(* changes nothing, whatever was written since: in both stores, for every  *)
(* key that was completed.                                                 *)
Retry(s, k, Create(_, _, _, _), Update(_, _, _, _, _), Insert(_, _, _, _)) ==
  LET row == s.keys[k]
      request == row.request
  IN  CASE row.operation = "workflow-draft.create" -> Create(s, request[1], request[2], k)
        [] row.operation = "workflow-draft.update" -> Update(s, request[1], request[2], request[3], k)
        [] row.operation = "workflow-revision.create" -> Insert(s, request[1], request[2], k)
        [] OTHER -> Ok(s, row.resource)

RetryIsAnswered ==
  /\ \A k \in DOMAIN mem.keys :
       mem.keys[k].resource # None =>
         Retry(mem, k, M!DraftsCreate, M!DraftsUpdate, M!RevisionsCreate)
           = Ok(mem, mem.keys[k].resource)
  /\ \A k \in DOMAIN pg.keys :
       pg.keys[k].resource # None =>
         Retry(pg, k, P!DraftsCreate, P!DraftsUpdate, P!RevisionsCreate)
           = Ok(pg, pg.keys[k].resource)

(* What was committed of a terminal attempt never changes in either store, *)
(* apart from its review, with the version and the time AttemptsReview     *)
(* writes: no claim, recovery, release, heartbeat or write of a stale copy *)
(* reaches it.                                                             *)
Frozen(committed, s) ==
  \A a \in DOMAIN committed.attempts :
    committed.attempts[a].status \in AttemptTerminal =>
      P!Lifecycle(s.attempts[a]) = P!Lifecycle(committed.attempts[a])

TerminalIsFrozen == [][Frozen(begun.mem, mem') /\ Frozen(begun.pg, pg')]_vars
================================================================================
