------------------------------- MODULE StoreRows -------------------------------
(***************************************************************************)
(* What the two implementations of TransactionalStore share: the tables,   *)
(* the shape of a repository call's result, the record assertions that     *)
(* both run before they touch a table, and the reservation of a workflow   *)
(* mutation's key.  A store is a record of tables, a table a function from *)
(* identifiers to rows.  The services run for one tenant, so a row does    *)
(* not name it.                                                            *)
(***************************************************************************)
EXTENDS Naturals, FiniteSets, SequencesExt, VideoOps

CONSTANTS
  None,        \* NULL in PostgreSQL, undefined in memory
  Oversize,    \* a graph above the stored JSON size limit
  ListLimit    \* entries of validation errors and of evidence: 32 in the code

ASSUME StoreRowsAssumption == ListLimit \in Nat

Table == {"projects", "shots", "attempts", "revisions", "drafts", "artifacts",
          "evaluations", "agentRuns", "workflowVersions", "recommendations",
          "events", "outbox", "keys"}

EmptyStore ==
  [ table \in Table \cup {"tenant", "nextSequence"} |->
      CASE table = "tenant"       -> FALSE
        [] table = "nextSequence" -> 1
        [] OTHER                  -> <<>> ]

Has(s, table, id) == id \in DOMAIN s[table]
WithRow(rows, id, row) ==
  [other \in DOMAIN rows \cup {id} |-> IF other = id THEN row ELSE rows[other]]
Put(s, table, id, row) == [s EXCEPT ![table] = WithRow(@, id, row)]

(* The first n rows of a batch; of two with one identifier the later stays. *)
WithRows(rows, batch, n) ==
  [id \in DOMAIN rows \cup {batch[i].id : i \in 1 .. n} |->
     IF \E i \in 1 .. n : batch[i].id = id
     THEN batch[Max({i \in 1 .. n : batch[i].id = id})].row
     ELSE rows[id]]
Drop(s, table, id) ==
  [s EXCEPT ![table] = [other \in DOMAIN @ \ {id} |-> @[other]]]
Others(s, table, id) == {s[table][other] : other \in DOMAIN s[table] \ {id}}

(* The result of a call: what it returned, or the code it threw.            *)
Ok(s, value) == [answer |-> "ok", value |-> value, s |-> s]
Refuse(s, code) == [answer |-> code, value |-> None, s |-> s]

(* The first of some rows by a time of theirs and then by identifier.      *)
First(times) ==
  CHOOSE i \in DOMAIN times :
    \A j \in DOMAIN times : times[i] < times[j] \/ (times[i] = times[j] /\ i <= j)

(* What the runs of a project have cost together.                          *)
CostOf(runs, project) ==
  FoldSet(LAMBDA r, sum : sum + runs[r].cost, 0,
          {r \in DOMAIN runs : runs[r].project = project})

(* The queue's selections, which SQL and the memory filters state alike: no *)
(* call gives a second attempt to a worker that holds a live lease.        *)
HoldsLease(s, worker, now) ==
  \E a \in DOMAIN s.attempts :
    LET row == s.attempts[a]
    IN  row.owner = worker /\ row.status \in LeasedStatus
        /\ row.expires # None /\ row.expires >= now

Expired(row, now) == row.expires = None \/ row.expires < now

HeldBy(s, id, worker) ==
  Has(s, "attempts", id) /\ s.attempts[id].owner = worker
                         /\ s.attempts[id].status \in LeasedStatus

-----------------------------------------------------------------------------
(* The record assertions of db/index.ts.                                   *)

HashOf(graph) == <<"execution", graph>>

DraftIsBounded(row) == row.graph # Oversize /\ row.version >= 1

RevisionIsSound(row) ==
  /\ row.graph # Oversize
  /\ row.hash = HashOf(row.graph)
  /\ row.validation \in {"pending", "validated", "invalid"}
  /\ row.errors <= ListLimit

ValidationIsBounded(update) ==
  update.validation \in {"pending", "validated", "invalid"} /\ update.errors <= ListLimit

RecommendationIsBounded(row) ==
  /\ row.evidence <= ListLimit
  /\ row.status \in {"pending", "applied", "dismissed", "expired"}
  /\ row.version >= 1

-----------------------------------------------------------------------------
(* A key of a workflow mutation is reserved in the mutation's transaction; *)
(* a completed one names the resource the first call made.                 *)

Fresh(reservation) == reservation.answer = "reserved"
Replayed(reservation) == reservation.answer = "replay"

(* What a reservation that neither reserves nor replays throws.            *)
ReservationRefused(s) == Refuse(s, "IDEMPOTENCY_CONFLICT")

(* A revision's number is left out of the hash of its request.             *)
RevisionRequest(row) == [row EXCEPT !.number = 0]

(* A row of a shot lies in its scope.                                      *)
InScope(row, project, shot) == row.project = project /\ row.shot = shot
================================================================================
