----------------------------- MODULE ProjectLedger -----------------------------
(***************************************************************************)
(* The optimistic concurrency of one project's rows.  Every operation of   *)
(* the API and of the workers on a project, its shots and its attempts is  *)
(* a database transaction at READ COMMITTED that reads the rows one after  *)
(* the other, decides, and writes whole rows WHERE version = the version   *)
(* it read.  GenerationWorker takes these transactions as atomic; here     *)
(* they are apart, so two of them can read before either commits.          *)
(*                                                                         *)
(* The writes of a transaction and its commit are one action: a row whose  *)
(* version was checked stays locked until the commit, and all of them lock *)
(* in the order attempt, shot, project.  The life of an attempt between    *)
(* the queue and the executor (GenerationWorker) is "queued" throughout.   *)
(***************************************************************************)
EXTENDS VideoOps, Sequences

CONSTANTS
  Client,             \* concurrent transactions: API requests and workers
  NewProject,         \* statuses the project may start with
  MaxShots,           \* bound: shots of the project
  MaxAttempts,        \* bound: attempts of the project
  MaxAttemptsPerShot, \* generation.ts MAX_ATTEMPTS_PER_SHOT (3)
  Budget,             \* the project's budget, in estimated attempt costs
  MaxVersion          \* bound: no more notes on a shot from this version on

ASSUME LedgerAssumption ==
  /\ NewProject \subseteq {"draft", "ready_for_generation"}
  /\ MaxShots \in Nat /\ MaxAttempts \in Nat /\ MaxAttemptsPerShot \in Nat \ {0}
  /\ Budget \in Nat /\ MaxVersion \in Nat

VARIABLES
  project,   \* video_projects: status, spent_microusd, version
  shots,     \* shots by ordinal: status, accepted and pinned attempt, version
  attempts,  \* generation_attempts: shot, status, version
  tx         \* what each open transaction is for, has read and has yet to read

vars == <<project, shots, attempts, tx>>

None == 0

ProjectRow == [status : ProjectStatus, spent : Nat, version : Nat]
ShotRow == [status : ShotStatus, accepted : Nat, pinned : Nat, version : Nat]
AttemptRow == [shot : Nat, status : AttemptStatus, version : Nat]

(* What a transaction is for, and the rows it reads, in the code's order.   *)
(* A row read only for its existence or for the response is left out.       *)
ReadOrder ==
  [ run      |-> <<"shots", "project">>,               \* POST /v1/runs
    invalid  |-> <<"project", "shots">>,               \* the same, answered 422
    managed  |-> <<"project", "shot", "attempts">>,    \* createManagedAttempt
    template |-> <<"shot", "project", "attempts">>,    \* createAttempt
    accept   |-> <<"attempt", "shot", "project", "shots">>,
    reject   |-> <<"attempt", "shot">>,
    pin      |-> <<"shot">>,
    unpin    |-> <<"shot">>,
    start    |-> <<"attempt", "shot">>,                \* markRunning
    passed   |-> <<"attempt", "shot", "project">>,     \* finishSuccess
    failed   |-> <<"attempt", "shot", "project">>,
    fail     |-> <<"attempt", "shot", "project">> ]    \* failAttempt

Op == DOMAIN ReadOrder
OnNothing == {"run", "invalid"}
OnShot    == {"managed", "template"}
OnAttempt == Op \ (OnNothing \cup OnShot)
Annotating == {"pin", "unpin"}
WorkerEnd == {"passed", "failed", "fail"}

Transaction ==
  [ op      : Op \cup {"none"},
    of      : Nat,                   \* the attempt it is about, if any
    shot    : Nat,                   \* the shot it is about
    code    : FailureCode \cup {"none"},
    reads   : 0..4,                  \* how many rows of ReadOrder it has read
    project : ProjectRow,
    row     : ShotRow,
    attempt : AttemptRow,
    count   : Nat,                   \* attempts of the shot
    others  : BOOLEAN ]              \* every other shot is accepted

TypeOK ==
  /\ project \in ProjectRow
  /\ shots \in Seq(ShotRow) /\ Len(shots) <= MaxShots
  /\ attempts \in Seq(AttemptRow) /\ Len(attempts) <= MaxAttempts
  /\ \A a \in DOMAIN attempts : attempts[a].shot \in DOMAIN shots
  /\ tx \in [Client -> Transaction]

Idle ==
  [ op |-> "none", of |-> None, shot |-> None, code |-> "none", reads |-> 0,
    project |-> [status |-> "draft", spent |-> 0, version |-> 0],
    row |-> [status |-> "draft", accepted |-> None, pinned |-> None, version |-> 0],
    attempt |-> [shot |-> 0, status |-> "queued", version |-> 0],
    count |-> 0, others |-> FALSE ]

Init ==
  /\ project \in [status : NewProject, spent : {0}, version : {1}]
  /\ shots = <<>>
  /\ attempts = <<>>
  /\ tx = [c \in Client |-> Idle]

-----------------------------------------------------------------------------
(* Reading *)

AttemptsOf(s) == {a \in DOMAIN attempts : attempts[a].shot = s}

CanCharge(row) == row.status \in Generable /\ row.spent + 1 <= Budget

(* A status change bumps the version. *)
Moved(row, status) == [row EXCEPT !.status = status, !.version = @ + 1]

(* prepareDirectRunProjectInTransaction *)
Prepared(row) ==
  IF row.status \in {"draft", "planning", "awaiting_storyboard_approval"}
  THEN Moved(row, "ready_for_generation") ELSE row

(* Mutant of BelowLimit: off by one. *)
AtMostLimit(count) == count <= MaxAttemptsPerShot

BelowLimit(count) == count < MaxAttemptsPerShot

(* What transaction t throws at, or returns early for, in the row of a kind *)
(* it has just read.                                                        *)
Admits(t, kind) ==
  /\ kind = "attempt" /\ t.op \in {"accept", "reject"} => t.attempt.status = "awaiting_review"
  /\ kind = "attempt" /\ t.op = "start" => t.attempt.status = "queued"
  /\ kind = "attempt" /\ t.op \in WorkerEnd => t.attempt.status \in {"queued", "running"}
  /\ kind = "attempts" => BelowLimit(t.count)
  /\ kind = "project" /\ t.op \in OnShot \cup {"run"} => CanCharge(Prepared(t.project))
  /\ kind = "shot" /\ t.op \in OnShot => t.row.status \in ReadyShot
  /\ kind = "shot" /\ t.op = "accept" => /\ t.row.accepted = None
                                        /\ CanMove(ShotMoves, t.row.status, "accepted")
  /\ kind = "shot" /\ t.op = "reject" => CanMove(ShotMoves, t.row.status, "rejected")
  /\ kind = "shot" /\ t.op \in Annotating => t.row.version < MaxVersion

(* What transaction t reads next, and whether it has read everything. *)
Upcoming(t) == ReadOrder[t.op][t.reads + 1]
AllRead(t)  == t.reads = Len(ReadOrder[t.op])

(* Transaction t after its next SELECT. *)
Got(t) ==
  LET rest == [t EXCEPT !.reads = @ + 1] IN
  CASE Upcoming(t) = "project"  -> [rest EXCEPT !.project = project]
    [] Upcoming(t) = "shot"     -> [rest EXCEPT !.row = shots[t.shot]]
    [] Upcoming(t) = "attempt"  -> [rest EXCEPT !.attempt = attempts[t.of]]
    [] Upcoming(t) = "attempts" -> [rest EXCEPT !.count = Cardinality(AttemptsOf(t.shot))]
    [] Upcoming(t) = "shots"    ->
         [rest EXCEPT !.shot = IF @ = None THEN Len(shots) + 1 ELSE @,
                      !.others = \A s \in DOMAIN shots \ {t.shot} :
                                   shots[s].accepted # None]

ReadNext(c, t) ==
  /\ Admits(Got(t), Upcoming(t))
  /\ tx' = [tx EXCEPT ![c] = Got(t)]
  /\ UNCHANGED <<project, shots, attempts>>

Read(c) == tx[c].op # "none" /\ ~AllRead(tx[c]) /\ ReadNext(c, tx[c])

Open(c, op, a, s, code) ==
  /\ tx[c].op = "none"
  /\ ReadNext(c, [Idle EXCEPT !.op = op, !.of = a, !.shot = s, !.code = code])

(* Codes that stand for the two ways a failure on the executor goes on.     *)
Codes(op) ==
  IF op = "fail" THEN {"COMFY_UNAVAILABLE", "COMFY_INTERRUPTED"} ELSE {"none"}

(* BEGIN and the first SELECT. *)
Begin(c) ==
  \/ \E op \in OnNothing : Open(c, op, None, None, "none")
  \/ \E op \in OnShot, s \in DOMAIN shots : Open(c, op, None, s, "none")
  \/ \E op \in OnAttempt, a \in DOMAIN attempts : \E code \in Codes(op) :
       Open(c, op, a, attempts[a].shot, code)

(* A guard that throws, a lost race, a lost connection: ROLLBACK. *)
Abort(c) ==
  /\ tx[c].op # "none"
  /\ tx' = [tx EXCEPT ![c] = Idle]
  /\ UNCHANGED <<project, shots, attempts>>

-----------------------------------------------------------------------------
(* Deciding and writing *)

Ready(c, ops) == tx[c].op \in ops /\ AllRead(tx[c])
Done(c) == tx' = [tx EXCEPT ![c] = Idle]

(* Mutants of the three below: the version is not compared. *)
AnyProject(t) == TRUE
AnyShot(t) == TRUE

(* UPDATE ... WHERE version = the version that was read. *)
SameProject(t) == project.version = t.project.version
SameShot(t)    == shots[t.shot].version = t.row.version
SameAttempt(t) == attempts[t.of].version = t.attempt.version

(* Mutant of Annotated: the version is frozen. *)
AnnotatedInPlace(row, pinned) == [row EXCEPT !.pinned = pinned]

(* revise(): an annotation bumps the version too. *)
Annotated(row, pinned) == [row EXCEPT !.pinned = pinned, !.version = @ + 1]

WriteShot(t, row) == SameShot(t) /\ shots' = [shots EXCEPT ![t.shot] = row]
WriteAttempt(t, status) ==
  SameAttempt(t) /\ attempts' = [attempts EXCEPT ![t.of] = Moved(t.attempt, status)]
WriteProject(t, row) == SameProject(t) /\ project' = row

(* The project row as an attempt is created writes it: the version is only *)
(* bumped if the status changes, the spend is always the one read plus one. *)
Charged(row) ==
  [ (IF row.status = "generating" THEN row ELSE Moved(row, "generating"))
      EXCEPT !.spent = row.spent + 1 ]

Enqueue(s) ==
  attempts' = Append(attempts, [shot |-> s, status |-> "queued", version |-> 1])

(* A new shot takes the next ordinal, which shots_project_ordinal_unique    *)
(* lets only one of two concurrent runs have.  An implicit shot starts      *)
(* approved_for_generation.                                                 *)
FreshShot == [status |-> "approved_for_generation", accepted |-> None,
              pinned |-> None, version |-> 1]
OrdinalFree(t) == t.shot = Len(shots) + 1 /\ Len(shots) < MaxShots

CommitRun(c) ==
  LET t == tx[c] IN
  /\ Ready(c, {"run"})
  /\ OrdinalFree(t) /\ Len(attempts) < MaxAttempts
  /\ WriteProject(t, Charged(Prepared(t.project)))
  /\ shots' = Append(shots, Moved(FreshShot, "queued"))
  /\ Enqueue(t.shot)
  /\ Done(c)

(* A graph that does not validate: shot and revision are kept. *)
CommitInvalidRun(c) ==
  LET t == tx[c] IN
  /\ Ready(c, {"invalid"})
  /\ OrdinalFree(t)
  /\ shots' = Append(shots, FreshShot)
  /\ \/ Prepared(t.project) # t.project /\ WriteProject(t, Prepared(t.project))
     \/ Prepared(t.project) = t.project /\ UNCHANGED project
  /\ UNCHANGED attempts
  /\ Done(c)

CommitCreate(c) ==
  LET t == tx[c] IN
  /\ Ready(c, OnShot)
  /\ Len(attempts) < MaxAttempts
  /\ WriteShot(t, Moved(t.row, "queued"))
  /\ WriteProject(t, Charged(t.project))
  /\ Enqueue(t.shot)
  /\ Done(c)

(* The project row after an acceptance; the row as read is not written.     *)
ProjectAfterAccept(t) ==
  IF t.others THEN Moved(t.project, "completed")
  ELSE IF t.project.status = "generating" THEN Moved(t.project, "awaiting_final_review")
  ELSE t.project

CommitAccept(c) ==
  LET t == tx[c]
      p == ProjectAfterAccept(t)
  IN /\ Ready(c, {"accept"})
     /\ p # t.project => CanMove(ProjectMoves, t.project.status, p.status)
     /\ WriteAttempt(t, "accepted")
     /\ WriteShot(t, [Moved(t.row, "accepted") EXCEPT !.accepted = t.of, !.pinned = t.of])
     /\ \/ p # t.project /\ WriteProject(t, p)
        \/ p = t.project /\ UNCHANGED project
     /\ Done(c)

CommitReject(c) ==
  LET t == tx[c] IN
  /\ Ready(c, {"reject"})
  /\ WriteAttempt(t, "rejected")
  /\ WriteShot(t, Moved(t.row, "rejected"))
  /\ UNCHANGED project
  /\ Done(c)

(* pinAttemptInTransaction and unpinAttemptInTransaction, whatever the      *)
(* status of the attempt.                                                   *)
CommitPin(c) ==
  LET t == tx[c] IN
  /\ Ready(c, {"pin"})
  /\ WriteShot(t, Annotated(t.row, t.of))
  /\ UNCHANGED <<project, attempts>>
  /\ Done(c)

CommitUnpin(c) ==
  LET t == tx[c] IN
  /\ Ready(c, {"unpin"})
  /\ t.row.pinned = t.of
  /\ WriteShot(t, Annotated(t.row, None))
  /\ UNCHANGED <<project, attempts>>
  /\ Done(c)

-----------------------------------------------------------------------------
(* The workers' transactions. *)

CommitStart(c) ==
  LET t == tx[c] IN
  /\ Ready(c, {"start"})
  /\ WriteAttempt(t, "running")
  /\ \/ t.row.status = "queued" /\ WriteShot(t, Moved(t.row, "generating"))
     \/ t.row.status # "queued" /\ UNCHANGED shots
  /\ UNCHANGED project
  /\ Done(c)

(* The rest of a worker's last transaction on an attempt: the shot goes to  *)
(* the given status and a generating project to its own, or stay.           *)
CommitOutcome(t, attemptStatus, shotStatus, projectStatus) ==
  /\ WriteAttempt(t, attemptStatus)
  /\ \/ shotStatus # t.row.status /\ WriteShot(t, Moved(t.row, shotStatus))
     \/ shotStatus = t.row.status /\ UNCHANGED shots
  /\ \/ /\ t.project.status = "generating"
        /\ WriteProject(t, Moved(t.project, projectStatus))
     \/ t.project.status # "generating" /\ UNCHANGED project

CommitVerdict(c) ==
  LET t == tx[c] IN
  /\ Ready(c, {"passed", "failed"})
  /\ CommitOutcome(t, IF t.op = "passed" THEN "awaiting_review" ELSE "failed",
                   ShotAfterVerdict(t.row.status, t.op), ProjectAfterVerdict(t.op))
  /\ Done(c)

CommitFailure(c) ==
  LET t == tx[c] IN
  /\ Ready(c, {"fail"})
  /\ CommitOutcome(t, FailureStatus(t.code),
                   IF t.row.status \in {"queued", "generating"}
                   THEN ShotAfterFailure(t.code) ELSE t.row.status,
                   ProjectAfterFailure(t.code))
  /\ Done(c)

Commit(c) ==
  \/ CommitRun(c) \/ CommitInvalidRun(c) \/ CommitCreate(c)
  \/ CommitAccept(c) \/ CommitReject(c) \/ CommitPin(c) \/ CommitUnpin(c)
  \/ CommitStart(c) \/ CommitVerdict(c) \/ CommitFailure(c)

Next == \E c \in Client : Begin(c) \/ Read(c) \/ Commit(c) \/ Abort(c)

Spec == Init /\ [][Next]_vars

-----------------------------------------------------------------------------
(* Safety *)

Pending == {"queued", "running", "awaiting_review"}

(* Two concurrent creations never give one shot two attempts in progress,   *)
(* although neither locks what it reads: each moves the shot.               *)
OnePendingPerShot ==
  \A a, b \in DOMAIN attempts :
    /\ attempts[a].shot = attempts[b].shot
    /\ attempts[a].status \in Pending /\ attempts[b].status \in Pending
    => a = b

(* Nor more attempts than the limit, counted before the row is locked.      *)
AttemptLimit == \A s \in DOMAIN shots : Cardinality(AttemptsOf(s)) <= MaxAttemptsPerShot

(* An accepted shot names its one accepted attempt, whatever pins, reviews  *)
(* and late worker writes of the whole row ran beside the acceptance.       *)
AcceptedIsUnique ==
  \A s \in DOMAIN shots :
    /\ shots[s].status = "accepted" <=> shots[s].accepted # None
    /\ \A a \in AttemptsOf(s) : attempts[a].status = "accepted" <=> shots[s].accepted = a

(* A project is completed over accepted shots only: no attempt slips in     *)
(* between the look at the other shots and the commit of the last accept.   *)
CompletedIsAccepted ==
  project.status = "completed" =>
    \A a \in DOMAIN attempts : shots[attempts[a].shot].accepted # None

(* A closed project stays as it is and gets no further attempt, also from   *)
(* transactions that read it before it was closed.                          *)
ClosedIsFinal ==
  [][project.status \in {"completed", "failed", "cancelled"} =>
       /\ project' = project
       /\ Len(attempts') = Len(attempts)]_vars

(* A pin is only changed by a pin, an unpin or an acceptance: no other      *)
(* write of the shot's row puts back the pin it read.                       *)
PinsSurvive ==
  [][\A s \in DOMAIN shots : shots'[s].pinned # shots[s].pinned =>
       \E c \in Client : tx[c].op \in {"pin", "unpin", "accept"} /\ tx'[c] = Idle]_vars

-----------------------------------------------------------------------------
(* Why it holds: the inductive invariant of the proofs.                     *)

(* An attempt in progress keeps its shot in progress.                       *)
PendingHoldsShot ==
  \A a \in DOMAIN attempts : attempts[a].status \in Pending =>
    shots[attempts[a].shot].status \in {"queued", "generating", "awaiting_review"}

(* The accepted attempt of a shot is one of its own.                        *)
AcceptedIsOwn ==
  \A s \in DOMAIN shots : shots[s].accepted # None => shots[s].accepted \in AttemptsOf(s)

(* The kinds of row transaction t has read.                                 *)
Seen(t) == {ReadOrder[t.op][i] : i \in 1..t.reads}

(* What a transaction still knows of a row of a kind it has read: nothing   *)
(* but that the row can only have moved on, and all of it as long as the    *)
(* version is the one that was read.  A project's spend changes without its *)
(* version; the attempts of a shot change with the version of the shot, and *)
(* the attempts of a project in final review with that of the project.      *)
Known(t, kind) ==
  /\ kind = "project" => /\ t.project.version <= project.version
                         /\ SameProject(t) => t.project.status = project.status
  /\ kind = "shot"    => /\ t.row.version <= shots[t.shot].version
                         /\ SameShot(t) => t.row = shots[t.shot]
  /\ kind = "attempt" => /\ t.attempt.version <= attempts[t.of].version
                         /\ SameAttempt(t) => t.attempt = attempts[t.of]
  /\ kind = "attempts" => (SameShot(t) => t.count = Cardinality(AttemptsOf(t.shot)))
  /\ (kind = "shots" /\ t.op = "accept" /\ t.others /\ SameProject(t)
        /\ project.status = "awaiting_final_review") =>
       \A a \in DOMAIN attempts : attempts[a].shot # t.shot =>
         shots[attempts[a].shot].accepted # None

(* A transaction is about an existing shot and attempt, and what it threw   *)
(* at is not what it has read.                                              *)
Sound(t) ==
  t.op # "none" =>
    /\ t.reads \in 1..Len(ReadOrder[t.op])
    /\ t.op \in OnShot \cup OnAttempt => t.shot \in DOMAIN shots
    /\ t.op \in OnAttempt => t.of \in DOMAIN attempts /\ attempts[t.of].shot = t.shot
    /\ \A kind \in Seen(t) : Known(t, kind) /\ Admits(t, kind)

RowsAgree ==
  /\ OnePendingPerShot /\ PendingHoldsShot
  /\ AttemptLimit
  /\ AcceptedIsUnique /\ AcceptedIsOwn
  /\ CompletedIsAccepted

IInv == TypeOK /\ RowsAgree /\ \A c \in Client : Sound(tx[c])

-----------------------------------------------------------------------------
(* What the documentation says, and one transaction after the other keeps,  *)
(* but two that overlap do not.                                             *)

(* README.md:221: "a project's `budgetUsd` governs recorded attempt spend". *)
(* Two creations that read the same spend of a generating project write the *)
(* same sum, and neither moves the version the other looks for.             *)
BudgetGoverns == Len(attempts) <= Budget

(* generation.test.ts:392: accepting one attempt per shot completes the     *)
(* project with the last of them; no other transaction completes it.        *)
AcceptedIsCompleted ==
  (shots # <<>> /\ \A s \in DOMAIN shots : shots[s].accepted # None) =>
    project.status = "completed"
================================================================================
