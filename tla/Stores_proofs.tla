----------------------------- MODULE Stores_proofs -----------------------------
(***************************************************************************)
(* Proofs about Stores: the two implementations of TransactionalStore hold *)
(* the same rows and refuse the same calls but for the splits it lists,    *)
(* for sessions of any length.  Each repository call is first compared on  *)
(* any two stores that are alike, with any arguments a service can make;   *)
(* the transactions come after.                                            *)
(***************************************************************************)
EXTENDS Stores, FiniteSetTheorems, TLAPS

LEMMA NullIsNothingElse ==
  /\ None \notin Nat /\ None # "ok"
  /\ None # "23503" /\ None # "23505" /\ None # "23514" /\ None # "55000"
  /\ None # "SCOPE_VIOLATION" /\ None # "claimed"
BY NullAssumption DEF SqlState, RepositoryError, AttemptStatus, AttemptMoves

USE NullIsNothingElse

Columns == Table \cup {"tenant", "nextSequence"}

(* The tables that the two stores hold row for row.                        *)
Plain == Columns \ {"attempts", "outbox", "events", "nextSequence"}

AttemptColumns ==
  {"project", "shot", "key", "corr", "prompt", "status", "owner", "expires", "queuedAt",
   "updated", "revision", "hash", "seed", "review", "version"}
OutboxColumns == {"available", "tries", "delivered", "failed"}
EventColumns == {"project", "shot", "attempt", "sequence"}

-----------------------------------------------------------------------------
(* The least of some numbers, and the first of some rows.                  *)

LEMMA LeastNumber ==
  ASSUME NEW T, T \subseteq Nat, T # {}
  PROVE  \E x \in T : \A y \in T : x <= y
<1> DEFINE below == {0 .. n : n \in T}
<1>1. below \subseteq FiniteSubsetsOf(Nat) /\ below # {}
  <2>1. ASSUME NEW n \in T PROVE 0 .. n \in FiniteSubsetsOf(Nat)
    <3>1. IsFiniteSet(0 .. n) /\ 0 .. n \subseteq Nat
      BY FS_Interval
    <3> QED
      BY <3>1 DEF FiniteSubsetsOf
  <2> QED
    BY <2>1
<1>2. PICK w \in below : \A v \in below : ~ (<<v, w>> \in StrictSubsetOrdering(Nat))
  <2>1. IsWellFoundedOn(StrictSubsetOrdering(Nat), FiniteSubsetsOf(Nat))
    BY FS_StrictSubsetOrderingWellFounded
  <2> HIDE DEF below
  <2> QED
    BY <1>1, <2>1, WFMin
<1>3. PICK x \in T : w = 0 .. x
  BY <1>2
<1>4. ASSUME NEW y \in T, ~ (x <= y) PROVE FALSE
  <2>1. x \in Nat /\ y \in Nat /\ y < x
    BY <1>4
  <2>2. 0 .. y \subseteq 0 .. x /\ x \in 0 .. x /\ x \notin 0 .. y
    BY <2>1
  <2>3. <<0 .. y, 0 .. x>> \in StrictSubsetOrdering(Nat)
    <3>1. 0 .. y \in SUBSET Nat /\ 0 .. x \in SUBSET Nat
      BY <2>1
    <3> QED
      BY <2>2, <3>1 DEF StrictSubsetOrdering
  <2> QED
    BY <1>2, <1>3, <2>3
<1> QED
  BY <1>3, <1>4

(* The order by time and identifier has a first row.                       *)
LEMMA FirstIsOne ==
  ASSUME NEW times, DOMAIN times \subseteq Nat, DOMAIN times # {},
         \A i \in DOMAIN times : times[i] \in Nat
  PROVE  First(times) \in DOMAIN times
<1> DEFINE ids == DOMAIN times
<1>1. PICK x \in {times[i] : i \in ids} : \A y \in {times[i] : i \in ids} : x <= y
  BY LeastNumber
<1>2. PICK i \in {j \in ids : times[j] = x} : \A j \in {k \in ids : times[k] = x} : i <= j
  BY <1>1, LeastNumber
<1>3. \A j \in ids : times[i] < times[j] \/ (times[i] = times[j] /\ i <= j)
  BY <1>1, <1>2
<1> QED
  BY <1>2, <1>3 DEF First

-----------------------------------------------------------------------------
(* What holds of one store.                                                *)

AttemptTyped(row) ==
  DOMAIN row = AttemptColumns /\ row.queuedAt \in Nat /\ row.updated \in Nat

AttemptsTyped(rows) == \A a \in DOMAIN rows : a \in Nat /\ AttemptTyped(rows[a])

OutboxTyped(rows) ==
  \A m \in DOMAIN rows :
    m \in Nat /\ DOMAIN rows[m] = OutboxColumns /\ rows[m].available \in Nat

EventsNumbered(rows, next) ==
  /\ next \in Nat
  /\ \A e \in DOMAIN rows :
       DOMAIN rows[e] = EventColumns /\ rows[e].sequence \in Nat /\ rows[e].sequence < next

ScopesTyped(rows) == \A i \in DOMAIN rows : {"project", "shot"} \subseteq DOMAIN rows[i]

Typed(s) ==
  /\ DOMAIN s = Columns
  /\ AttemptsTyped(s.attempts) /\ OutboxTyped(s.outbox)
  /\ EventsNumbered(s.events, s.nextSequence)
  /\ ScopesTyped(s.drafts) /\ ScopesTyped(s.revisions)

(* The request a mutation's key was completed with: the identifier, the    *)
(* row and, for an update, the version it expected.                        *)
DraftOps == {"workflow-draft.create", "workflow-draft.update"}
RevisionOp == "workflow-revision.create"
MutationOps == DraftOps \cup {RevisionOp}

RequestIsWhole(operation, request) ==
  /\ operation = "workflow-draft.create" => request = <<request[1], request[2]>>
  /\ operation = "workflow-draft.update" => request = <<request[1], request[2], request[3]>>
  /\ operation \in DraftOps => DraftIsBounded(request[2])
  /\ operation = RevisionOp =>
       /\ request = <<request[1], request[2]>>
       /\ RevisionRequest(request[2]) = request[2] /\ RevisionIsSound(request[2])

Lies(rows, id, row) == id \in DOMAIN rows /\ InScope(rows[id], row.project, row.shot)

(* A completed key of a mutation names a row in the scope of its request.  *)
KeyNamesRow(s, key) ==
  /\ RequestIsWhole(key.operation, key.request)
  /\ key.operation \in DraftOps => Lies(s.drafts, key.resource, key.request[2])
  /\ key.operation = RevisionOp => Lies(s.revisions, key.resource, key.request[2])

KeysNameRows(s) ==
  \A k \in DOMAIN s.keys : s.keys[k].resource # None => KeyNamesRow(s, s.keys[k])

MemSound(s) == Typed(s) /\ KeysNameRows(s)

(* PostgreSQL has more: its indexes, its foreign keys, and the one draft   *)
(* of a shot, which a retry is answered with.                              *)
Distinct(x, y) ==
  /\ x.key # y.key /\ x.corr # y.corr
  /\ x.prompt = None \/ x.prompt # y.prompt
  /\ ~ (x.shot = y.shot /\ x.status = "accepted" /\ y.status = "accepted")

Indexed(rows) == \A a, b \in DOMAIN rows : a # b => Distinct(rows[a], rows[b])

Referenced(s) ==
  \A a \in DOMAIN s.attempts :
    s.attempts[a].project \in DOMAIN s.projects /\ s.attempts[a].shot \in DOMAIN s.shots

ShotIn(s, project, shot) ==
  project \in DOMAIN s.projects /\ shot \in DOMAIN s.shots /\ s.shots[shot].project = project

KeyIsScoped(s, key) ==
  key.operation \in MutationOps =>
    ShotIn(s, key.request[2].project, key.request[2].shot)

KeysAreScoped(s) ==
  \A k \in DOMAIN s.keys : s.keys[k].resource # None => KeyIsScoped(s, s.keys[k])

OneDraftEach(rows) ==
  \A d, e \in DOMAIN rows : InScope(rows[d], rows[e].project, rows[e].shot) => d = e

PgSound(s) ==
  /\ MemSound(s)
  /\ Indexed(s.attempts) /\ Referenced(s)
  /\ KeysAreScoped(s) /\ OneDraftEach(s.drafts)

-----------------------------------------------------------------------------
(* Two stores that are alike: nothing a service can read tells them apart. *)

AlikeAttempts(x, y) ==
  /\ DOMAIN x = DOMAIN y
  /\ \A a \in DOMAIN x, c \in AttemptColumns \ {"updated"} : x[a][c] = y[a][c]

AlikeOutbox(x, y) ==
  /\ DOMAIN x = DOMAIN y
  /\ \A m \in DOMAIN x, c \in OutboxColumns \ {"available"} : x[m][c] = y[m][c]

AlikeEvents(x, y) ==
  /\ DOMAIN x = DOMAIN y
  /\ \A e \in DOMAIN x, c \in EventColumns \ {"sequence"} : x[e][c] = y[e][c]
  /\ \A e, o \in DOMAIN x : x[o].sequence <= x[e].sequence <=> y[o].sequence <= y[e].sequence

Alike(s, t) ==
  /\ \A c \in Plain : s[c] = t[c]
  /\ AlikeAttempts(s.attempts, t.attempts)
  /\ AlikeOutbox(s.outbox, t.outbox)
  /\ AlikeEvents(s.events, t.events)

(* No attempt is gone, and the terminal ones are what they were.           *)
Later(s, after) ==
  \A a \in DOMAIN s.attempts :
    /\ a \in DOMAIN after.attempts
    /\ s.attempts[a].status \in AttemptTerminal =>
         P!Lifecycle(after.attempts[a]) = P!Lifecycle(s.attempts[a])

(* What a session of a group can rely on: a project and a shot to put an   *)
(* attempt in; keys of other requests than the workflow mutations; shots   *)
(* that name their project.                                                *)
Home(g, s) ==
  /\ g = "attempts" => "p1" \in DOMAIN s.projects /\ "s1" \in DOMAIN s.shots
  /\ g = "keys" => \A k \in DOMAIN s.keys : s.keys[k].operation \notin MutationOps
  /\ g = "projects" => \A shot \in DOMAIN s.shots : "project" \in DOMAIN s.shots[shot]

IInv ==
  /\ MemSound(mem) /\ MemSound(begun.mem) /\ PgSound(pg) /\ PgSound(begun.pg)
  /\ begun.pg.nextSequence <= pg.nextSequence
  /\ Later(begun.mem, mem) /\ Later(begun.pg, pg)
  /\ Home(group, pg) /\ Home(group, begun.pg)
  /\ now \in Nat
  /\ ~ last.apart => Alike(mem, pg) /\ Alike(begun.mem, begun.pg)
  /\ KnownSplits /\ SameCodes

-----------------------------------------------------------------------------
(* Writing a row into a table.                                             *)

LEMMA RowWritten ==
  ASSUME NEW rows, NEW id, NEW row
  PROVE  /\ DOMAIN WithRow(rows, id, row) = DOMAIN rows \cup {id}
         /\ WithRow(rows, id, row)[id] = row
         /\ \A other \in DOMAIN rows \ {id} : WithRow(rows, id, row)[other] = rows[other]
BY DEF WithRow

LEMMA TableWritten ==
  ASSUME NEW s, DOMAIN s = Columns, NEW c \in Columns, NEW id, NEW row
  PROVE  /\ DOMAIN Put(s, c, id, row) = Columns
         /\ Put(s, c, id, row)[c] = WithRow(s[c], id, row)
         /\ \A d \in Columns \ {c} : Put(s, c, id, row)[d] = s[d]
BY DEF Put

(* Tables that no invariant of a store looks into.                         *)
Free == {"artifacts", "evaluations", "agentRuns", "workflowVersions", "recommendations"}

Watched == {"attempts", "outbox", "events", "nextSequence", "drafts", "revisions", "keys"}

(* A store that changes only where nothing is watched stays sound.         *)
LEMMA MemSoundElsewhere ==
  ASSUME NEW s, MemSound(s), NEW u, DOMAIN u = Columns, \A c \in Watched : u[c] = s[c]
  PROVE  MemSound(u) /\ Later(s, u)
<1>1. /\ u.attempts = s.attempts /\ u.outbox = s.outbox /\ u.events = s.events
      /\ u.nextSequence = s.nextSequence /\ u.drafts = s.drafts
      /\ u.revisions = s.revisions /\ u.keys = s.keys
  BY DEF Watched
<1>2. Typed(u)
  BY <1>1 DEF MemSound, Typed
<1>3. KeysNameRows(u)
  BY <1>1 DEF MemSound, KeysNameRows, KeyNamesRow
<1>4. Later(s, u)
  BY <1>1 DEF Later
<1> QED
  BY <1>2, <1>3, <1>4 DEF MemSound

(* Shots keep their project, and nothing is dropped.                       *)
Grows(s, u) ==
  /\ DOMAIN s.projects \subseteq DOMAIN u.projects
  /\ DOMAIN s.shots \subseteq DOMAIN u.shots
  /\ \A shot \in DOMAIN s.shots : u.shots[shot].project = s.shots[shot].project

LEMMA ScopesStay ==
  ASSUME NEW s, NEW u, KeysAreScoped(s), Grows(s, u), u.keys = s.keys
  PROVE  KeysAreScoped(u)
BY DEF KeysAreScoped, KeyIsScoped, ShotIn, Grows

LEMMA PgSoundElsewhere ==
  ASSUME NEW s, PgSound(s), NEW u, DOMAIN u = Columns, \A c \in Watched : u[c] = s[c],
         Grows(s, u)
  PROVE  PgSound(u) /\ Later(s, u)
<1>1. u.attempts = s.attempts /\ u.drafts = s.drafts /\ u.keys = s.keys
  BY DEF Watched
<1>2. MemSound(u) /\ Later(s, u)
  BY MemSoundElsewhere DEF PgSound
<1>3. Indexed(u.attempts) /\ OneDraftEach(u.drafts)
  BY <1>1 DEF PgSound
<1>4. Referenced(u)
  BY <1>1 DEF PgSound, Referenced, Grows
<1>5. KeysAreScoped(u)
  BY <1>1, ScopesStay DEF PgSound
<1> QED
  BY <1>2, <1>3, <1>4, <1>5 DEF PgSound

LEMMA AlikeElsewhere ==
  ASSUME NEW s, NEW t, Alike(s, t), NEW u, NEW v,
         \A c \in {"attempts", "outbox", "events"} : u[c] = s[c] /\ v[c] = t[c],
         \A c \in Plain : u[c] = v[c]
  PROVE  Alike(u, v)
BY DEF Alike

LEMMA GrowsAtOnce == \A s : Grows(s, s)
BY DEF Grows

LEMMA LaterAtOnce == \A s : Later(s, s)
BY DEF Later

LEMMA LaterAgain ==
  ASSUME NEW s, NEW u, NEW v, Later(s, u), Later(u, v)
  PROVE  Later(s, v)
<1> SUFFICES ASSUME NEW a \in DOMAIN s.attempts
             PROVE  /\ a \in DOMAIN v.attempts
                    /\ s.attempts[a].status \in AttemptTerminal =>
                         P!Lifecycle(v.attempts[a]) = P!Lifecycle(s.attempts[a])
  BY DEF Later
<1>1. a \in DOMAIN u.attempts /\ a \in DOMAIN v.attempts
  BY DEF Later
<1>2. ASSUME s.attempts[a].status \in AttemptTerminal
      PROVE  P!Lifecycle(v.attempts[a]) = P!Lifecycle(s.attempts[a])
  <2>1. P!Lifecycle(u.attempts[a]) = P!Lifecycle(s.attempts[a])
    BY <1>2 DEF Later
  <2>2. u.attempts[a].status = s.attempts[a].status
    BY <2>1 DEF P!Lifecycle
  <2>3. P!Lifecycle(v.attempts[a]) = P!Lifecycle(u.attempts[a])
    BY <1>1, <1>2, <2>2 DEF Later
  <2> QED
    BY <2>1, <2>3
<1> QED
  BY <1>1, <1>2

-----------------------------------------------------------------------------
(* One call on two stores: what each keeps, and what their answers may be. *)

Apart(m, p) == (Accepted(m) <=> ~ Accepted(p)) \/ m.value # p.value

SplitIsKnown(name, m, p) ==
  \/ m.answer = "ok" /\ <<name, p.answer>> \in OnlyMemory
  \/ p.answer = "ok" /\ <<name, m.answer>> \in OnlyPostgres
  \/ m.answer = "ok" /\ p.answer = "ok" /\ name \in OtherRow

CodesAgree(name, m, p) ==
  \/ m.answer = p.answer
  \/ p.answer \in SqlState
  \/ m.answer = "IDEMPOTENCY_CONFLICT" /\ p.answer = "SCOPE_VIOLATION"
  \/ name = "agentRuns.update" /\ m.answer = "NOT_FOUND" /\ p.answer = "OPTIMISTIC_CONFLICT"

MemKept(s, m) == Accepted(m) => MemSound(m.s) /\ Later(s, m.s)

PgKept(t, p) ==
  /\ p.s.nextSequence \in Nat /\ t.nextSequence <= p.s.nextSequence
  /\ Accepted(p) => PgSound(p.s) /\ Later(t, p.s) /\ Grows(t, p.s)

Compared(name, s, t, m, p) ==
  /\ MemKept(s, m) /\ PgKept(t, p)
  /\ ~ Apart(m, p) => CodesAgree(name, m, p) /\ (Accepted(m) => Alike(m.s, p.s))
  /\ Apart(m, p) => SplitIsKnown(name, m, p)

(* Two stores a session may have come to. *)
Pair(s, t) == MemSound(s) /\ PgSound(t) /\ Alike(s, t)

LEMMA Codes ==
  /\ \A s, v : Accepted(Ok(s, v))
  /\ \A s, c : c \in SqlState \cup RepositoryError => ~ Accepted(Refuse(s, c))
BY DEF Accepted, Ok, Refuse, SqlState, RepositoryError

LEMMA NumbersOfPg ==
  ASSUME NEW t, PgSound(t)
  PROVE  t.nextSequence \in Nat
BY DEF PgSound, MemSound, Typed, EventsNumbered

(* Both carry the call out, each to a sound store, the two alike.          *)
LEMMA BothDo ==
  ASSUME NEW name, NEW s, NEW t, NEW u, NEW v, NEW value,
         MemSound(u), Later(s, u), PgSound(v), Later(t, v), Grows(t, v),
         t.nextSequence <= v.nextSequence, Alike(u, v)
  PROVE  Compared(name, s, t, Ok(u, value), Ok(v, value))
<1>1. v.nextSequence \in Nat
  BY NumbersOfPg
<1>2. ~ Apart(Ok(u, value), Ok(v, value)) /\ CodesAgree(name, Ok(u, value), Ok(v, value))
  BY Codes DEF Apart, CodesAgree, Ok
<1> QED
  BY <1>1, <1>2 DEF Compared, MemKept, PgKept, Ok

(* Nothing happens.                                                        *)
LEMMA BothRead ==
  ASSUME NEW name, NEW s, NEW t, Pair(s, t), NEW value
  PROVE  Compared(name, s, t, Ok(s, value), Ok(t, value))
<1>1. t.nextSequence \in Nat /\ MemSound(s) /\ PgSound(t) /\ Alike(s, t)
  BY NumbersOfPg DEF Pair
<1> QED
  BY <1>1, BothDo, LaterAtOnce, GrowsAtOnce

(* Both refuse; PostgreSQL may have drawn a number.                        *)
LEMMA BothRefuse ==
  ASSUME NEW name, NEW s, NEW t, NEW u, NEW v, NEW c, NEW d,
         v.nextSequence \in Nat, t.nextSequence <= v.nextSequence,
         c \in RepositoryError, d \in SqlState \cup {c}
  PROVE  Compared(name, s, t, Refuse(u, c), Refuse(v, d))
<1>1. ~ Accepted(Refuse(u, c)) /\ ~ Accepted(Refuse(v, d))
  BY Codes
<1>2. ~ Apart(Refuse(u, c), Refuse(v, d)) /\ CodesAgree(name, Refuse(u, c), Refuse(v, d))
  BY <1>1 DEF Apart, CodesAgree, Refuse
<1> QED
  BY <1>1, <1>2 DEF Compared, MemKept, PgKept, Refuse

(* They refuse with two codes that callers tell apart.                     *)
LEMMA BothRefuseOtherwise ==
  ASSUME NEW name, NEW s, NEW t, NEW u, NEW c, NEW d, PgSound(t),
         \/ c = "IDEMPOTENCY_CONFLICT" /\ d = "SCOPE_VIOLATION"
         \/ name = "agentRuns.update" /\ c = "NOT_FOUND" /\ d = "OPTIMISTIC_CONFLICT"
  PROVE  Compared(name, s, t, Refuse(u, c), Refuse(t, d))
<1>1. ~ Accepted(Refuse(u, c)) /\ ~ Accepted(Refuse(t, d))
  BY Codes DEF RepositoryError
<1>2. ~ Apart(Refuse(u, c), Refuse(t, d)) /\ CodesAgree(name, Refuse(u, c), Refuse(t, d))
  BY <1>1 DEF Apart, CodesAgree, Refuse
<1>3. t.nextSequence \in Nat
  BY NumbersOfPg
<1> QED
  BY <1>1, <1>2, <1>3 DEF Compared, MemKept, PgKept, Refuse

(* Only the in-memory store carries the call out.                          *)
LEMMA MemDoes ==
  ASSUME NEW name, NEW s, NEW t, NEW u, NEW v, NEW value, NEW d,
         MemSound(u), Later(s, u),
         v.nextSequence \in Nat, t.nextSequence <= v.nextSequence,
         d \in SqlState, <<name, d>> \in OnlyMemory
  PROVE  Compared(name, s, t, Ok(u, value), Refuse(v, d))
<1>1. Accepted(Ok(u, value)) /\ ~ Accepted(Refuse(v, d))
  BY Codes
<1>2. Apart(Ok(u, value), Refuse(v, d)) /\ SplitIsKnown(name, Ok(u, value), Refuse(v, d))
  BY <1>1 DEF Apart, SplitIsKnown, Refuse, Ok
<1> QED
  BY <1>1, <1>2 DEF Compared, MemKept, PgKept, Refuse, Ok

(* Only PostgreSQL carries it out.                                         *)
LEMMA PgDoes ==
  ASSUME NEW name, NEW s, NEW t, NEW u, NEW v, NEW value, NEW c,
         PgSound(v), Later(t, v), Grows(t, v), t.nextSequence <= v.nextSequence,
         c \in RepositoryError, <<name, c>> \in OnlyPostgres
  PROVE  Compared(name, s, t, Refuse(u, c), Ok(v, value))
<1>1. ~ Accepted(Refuse(u, c)) /\ Accepted(Ok(v, value)) /\ v.nextSequence \in Nat
  BY Codes, NumbersOfPg
<1>2. Apart(Refuse(u, c), Ok(v, value)) /\ SplitIsKnown(name, Refuse(u, c), Ok(v, value))
  BY <1>1 DEF Apart, SplitIsKnown, Refuse, Ok
<1> QED
  BY <1>1, <1>2 DEF Compared, MemKept, PgKept, Refuse, Ok

(* Both write, and not the same row.                                       *)
LEMMA BothDoOtherwise ==
  ASSUME NEW name, NEW s, NEW t, NEW u, NEW v, NEW x, NEW y,
         MemSound(u), Later(s, u), PgSound(v), Later(t, v), Grows(t, v),
         t.nextSequence <= v.nextSequence, x # y, name \in OtherRow
  PROVE  Compared(name, s, t, Ok(u, x), Ok(v, y))
<1>1. v.nextSequence \in Nat
  BY NumbersOfPg
<1>2. Apart(Ok(u, x), Ok(v, y)) /\ SplitIsKnown(name, Ok(u, x), Ok(v, y))
  BY DEF Apart, SplitIsKnown, Ok
<1> QED
  BY <1>1, <1>2 DEF Compared, MemKept, PgKept, Ok

-----------------------------------------------------------------------------
(* Writing a row that no other depends on.                                 *)

KeepsProject(t, c, id, row) ==
  c = "shots" /\ id \in DOMAIN t.shots => row.project = t.shots[id].project

Open == Free \cup {"projects", "shots"}

LEMMA MemWritten ==
  ASSUME NEW s, MemSound(s), NEW c \in Open, NEW id, NEW row
  PROVE  MemSound(Put(s, c, id, row)) /\ Later(s, Put(s, c, id, row))
<1>1. DOMAIN s = Columns /\ c \in Columns /\ c \notin Watched /\ Watched \subseteq Columns
  BY DEF MemSound, Typed, Open, Free, Columns, Table, Watched
<1> DEFINE u == Put(s, c, id, row)
<1>2. DOMAIN u = Columns /\ \A d \in Watched : u[d] = s[d]
  BY <1>1, TableWritten
<1> HIDE DEF u
<1>3. MemSound(u) /\ Later(s, u)
  BY <1>2, MemSoundElsewhere
<1> QED
  BY <1>3 DEF u

LEMMA PgWritten ==
  ASSUME NEW t, PgSound(t), NEW c \in Open, NEW id, NEW row, KeepsProject(t, c, id, row)
  PROVE  /\ PgSound(Put(t, c, id, row)) /\ Later(t, Put(t, c, id, row))
         /\ Grows(t, Put(t, c, id, row))
         /\ t.nextSequence <= Put(t, c, id, row).nextSequence
<1>1. /\ DOMAIN t = Columns /\ c \in Columns /\ c \notin Watched /\ Watched \subseteq Columns
      /\ "projects" \in Columns /\ "shots" \in Columns /\ "nextSequence" \in Watched
  BY DEF PgSound, MemSound, Typed, Open, Free, Columns, Table, Watched
<1> DEFINE u == Put(t, c, id, row)
<1>2. DOMAIN u = Columns /\ \A d \in Columns \ {c} : u[d] = t[d]
  BY <1>1, TableWritten
<1>3. u[c] = WithRow(t[c], id, row)
  BY <1>1, TableWritten
<1> HIDE DEF u
<1>4. \A d \in Watched : u[d] = t[d]
  BY <1>1, <1>2
<1>5. Grows(t, u)
  <2>1. CASE c = "projects"
    <3>1. u.shots = t.shots
      BY <1>1, <1>2, <2>1
    <3>2. u.projects = WithRow(t.projects, id, row)
      BY <1>3, <2>1
    <3>3. DOMAIN u.projects = DOMAIN t.projects \cup {id}
      BY <3>2 DEF WithRow
    <3> QED
      BY <3>1, <3>3 DEF Grows
  <2>2. CASE c = "shots"
    <3>1. u.projects = t.projects
      BY <1>1, <1>2, <2>2
    <3>2. u.shots = WithRow(t.shots, id, row)
      BY <1>3, <2>2
    <3>3. /\ DOMAIN u.shots = DOMAIN t.shots \cup {id}
          /\ \A shot \in DOMAIN t.shots : u.shots[shot].project = t.shots[shot].project
      BY <2>2, <3>2 DEF KeepsProject, WithRow
    <3> QED
      BY <3>1, <3>3 DEF Grows
  <2>3. CASE c \notin {"projects", "shots"}
    <3>1. u.projects = t.projects /\ u.shots = t.shots
      BY <1>1, <1>2, <2>3
    <3> QED
      BY <3>1 DEF Grows
  <2> QED
    BY <2>1, <2>2, <2>3
<1>6. PgSound(u) /\ Later(t, u)
  BY <1>2, <1>4, <1>5, PgSoundElsewhere
<1>7. t.nextSequence <= u.nextSequence
  <2>1. u.nextSequence = t.nextSequence /\ t.nextSequence \in Nat
    BY <1>1, <1>4, NumbersOfPg
  <2> QED
    BY <2>1
<1> QED
  BY <1>5, <1>6, <1>7 DEF u

LEMMA AlikeWritten ==
  ASSUME NEW s, NEW t, Pair(s, t), NEW c \in Plain, NEW id, NEW row
  PROVE  Alike(Put(s, c, id, row), Put(t, c, id, row))
<1>1. /\ DOMAIN s = Columns /\ DOMAIN t = Columns /\ Alike(s, t)
      /\ c \in Columns /\ Plain \subseteq Columns
      /\ {"attempts", "outbox", "events"} \subseteq Columns \ {c}
  BY DEF Pair, PgSound, MemSound, Typed, Plain, Columns, Table
<1> DEFINE u == Put(s, c, id, row)
           v == Put(t, c, id, row)
<1>2. /\ \A d \in Columns \ {c} : u[d] = s[d] /\ v[d] = t[d]
      /\ u[c] = WithRow(s[c], id, row) /\ v[c] = WithRow(t[c], id, row)
  BY <1>1, TableWritten
<1> HIDE DEF u, v
<1>3. \A d \in Plain : u[d] = v[d]
  BY <1>1, <1>2 DEF Alike
<1>4. Alike(u, v)
  BY <1>1, <1>2, <1>3, AlikeElsewhere
<1> QED
  BY <1>4 DEF u, v

LEMMA BothWrite ==
  ASSUME NEW name, NEW s, NEW t, Pair(s, t), NEW c \in Open, NEW id, NEW row,
         KeepsProject(t, c, id, row), NEW value
  PROVE  Compared(name, s, t, Ok(Put(s, c, id, row), value), Ok(Put(t, c, id, row), value))
<1>1. MemSound(s) /\ PgSound(t) /\ c \in Plain
  BY DEF Pair, Open, Free, Plain, Columns, Table
<1> QED
  BY <1>1, MemWritten, PgWritten, AlikeWritten, BothDo

LEMMA MemWrites ==
  ASSUME NEW name, NEW s, NEW t, Pair(s, t), NEW c \in Open, NEW id, NEW row, NEW value,
         NEW d \in SqlState, <<name, d>> \in OnlyMemory
  PROVE  Compared(name, s, t, Ok(Put(s, c, id, row), value), Refuse(t, d))
<1>1. MemSound(s) /\ PgSound(t) /\ t.nextSequence \in Nat /\ t.nextSequence <= t.nextSequence
  BY NumbersOfPg DEF Pair
<1> QED
  BY <1>1, MemWritten, MemDoes

LEMMA BothRefuseHere ==
  ASSUME NEW name, NEW s, NEW t, Pair(s, t), NEW c \in RepositoryError,
         NEW d \in SqlState \cup {c}
  PROVE  Compared(name, s, t, Refuse(s, c), Refuse(t, d))
<1>1. t.nextSequence \in Nat /\ t.nextSequence <= t.nextSequence
  BY NumbersOfPg DEF Pair
<1> QED
  BY <1>1, BothRefuse

-----------------------------------------------------------------------------
(* The calls about projects, shots and records.                            *)

(* The words of the row assertions mean the same in both modules.          *)
USE DEF M!Has, M!Ok, M!Refuse, M!WithRow, M!Put, M!Others, M!Store,
        P!Has, P!Ok, P!Refuse, P!WithRow, P!Put, P!Others, P!Write,
        P!Unique, P!ForeignKey, P!Check, P!Immutable

LEMMA SameTables ==
  ASSUME NEW s, NEW t, Pair(s, t)
  PROVE  /\ s.tenant = t.tenant /\ s.projects = t.projects /\ s.shots = t.shots
         /\ s.revisions = t.revisions /\ s.drafts = t.drafts /\ s.artifacts = t.artifacts
         /\ s.evaluations = t.evaluations /\ s.agentRuns = t.agentRuns
         /\ s.workflowVersions = t.workflowVersions
         /\ s.recommendations = t.recommendations /\ s.keys = t.keys
BY DEF Pair, Alike, Plain, Columns, Table

(* An INSERT: a row that is taken is refused by both, a missing reference   *)
(* by PostgreSQL alone.                                                    *)
LEMMA InsertCompared ==
  ASSUME NEW name, NEW s, NEW t, Pair(s, t), NEW c \in Open, NEW id, NEW row,
         KeepsProject(t, c, id, row), NEW m, NEW p,
         \/ m = Refuse(s, "UNIQUE_VIOLATION") /\ p = Refuse(t, "23505")
         \/ /\ m = Ok(Put(s, c, id, row), id)
            /\ \/ p = Ok(Put(t, c, id, row), id)
               \/ p = Refuse(t, "23503") /\ <<name, "23503">> \in OnlyMemory
  PROVE  Compared(name, s, t, m, p)
<1>1. Compared(name, s, t, Refuse(s, "UNIQUE_VIOLATION"), Refuse(t, "23505"))
  BY BothRefuseHere DEF RepositoryError, SqlState
<1>2. Compared(name, s, t, Ok(Put(s, c, id, row), id), Ok(Put(t, c, id, row), id))
  BY BothWrite
<1>3. ASSUME <<name, "23503">> \in OnlyMemory
      PROVE  Compared(name, s, t, Ok(Put(s, c, id, row), id), Refuse(t, "23503"))
  BY <1>3, MemWrites DEF SqlState
<1> QED
  BY <1>1, <1>2, <1>3

LEMMA ProjectsCreateCompared ==
  ASSUME NEW s, NEW t, Pair(s, t), NEW id, NEW row
  PROVE  Compared("projects.create", s, t, M!ProjectsCreate(s, id, row),
                                           P!ProjectsCreate(t, id, row))
<1>1. M!ProjectsCreate(s, id, row) =
        IF id \in DOMAIN t.projects THEN Refuse(s, "UNIQUE_VIOLATION")
        ELSE Ok(Put(s, "projects", id, row), id)
  BY SameTables DEF M!ProjectsCreate, Has, Refuse, Ok, Put, WithRow
<1>2. \/ id \in DOMAIN t.projects /\ P!ProjectsCreate(t, id, row) = Refuse(t, "23505")
      \/ id \notin DOMAIN t.projects
         /\ P!ProjectsCreate(t, id, row) \in {Ok(Put(t, "projects", id, row), id),
                                              Refuse(t, "23503")}
  <2> DEFINE fault == P!ProjectFault(t)
  <2>1. fault \in {None, "23503"}
    BY DEF P!ProjectFault
  <2>2. P!ProjectsCreate(t, id, row) =
          IF id \in DOMAIN t.projects THEN Refuse(t, "23505")
          ELSE IF fault = None THEN Ok(Put(t, "projects", id, row), id)
          ELSE Refuse(t, fault)
    BY DEF P!ProjectsCreate, Has, Refuse, Ok, Put, WithRow
  <2> HIDE DEF fault
  <2> QED
    BY <2>1, <2>2
<1> QED
  BY <1>1, <1>2, InsertCompared DEF Open, KeepsProject, OnlyMemory

LEMMA ProjectsUpdateCompared ==
  ASSUME NEW s, NEW t, Pair(s, t), NEW id, NEW row, NEW expected
  PROVE  Compared("projects.update", s, t, M!ProjectsUpdate(s, id, row, expected),
                                           P!ProjectsUpdate(t, id, row, expected))
<1> DEFINE found == Has(t, "projects", id) /\ t.projects[id].version = expected
<1>1. M!ProjectsUpdate(s, id, row, expected) =
        IF found THEN Ok(Put(s, "projects", id, row), id) ELSE Refuse(s, "OPTIMISTIC_CONFLICT")
  BY SameTables DEF M!ProjectsUpdate, Has, Refuse, Ok, Put, WithRow
<1>2. P!ProjectsUpdate(t, id, row, expected) =
        IF found THEN Ok(Put(t, "projects", id, row), id) ELSE Refuse(t, "OPTIMISTIC_CONFLICT")
  BY DEF P!ProjectsUpdate, Has, Refuse, Ok, Put, WithRow
<1>3. Compared("projects.update", s, t, Refuse(s, "OPTIMISTIC_CONFLICT"),
                                        Refuse(t, "OPTIMISTIC_CONFLICT"))
  BY BothRefuseHere DEF RepositoryError
<1>4. Compared("projects.update", s, t, Ok(Put(s, "projects", id, row), id),
                                        Ok(Put(t, "projects", id, row), id))
  BY BothWrite DEF Open, KeepsProject
<1> QED
  BY <1>1, <1>2, <1>3, <1>4

LEMMA TenantsEnsureCompared ==
  ASSUME NEW s, NEW t, Pair(s, t)
  PROVE  Compared("tenants.ensure", s, t, M!TenantsEnsure(s), P!TenantsEnsure(t))
<1> DEFINE u == [s EXCEPT !.tenant = TRUE]
           v == [t EXCEPT !.tenant = TRUE]
<1>1. M!TenantsEnsure(s) = Ok(u, None) /\ P!TenantsEnsure(t) = Ok(v, None)
  BY DEF M!TenantsEnsure, P!TenantsEnsure, Ok
<1>2. /\ MemSound(s) /\ PgSound(t) /\ Alike(s, t)
      /\ DOMAIN s = Columns /\ DOMAIN t = Columns
  BY DEF Pair, PgSound, MemSound, Typed
<1>3. /\ DOMAIN u = Columns /\ DOMAIN v = Columns
      /\ \A c \in Columns \ {"tenant"} : u[c] = s[c] /\ v[c] = t[c]
      /\ u["tenant"] = TRUE /\ v["tenant"] = TRUE
  BY <1>2 DEF Columns
<1> HIDE DEF u, v
<1>4. /\ Watched \subseteq Columns \ {"tenant"} /\ {"projects", "shots"} \subseteq Columns \ {"tenant"}
      /\ Plain \subseteq Columns /\ {"attempts", "outbox", "events"} \subseteq Watched
  BY DEF Watched, Columns, Table, Plain
<1>5. MemSound(u) /\ Later(s, u)
  BY <1>2, <1>3, <1>4, MemSoundElsewhere
<1>6. Grows(t, v)
  BY <1>3, <1>4 DEF Grows
<1>7. PgSound(v) /\ Later(t, v)
  BY <1>2, <1>3, <1>4, <1>6, PgSoundElsewhere
<1>8. Alike(u, v)
  <2>1. \A c \in Plain : u[c] = v[c]
    BY <1>2, <1>3, <1>4 DEF Alike
  <2> QED
    BY <1>2, <1>3, <1>4, <2>1, AlikeElsewhere
<1>9. t.nextSequence <= v.nextSequence
  <2>1. v.nextSequence = t.nextSequence /\ t.nextSequence \in Nat
    BY <1>2, <1>3, <1>4, NumbersOfPg DEF Watched
  <2> QED
    BY <2>1
<1> QED
  BY <1>1, <1>5, <1>6, <1>7, <1>8, <1>9, BothDo

LEMMA ShotsUpdateCompared ==
  ASSUME NEW s, NEW t, Pair(s, t), NEW id, NEW row, NEW expected,
         Has(t, "shots", id) => row.project = t.shots[id].project
  PROVE  Compared("shots.update", s, t, M!ShotsUpdate(s, id, row, expected),
                                        P!ShotsUpdate(t, id, row, expected))
<1> DEFINE found == Has(t, "shots", id) /\ t.shots[id].version = expected
           fault == P!ShotFault(t, id, row)
<1>1. M!ShotsUpdate(s, id, row, expected) =
        IF found THEN Ok(Put(s, "shots", id, row), id) ELSE Refuse(s, "OPTIMISTIC_CONFLICT")
  BY SameTables DEF M!ShotsUpdate, Has, Refuse, Ok, Put, WithRow
<1>2. P!ShotsUpdate(t, id, row, expected) =
        IF ~ found THEN Refuse(t, "OPTIMISTIC_CONFLICT")
        ELSE IF fault = None THEN Ok(Put(t, "shots", id, row), id)
        ELSE Refuse(t, fault)
  BY DEF P!ShotsUpdate, Has, Refuse, Ok, Put, WithRow
<1>3. fault \in {None, "23505", "23503", "23514"}
  BY DEF P!ShotFault
<1>4. Compared("shots.update", s, t, Refuse(s, "OPTIMISTIC_CONFLICT"),
                                     Refuse(t, "OPTIMISTIC_CONFLICT"))
  BY BothRefuseHere DEF RepositoryError
<1>5. Compared("shots.update", s, t, Ok(Put(s, "shots", id, row), id),
                                     Ok(Put(t, "shots", id, row), id))
  BY BothWrite DEF Open, KeepsProject, Has
<1>6. ASSUME NEW d \in {"23505", "23503", "23514"}
      PROVE  Compared("shots.update", s, t, Ok(Put(s, "shots", id, row), id), Refuse(t, d))
  BY MemWrites DEF Open, SqlState, OnlyMemory
<1> HIDE DEF fault
<1> QED
  BY <1>1, <1>2, <1>3, <1>4, <1>5, <1>6
-----------------------------------------------------------------------------
(* Artifacts, evaluations, agent runs, workflow versions.                  *)

LEMMA ArtifactsCreateCompared ==
  ASSUME NEW s, NEW t, Pair(s, t), NEW id, NEW row
  PROVE  Compared("artifacts.create", s, t, M!ArtifactsCreate(s, id, row),
                                            P!ArtifactsCreate(t, id, row))
<1> DEFINE taken == \/ id \in DOMAIN t.artifacts
                    \/ \E other \in Others(t, "artifacts", id) :
                         other.object = row.object \/ other.attempt = row.attempt
           fault == IF P!References(t, "attempts", {row.attempt}) THEN None ELSE "23503"
<1>1. Others(s, "artifacts", id) = Others(t, "artifacts", id)
  BY SameTables DEF Others
<1>2. M!ArtifactsCreate(s, id, row) =
        IF taken THEN Refuse(s, "UNIQUE_VIOLATION") ELSE Ok(Put(s, "artifacts", id, row), id)
  BY <1>1, SameTables DEF M!ArtifactsCreate, Has, Refuse, Ok, Put, WithRow, Others
<1>3. P!ArtifactsCreate(t, id, row) =
        IF taken THEN Refuse(t, "23505")
        ELSE IF fault = None THEN Ok(Put(t, "artifacts", id, row), id) ELSE Refuse(t, fault)
  BY DEF P!ArtifactsCreate, Has, Refuse, Ok, Put, WithRow, Others
<1>4. fault \in {None, "23503"}
  OBVIOUS
<1> HIDE DEF taken, fault
<1> QED
  BY <1>2, <1>3, <1>4, InsertCompared DEF Open, Free, KeepsProject, OnlyMemory

LEMMA EvaluationsCreateCompared ==
  ASSUME NEW s, NEW t, Pair(s, t), NEW id, NEW row
  PROVE  Compared("evaluations.create", s, t, M!EvaluationsCreate(s, id, row),
                                              P!EvaluationsCreate(t, id, row))
<1> DEFINE taken == \/ id \in DOMAIN t.evaluations
                    \/ \E other \in Others(t, "evaluations", id) : other.attempt = row.attempt
           fault == IF P!References(t, "attempts", {row.attempt}) THEN None ELSE "23503"
<1>1. Others(s, "evaluations", id) = Others(t, "evaluations", id)
  BY SameTables DEF Others
<1>2. M!EvaluationsCreate(s, id, row) =
        IF taken THEN Refuse(s, "UNIQUE_VIOLATION") ELSE Ok(Put(s, "evaluations", id, row), id)
  BY <1>1, SameTables DEF M!EvaluationsCreate, Has, Refuse, Ok, Put, WithRow, Others
<1>3. P!EvaluationsCreate(t, id, row) =
        IF taken THEN Refuse(t, "23505")
        ELSE IF fault = None THEN Ok(Put(t, "evaluations", id, row), id) ELSE Refuse(t, fault)
  BY DEF P!EvaluationsCreate, P!UniqueAmong, Has, Refuse, Ok, Put, WithRow, Others
<1>4. fault \in {None, "23503"}
  OBVIOUS
<1> HIDE DEF taken, fault
<1> QED
  BY <1>2, <1>3, <1>4, InsertCompared DEF Open, Free, KeepsProject, OnlyMemory

LEMMA AgentRunsCreateCompared ==
  ASSUME NEW s, NEW t, Pair(s, t), NEW id, NEW row
  PROVE  Compared("agentRuns.create", s, t, M!AgentRunsCreate(s, id, row),
                                            P!AgentRunsCreate(t, id, row))
<1> DEFINE taken == \/ id \in DOMAIN t.agentRuns
                    \/ \E other \in Others(t, "agentRuns", id) : other.runId = row.runId
           fault == IF P!References(t, "projects", {row.project}) THEN None ELSE "23503"
<1>1. Others(s, "agentRuns", id) = Others(t, "agentRuns", id)
  BY SameTables DEF Others
<1>2. M!AgentRunsCreate(s, id, row) =
        IF taken THEN Refuse(s, "UNIQUE_VIOLATION") ELSE Ok(Put(s, "agentRuns", id, row), id)
  BY <1>1, SameTables DEF M!AgentRunsCreate, Has, Refuse, Ok, Put, WithRow, Others
<1>3. P!AgentRunsCreate(t, id, row) =
        IF taken THEN Refuse(t, "23505")
        ELSE IF fault = None THEN Ok(Put(t, "agentRuns", id, row), id) ELSE Refuse(t, fault)
  BY DEF P!AgentRunsCreate, P!UniqueAmong, Has, Refuse, Ok, Put, WithRow, Others
<1>4. fault \in {None, "23503"}
  OBVIOUS
<1> HIDE DEF taken, fault
<1> QED
  BY <1>2, <1>3, <1>4, InsertCompared DEF Open, Free, KeepsProject, OnlyMemory

(* A run that is gone is NOT_FOUND in memory, a conflict in PostgreSQL.     *)
LEMMA AgentRunsUpdateCompared ==
  ASSUME NEW s, NEW t, Pair(s, t), NEW id, NEW row, NEW expected
  PROVE  Compared("agentRuns.update", s, t, M!AgentRunsUpdate(s, id, row, expected),
                                            P!AgentRunsUpdate(t, id, row, expected))
<1> DEFINE has == id \in DOMAIN t.agentRuns
           current == t.agentRuns[id].version = expected
<1>1. M!AgentRunsUpdate(s, id, row, expected) =
        IF ~ has THEN Refuse(s, "NOT_FOUND")
        ELSE IF ~ current THEN Refuse(s, "OPTIMISTIC_CONFLICT")
        ELSE Ok(Put(s, "agentRuns", id, row), id)
  BY SameTables DEF M!AgentRunsUpdate, Has, Refuse, Ok, Put, WithRow
<1>2. P!AgentRunsUpdate(t, id, row, expected) =
        IF has /\ current THEN Ok(Put(t, "agentRuns", id, row), id)
        ELSE Refuse(t, "OPTIMISTIC_CONFLICT")
  BY DEF P!AgentRunsUpdate, Has, Refuse, Ok, Put, WithRow
<1>3. Compared("agentRuns.update", s, t, Refuse(s, "OPTIMISTIC_CONFLICT"),
                                         Refuse(t, "OPTIMISTIC_CONFLICT"))
  BY BothRefuseHere DEF RepositoryError
<1>4. Compared("agentRuns.update", s, t, Refuse(s, "NOT_FOUND"), Refuse(t, "OPTIMISTIC_CONFLICT"))
  BY BothRefuseOtherwise DEF Pair
<1>5. Compared("agentRuns.update", s, t, Ok(Put(s, "agentRuns", id, row), id),
                                         Ok(Put(t, "agentRuns", id, row), id))
  BY BothWrite DEF Open, Free, KeepsProject
<1> QED
  BY <1>1, <1>2, <1>3, <1>4, <1>5

LEMMA AgentRunsCostCompared ==
  ASSUME NEW s, NEW t, Pair(s, t), NEW project
  PROVE  Compared("agentRuns.sumProviderCost", s, t, M!AgentRunsCost(s, project),
                                                     P!AgentRunsCost(t, project))
<1>1. M!AgentRunsCost(s, project) = Ok(s, M!CostOf(s.agentRuns, project))
  BY DEF M!AgentRunsCost, Ok
<1>2. P!AgentRunsCost(t, project) = Ok(t, P!CostOf(t.agentRuns, project))
  BY DEF P!AgentRunsCost, Ok
<1>3. M!CostOf(t.agentRuns, project) = P!CostOf(t.agentRuns, project)
  BY DEF M!CostOf, P!CostOf, M!FoldSet, P!FoldSet, M!MapThenFoldSet, P!MapThenFoldSet
<1> QED
  BY <1>1, <1>2, <1>3, SameTables, BothRead

LEMMA WorkflowVersionsCreateCompared ==
  ASSUME NEW s, NEW t, Pair(s, t), NEW id, NEW row
  PROVE  Compared("workflowVersions.create", s, t, M!WorkflowVersionsCreate(s, id, row),
                                                   P!WorkflowVersionsCreate(t, id, row))
<1> DEFINE taken == \/ id \in DOMAIN t.workflowVersions
                    \/ \E other \in Others(t, "workflowVersions", id) : other.hash = row.hash
<1>1. Others(s, "workflowVersions", id) = Others(t, "workflowVersions", id)
  BY SameTables DEF Others
<1>2. M!WorkflowVersionsCreate(s, id, row) =
        IF taken THEN Refuse(s, "UNIQUE_VIOLATION")
        ELSE Ok(Put(s, "workflowVersions", id, row), id)
  BY <1>1, SameTables DEF M!WorkflowVersionsCreate, Has, Refuse, Ok, Put, WithRow, Others
<1>3. P!WorkflowVersionsCreate(t, id, row) =
        IF taken THEN Refuse(t, "23505") ELSE Ok(Put(t, "workflowVersions", id, row), id)
  BY DEF P!WorkflowVersionsCreate, P!UniqueAmong, Has, Refuse, Ok, Put, WithRow, Others
<1> HIDE DEF taken
<1> QED
  BY <1>2, <1>3, InsertCompared DEF Open, Free, KeepsProject
-----------------------------------------------------------------------------
(* Recommendations.                                                        *)

LEMMA AdviceScopeIsOne ==
  ASSUME NEW s, NEW t, Pair(s, t), NEW row
  PROVE  M!AdviceInScope(s, row) <=>
           /\ Has(t, "projects", row.project)
           /\ row.shot # None => P!ShotInProject(t, row.project, row.shot)
           /\ P!RecommendationInScope(t, row)
<1>1. /\ DOMAIN s.attempts = DOMAIN t.attempts /\ DOMAIN s.events = DOMAIN t.events
      /\ \A a \in DOMAIN t.attempts : s.attempts[a].project = t.attempts[a].project
                                      /\ s.attempts[a].shot = t.attempts[a].shot
      /\ \A e \in DOMAIN t.events :
           /\ s.events[e].project = t.events[e].project
           /\ s.events[e].shot = t.events[e].shot /\ s.events[e].attempt = t.events[e].attempt
  BY DEF Pair, Alike, AlikeAttempts, AlikeEvents, AttemptColumns, EventColumns
<1> QED
  BY <1>1, SameTables DEF M!AdviceInScope, M!ShotInScope, P!ShotInProject,
                          P!RecommendationInScope, Has

LEMMA RecommendationsCreateCompared ==
  ASSUME NEW s, NEW t, Pair(s, t), NEW id, NEW row
  PROVE  Compared("recommendations.create", s, t, M!RecommendationsCreate(s, id, row),
                                                  P!RecommendationsCreate(t, id, row))
<1> DEFINE bounded == RecommendationIsBounded(row)
           inScope == M!AdviceInScope(s, row)
           known == /\ Has(t, "projects", row.project)
                    /\ row.shot # None => P!ShotInProject(t, row.project, row.shot)
           fits == P!RecommendationInScope(t, row)
           taken == \/ id \in DOMAIN t.recommendations
                    \/ \E other \in Others(t, "recommendations", id) :
                         other.event = row.event /\ other.code = row.code
<1>1. Others(s, "recommendations", id) = Others(t, "recommendations", id)
  BY SameTables DEF Others
<1>2. M!RecommendationsCreate(s, id, row) =
        IF ~ bounded THEN Refuse(s, "INVALID_ARGUMENT")
        ELSE IF ~ inScope THEN Refuse(s, "SCOPE_VIOLATION")
        ELSE IF taken THEN Refuse(s, "UNIQUE_VIOLATION")
        ELSE Ok(Put(s, "recommendations", id, row), id)
  BY <1>1, SameTables DEF M!RecommendationsCreate, M!RecommendationIsBounded,
                          RecommendationIsBounded, Has, Refuse, Ok, Put, WithRow, Others
<1>3. P!RecommendationsCreate(t, id, row) =
        IF ~ bounded THEN Refuse(t, "INVALID_ARGUMENT")
        ELSE IF ~ known THEN Refuse(t, "SCOPE_VIOLATION")
        ELSE IF ~ fits THEN Refuse(t, "23514")
        ELSE IF taken THEN Refuse(t, "23505")
        ELSE Ok(Put(t, "recommendations", id, row), id)
  BY DEF P!RecommendationsCreate, P!RecommendationIsBounded, RecommendationIsBounded,
         P!SameAdvice, Has, Refuse, Ok, Put, WithRow, Others
<1>4. inScope <=> known /\ fits
  BY AdviceScopeIsOne
<1>5. Compared("recommendations.create", s, t, Refuse(s, "INVALID_ARGUMENT"),
                                               Refuse(t, "INVALID_ARGUMENT"))
  BY BothRefuseHere DEF RepositoryError
<1>6. /\ Compared("recommendations.create", s, t, Refuse(s, "SCOPE_VIOLATION"),
                                                  Refuse(t, "SCOPE_VIOLATION"))
      /\ Compared("recommendations.create", s, t, Refuse(s, "SCOPE_VIOLATION"),
                                                  Refuse(t, "23514"))
  BY BothRefuseHere DEF RepositoryError, SqlState
<1>7. Compared("recommendations.create", s, t, Refuse(s, "UNIQUE_VIOLATION"), Refuse(t, "23505"))
  BY BothRefuseHere DEF RepositoryError, SqlState
<1>8. Compared("recommendations.create", s, t, Ok(Put(s, "recommendations", id, row), id),
                                               Ok(Put(t, "recommendations", id, row), id))
  BY BothWrite DEF Open, Free, KeepsProject
<1> HIDE DEF bounded, inScope, known, fits, taken
<1> QED
  BY <1>2, <1>3, <1>4, <1>5, <1>6, <1>7, <1>8

LEMMA RecommendationsUpdateStatusCompared ==
  ASSUME NEW s, NEW t, Pair(s, t), NEW project, NEW id, NEW status, NEW expected
  PROVE  Compared("recommendations.updateStatus", s, t,
                  M!RecommendationsUpdateStatus(s, project, id, status, expected),
                  P!RecommendationsUpdateStatus(t, project, id, status, expected))
<1> DEFINE found == /\ Has(t, "recommendations", id) /\ t.recommendations[id].project = project
                    /\ t.recommendations[id].version = expected
                    /\ t.recommendations[id].status = "pending"
           row == [t.recommendations[id] EXCEPT !.status = status, !.version = @ + 1]
<1>1. M!RecommendationsUpdateStatus(s, project, id, status, expected) =
        IF found THEN Ok(Put(s, "recommendations", id, row), id)
        ELSE Refuse(s, "OPTIMISTIC_CONFLICT")
  <2> DEFINE foundIn(rows) == /\ id \in DOMAIN rows /\ rows[id].project = project
                             /\ rows[id].version = expected /\ rows[id].status = "pending"
             written(rows) == [rows[id] EXCEPT !.status = status, !.version = @ + 1]
  <2>1. M!RecommendationsUpdateStatus(s, project, id, status, expected) =
          IF foundIn(s.recommendations)
          THEN Ok(Put(s, "recommendations", id, written(s.recommendations)), id)
          ELSE Refuse(s, "OPTIMISTIC_CONFLICT")
    BY DEF M!RecommendationsUpdateStatus, Has, Refuse, Ok, Put, WithRow
  <2>2. s.recommendations = t.recommendations
    BY SameTables
  <2>3. foundIn(t.recommendations) <=> found
    BY DEF Has
  <2> QED
    BY <2>1, <2>2, <2>3
<1>2. P!RecommendationsUpdateStatus(t, project, id, status, expected) =
        IF found THEN Ok(Put(t, "recommendations", id, row), id)
        ELSE Refuse(t, "OPTIMISTIC_CONFLICT")
  BY DEF P!RecommendationsUpdateStatus, Has, Refuse, Ok, Put, WithRow
<1> HIDE DEF found, row
<1>3. Compared("recommendations.updateStatus", s, t, Refuse(s, "OPTIMISTIC_CONFLICT"),
                                                     Refuse(t, "OPTIMISTIC_CONFLICT"))
  BY BothRefuseHere DEF RepositoryError
<1>4. Compared("recommendations.updateStatus", s, t, Ok(Put(s, "recommendations", id, row), id),
                                                     Ok(Put(t, "recommendations", id, row), id))
  BY BothWrite DEF Open, Free, KeepsProject
<1> QED
  BY <1>1, <1>2, <1>3, <1>4

-----------------------------------------------------------------------------
(* The outbox.                                                             *)

(* A store that changes in some tables only.                               *)
Only(s, u, changed) == DOMAIN u = Columns /\ \A c \in Columns \ changed : u[c] = s[c]

LEMMA OutboxKept ==
  ASSUME NEW s, NEW u, MemSound(s), Only(s, u, {"outbox"}), OutboxTyped(u.outbox)
  PROVE  /\ MemSound(u) /\ Later(s, u)
         /\ PgSound(s) => PgSound(u) /\ Grows(s, u) /\ s.nextSequence <= u.nextSequence
<1>1. /\ u.attempts = s.attempts /\ u.events = s.events /\ u.nextSequence = s.nextSequence
      /\ u.drafts = s.drafts /\ u.revisions = s.revisions /\ u.keys = s.keys
      /\ u.projects = s.projects /\ u.shots = s.shots
  BY DEF Only, Columns, Table
<1>2. Typed(u)
  BY <1>1 DEF MemSound, Typed, Only
<1>3. KeysNameRows(u)
  BY <1>1 DEF MemSound, KeysNameRows, KeyNamesRow
<1>4. Later(s, u) /\ Grows(s, u)
  BY <1>1 DEF Later, Grows
<1>5. ASSUME PgSound(s) PROVE PgSound(u)
  <2>1. Indexed(u.attempts) /\ OneDraftEach(u.drafts)
    BY <1>1, <1>5 DEF PgSound
  <2>2. Referenced(u)
    BY <1>1, <1>5 DEF PgSound, Referenced
  <2>3. KeysAreScoped(u)
    BY <1>1, <1>4, <1>5, ScopesStay DEF PgSound
  <2> QED
    BY <1>2, <1>3, <2>1, <2>2, <2>3 DEF PgSound, MemSound
<1>6. s.nextSequence <= u.nextSequence
  BY <1>1 DEF MemSound, Typed, EventsNumbered
<1> QED
  BY <1>2, <1>3, <1>4, <1>5, <1>6 DEF MemSound

LEMMA OutboxCompared ==
  ASSUME NEW name, NEW s, NEW t, Pair(s, t), NEW u, NEW v, NEW value,
         Only(s, u, {"outbox"}), Only(t, v, {"outbox"}), OutboxTyped(u.outbox), OutboxTyped(v.outbox),
         AlikeOutbox(u.outbox, v.outbox)
  PROVE  Compared(name, s, t, Ok(u, value), Ok(v, value))
<1>1. MemSound(s) /\ MemSound(t) /\ PgSound(t) /\ Alike(s, t)
  BY DEF Pair, PgSound
<1>2. MemSound(u) /\ Later(s, u) /\ PgSound(v) /\ Later(t, v) /\ Grows(t, v)
      /\ t.nextSequence <= v.nextSequence
  BY <1>1, OutboxKept
<1>3. Alike(u, v)
  BY <1>1 DEF Alike, Only, Plain, Columns, Table
<1> QED
  BY <1>2, <1>3, BothDo

LEMMA OutboxOf ==
  ASSUME NEW s, NEW t, Pair(s, t)
  PROVE  /\ DOMAIN s = Columns /\ DOMAIN t = Columns /\ "outbox" \in Columns
         /\ OutboxTyped(s.outbox) /\ OutboxTyped(t.outbox) /\ AlikeOutbox(s.outbox, t.outbox)
BY DEF Pair, PgSound, MemSound, Typed, Alike, Columns, Table

LEMMA OutboxEnqueueCompared ==
  ASSUME NEW s, NEW t, Pair(s, t), NEW id \in Nat, NEW at \in Nat
  PROVE  Compared("outbox.enqueue", s, t, M!OutboxEnqueue(s, id, at), P!OutboxEnqueue(t, id, at))
<1> DEFINE row == [available |-> at, tries |-> 0, delivered |-> FALSE, failed |-> FALSE]
           u == Put(s, "outbox", id, row)
           v == Put(t, "outbox", id, row)
           taken == id \in DOMAIN t.outbox
           fault == IF Has(t, "events", id) THEN None ELSE "23503"
<1>1. M!OutboxEnqueue(s, id, at) = IF taken THEN Refuse(s, "UNIQUE_VIOLATION") ELSE Ok(u, id)
  BY OutboxOf DEF M!OutboxEnqueue, AlikeOutbox, Has, Refuse, Ok, Put, WithRow
<1>2. P!OutboxEnqueue(t, id, at) =
        IF taken THEN Refuse(t, "23505") ELSE IF fault = None THEN Ok(v, id) ELSE Refuse(t, fault)
  BY DEF P!OutboxEnqueue, Has, Refuse, Ok, Put, WithRow
<1>3. fault \in {None, "23503"}
  OBVIOUS
<1>4. /\ Only(s, u, {"outbox"}) /\ u.outbox = WithRow(s.outbox, id, row)
      /\ Only(t, v, {"outbox"}) /\ v.outbox = WithRow(t.outbox, id, row)
  BY OutboxOf, TableWritten DEF Only
<1>5. DOMAIN row = OutboxColumns /\ row.available \in Nat
  BY DEF OutboxColumns
<1> HIDE DEF u, v, row, fault
<1>6. OutboxTyped(u.outbox) /\ OutboxTyped(v.outbox) /\ AlikeOutbox(u.outbox, v.outbox)
  BY <1>4, <1>5, OutboxOf DEF OutboxTyped, AlikeOutbox, WithRow
<1>7. Compared("outbox.enqueue", s, t, Ok(u, id), Ok(v, id))
  BY <1>4, <1>6, OutboxCompared
<1>8. Compared("outbox.enqueue", s, t, Ok(u, id), Refuse(t, "23503"))
  <2>1. MemSound(u) /\ Later(s, u)
    BY <1>4, <1>6, OutboxKept DEF Pair
  <2>2. t.nextSequence \in Nat /\ t.nextSequence <= t.nextSequence
    BY NumbersOfPg DEF Pair
  <2> QED
    BY <2>1, <2>2, MemDoes DEF SqlState, OnlyMemory
<1>9. Compared("outbox.enqueue", s, t, Refuse(s, "UNIQUE_VIOLATION"), Refuse(t, "23505"))
  BY BothRefuseHere DEF RepositoryError, SqlState
<1> QED
  BY <1>1, <1>2, <1>3, <1>7, <1>8, <1>9

LEMMA PendingIsOne ==
  ASSUME NEW s, NEW t, Pair(s, t), NEW id
  PROVE  (id \in DOMAIN s.outbox /\ ~ s.outbox[id].delivered)
           <=> (id \in DOMAIN t.outbox /\ ~ t.outbox[id].delivered)
<1>1. DOMAIN s.outbox = DOMAIN t.outbox
  BY OutboxOf DEF AlikeOutbox
<1>2. ASSUME id \in DOMAIN t.outbox PROVE s.outbox[id].delivered = t.outbox[id].delivered
  <2>1. "delivered" \in OutboxColumns \ {"available"}
    BY DEF OutboxColumns
  <2> QED
    BY <1>1, <1>2, <2>1, OutboxOf DEF AlikeOutbox
<1> QED
  BY <1>1, <1>2

LEMMA OutboxMarkDeliveredCompared ==
  ASSUME NEW s, NEW t, Pair(s, t), NEW id
  PROVE  Compared("outbox.markDelivered", s, t, M!OutboxMarkDelivered(s, id),
                                                P!OutboxMarkDelivered(t, id))
<1> DEFINE pending == id \in DOMAIN t.outbox /\ ~ t.outbox[id].delivered
           u == [s EXCEPT !.outbox[id].delivered = TRUE]
           v == [t EXCEPT !.outbox[id].delivered = TRUE]
<1>1. M!OutboxMarkDelivered(s, id) = Ok(IF pending THEN u ELSE s, None)
  BY PendingIsOne DEF M!OutboxMarkDelivered, M!Undelivered, Has, Ok
<1>2. P!OutboxMarkDelivered(t, id) = Ok(IF pending THEN v ELSE t, None)
  BY DEF P!OutboxMarkDelivered, P!Pending, Has, Ok
<1>3. ASSUME pending PROVE Compared("outbox.markDelivered", s, t, Ok(u, None), Ok(v, None))
  <2>1. /\ Only(s, u, {"outbox"}) /\ u.outbox = [s.outbox EXCEPT ![id].delivered = TRUE]
        /\ Only(t, v, {"outbox"}) /\ v.outbox = [t.outbox EXCEPT ![id].delivered = TRUE]
    BY OutboxOf DEF Only
  <2> HIDE DEF u, v
  <2>2. OutboxTyped(u.outbox) /\ OutboxTyped(v.outbox)
    BY <2>1, OutboxOf DEF OutboxTyped, OutboxColumns
  <2>3. AlikeOutbox(u.outbox, v.outbox)
    <3>1. DOMAIN u.outbox = DOMAIN v.outbox
      BY <2>1, OutboxOf DEF AlikeOutbox
    <3>2. ASSUME NEW m \in DOMAIN u.outbox, NEW c \in OutboxColumns \ {"available"}
          PROVE  u.outbox[m][c] = v.outbox[m][c]
      <4>1. s.outbox[m][c] = t.outbox[m][c]
        BY <2>1, <3>2, OutboxOf DEF AlikeOutbox
      <4>2. DOMAIN s.outbox[m] = OutboxColumns /\ DOMAIN t.outbox[m] = OutboxColumns
            /\ m \in DOMAIN s.outbox /\ m \in DOMAIN t.outbox
        BY <2>1, <3>1, <3>2, OutboxOf DEF OutboxTyped
      <4>3. /\ u.outbox[m][c] = IF m = id /\ c = "delivered" THEN TRUE ELSE s.outbox[m][c]
            /\ v.outbox[m][c] = IF m = id /\ c = "delivered" THEN TRUE ELSE t.outbox[m][c]
        <5>1. /\ u.outbox[m] = IF m = id THEN [s.outbox[m] EXCEPT !["delivered"] = TRUE]
                               ELSE s.outbox[m]
              /\ v.outbox[m] = IF m = id THEN [t.outbox[m] EXCEPT !["delivered"] = TRUE]
                               ELSE t.outbox[m]
          BY <2>1, <4>2
        <5> QED
          BY <3>2, <4>2, <5>1
      <4> QED
        BY <4>1, <4>3
    <3> QED
      BY <3>1, <3>2 DEF AlikeOutbox
  <2> QED
    BY <2>1, <2>2, <2>3, OutboxCompared
<1> QED
  BY <1>1, <1>2, <1>3, BothRead

LEMMA OutboxMarkFailedCompared ==
  ASSUME NEW s, NEW t, Pair(s, t), NEW id, NEW at \in Nat
  PROVE  Compared("outbox.markFailed", s, t, M!OutboxMarkFailed(s, id, at),
                                             P!OutboxMarkFailed(t, id, at))
<1> DEFINE pending == id \in DOMAIN t.outbox /\ ~ t.outbox[id].delivered
           u == [s EXCEPT !.outbox[id].failed = TRUE]
           v == [t EXCEPT !.outbox[id] = [@ EXCEPT !.failed = TRUE, !.available = at + 1]]
<1>1. M!OutboxMarkFailed(s, id, at) = Ok(IF pending THEN u ELSE s, None)
  BY PendingIsOne DEF M!OutboxMarkFailed, M!Undelivered, Has, Ok
<1>2. P!OutboxMarkFailed(t, id, at) = Ok(IF pending THEN v ELSE t, None)
  BY DEF P!OutboxMarkFailed, P!Pending, Has, Ok
<1>3. ASSUME pending PROVE Compared("outbox.markFailed", s, t, Ok(u, None), Ok(v, None))
  <2>1. /\ Only(s, u, {"outbox"}) /\ u.outbox = [s.outbox EXCEPT ![id].failed = TRUE]
        /\ Only(t, v, {"outbox"})
        /\ v.outbox = [t.outbox EXCEPT ![id] = [@ EXCEPT !.failed = TRUE, !.available = at + 1]]
    BY OutboxOf DEF Only
  <2> HIDE DEF u, v
  <2>2. OutboxTyped(u.outbox) /\ OutboxTyped(v.outbox)
    BY <2>1, OutboxOf DEF OutboxTyped, OutboxColumns
  <2>3. AlikeOutbox(u.outbox, v.outbox)
    <3>1. DOMAIN u.outbox = DOMAIN v.outbox
      BY <2>1, OutboxOf DEF AlikeOutbox
    <3>2. ASSUME NEW m \in DOMAIN u.outbox, NEW c \in OutboxColumns \ {"available"}
          PROVE  u.outbox[m][c] = v.outbox[m][c]
      <4>1. s.outbox[m][c] = t.outbox[m][c]
        BY <2>1, <3>2, OutboxOf DEF AlikeOutbox
      <4>2. DOMAIN s.outbox[m] = OutboxColumns /\ DOMAIN t.outbox[m] = OutboxColumns
            /\ m \in DOMAIN s.outbox /\ m \in DOMAIN t.outbox
        BY <2>1, <3>1, <3>2, OutboxOf DEF OutboxTyped
      <4>3. /\ u.outbox[m][c] = IF m = id /\ c = "failed" THEN TRUE ELSE s.outbox[m][c]
            /\ v.outbox[m][c] = IF m = id /\ c = "failed" THEN TRUE ELSE t.outbox[m][c]
        <5>1. /\ u.outbox[m] = IF m = id THEN [s.outbox[m] EXCEPT !["failed"] = TRUE]
                               ELSE s.outbox[m]
              /\ v.outbox[m] = IF m = id
                               THEN [[t.outbox[m] EXCEPT !["failed"] = TRUE]
                                       EXCEPT !["available"] = at + 1]
                               ELSE t.outbox[m]
          <6>1. [t.outbox[m] EXCEPT !.failed = TRUE, !.available = at + 1]
                  = [[t.outbox[m] EXCEPT !["failed"] = TRUE] EXCEPT !["available"] = at + 1]
            OBVIOUS
          <6> QED
            BY <2>1, <4>2, <6>1
        <5> QED
          BY <3>2, <4>2, <5>1
      <4> QED
        BY <4>1, <4>3
    <3> QED
      BY <3>1, <3>2 DEF AlikeOutbox
  <2> QED
    BY <2>1, <2>2, <2>3, OutboxCompared
<1> QED
  BY <1>1, <1>2, <1>3, BothRead

(* A message claimed once more, and what either store may answer.          *)
Again(s, id) == Put(s, "outbox", id, [s.outbox[id] EXCEPT !.tries = @ + 1])

LEMMA AgainIsOutbox ==
  ASSUME NEW s, DOMAIN s = Columns, OutboxTyped(s.outbox), NEW id \in DOMAIN s.outbox
  PROVE  /\ Only(s, Again(s, id), {"outbox"}) /\ OutboxTyped(Again(s, id).outbox)
         /\ Again(s, id).outbox =
              WithRow(s.outbox, id, [s.outbox[id] EXCEPT !.tries = @ + 1])
<1> DEFINE row == [s.outbox[id] EXCEPT !.tries = @ + 1]
           u == Put(s, "outbox", id, row)
<1>1. "outbox" \in Columns
  BY DEF Columns, Table
<1>2. Only(s, u, {"outbox"}) /\ u.outbox = WithRow(s.outbox, id, row)
  BY <1>1, TableWritten DEF Only
<1>3. DOMAIN row = OutboxColumns /\ row.available \in Nat
  BY DEF OutboxTyped, OutboxColumns
<1> HIDE DEF row, u
<1>4. OutboxTyped(u.outbox)
  BY <1>2, <1>3 DEF OutboxTyped, WithRow
<1> QED
  BY <1>2, <1>4 DEF u, row, Again

LEMMA AgainCompared ==
  ASSUME NEW s, NEW t, Pair(s, t), NEW id \in DOMAIN t.outbox
  PROVE  Compared("outbox.claimNext", s, t, Ok(Again(s, id), id), Ok(Again(t, id), id))
<1> DEFINE u == Again(s, id)
           v == Again(t, id)
<1>1. id \in DOMAIN s.outbox
  BY OutboxOf DEF AlikeOutbox
<1>2. /\ Only(s, u, {"outbox"}) /\ OutboxTyped(u.outbox)
      /\ u.outbox = WithRow(s.outbox, id, [s.outbox[id] EXCEPT !.tries = @ + 1])
      /\ Only(t, v, {"outbox"}) /\ OutboxTyped(v.outbox)
      /\ v.outbox = WithRow(t.outbox, id, [t.outbox[id] EXCEPT !.tries = @ + 1])
  BY <1>1, OutboxOf, AgainIsOutbox
<1> HIDE DEF u, v
<1>3. AlikeOutbox(u.outbox, v.outbox)
  <2>1. DOMAIN u.outbox = DOMAIN s.outbox /\ DOMAIN v.outbox = DOMAIN s.outbox
    BY <1>1, <1>2, OutboxOf DEF AlikeOutbox, WithRow
  <2>2. ASSUME NEW m \in DOMAIN u.outbox, NEW c \in OutboxColumns \ {"available"}
        PROVE  u.outbox[m][c] = v.outbox[m][c]
    <3>1. s.outbox[m][c] = t.outbox[m][c] /\ s.outbox[m].tries = t.outbox[m].tries
      BY <2>1, <2>2, OutboxOf DEF AlikeOutbox, OutboxColumns
    <3>2. DOMAIN s.outbox[m] = OutboxColumns /\ DOMAIN t.outbox[m] = OutboxColumns
          /\ m \in DOMAIN s.outbox /\ m \in DOMAIN t.outbox
      BY <1>2, <2>1, <2>2, OutboxOf DEF OutboxTyped, AlikeOutbox
    <3>3. /\ u.outbox[m] = IF m = id THEN [s.outbox[id] EXCEPT !.tries = @ + 1] ELSE s.outbox[m]
          /\ v.outbox[m] = IF m = id THEN [t.outbox[id] EXCEPT !.tries = @ + 1] ELSE t.outbox[m]
      BY <1>2, <3>2 DEF WithRow
    <3> QED
      BY <2>2, <3>1, <3>2, <3>3
  <2> QED
    BY <2>1, <2>2 DEF AlikeOutbox
<1>4. Compared("outbox.claimNext", s, t, Ok(u, id), Ok(v, id))
  BY <1>2, <1>3, OutboxCompared
<1> QED
  BY <1>4 DEF u, v

(* What a claim answers in a store, as a number or None.                    *)
LEMMA MemClaimsMessage ==
  ASSUME NEW s, OutboxTyped(s.outbox), NEW at
  PROVE  \/ M!OutboxClaimNext(s, at) = Ok(s, None)
         \/ \E id \in DOMAIN s.outbox : M!OutboxClaimNext(s, at) = Ok(Again(s, id), id)
<1> DEFINE due == {m \in DOMAIN s.outbox : ~ s.outbox[m].delivered /\ s.outbox[m].available <= at}
           times == [m \in due |-> s.outbox[m].available]
           id == First(times)
<1>1. M!OutboxClaimNext(s, at) = IF due = {} THEN Ok(s, None) ELSE Ok(Again(s, id), id)
  BY DEF M!OutboxClaimNext, M!First, First, Again, Ok, Put, WithRow
<1>2. due # {} => id \in due
  <2>1. DOMAIN times = due /\ due \subseteq Nat /\ \A m \in due : times[m] \in Nat
    BY DEF OutboxTyped
  <2> HIDE DEF times, due
  <2> QED
    BY <2>1, FirstIsOne
<1>3. id \in due => id \in DOMAIN s.outbox
  OBVIOUS
<1> HIDE DEF id, due
<1> QED
  BY <1>1, <1>2, <1>3

LEMMA PgClaimsMessage ==
  ASSUME NEW t, OutboxTyped(t.outbox), NEW at
  PROVE  \/ P!OutboxClaimNext(t, at) = Ok(t, None)
         \/ \E id \in DOMAIN t.outbox : P!OutboxClaimNext(t, at) = Ok(Again(t, id), id)
<1> DEFINE due == P!OutboxDue(t, at)
           times == [m \in due |-> t.outbox[m].available]
           id == First(times)
<1>1. P!OutboxClaimNext(t, at) = IF due = {} THEN Ok(t, None) ELSE Ok(Again(t, id), id)
  BY DEF P!OutboxClaimNext, P!First, First, Again, Ok, Put, WithRow
<1>2. due # {} => id \in due
  <2>1. DOMAIN times = due /\ due \subseteq Nat /\ \A m \in due : times[m] \in Nat
    BY DEF OutboxTyped, P!OutboxDue
  <2> HIDE DEF times, due
  <2> QED
    BY <2>1, FirstIsOne
<1>3. due \subseteq DOMAIN t.outbox
  BY DEF P!OutboxDue
<1> HIDE DEF id, due
<1> QED
  BY <1>1, <1>2, <1>3

(* After a failure in PostgreSQL a message waits, so that the two may pick *)
(* different ones.                                                         *)
LEMMA OutboxClaimNextCompared ==
  ASSUME NEW s, NEW t, Pair(s, t), NEW at
  PROVE  Compared("outbox.claimNext", s, t, M!OutboxClaimNext(s, at), P!OutboxClaimNext(t, at))
<1> DEFINE claimed(u, x) == IF x = None THEN Ok(u, None) ELSE Ok(Again(u, x), x)
<1>1. PICK x \in DOMAIN t.outbox \cup {None} : M!OutboxClaimNext(s, at) = claimed(s, x)
  <2>1. DOMAIN s.outbox = DOMAIN t.outbox /\ None \notin DOMAIN t.outbox
    BY OutboxOf DEF AlikeOutbox, OutboxTyped
  <2> QED
    BY <2>1, OutboxOf, MemClaimsMessage
<1>2. PICK y \in DOMAIN t.outbox \cup {None} : P!OutboxClaimNext(t, at) = claimed(t, y)
  <2>1. None \notin DOMAIN t.outbox
    BY OutboxOf DEF OutboxTyped
  <2> QED
    BY <2>1, OutboxOf, PgClaimsMessage
<1>3. MemSound(s) /\ MemSound(t) /\ PgSound(t) /\ t.nextSequence \in Nat
  BY NumbersOfPg DEF Pair, PgSound
<1>4. /\ x # None => MemSound(Again(s, x)) /\ Later(s, Again(s, x))
      /\ y # None => /\ PgSound(Again(t, y)) /\ Later(t, Again(t, y)) /\ Grows(t, Again(t, y))
                     /\ t.nextSequence <= Again(t, y).nextSequence
  BY <1>3, OutboxOf, AgainIsOutbox, OutboxKept DEF AlikeOutbox
<1>5. CASE x = y
  BY <1>1, <1>2, <1>5, AgainCompared, BothRead
<1>6. CASE x # y
  <2>1. PICK u : claimed(s, x) = Ok(u, x) /\ MemSound(u) /\ Later(s, u)
    BY <1>3, <1>4, LaterAtOnce
  <2>2. PICK v : /\ claimed(t, y) = Ok(v, y) /\ PgSound(v) /\ Later(t, v) /\ Grows(t, v)
                 /\ t.nextSequence <= v.nextSequence
    BY <1>3, <1>4, LaterAtOnce, GrowsAtOnce
  <2> QED
    BY <1>1, <1>2, <1>6, <2>1, <2>2, BothDoOtherwise DEF OtherRow
<1> QED
  BY <1>5, <1>6
-----------------------------------------------------------------------------
(* Events.                                                                 *)

LEMMA EventsKept ==
  ASSUME NEW s, NEW u, MemSound(s), Only(s, u, {"events", "nextSequence"}),
         EventsNumbered(u.events, u.nextSequence), s.nextSequence <= u.nextSequence
  PROVE  /\ MemSound(u) /\ Later(s, u)
         /\ PgSound(s) => PgSound(u) /\ Grows(s, u)
<1>1. /\ u.attempts = s.attempts /\ u.outbox = s.outbox
      /\ u.drafts = s.drafts /\ u.revisions = s.revisions /\ u.keys = s.keys
      /\ u.projects = s.projects /\ u.shots = s.shots
  BY DEF Only, Columns, Table
<1>2. Typed(u)
  BY <1>1 DEF MemSound, Typed, Only
<1>3. KeysNameRows(u)
  BY <1>1 DEF MemSound, KeysNameRows, KeyNamesRow
<1>4. Later(s, u) /\ Grows(s, u)
  BY <1>1 DEF Later, Grows
<1>5. ASSUME PgSound(s) PROVE PgSound(u)
  <2>1. Indexed(u.attempts) /\ OneDraftEach(u.drafts)
    BY <1>1, <1>5 DEF PgSound
  <2>2. Referenced(u)
    BY <1>1, <1>5 DEF PgSound, Referenced
  <2>3. KeysAreScoped(u)
    BY <1>1, <1>4, <1>5, ScopesStay DEF PgSound
  <2> QED
    BY <1>2, <1>3, <2>1, <2>2, <2>3 DEF PgSound, MemSound
<1> QED
  BY <1>2, <1>3, <1>4, <1>5 DEF MemSound

(* An event appended to a table comes after all of it.                     *)
Appended(s, id, row) ==
  [Put(s, "events", id, [row EXCEPT !.sequence = s.nextSequence])
     EXCEPT !.nextSequence = s.nextSequence + 1]

LEMMA AppendedKept ==
  ASSUME NEW s, MemSound(s), NEW id, NEW row, DOMAIN row = EventColumns
  PROVE  /\ MemSound(Appended(s, id, row)) /\ Later(s, Appended(s, id, row))
         /\ PgSound(s) => PgSound(Appended(s, id, row)) /\ Grows(s, Appended(s, id, row))
         /\ s.nextSequence <= Appended(s, id, row).nextSequence
         /\ Only(s, Appended(s, id, row), {"events", "nextSequence"})
         /\ Appended(s, id, row).events =
              WithRow(s.events, id, [row EXCEPT !.sequence = s.nextSequence])
<1> DEFINE numbered == [row EXCEPT !.sequence = s.nextSequence]
           w == Put(s, "events", id, numbered)
           u == [w EXCEPT !.nextSequence = s.nextSequence + 1]
<1>1. /\ DOMAIN s = Columns /\ {"events", "nextSequence"} \subseteq Columns
      /\ EventsNumbered(s.events, s.nextSequence)
  BY DEF MemSound, Typed, Columns, Table
<1>2. DOMAIN w = Columns /\ w.events = WithRow(s.events, id, numbered)
      /\ \A c \in Columns \ {"events"} : w[c] = s[c]
  BY <1>1, TableWritten
<1>3. DOMAIN numbered = EventColumns /\ numbered.sequence = s.nextSequence
  BY DEF EventColumns
<1> HIDE DEF numbered, w
<1>4. /\ Only(s, u, {"events", "nextSequence"}) /\ u.nextSequence = s.nextSequence + 1
      /\ u.events = WithRow(s.events, id, numbered)
  BY <1>1, <1>2 DEF Only
<1> HIDE DEF u
<1>5. s.nextSequence \in Nat
  BY <1>1 DEF EventsNumbered
<1>6. EventsNumbered(u.events, u.nextSequence)
  <2>1. DOMAIN u.events = DOMAIN s.events \cup {id}
        /\ \A e \in DOMAIN u.events : u.events[e] = IF e = id THEN numbered ELSE s.events[e]
    BY <1>4 DEF WithRow
  <2>2. ASSUME NEW e \in DOMAIN u.events
        PROVE  /\ DOMAIN u.events[e] = EventColumns /\ u.events[e].sequence \in Nat
               /\ u.events[e].sequence < s.nextSequence + 1
    BY <1>1, <1>3, <1>5, <2>1 DEF EventsNumbered
  <2> QED
    BY <1>4, <1>5, <2>2 DEF EventsNumbered
<1>7. s.nextSequence <= u.nextSequence
  BY <1>4, <1>5
<1>8. /\ MemSound(u) /\ Later(s, u)
      /\ PgSound(s) => PgSound(u) /\ Grows(s, u)
  BY <1>4, <1>6, <1>7, EventsKept
<1>9. u = Appended(s, id, row)
  BY DEF u, w, numbered, Appended
<1> QED
  BY <1>4, <1>7, <1>8, <1>9 DEF numbered

LEMMA AppendedAlike ==
  ASSUME NEW s, NEW t, Pair(s, t), NEW id, id \notin DOMAIN t.events,
         NEW row, DOMAIN row = EventColumns
  PROVE  Alike(Appended(s, id, row), Appended(t, id, row))
<1> DEFINE u == Appended(s, id, row)
           v == Appended(t, id, row)
           x == [row EXCEPT !.sequence = s.nextSequence]
           y == [row EXCEPT !.sequence = t.nextSequence]
<1>1. MemSound(s) /\ MemSound(t) /\ Alike(s, t) /\ AlikeEvents(s.events, t.events)
  BY DEF Pair, PgSound, Alike
<1>2. /\ Only(s, u, {"events", "nextSequence"}) /\ u.events = WithRow(s.events, id, x)
      /\ Only(t, v, {"events", "nextSequence"}) /\ v.events = WithRow(t.events, id, y)
  BY <1>1, AppendedKept
<1> HIDE DEF u, v
<1>3. /\ EventsNumbered(s.events, s.nextSequence) /\ EventsNumbered(t.events, t.nextSequence)
      /\ DOMAIN s.events = DOMAIN t.events
  BY <1>1 DEF MemSound, Typed, AlikeEvents
<1>4. /\ x.sequence = s.nextSequence /\ y.sequence = t.nextSequence
      /\ \A c \in EventColumns \ {"sequence"} : x[c] = y[c]
  BY DEF EventColumns
<1> HIDE DEF x, y
<1>5. /\ DOMAIN u.events = DOMAIN t.events \cup {id} /\ DOMAIN v.events = DOMAIN t.events \cup {id}
      /\ u.events[id] = x /\ v.events[id] = y
      /\ \A e \in DOMAIN t.events : u.events[e] = s.events[e] /\ v.events[e] = t.events[e]
  BY <1>2, <1>3 DEF WithRow
<1>6. \A e \in DOMAIN u.events, c \in EventColumns \ {"sequence"} :
        u.events[e][c] = v.events[e][c]
  BY <1>1, <1>4, <1>5 DEF AlikeEvents
<1>7. ASSUME NEW e \in DOMAIN u.events, NEW o \in DOMAIN u.events
      PROVE  u.events[o].sequence <= u.events[e].sequence
               <=> v.events[o].sequence <= v.events[e].sequence
  <2>1. /\ s.nextSequence \in Nat /\ t.nextSequence \in Nat
        /\ \A d \in DOMAIN t.events :
             /\ s.events[d].sequence \in Nat /\ s.events[d].sequence < s.nextSequence
             /\ t.events[d].sequence \in Nat /\ t.events[d].sequence < t.nextSequence
    BY <1>3 DEF EventsNumbered
  <2>2. CASE e = id /\ o = id
    BY <1>4, <1>5, <2>1, <2>2
  <2>3. CASE e = id /\ o # id
    BY <1>4, <1>5, <2>1, <2>3
  <2>4. CASE e # id /\ o = id
    BY <1>4, <1>5, <2>1, <2>4
  <2>5. CASE e # id /\ o # id
    BY <1>1, <1>5, <2>5 DEF AlikeEvents
  <2> QED
    BY <2>2, <2>3, <2>4, <2>5
<1>8. AlikeEvents(u.events, v.events)
  BY <1>5, <1>6, <1>7 DEF AlikeEvents
<1>9. Alike(u, v)
  BY <1>1, <1>2, <1>8 DEF Alike, Only, Plain, Columns, Table
<1> QED
  BY <1>9 DEF u, v

LEMMA EventsAppendCompared ==
  ASSUME NEW s, NEW t, Pair(s, t), NEW id, NEW row, DOMAIN row = EventColumns
  PROVE  Compared("events.append", s, t, M!EventsAppend(s, id, row), P!EventsAppend(t, id, row))
<1> DEFINE taken == id \in DOMAIN t.events
           drawn == [t EXCEPT !.nextSequence = @ + 1]
           known == /\ P!References(t, "projects", {row.project})
                    /\ P!References(t, "shots", {row.shot})
                    /\ P!References(t, "attempts", {row.attempt})
           u == Appended(s, id, row)
           v == Appended(t, id, row)
<1>1. /\ MemSound(s) /\ MemSound(t) /\ PgSound(t) /\ DOMAIN s = Columns /\ DOMAIN t = Columns
      /\ DOMAIN s.events = DOMAIN t.events
      /\ {"events", "nextSequence", "projects", "shots", "attempts"} \subseteq Columns
      /\ t.nextSequence \in Nat
  BY NumbersOfPg DEF Pair, PgSound, MemSound, Typed, Alike, AlikeEvents, Columns, Table
<1>2. M!EventsAppend(s, id, row) = IF taken THEN Refuse(s, "UNIQUE_VIOLATION") ELSE Ok(u, id)
  <2>1. u = Put([s EXCEPT !.nextSequence = @ + 1], "events", id,
                [row EXCEPT !.sequence = s.nextSequence])
    BY <1>1 DEF Appended, Put
  <2> HIDE DEF u
  <2> QED
    BY <1>1, <2>1 DEF M!EventsAppend, Has, Refuse, Ok, Put, WithRow
<1>3. P!EventsAppend(t, id, row) =
        IF taken THEN Refuse(drawn, "23505")
        ELSE IF ~ known THEN Refuse(drawn, "23503") ELSE Ok(v, id)
  <2>1. v = Put(drawn, "events", id, [row EXCEPT !.sequence = t.nextSequence])
    BY <1>1 DEF Appended, Put
  <2>2. P!EventsAppend(t, id, row) =
          IF taken THEN Refuse(drawn, "23505")
          ELSE IF ~ known THEN Refuse(drawn, "23503")
          ELSE Ok(Put(drawn, "events", id, [row EXCEPT !.sequence = t.nextSequence]), id)
    BY DEF P!EventsAppend, Has, Refuse, Ok, Put, WithRow
  <2> HIDE DEF v
  <2> QED
    BY <2>1, <2>2
<1>4. drawn.nextSequence \in Nat /\ t.nextSequence <= drawn.nextSequence
  BY <1>1
<1>5. /\ MemSound(u) /\ Later(s, u) /\ PgSound(v) /\ Later(t, v) /\ Grows(t, v)
      /\ t.nextSequence <= v.nextSequence
  BY <1>1, AppendedKept
<1> HIDE DEF drawn, known
<1>6. Compared("events.append", s, t, Refuse(s, "UNIQUE_VIOLATION"), Refuse(drawn, "23505"))
  BY <1>4, BothRefuse DEF RepositoryError, SqlState
<1>7. Compared("events.append", s, t, Ok(u, id), Refuse(drawn, "23503"))
  BY <1>4, <1>5, MemDoes DEF SqlState, OnlyMemory
<1>8. ~ taken => Compared("events.append", s, t, Ok(u, id), Ok(v, id))
  BY <1>5, AppendedAlike, BothDo
<1> HIDE DEF u, v
<1> QED
  BY <1>2, <1>3, <1>6, <1>7, <1>8
-----------------------------------------------------------------------------
(* The keys of requests that are not workflow mutations.                   *)

(* Completed keys of workflow mutations are those there were.              *)
KeysStay(s, u) ==
  \A k \in DOMAIN u.keys :
    u.keys[k].resource # None =>
      (k \in DOMAIN s.keys /\ u.keys[k] = s.keys[k]) \/ u.keys[k].operation \notin MutationOps

LEMMA KeysKept ==
  ASSUME NEW s, NEW u, MemSound(s), Only(s, u, {"keys"}), KeysStay(s, u)
  PROVE  /\ MemSound(u) /\ Later(s, u)
         /\ PgSound(s) => PgSound(u) /\ Grows(s, u) /\ s.nextSequence <= u.nextSequence
<1>1. /\ u.attempts = s.attempts /\ u.outbox = s.outbox /\ u.events = s.events
      /\ u.nextSequence = s.nextSequence /\ u.drafts = s.drafts /\ u.revisions = s.revisions
      /\ u.projects = s.projects /\ u.shots = s.shots
  BY DEF Only, Columns, Table
<1>2. Typed(u)
  BY <1>1 DEF MemSound, Typed, Only
<1>3. KeysNameRows(u)
  <2> SUFFICES ASSUME NEW k \in DOMAIN u.keys, u.keys[k].resource # None
               PROVE  KeyNamesRow(u, u.keys[k])
    BY DEF KeysNameRows
  <2>1. CASE k \in DOMAIN s.keys /\ u.keys[k] = s.keys[k]
    BY <1>1, <2>1 DEF MemSound, KeysNameRows, KeyNamesRow
  <2>2. CASE u.keys[k].operation \notin MutationOps
    BY <2>2 DEF KeyNamesRow, RequestIsWhole, MutationOps, DraftOps
  <2> QED
    BY <2>1, <2>2 DEF KeysStay
<1>4. Later(s, u) /\ Grows(s, u)
  BY <1>1 DEF Later, Grows
<1>5. ASSUME PgSound(s) PROVE PgSound(u)
  <2>1. Indexed(u.attempts) /\ OneDraftEach(u.drafts)
    BY <1>1, <1>5 DEF PgSound
  <2>2. Referenced(u)
    BY <1>1, <1>5 DEF PgSound, Referenced
  <2>3. KeysAreScoped(u)
    <3> SUFFICES ASSUME NEW k \in DOMAIN u.keys, u.keys[k].resource # None,
                        u.keys[k].operation \in MutationOps
                 PROVE  KeyIsScoped(u, u.keys[k])
      BY DEF KeysAreScoped, KeyIsScoped
    <3>1. k \in DOMAIN s.keys /\ u.keys[k] = s.keys[k]
      BY DEF KeysStay
    <3> QED
      BY <1>1, <1>5, <3>1 DEF PgSound, KeysAreScoped, KeyIsScoped, ShotIn
  <2> QED
    BY <1>2, <1>3, <2>1, <2>2, <2>3 DEF PgSound, MemSound
<1>6. s.nextSequence <= u.nextSequence
  BY <1>1 DEF MemSound, Typed, EventsNumbered
<1> QED
  BY <1>2, <1>3, <1>4, <1>5, <1>6 DEF MemSound

(* An answer that is a word of the keys', not the row.                      *)
LEMMA KeysCompared ==
  ASSUME NEW name, NEW s, NEW t, Pair(s, t), NEW u, NEW v, NEW value, NEW answer,
         answer \notin SqlState \cup RepositoryError,
         Only(s, u, {"keys"}), Only(t, v, {"keys"}), u.keys = v.keys, KeysStay(t, v),
         NEW m, NEW p, m.answer = answer, m.value = value, m.s = u,
         p.answer = answer, p.value = value, p.s = v
  PROVE  Compared(name, s, t, m, p)
<1>1. MemSound(s) /\ MemSound(t) /\ PgSound(t) /\ Alike(s, t) /\ s.keys = t.keys
  BY SameTables DEF Pair, PgSound
<1>2. MemSound(u) /\ Later(s, u)
  BY <1>1, KeysKept DEF KeysStay
<1>3. PgSound(v) /\ Later(t, v) /\ Grows(t, v) /\ t.nextSequence <= v.nextSequence
  BY <1>1, KeysKept
<1>4. Alike(u, v)
  BY <1>1 DEF Alike, Only, Plain, Columns, Table
<1>5. v.nextSequence \in Nat
  BY <1>3, NumbersOfPg
<1>6. ~ Apart(m, p) /\ CodesAgree(name, m, p)
  BY DEF Apart, Accepted, CodesAgree
<1> QED
  BY <1>2, <1>3, <1>4, <1>5, <1>6 DEF Compared, MemKept, PgKept

LEMMA SameKeyCalls ==
  /\ \A s, key, operation, request :
       M!IdempotencyReserve(s, key, operation, request)
         = P!IdempotencyReserve(s, key, operation, request)
  /\ \A s, key, resource :
       M!IdempotencyComplete(s, key, resource) = P!IdempotencyComplete(s, key, resource)
  /\ \A s, key : M!IdempotencyRelease(s, key) = P!IdempotencyRelease(s, key)
BY DEF M!IdempotencyReserve, P!IdempotencyReserve, M!IdempotencyComplete,
       P!IdempotencyComplete, M!IdempotencyRelease, P!IdempotencyRelease, M!Drop, P!Drop

KeyRow(operation, request) ==
  [operation |-> operation, request |-> request, resource |-> None]

LEMMA Reservation ==
  ASSUME NEW s, NEW key, NEW operation, NEW request
  PROVE  LET got == P!IdempotencyReserve(s, key, operation, request)
         IN  /\ key \notin DOMAIN s.keys =>
                  /\ got.answer = "reserved" /\ got.value = None
                  /\ got.s = Put(s, "keys", key, KeyRow(operation, request))
             /\ key \in DOMAIN s.keys =>
                  /\ got.s = s /\ got.value = s.keys[key].resource
                  /\ got.answer = IF \/ s.keys[key].operation # operation
                                     \/ s.keys[key].request # request THEN "conflict"
                                  ELSE IF s.keys[key].resource # None THEN "replay"
                                  ELSE "in_progress"
<1>1. CASE key \notin DOMAIN s.keys
  BY <1>1 DEF P!IdempotencyReserve, KeyRow, Put, WithRow
<1>2. CASE key \in DOMAIN s.keys
  BY <1>2 DEF P!IdempotencyReserve
<1> QED
  BY <1>1, <1>2

LEMMA KeysOf ==
  ASSUME NEW s, NEW t, Pair(s, t)
  PROVE  /\ DOMAIN s = Columns /\ DOMAIN t = Columns /\ "keys" \in Columns
         /\ Only(s, s, {"keys"}) /\ Only(t, t, {"keys"}) /\ KeysStay(t, t)
BY DEF Pair, PgSound, MemSound, Typed, Only, KeysStay, Columns, Table

LEMMA IdempotencyReserveCompared ==
  ASSUME NEW s, NEW t, Pair(s, t), NEW key, NEW operation, NEW request
  PROVE  Compared("idempotency.reserve", s, t,
                  M!IdempotencyReserve(s, key, operation, request),
                  P!IdempotencyReserve(t, key, operation, request))
<1> DEFINE m == P!IdempotencyReserve(s, key, operation, request)
           p == P!IdempotencyReserve(t, key, operation, request)
           row == KeyRow(operation, request)
<1>1. CASE key \notin DOMAIN t.keys
  <2> DEFINE u == Put(s, "keys", key, row)
             v == Put(t, "keys", key, row)
  <2>1. m.answer = "reserved" /\ m.value = None /\ m.s = u
    BY <1>1, SameTables, Reservation
  <2>2. p.answer = "reserved" /\ p.value = None /\ p.s = v
    BY <1>1, Reservation
  <2>3. /\ Only(s, u, {"keys"}) /\ u.keys = WithRow(s.keys, key, row)
        /\ Only(t, v, {"keys"}) /\ v.keys = WithRow(t.keys, key, row)
    BY KeysOf, TableWritten DEF Only
  <2>4. row.resource = None
    BY DEF KeyRow
  <2> HIDE DEF m, p, u, v, row
  <2>5. u.keys = v.keys
    BY <2>3, SameTables
  <2>6. KeysStay(t, v)
    BY <2>3, <2>4 DEF KeysStay, WithRow
  <2>7. Compared("idempotency.reserve", s, t, m, p)
    BY <2>1, <2>2, <2>3, <2>5, <2>6, KeysCompared DEF SqlState, RepositoryError
  <2> QED
    BY <2>7, SameKeyCalls DEF m, p
<1>2. CASE key \in DOMAIN t.keys
  <2>1. m.s = s /\ p.s = t /\ m.value = p.value /\ m.answer = p.answer
        /\ m.answer \in {"conflict", "replay", "in_progress"}
    BY <1>2, SameTables, Reservation
  <2> HIDE DEF m, p
  <2>2. Compared("idempotency.reserve", s, t, m, p)
    BY <2>1, KeysOf, SameTables, KeysCompared DEF SqlState, RepositoryError
  <2> QED
    BY <2>2, SameKeyCalls DEF m, p
<1> QED
  BY <1>1, <1>2

LEMMA IdempotencyCompleteCompared ==
  ASSUME NEW s, NEW t, Pair(s, t), NEW key, NEW resource,
         key \in DOMAIN t.keys => t.keys[key].operation \notin MutationOps
  PROVE  Compared("idempotency.complete", s, t, M!IdempotencyComplete(s, key, resource),
                                                P!IdempotencyComplete(t, key, resource))
<1> DEFINE open == key \in DOMAIN t.keys /\ t.keys[key].resource = None
           u == [s EXCEPT !.keys[key].resource = resource]
           v == [t EXCEPT !.keys[key].resource = resource]
<1>1. P!IdempotencyComplete(s, key, resource) =
        IF open THEN Ok(u, None) ELSE Refuse(s, "DATABASE_ERROR")
  BY SameTables DEF P!IdempotencyComplete, Has, Ok, Refuse
<1>2. P!IdempotencyComplete(t, key, resource) =
        IF open THEN Ok(v, None) ELSE Refuse(t, "DATABASE_ERROR")
  BY DEF P!IdempotencyComplete, Has, Ok, Refuse
<1>3. /\ Only(s, u, {"keys"}) /\ u.keys = [s.keys EXCEPT ![key].resource = resource]
      /\ Only(t, v, {"keys"}) /\ v.keys = [t.keys EXCEPT ![key].resource = resource]
  BY KeysOf DEF Only
<1> HIDE DEF u, v
<1>4. KeysStay(t, v)
  <2> SUFFICES ASSUME NEW k \in DOMAIN v.keys, v.keys[k].operation \in MutationOps
               PROVE  k \in DOMAIN t.keys /\ v.keys[k] = t.keys[k]
    BY DEF KeysStay
  <2>1. k \in DOMAIN t.keys /\ (k # key => v.keys[k] = t.keys[k])
    BY <1>3
  <2>2. k = key => v.keys[k].operation = t.keys[key].operation
    BY <1>3, <2>1
  <2> QED
    BY <2>1, <2>2
<1>5. u.keys = v.keys
  BY <1>3, SameTables
<1>6. Compared("idempotency.complete", s, t, Ok(u, None), Ok(v, None))
  BY <1>3, <1>4, <1>5, KeysCompared DEF Ok, SqlState, RepositoryError
<1>7. Compared("idempotency.complete", s, t, Refuse(s, "DATABASE_ERROR"),
                                             Refuse(t, "DATABASE_ERROR"))
  BY BothRefuseHere DEF RepositoryError
<1> QED
  BY <1>1, <1>2, <1>6, <1>7, SameKeyCalls

LEMMA IdempotencyReleaseCompared ==
  ASSUME NEW s, NEW t, Pair(s, t), NEW key
  PROVE  Compared("idempotency.release", s, t, M!IdempotencyRelease(s, key),
                                               P!IdempotencyRelease(t, key))
<1> DEFINE open == key \in DOMAIN t.keys /\ t.keys[key].resource = None
           u == Drop(s, "keys", key)
           v == Drop(t, "keys", key)
<1>1. P!IdempotencyRelease(s, key) = Ok(IF open THEN u ELSE s, None)
  BY SameTables DEF P!IdempotencyRelease, Has, Ok, Drop, P!Drop
<1>2. P!IdempotencyRelease(t, key) = Ok(IF open THEN v ELSE t, None)
  BY DEF P!IdempotencyRelease, Has, Ok, Drop, P!Drop
<1>3. /\ Only(s, u, {"keys"}) /\ u.keys = [k \in DOMAIN s.keys \ {key} |-> s.keys[k]]
      /\ Only(t, v, {"keys"}) /\ v.keys = [k \in DOMAIN t.keys \ {key} |-> t.keys[k]]
  BY KeysOf DEF Only, Drop
<1> HIDE DEF u, v
<1>4. u.keys = v.keys /\ KeysStay(t, v)
  BY <1>3, SameTables DEF KeysStay
<1>5. Compared("idempotency.release", s, t, Ok(u, None), Ok(v, None))
  BY <1>3, <1>4, KeysCompared DEF Ok, SqlState, RepositoryError
<1> QED
  BY <1>1, <1>2, <1>5, SameKeyCalls, BothRead
-----------------------------------------------------------------------------
(* The validation of a revision.                                           *)

LEMMA RevisionsKept ==
  ASSUME NEW s, NEW u, MemSound(s), Only(s, u, {"revisions"}), ScopesTyped(u.revisions),
         \A r \in DOMAIN s.revisions :
           /\ r \in DOMAIN u.revisions
           /\ InScope(u.revisions[r], s.revisions[r].project, s.revisions[r].shot)
  PROVE  /\ MemSound(u) /\ Later(s, u)
         /\ PgSound(s) => PgSound(u) /\ Grows(s, u) /\ s.nextSequence <= u.nextSequence
<1>1. /\ u.attempts = s.attempts /\ u.outbox = s.outbox /\ u.events = s.events
      /\ u.nextSequence = s.nextSequence /\ u.drafts = s.drafts /\ u.keys = s.keys
      /\ u.projects = s.projects /\ u.shots = s.shots
  BY DEF Only, Columns, Table
<1>2. Typed(u)
  BY <1>1 DEF MemSound, Typed, Only
<1>3. KeysNameRows(u)
  <2> SUFFICES ASSUME NEW k \in DOMAIN s.keys, s.keys[k].resource # None
               PROVE  KeyNamesRow(u, s.keys[k])
    BY <1>1 DEF KeysNameRows
  <2>1. KeyNamesRow(s, s.keys[k])
    BY DEF MemSound, KeysNameRows
  <2> QED
    BY <1>1, <2>1 DEF KeyNamesRow, Lies, InScope
<1>4. Later(s, u) /\ Grows(s, u)
  BY <1>1 DEF Later, Grows
<1>5. ASSUME PgSound(s) PROVE PgSound(u)
  <2>1. Indexed(u.attempts) /\ OneDraftEach(u.drafts)
    BY <1>1, <1>5 DEF PgSound
  <2>2. Referenced(u)
    BY <1>1, <1>5 DEF PgSound, Referenced
  <2>3. KeysAreScoped(u)
    BY <1>1, <1>4, <1>5, ScopesStay DEF PgSound
  <2> QED
    BY <1>2, <1>3, <2>1, <2>2, <2>3 DEF PgSound, MemSound
<1>6. s.nextSequence <= u.nextSequence
  BY <1>1 DEF MemSound, Typed, EventsNumbered
<1> QED
  BY <1>2, <1>3, <1>4, <1>5, <1>6 DEF MemSound

LEMMA RevisionsUpdateValidationCompared ==
  ASSUME NEW s, NEW t, Pair(s, t), NEW project, NEW shot, NEW id, NEW update
  PROVE  Compared("revisions.updateValidation", s, t,
                  M!RevisionsUpdateValidation(s, project, shot, id, update),
                  P!RevisionsUpdateValidation(t, project, shot, id, update))
<1> DEFINE bounded == ValidationIsBounded(update)
           found == id \in DOMAIN t.revisions /\ InScope(t.revisions[id], project, shot)
           validated(rows) == [rows[id] EXCEPT !.validation = update.validation,
                                               !.errors = update.errors]
           row == validated(t.revisions)
           u == Put(s, "revisions", id, row)
           v == Put(t, "revisions", id, row)
<1>1. M!RevisionsUpdateValidation(s, project, shot, id, update) =
        IF ~ bounded THEN Refuse(s, "INVALID_ARGUMENT")
        ELSE IF ~ found THEN Refuse(s, "NOT_FOUND") ELSE Ok(u, id)
  <2> DEFINE foundIn(rows) == id \in DOMAIN rows /\ InScope(rows[id], project, shot)
  <2>1. M!RevisionsUpdateValidation(s, project, shot, id, update) =
          IF ~ bounded THEN Refuse(s, "INVALID_ARGUMENT")
          ELSE IF ~ foundIn(s.revisions) THEN Refuse(s, "NOT_FOUND")
          ELSE Ok(Put(s, "revisions", id, validated(s.revisions)), id)
    BY DEF M!RevisionsUpdateValidation, M!ValidationIsBounded, ValidationIsBounded,
           M!RevisionOfShot, M!InScope, InScope, Has, Refuse, Ok, Put, WithRow
  <2>2. s.revisions = t.revisions
    BY SameTables
  <2> QED
    BY <2>1, <2>2
<1>2. P!RevisionsUpdateValidation(t, project, shot, id, update) =
        IF ~ bounded THEN Refuse(t, "INVALID_ARGUMENT")
        ELSE IF ~ found THEN Refuse(t, "NOT_FOUND") ELSE Ok(v, id)
  BY DEF P!RevisionsUpdateValidation, P!ValidationIsBounded, ValidationIsBounded,
         P!RevisionsOf, P!InScope, InScope, Has, Refuse, Ok, Put, WithRow
<1>3. Compared("revisions.updateValidation", s, t, Refuse(s, "INVALID_ARGUMENT"),
                                                   Refuse(t, "INVALID_ARGUMENT"))
  BY BothRefuseHere DEF RepositoryError
<1>4. Compared("revisions.updateValidation", s, t, Refuse(s, "NOT_FOUND"), Refuse(t, "NOT_FOUND"))
  BY BothRefuseHere DEF RepositoryError
<1>5. ASSUME found PROVE Compared("revisions.updateValidation", s, t, Ok(u, id), Ok(v, id))
  <2>1. /\ DOMAIN s = Columns /\ DOMAIN t = Columns /\ "revisions" \in Columns
        /\ MemSound(s) /\ MemSound(t) /\ PgSound(t) /\ Alike(s, t)
        /\ ScopesTyped(t.revisions) /\ s.revisions = t.revisions
    BY SameTables DEF Pair, PgSound, MemSound, Typed, Columns, Table
  <2>2. /\ DOMAIN row = DOMAIN t.revisions[id]
        /\ row.project = t.revisions[id].project /\ row.shot = t.revisions[id].shot
    BY <1>5, <2>1 DEF ScopesTyped
  <2>3. /\ Only(s, u, {"revisions"}) /\ u.revisions = WithRow(t.revisions, id, row)
        /\ Only(t, v, {"revisions"}) /\ v.revisions = WithRow(t.revisions, id, row)
    BY <2>1, TableWritten DEF Only
  <2> HIDE DEF row, u, v
  <2>4. /\ ScopesTyped(u.revisions)
        /\ \A r \in DOMAIN t.revisions :
             r \in DOMAIN u.revisions
             /\ InScope(u.revisions[r], t.revisions[r].project, t.revisions[r].shot)
    BY <1>5, <2>1, <2>2, <2>3 DEF ScopesTyped, InScope, WithRow
  <2>5. MemSound(u) /\ Later(s, u)
    BY <2>1, <2>3, <2>4, RevisionsKept
  <2>6. PgSound(v) /\ Later(t, v) /\ Grows(t, v) /\ t.nextSequence <= v.nextSequence
    BY <2>1, <2>3, <2>4, RevisionsKept
  <2>7. Alike(u, v)
    BY <2>1, <2>3 DEF Alike, Only, Plain, Columns, Table
  <2> QED
    BY <2>5, <2>6, <2>7, BothDo
<1> HIDE DEF bounded, found, u, v
<1> QED
  BY <1>1, <1>2, <1>3, <1>4, <1>5

-----------------------------------------------------------------------------
(* A batch of shots.                                                       *)

LEMMA SameBatch ==
  \A rows, batch, n : /\ M!WithRows(rows, batch, n) = WithRows(rows, batch, n)
                      /\ P!WithRows(rows, batch, n) = WithRows(rows, batch, n)
BY DEF M!WithRows, P!WithRows, WithRows, M!Max, P!Max, Max

Inserted(t, shots, n) == [t EXCEPT !.shots = WithRows(@, shots, n)]

LEMMA InsertedIsElsewhere ==
  ASSUME NEW s, DOMAIN s = Columns, NEW shots, NEW n
  PROVE  /\ Only(s, Inserted(s, shots, n), {"shots"})
         /\ Inserted(s, shots, n).shots = WithRows(s.shots, shots, n)
BY DEF Inserted, Only, Columns, Table

(* Distinct identifiers: each row of the batch is where it says.           *)
LEMMA BatchRow ==
  ASSUME NEW rows, NEW shots, NEW n \in Nat, NEW j \in 1 .. n,
         \A i \in 1 .. n : shots[i].id = shots[j].id => i = j
  PROVE  WithRows(rows, shots, n)[shots[j].id] = shots[j].row
<1> DEFINE same == {i \in 1 .. n : shots[i].id = shots[j].id}
<1>1. same = {j}
  OBVIOUS
<1>2. Max(same) = j
  BY <1>1 DEF Max
<1> HIDE DEF same
<1>3. WithRows(rows, shots, n)[shots[j].id] = shots[Max(same)].row
  BY DEF WithRows, same
<1> QED
  BY <1>2, <1>3

(* How PostgreSQL refuses a shot, none of which is new as accepted.        *)
LEMMA InsertShotAnswers ==
  ASSUME NEW t, NEW id, NEW row, row.status # "accepted"
  PROVE  LET got == P!InsertShot(t, id, row)
         IN  /\ got.answer \in {"ok", "23505", "23503"}
             /\ got.answer = "ok" =>
                  /\ id \notin DOMAIN t.shots
                  /\ \A other \in DOMAIN t.shots :
                       ~ (t.shots[other].project = row.project
                          /\ t.shots[other].ordinal = row.ordinal)
<1> DEFINE fault == P!ShotFault(t, id, row)
           clash == \E other \in Others(t, "shots", id) :
                      other.project = row.project /\ other.ordinal = row.ordinal
<1>1. fault \in {None, "23505", "23503"}
  BY DEF P!ShotFault
<1>2. fault = None => ~ clash
  <2>1. clash => fault = "23505"
    BY DEF P!ShotFault, Others
  <2> QED
    BY <2>1
<1>3. P!InsertShot(t, id, row) =
        IF id \in DOMAIN t.shots THEN Refuse(t, "23505")
        ELSE IF fault = None THEN Ok(Put(t, "shots", id, row), id) ELSE Refuse(t, fault)
  BY DEF P!InsertShot, Has, Refuse, Ok, Put, WithRow
<1> HIDE DEF fault
<1>4. P!InsertShot(t, id, row).answer =
        IF id \in DOMAIN t.shots THEN "23505" ELSE IF fault = None THEN "ok" ELSE fault
  BY <1>3 DEF Refuse, Ok
<1>5. fault # "ok"
  BY <1>1
<1>6. ASSUME id \notin DOMAIN t.shots, ~ clash
      PROVE  \A other \in DOMAIN t.shots :
               ~ (t.shots[other].project = row.project /\ t.shots[other].ordinal = row.ordinal)
  BY <1>6 DEF Others
<1> HIDE DEF clash
<1> QED
  BY <1>1, <1>2, <1>4, <1>5, <1>6

LEMMA PgInsertsBatch ==
  ASSUME NEW t, DOMAIN t = Columns, NEW X, NEW shots \in Seq(X),
         \A i \in DOMAIN shots : shots[i].row.status # "accepted"
  PROVE  LET p == P!ShotsCreateMany(t, shots)
         IN  \/ /\ p = Ok(Inserted(t, shots, Len(shots)), None)
                /\ \A i \in DOMAIN shots : shots[i].id \notin DOMAIN t.shots
                /\ \A i \in DOMAIN shots :
                     /\ \A j \in 1 .. i - 1 :
                          ~ (shots[j].row.project = shots[i].row.project
                             /\ shots[j].row.ordinal = shots[i].row.ordinal)
                     /\ \A id \in DOMAIN t.shots :
                          ~ (t.shots[id].project = shots[i].row.project
                             /\ t.shots[id].ordinal = shots[i].row.ordinal)
             \/ \E n \in Nat : p \in {Refuse(Inserted(t, shots, n), "23505"),
                                      Refuse(Inserted(t, shots, n), "23503")}
<1> DEFINE insert(i) == P!InsertShot(Inserted(t, shots, i - 1), shots[i].id, shots[i].row)
           refused == {i \in DOMAIN shots : insert(i).answer # "ok"}
<1>1. Len(shots) \in Nat /\ DOMAIN shots = 1 .. Len(shots)
  OBVIOUS
<1>2. P!ShotsCreateMany(t, shots) =
        IF refused = {} THEN Ok(Inserted(t, shots, Len(shots)), None)
        ELSE Refuse(Inserted(t, shots, P!Min(refused) - 1), insert(P!Min(refused)).answer)
  BY SameBatch DEF P!ShotsCreateMany, Inserted, Refuse, Ok
<1>3. \A i \in DOMAIN shots : insert(i).answer \in {"ok", "23505", "23503"}
  BY InsertShotAnswers
<1>4. CASE refused # {}
  <2>1. refused \subseteq Nat
    BY <1>1
  <2>2. P!Min(refused) \in refused
    BY <1>4, <2>1, LeastNumber DEF P!Min
  <2>3. P!Min(refused) \in 1 .. Len(shots) /\ insert(P!Min(refused)).answer \in {"23505", "23503"}
    BY <1>1, <1>3, <2>2
  <2> DEFINE i == P!Min(refused)
  <2>4. P!ShotsCreateMany(t, shots) = Refuse(Inserted(t, shots, i - 1), insert(i).answer)
    BY <1>2, <1>4
  <2> HIDE DEF insert
  <2>5. insert(i).answer \in {"23505", "23503"}
    BY <2>3
  <2>6. i \in 1 .. Len(shots)
    BY <2>3
  <2> HIDE DEF i
  <2>7. i - 1 \in Nat
    BY <1>1, <2>6
  <2> QED
    BY <2>4, <2>5, <2>7
<1>5. CASE refused = {}
  <2>1. ASSUME NEW i \in DOMAIN shots
        PROVE  /\ shots[i].id \notin DOMAIN Inserted(t, shots, i - 1).shots
               /\ \A other \in DOMAIN Inserted(t, shots, i - 1).shots :
                    ~ (Inserted(t, shots, i - 1).shots[other].project = shots[i].row.project
                       /\ Inserted(t, shots, i - 1).shots[other].ordinal = shots[i].row.ordinal)
    BY <1>5, InsertShotAnswers
  <2>2. ASSUME NEW i \in DOMAIN shots
        PROVE  Inserted(t, shots, i - 1).shots = WithRows(t.shots, shots, i - 1)
    BY InsertedIsElsewhere
  <2>3. ASSUME NEW i \in DOMAIN shots
        PROVE  /\ shots[i].id \notin DOMAIN t.shots
               /\ \A j \in 1 .. i - 1 : shots[j].id # shots[i].id
    <3>1. i - 1 \in Nat
      BY <1>1
    <3>2. DOMAIN WithRows(t.shots, shots, i - 1) =
            DOMAIN t.shots \cup {shots[j].id : j \in 1 .. i - 1}
      BY <3>1 DEF WithRows
    <3>3. shots[i].id \notin DOMAIN WithRows(t.shots, shots, i - 1)
      BY <2>1, <2>2
    <3> QED
      BY <3>2, <3>3
  <2>5. ASSUME NEW i \in DOMAIN shots, NEW id \in DOMAIN t.shots
        PROVE  ~ (t.shots[id].project = shots[i].row.project
                  /\ t.shots[id].ordinal = shots[i].row.ordinal)
    <3>1. \A j \in 1 .. i - 1 : shots[j].id # id
      BY <1>1, <2>3
    <3>2. i - 1 \in Nat
      BY <1>1
    <3>3. /\ id \in DOMAIN WithRows(t.shots, shots, i - 1)
          /\ WithRows(t.shots, shots, i - 1)[id] = t.shots[id]
      BY <3>1, <3>2 DEF WithRows
    <3> QED
      BY <2>1, <2>2, <3>3
  <2>6. ASSUME NEW i \in DOMAIN shots, NEW j \in 1 .. i - 1
        PROVE  ~ (shots[j].row.project = shots[i].row.project
                  /\ shots[j].row.ordinal = shots[i].row.ordinal)
    <3>1. i - 1 \in Nat /\ j \in DOMAIN shots
      BY <1>1
    <3>2. ASSUME NEW k \in 1 .. i - 1, shots[k].id = shots[j].id PROVE k = j
      <4>1. k \in DOMAIN shots /\ k \in Nat /\ j \in Nat
        BY <1>1
      <4>2. CASE k < j
        <5>1. j \in DOMAIN shots /\ k \in 1 .. j - 1
          BY <3>1, <4>1, <4>2
        <5> QED
          BY <2>3, <3>2, <5>1
      <4>3. CASE j < k
        <5>1. k \in DOMAIN shots /\ j \in 1 .. k - 1
          BY <4>1, <4>3
        <5> QED
          BY <2>3, <3>2, <5>1
      <4> QED
        BY <4>1, <4>2, <4>3
    <3>3. WithRows(t.shots, shots, i - 1)[shots[j].id] = shots[j].row
      <4>1. \A k \in 1 .. i - 1 : shots[k].id = shots[j].id => k = j
        BY <3>2
      <4> DEFINE n == i - 1
      <4>2. n \in Nat /\ j \in 1 .. n /\ \A k \in 1 .. n : shots[k].id = shots[j].id => k = j
        BY <3>1, <4>1
      <4> HIDE DEF n
      <4>3. WithRows(t.shots, shots, n)[shots[j].id] = shots[j].row
        BY <4>2, BatchRow
      <4> QED
        BY <4>3 DEF n
    <3>4. shots[j].id \in DOMAIN WithRows(t.shots, shots, i - 1)
      <4>1. DOMAIN WithRows(t.shots, shots, i - 1) =
              DOMAIN t.shots \cup {shots[k].id : k \in 1 .. i - 1}
        BY <3>1 DEF WithRows
      <4> QED
        BY <4>1
    <3> QED
      BY <2>1, <2>2, <3>3, <3>4
  <2> HIDE DEF refused, insert
  <2> QED
    BY <1>2, <1>5, <2>3, <2>5, <2>6
<1> QED
  BY <1>4, <1>5

(* New shots are not accepted ones; what the in-memory store refuses of a  *)
(* batch, PostgreSQL refuses at one of its rows.                           *)
LEMMA ShotsCreateManyCompared ==
  ASSUME NEW s, NEW t, Pair(s, t), NEW X, NEW shots \in Seq(X),
         \A i \in DOMAIN shots : shots[i].row.status # "accepted"
  PROVE  Compared("shots.createMany", s, t, M!ShotsCreateMany(s, shots),
                                            P!ShotsCreateMany(t, shots))
<1> DEFINE clash == \E i \in DOMAIN shots :
                      \/ \E j \in 1 .. (i - 1) :
                           /\ shots[j].row.project = shots[i].row.project
                           /\ shots[j].row.ordinal = shots[i].row.ordinal
                      \/ \E id \in DOMAIN t.shots :
                           /\ t.shots[id].project = shots[i].row.project
                           /\ t.shots[id].ordinal = shots[i].row.ordinal
           u == Inserted(s, shots, Len(shots))
           v == Inserted(t, shots, Len(shots))
           p == P!ShotsCreateMany(t, shots)
<1>1. /\ MemSound(s) /\ PgSound(t) /\ Alike(s, t) /\ s.shots = t.shots
      /\ DOMAIN s = Columns /\ DOMAIN t = Columns
  BY SameTables DEF Pair, PgSound, MemSound, Typed
<1>2. M!ShotsCreateMany(s, shots) = IF clash THEN Refuse(s, "UNIQUE_VIOLATION") ELSE Ok(u, None)
  BY <1>1, SameBatch DEF M!ShotsCreateMany, Inserted, Refuse, Ok
<1>3. /\ MemSound(u) /\ Later(s, u)
      /\ \A c \in Columns \ {"shots"} : u[c] = s[c]
      /\ u.shots = WithRows(t.shots, shots, Len(shots)) /\ DOMAIN u = Columns
  <2>1. Only(s, u, {"shots"}) /\ u.shots = WithRows(s.shots, shots, Len(shots))
    BY <1>1, InsertedIsElsewhere
  <2> HIDE DEF u
  <2>2. Watched \subseteq Columns \ {"shots"}
    BY DEF Watched, Columns, Table
  <2> QED
    BY <1>1, <2>1, <2>2, MemSoundElsewhere DEF Only
<1>4. ASSUME NEW n
      PROVE  /\ Inserted(t, shots, n).nextSequence \in Nat
             /\ t.nextSequence <= Inserted(t, shots, n).nextSequence
  <2>1. Inserted(t, shots, n).nextSequence = t.nextSequence /\ t.nextSequence \in Nat
    BY <1>1, NumbersOfPg, InsertedIsElsewhere DEF Only, Columns, Table
  <2> QED
    BY <2>1
<1>5. ASSUME \A i \in DOMAIN shots : shots[i].id \notin DOMAIN t.shots
      PROVE  Compared("shots.createMany", s, t, Ok(u, None), Ok(v, None))
  <2>1. Only(t, v, {"shots"}) /\ v.shots = WithRows(t.shots, shots, Len(shots))
    BY <1>1, InsertedIsElsewhere
  <2>2. t.nextSequence <= v.nextSequence
    BY <1>4
  <2> HIDE DEF u, v
  <2>3. Watched \subseteq Columns \ {"shots"} /\ "projects" \in Columns \ {"shots"}
    BY DEF Watched, Columns, Table
  <2>4. Grows(t, v)
    <3> DEFINE n == Len(shots)
    <3>1. n \in Nat /\ \A i \in 1 .. n : shots[i].id \notin DOMAIN t.shots
      BY <1>5
    <3>2. v.shots = WithRows(t.shots, shots, n)
      BY <2>1
    <3> HIDE DEF n
    <3>3. \A id \in DOMAIN t.shots : \A i \in 1 .. n : shots[i].id # id
      BY <3>1
    <3>4. /\ DOMAIN v.shots = DOMAIN t.shots \cup {shots[i].id : i \in 1 .. n}
          /\ \A id \in DOMAIN t.shots : v.shots[id] = t.shots[id]
      BY <3>1, <3>2, <3>3 DEF WithRows
    <3> QED
      BY <2>1, <2>3, <3>4 DEF Grows, Only
  <2>5. PgSound(v) /\ Later(t, v)
    BY <1>1, <2>1, <2>3, <2>4, PgSoundElsewhere DEF Only
  <2>6. Alike(u, v)
    BY <1>1, <1>3, <2>1 DEF Alike, Only, Plain, Columns, Table
  <2> QED
    BY <1>3, <2>2, <2>4, <2>5, <2>6, BothDo
<1>6. ASSUME NEW n, NEW d \in {"23505", "23503"}
      PROVE  /\ Compared("shots.createMany", s, t, Ok(u, None), Refuse(Inserted(t, shots, n), d))
             /\ Compared("shots.createMany", s, t, Refuse(s, "UNIQUE_VIOLATION"),
                                                   Refuse(Inserted(t, shots, n), d))
  <2> HIDE DEF u
  <2>1. d \in SqlState /\ <<"shots.createMany", d>> \in OnlyMemory
    BY DEF SqlState, OnlyMemory
  <2> QED
    BY <1>3, <1>4, <2>1, MemDoes, BothRefuse DEF RepositoryError
<1>7. \/ p = Ok(v, None) /\ ~ clash /\ \A i \in DOMAIN shots : shots[i].id \notin DOMAIN t.shots
      \/ \E n \in Nat : p \in {Refuse(Inserted(t, shots, n), "23505"),
                               Refuse(Inserted(t, shots, n), "23503")}
  BY <1>1, PgInsertsBatch
<1> HIDE DEF clash, u, v, p
<1>8. Compared("shots.createMany", s, t, IF clash THEN Refuse(s, "UNIQUE_VIOLATION") ELSE Ok(u, None), p)
  BY <1>5, <1>6, <1>7
<1> QED
  BY <1>2, <1>8 DEF p
-----------------------------------------------------------------------------
(* Attempts.                                                               *)

LEMMA SameStatuses ==
  /\ M!AttemptTerminal = AttemptTerminal /\ P!AttemptTerminal = AttemptTerminal
  /\ M!LeasedStatus = LeasedStatus /\ P!LeasedStatus = LeasedStatus
  /\ M!RecoveryStatus = RecoveryStatus /\ P!RecoveryStatus = RecoveryStatus
BY DEF M!AttemptTerminal, P!AttemptTerminal, AttemptTerminal, M!LeasedStatus, P!LeasedStatus,
       LeasedStatus, M!RecoveryStatus, P!RecoveryStatus, RecoveryStatus

LEMMA AttemptsKept ==
  ASSUME NEW s, NEW u, MemSound(s), Only(s, u, {"attempts"}), AttemptsTyped(u.attempts)
  PROVE  /\ MemSound(u)
         /\ PgSound(s) /\ Indexed(u.attempts) /\ Referenced(u) =>
              PgSound(u) /\ Grows(s, u) /\ s.nextSequence <= u.nextSequence
<1>1. /\ u.outbox = s.outbox /\ u.events = s.events /\ u.nextSequence = s.nextSequence
      /\ u.drafts = s.drafts /\ u.revisions = s.revisions /\ u.keys = s.keys
      /\ u.projects = s.projects /\ u.shots = s.shots
  BY DEF Only, Columns, Table
<1>2. Typed(u)
  BY <1>1 DEF MemSound, Typed, Only
<1>3. KeysNameRows(u)
  BY <1>1 DEF MemSound, KeysNameRows, KeyNamesRow
<1>4. Grows(s, u)
  BY <1>1 DEF Grows
<1>5. ASSUME PgSound(s), Indexed(u.attempts), Referenced(u) PROVE PgSound(u)
  <2>1. OneDraftEach(u.drafts)
    BY <1>1, <1>5 DEF PgSound
  <2>2. KeysAreScoped(u)
    BY <1>1, <1>4, <1>5, ScopesStay DEF PgSound
  <2> QED
    BY <1>2, <1>3, <1>5, <2>1, <2>2 DEF PgSound, MemSound
<1>6. s.nextSequence <= u.nextSequence
  BY <1>1 DEF MemSound, Typed, EventsNumbered
<1> QED
  BY <1>2, <1>3, <1>4, <1>5, <1>6 DEF MemSound

AlikeRow(x, y) == \A c \in AttemptColumns \ {"updated"} : x[c] = y[c]

LEMMA AttemptsOf ==
  ASSUME NEW s, NEW t, Pair(s, t)
  PROVE  /\ DOMAIN s = Columns /\ DOMAIN t = Columns /\ "attempts" \in Columns
         /\ MemSound(s) /\ MemSound(t) /\ PgSound(t) /\ Alike(s, t)
         /\ AttemptsTyped(s.attempts) /\ AttemptsTyped(t.attempts)
         /\ Indexed(t.attempts) /\ Referenced(t)
         /\ DOMAIN s.attempts = DOMAIN t.attempts
         /\ \A a \in DOMAIN t.attempts : AlikeRow(s.attempts[a], t.attempts[a])
BY DEF Pair, PgSound, MemSound, Typed, Alike, AlikeAttempts, AlikeRow, Columns, Table

LEMMA AttemptWritten ==
  ASSUME NEW s, DOMAIN s = Columns, AttemptsTyped(s.attempts), NEW id \in Nat,
         NEW row, AttemptTyped(row)
  PROVE  /\ Only(s, Put(s, "attempts", id, row), {"attempts"})
         /\ Put(s, "attempts", id, row).attempts = WithRow(s.attempts, id, row)
         /\ AttemptsTyped(Put(s, "attempts", id, row).attempts)
<1> DEFINE u == Put(s, "attempts", id, row)
<1>1. "attempts" \in Columns
  BY DEF Columns, Table
<1>2. Only(s, u, {"attempts"}) /\ u.attempts = WithRow(s.attempts, id, row)
  BY <1>1, TableWritten DEF Only
<1> HIDE DEF u
<1>3. AttemptsTyped(u.attempts)
  BY <1>2 DEF AttemptsTyped, WithRow
<1> QED
  BY <1>2, <1>3 DEF u

LEMMA WrittenAlike ==
  ASSUME NEW s, NEW t, Pair(s, t), NEW id \in Nat, NEW x, NEW y, AttemptTyped(x),
         AttemptTyped(y), AlikeRow(x, y)
  PROVE  Alike(Put(s, "attempts", id, x), Put(t, "attempts", id, y))
<1> DEFINE u == Put(s, "attempts", id, x)
           v == Put(t, "attempts", id, y)
<1>1. /\ Only(s, u, {"attempts"}) /\ u.attempts = WithRow(s.attempts, id, x)
      /\ Only(t, v, {"attempts"}) /\ v.attempts = WithRow(t.attempts, id, y)
  BY AttemptsOf, AttemptWritten
<1> HIDE DEF u, v
<1>2. AlikeAttempts(u.attempts, v.attempts)
  BY <1>1, AttemptsOf DEF AlikeAttempts, AlikeRow, WithRow
<1>3. Alike(u, v)
  BY <1>1, <1>2, AttemptsOf DEF Alike, Only, Plain, Columns, Table
<1> QED
  BY <1>3 DEF u, v

(* A write that leaves the indexed columns and a terminal attempt alone.   *)
Rewrites(old, row) ==
  /\ AttemptTyped(row)
  /\ \A c \in {"project", "shot", "key", "corr", "prompt", "revision", "hash", "seed"} :
       row[c] = old[c]
  /\ row.status = "accepted" => old.status = "accepted"
  /\ old.status \in AttemptTerminal => P!Lifecycle(row) = P!Lifecycle(old)

LEMMA RowsRewritten ==
  ASSUME NEW t, NEW v, Indexed(t.attempts), Referenced(t), Only(t, v, {"attempts"}),
         DOMAIN v.attempts = DOMAIN t.attempts,
         \A a \in DOMAIN t.attempts :
           v.attempts[a] = t.attempts[a] \/ Rewrites(t.attempts[a], v.attempts[a])
  PROVE  Indexed(v.attempts) /\ Referenced(v) /\ Later(t, v)
<1>1. ASSUME NEW a \in DOMAIN t.attempts
      PROVE  /\ \A c \in {"project", "shot", "key", "corr", "prompt"} :
                  v.attempts[a][c] = t.attempts[a][c]
             /\ v.attempts[a].status = "accepted" => t.attempts[a].status = "accepted"
             /\ t.attempts[a].status \in AttemptTerminal =>
                  P!Lifecycle(v.attempts[a]) = P!Lifecycle(t.attempts[a])
  BY DEF Rewrites
<1>2. ASSUME NEW a \in DOMAIN t.attempts, NEW b \in DOMAIN t.attempts, a # b
      PROVE  Distinct(v.attempts[a], v.attempts[b])
  <2>1. Distinct(t.attempts[a], t.attempts[b])
    BY <1>2 DEF Indexed
  <2> QED
    BY <1>1, <2>1 DEF Distinct
<1>3. Indexed(v.attempts)
  BY <1>2 DEF Indexed
<1>4. v.projects = t.projects /\ v.shots = t.shots
  BY DEF Only, Columns, Table
<1>5. Referenced(v)
  BY <1>1, <1>4 DEF Referenced
<1>6. Later(t, v)
  BY <1>1 DEF Later
<1> QED
  BY <1>3, <1>5, <1>6

LEMMA MemRewrites ==
  ASSUME NEW s, MemSound(s), NEW id \in DOMAIN s.attempts, NEW x,
         Rewrites(s.attempts[id], x)
  PROVE  MemSound(Put(s, "attempts", id, x)) /\ Later(s, Put(s, "attempts", id, x))
<1> DEFINE u == Put(s, "attempts", id, x)
<1>1. DOMAIN s = Columns /\ AttemptsTyped(s.attempts) /\ id \in Nat /\ AttemptTyped(x)
  BY DEF MemSound, Typed, AttemptsTyped, Rewrites
<1>2. Only(s, u, {"attempts"}) /\ u.attempts = WithRow(s.attempts, id, x)
      /\ AttemptsTyped(u.attempts)
  BY <1>1, AttemptWritten
<1> HIDE DEF u
<1>3. MemSound(u)
  BY <1>2, AttemptsKept
<1>4. Later(s, u)
  BY <1>2 DEF Later, Rewrites, WithRow
<1> QED
  BY <1>3, <1>4 DEF u

(* PostgreSQL carries such a write out, unless the attempt's revision no   *)
(* longer fits.                                                            *)
LEMMA PgRewrites ==
  ASSUME NEW t, PgSound(t), NEW id \in DOMAIN t.attempts, NEW y,
         Rewrites(t.attempts[id], y)
  PROVE  LET v == Put(t, "attempts", id, y)
         IN  /\ PgSound(v) /\ Later(t, v) /\ Grows(t, v) /\ t.nextSequence <= v.nextSequence
             /\ P!UpdateAttempt(t, id, y) \in {Ok(v, id), Refuse(t, "23514")}
<1> DEFINE v == Put(t, "attempts", id, y)
           old == t.attempts[id]
<1>1. /\ DOMAIN t = Columns /\ AttemptsTyped(t.attempts) /\ MemSound(t)
      /\ Indexed(t.attempts) /\ Referenced(t) /\ id \in Nat /\ AttemptTyped(y)
  BY DEF PgSound, MemSound, Typed, AttemptsTyped, Rewrites
<1>2. Only(t, v, {"attempts"}) /\ v.attempts = WithRow(t.attempts, id, y)
      /\ AttemptsTyped(v.attempts)
  BY <1>1, AttemptWritten
<1>3. PgSound(v) /\ Later(t, v) /\ Grows(t, v) /\ t.nextSequence <= v.nextSequence
  <2> HIDE DEF v
  <2>1. /\ DOMAIN v.attempts = DOMAIN t.attempts
        /\ \A a \in DOMAIN t.attempts :
             v.attempts[a] = t.attempts[a] \/ Rewrites(t.attempts[a], v.attempts[a])
    BY <1>2 DEF WithRow
  <2>2. Indexed(v.attempts) /\ Referenced(v) /\ Later(t, v)
    BY <1>1, <1>2, <2>1, RowsRewritten
  <2> QED
    BY <1>1, <1>2, <2>2, AttemptsKept
<1>4. P!UpdateAttempt(t, id, y) \in {Ok(v, id), Refuse(t, "23514")}
  <2>1. CASE ~ P!RevisionFits(t, y)
    <3>1. P!UpdateAttempt(t, id, y) = Refuse(t, "23514")
      BY <2>1 DEF P!UpdateAttempt, Refuse
    <3> QED
      BY <3>1
  <2>2. CASE P!RevisionFits(t, y)
    <3>1. P!ExecutionUnchanged(old, y)
      BY DEF P!ExecutionUnchanged, Rewrites
    <3>2. P!TerminalUntouched(old, y)
      BY SameStatuses DEF P!TerminalUntouched, Rewrites
    <3>3. P!AttemptIndexes(t, id, y)
      <4>1. \A a \in DOMAIN t.attempts \ {id} : Distinct(t.attempts[a], old)
        BY <1>1 DEF Indexed
      <4>2. /\ y.key = old.key /\ y.corr = old.corr /\ y.prompt = old.prompt
            /\ y.shot = old.shot /\ (y.status = "accepted" => old.status = "accepted")
        BY DEF Rewrites
      <4> HIDE DEF old
      <4> QED
        BY <4>1, <4>2 DEF P!AttemptIndexes, P!UniqueAmong, Distinct
    <3>4. P!References(t, "projects", {y.project}) /\ P!References(t, "shots", {y.shot})
      BY <1>1 DEF P!References, Referenced, Rewrites
    <3>5. P!AttemptFault(t, id, y) = None
      BY <2>2, <3>3, <3>4 DEF P!AttemptFault
    <3>6. P!UpdateAttempt(t, id, y) = Ok(v, id)
      BY <2>2, <3>1, <3>2, <3>5 DEF P!UpdateAttempt, Ok, Put, WithRow
    <3> QED
      BY <3>6
  <2> QED
    BY <2>1, <2>2
<1> QED
  BY <1>3, <1>4

(* The same write of both stores, but for the time of the update.          *)
LEMMA RewriteCompared ==
  ASSUME NEW name, <<name, "23514">> \in OnlyMemory, NEW s, NEW t, Pair(s, t),
         NEW id \in DOMAIN t.attempts, NEW x, NEW y, AlikeRow(x, y),
         Rewrites(s.attempts[id], x), Rewrites(t.attempts[id], y)
  PROVE  Compared(name, s, t, Ok(Put(s, "attempts", id, x), id), P!UpdateAttempt(t, id, y))
<1> DEFINE u == Put(s, "attempts", id, x)
           v == Put(t, "attempts", id, y)
<1>1. MemSound(u) /\ Later(s, u)
  BY AttemptsOf, MemRewrites
<1>2. /\ PgSound(v) /\ Later(t, v) /\ Grows(t, v) /\ t.nextSequence <= v.nextSequence
      /\ P!UpdateAttempt(t, id, y) \in {Ok(v, id), Refuse(t, "23514")}
  BY AttemptsOf, PgRewrites
<1>3. Alike(u, v)
  BY AttemptsOf, WrittenAlike DEF AttemptsTyped, Rewrites
<1>4. t.nextSequence \in Nat /\ t.nextSequence <= t.nextSequence
  BY AttemptsOf, NumbersOfPg
<1> HIDE DEF u, v
<1>5. Compared(name, s, t, Ok(u, id), Ok(v, id))
  BY <1>1, <1>2, <1>3, BothDo
<1>6. Compared(name, s, t, Ok(u, id), Refuse(t, "23514"))
  BY <1>1, <1>4, MemDoes DEF SqlState
<1> QED
  BY <1>2, <1>5, <1>6 DEF u, v
(* The write of a claim, a heartbeat, a release: version, time and lease.   *)
Moved(row, at, status, owner, expires) ==
  [row EXCEPT !.version = @ + 1, !.updated = at, !.owner = owner, !.expires = expires,
              !.status = status]

LEMMA MovedRow ==
  ASSUME NEW row, AttemptTyped(row), NEW at \in Nat, NEW status, NEW owner, NEW expires
  PROVE  LET moved == Moved(row, at, status, owner, expires)
         IN  /\ AttemptTyped(moved) /\ moved.status = status
             /\ moved.version = row.version + 1
             /\ moved.owner = owner /\ moved.expires = expires
             /\ \A c \in AttemptColumns \ {"version", "updated", "owner", "expires", "status"} :
                  moved[c] = row[c]
BY DEF Moved, AttemptTyped, AttemptColumns

LEMMA MovedAlike ==
  ASSUME NEW x, NEW y, AttemptTyped(x), AttemptTyped(y), AlikeRow(x, y),
         NEW at \in Nat, NEW then \in Nat, NEW status, NEW owner, NEW expires
  PROVE  AlikeRow(Moved(x, at, status, owner, expires), Moved(y, then, status, owner, expires))
<1> DEFINE mx == Moved(x, at, status, owner, expires)
           my == Moved(y, then, status, owner, expires)
<1> SUFFICES ASSUME NEW c \in AttemptColumns \ {"updated"} PROVE mx[c] = my[c]
  BY DEF AlikeRow
<1>1. x.version = y.version /\ x[c] = y[c]
  BY DEF AlikeRow, AttemptColumns
<1>2. CASE c \in {"version", "owner", "expires", "status"}
  BY <1>1, <1>2, MovedRow
<1>3. CASE c \notin {"version", "owner", "expires", "status"}
  BY <1>1, <1>3, MovedRow
<1> QED
  BY <1>2, <1>3

LEMMA MovedRewrites ==
  ASSUME NEW row, AttemptTyped(row), row.status \notin AttemptTerminal,
         NEW at \in Nat, NEW status, status # "accepted", NEW owner, NEW expires
  PROVE  Rewrites(row, Moved(row, at, status, owner, expires))
<1> DEFINE moved == Moved(row, at, status, owner, expires)
<1>1. /\ AttemptTyped(moved) /\ moved.status # "accepted"
      /\ \A c \in AttemptColumns \ {"version", "updated", "owner", "expires", "status"} :
           moved[c] = row[c]
  BY MovedRow
<1> HIDE DEF moved
<1>2. \A c \in {"project", "shot", "key", "corr", "prompt", "revision", "hash", "seed"} :
        moved[c] = row[c]
  BY <1>1 DEF AttemptColumns
<1>3. Rewrites(row, moved)
  BY <1>1, <1>2 DEF Rewrites
<1> QED
  BY <1>3 DEF moved

(* Such a write of an attempt that both hold.                              *)
LEMMA MoveCompared ==
  ASSUME NEW name, <<name, "23514">> \in OnlyMemory, NEW s, NEW t, Pair(s, t),
         NEW id \in DOMAIN t.attempts, t.attempts[id].status \notin AttemptTerminal,
         NEW at \in Nat, NEW then \in Nat, NEW status, status # "accepted",
         NEW owner, NEW expires
  PROVE  Compared(name, s, t,
                  Ok(Put(s, "attempts", id, Moved(s.attempts[id], at, status, owner, expires)), id),
                  P!UpdateAttempt(t, id, Moved(t.attempts[id], then, status, owner, expires)))
<1>1. /\ AttemptTyped(s.attempts[id]) /\ AttemptTyped(t.attempts[id])
      /\ AlikeRow(s.attempts[id], t.attempts[id])
      /\ s.attempts[id].status = t.attempts[id].status
  BY AttemptsOf DEF AttemptsTyped, AlikeRow, AttemptColumns
<1>2. /\ AlikeRow(Moved(s.attempts[id], at, status, owner, expires),
                  Moved(t.attempts[id], then, status, owner, expires))
      /\ Rewrites(s.attempts[id], Moved(s.attempts[id], at, status, owner, expires))
      /\ Rewrites(t.attempts[id], Moved(t.attempts[id], then, status, owner, expires))
  BY <1>1, MovedAlike, MovedRewrites
<1> QED
  BY <1>2, RewriteCompared

LEMMA AttemptsReviewCompared ==
  ASSUME NEW s, NEW t, Pair(s, t), NEW id, NEW decision \in {"accepted", "rejected"},
         NEW at \in Nat
  PROVE  Compared("attempts.review", s, t, M!AttemptsReview(s, id, decision, at),
                                           P!AttemptsReview(t, id, decision, at))
<1> DEFINE reviewed(row) == [[row EXCEPT !.version = @ + 1, !.updated = at]
                               EXCEPT !.review = decision]
           x == reviewed(s.attempts[id])
           y == reviewed(t.attempts[id])
<1>1. M!AttemptsReview(s, id, decision, at) =
        IF id \notin DOMAIN t.attempts THEN Refuse(s, "NOT_FOUND")
        ELSE Ok(Put(s, "attempts", id, x), id)
  <2>1. DOMAIN s.attempts = DOMAIN t.attempts
    BY AttemptsOf
  <2> QED
    BY <2>1 DEF M!AttemptsReview, M!Touch, Has, Refuse, Ok, Put, WithRow
<1>2. P!AttemptsReview(t, id, decision, at) =
        IF id \notin DOMAIN t.attempts THEN Refuse(t, "NOT_FOUND")
        ELSE P!UpdateAttempt(t, id, y)
  BY DEF P!AttemptsReview, P!Bump, Has, Refuse
<1>3. Compared("attempts.review", s, t, Refuse(s, "NOT_FOUND"), Refuse(t, "NOT_FOUND"))
  BY BothRefuseHere DEF RepositoryError
<1>4. ASSUME id \in DOMAIN t.attempts
      PROVE  Compared("attempts.review", s, t, Ok(Put(s, "attempts", id, x), id),
                                               P!UpdateAttempt(t, id, y))
  <2>1. AttemptTyped(s.attempts[id]) /\ AttemptTyped(t.attempts[id])
        /\ AlikeRow(s.attempts[id], t.attempts[id])
    BY <1>4, AttemptsOf DEF AttemptsTyped
  <2>2. ASSUME NEW row, AttemptTyped(row)
        PROVE  /\ AttemptTyped(reviewed(row)) /\ reviewed(row).version = row.version + 1
               /\ reviewed(row).review = decision
               /\ \A c \in AttemptColumns \ {"version", "updated", "review"} :
                    reviewed(row)[c] = row[c]
    BY <2>2 DEF AttemptTyped, AttemptColumns
  <2> HIDE DEF reviewed
  <2>3. ASSUME NEW row, AttemptTyped(row) PROVE Rewrites(row, reviewed(row))
    <3>1. \A c \in {"project", "shot", "key", "corr", "prompt", "status", "owner", "expires",
                    "queuedAt", "revision", "hash", "seed"} : reviewed(row)[c] = row[c]
      BY <2>2, <2>3 DEF AttemptColumns
    <3> QED
      BY <2>2, <2>3, <3>1 DEF Rewrites, P!Lifecycle
  <2>4. AlikeRow(x, y)
    <3> SUFFICES ASSUME NEW c \in AttemptColumns \ {"updated"} PROVE x[c] = y[c]
      BY DEF AlikeRow
    <3>1. s.attempts[id].version = t.attempts[id].version /\ s.attempts[id][c] = t.attempts[id][c]
      BY <2>1 DEF AlikeRow, AttemptColumns
    <3> QED
      BY <2>1, <2>2, <3>1
  <2>5. Rewrites(s.attempts[id], x) /\ Rewrites(t.attempts[id], y)
    BY <2>1, <2>3
  <2> HIDE DEF x, y
  <2> QED
    BY <1>4, <2>4, <2>5, RewriteCompared DEF OnlyMemory
<1> QED
  BY <1>1, <1>2, <1>3, <1>4

(* A worker holds a lease in the one store when it does in the other.      *)
LEMMA SameLeases ==
  ASSUME NEW s, NEW t, Pair(s, t), NEW worker, NEW at
  PROVE  /\ M!HoldsLease(s, worker, at) <=> P!HoldsLease(t, worker, at)
         /\ \A id : M!HeldBy(s, id, worker) <=> P!HeldBy(t, id, worker)
         /\ \A a \in DOMAIN t.attempts :
              M!Expired(s.attempts[a], at) <=> P!Expired(t.attempts[a], at)
<1>1. /\ DOMAIN s.attempts = DOMAIN t.attempts
      /\ \A a \in DOMAIN t.attempts : /\ s.attempts[a].owner = t.attempts[a].owner
                                      /\ s.attempts[a].status = t.attempts[a].status
                                      /\ s.attempts[a].expires = t.attempts[a].expires
  BY AttemptsOf DEF AlikeRow, AttemptColumns
<1>2. M!HoldsLease(s, worker, at) <=> P!HoldsLease(t, worker, at)
  BY <1>1, SameStatuses DEF M!HoldsLease, P!HoldsLease
<1>3. \A id : M!HeldBy(s, id, worker) <=> P!HeldBy(t, id, worker)
  BY <1>1, SameStatuses DEF M!HeldBy, P!HeldBy
<1>4. \A a \in DOMAIN t.attempts : M!Expired(s.attempts[a], at) <=> P!Expired(t.attempts[a], at)
  BY <1>1 DEF M!Expired, P!Expired
<1> QED
  BY <1>2, <1>3, <1>4

LEMMA AttemptsHeartbeatCompared ==
  ASSUME NEW s, NEW t, Pair(s, t), NEW id, NEW worker, NEW at \in Nat, NEW until \in Nat
  PROVE  Compared("attempts.heartbeat", s, t, M!AttemptsHeartbeat(s, id, worker, at, until),
                                              P!AttemptsHeartbeat(t, id, worker, at, until))
<1> DEFINE held == P!HeldBy(t, id, worker)
           x == Moved(s.attempts[id], until, s.attempts[id].status, s.attempts[id].owner, until)
           y == Moved(t.attempts[id], at, t.attempts[id].status, t.attempts[id].owner, until)
<1>1. held => /\ id \in DOMAIN t.attempts /\ t.attempts[id].status \in LeasedStatus
              /\ AttemptTyped(s.attempts[id]) /\ AttemptTyped(t.attempts[id])
              /\ s.attempts[id].status = t.attempts[id].status
              /\ s.attempts[id].owner = t.attempts[id].owner
  BY AttemptsOf, SameStatuses DEF P!HeldBy, AttemptsTyped, AlikeRow, AttemptColumns
<1>2. M!AttemptsHeartbeat(s, id, worker, at, until) =
        IF held THEN Ok(Put(s, "attempts", id, x), id) ELSE Ok(s, None)
  <2>1. held => x = [M!Touch(s.attempts[id], until) EXCEPT !.expires = until]
    BY <1>1 DEF Moved, M!Touch, AttemptTyped, AttemptColumns
  <2> HIDE DEF x
  <2> QED
    BY <2>1, SameLeases DEF M!AttemptsHeartbeat, Ok, Put, WithRow
<1>3. P!AttemptsHeartbeat(t, id, worker, at, until) =
        IF held THEN P!UpdateAttempt(t, id, y) ELSE Ok(t, None)
  <2>1. held => y = [P!Bump(t.attempts[id], at) EXCEPT !.expires = until]
    BY <1>1 DEF Moved, P!Bump, AttemptTyped, AttemptColumns
  <2> HIDE DEF y
  <2> QED
    BY <2>1 DEF P!AttemptsHeartbeat, Ok
<1>4. ASSUME held
      PROVE  Compared("attempts.heartbeat", s, t, Ok(Put(s, "attempts", id, x), id),
                                                  P!UpdateAttempt(t, id, y))
  <2>1. t.attempts[id].status \notin AttemptTerminal /\ t.attempts[id].status # "accepted"
    BY <1>1, <1>4 DEF LeasedStatus, AttemptTerminal
  <2>2. x = Moved(s.attempts[id], until, t.attempts[id].status, t.attempts[id].owner, until)
    BY <1>1, <1>4
  <2> DEFINE status == t.attempts[id].status
             owner == t.attempts[id].owner
  <2>3. <<"attempts.heartbeat", "23514">> \in OnlyMemory
    BY DEF OnlyMemory
  <2>4. status \notin AttemptTerminal /\ status # "accepted" /\ id \in DOMAIN t.attempts
        /\ status = t.attempts[id].status
    BY <1>1, <1>4, <2>1
  <2>5. x = Moved(s.attempts[id], until, status, owner, until)
        /\ y = Moved(t.attempts[id], at, status, owner, until)
    BY <2>2
  <2> HIDE DEF status, owner, x, y
  <2> QED
    BY <2>3, <2>4, <2>5, MoveCompared
<1> HIDE DEF held, x, y
<1> QED
  BY <1>2, <1>3, <1>4, BothRead

(* What a claimed attempt goes back to.                                    *)
Back(status) == IF status = "claimed" THEN "queued" ELSE status

LEMMA ReturnedIsMoved ==
  ASSUME NEW row, AttemptTyped(row), NEW at \in Nat
  PROVE  /\ M!Returned(row, at) = Moved(row, at, Back(row.status), None, None)
         /\ P!Unleased(P!Bump(row, at)) = Moved(row, at, Back(row.status), None, None)
BY DEF M!Returned, M!Touch, P!Unleased, P!Bump, Moved, Back, AttemptTyped, AttemptColumns

LEMMA AttemptsReleaseCompared ==
  ASSUME NEW s, NEW t, Pair(s, t), NEW id, NEW worker, NEW at \in Nat
  PROVE  Compared("attempts.release", s, t, M!AttemptsRelease(s, id, worker, at),
                                            P!AttemptsRelease(t, id, worker, at))
<1> DEFINE held == P!HeldBy(t, id, worker)
           status == Back(t.attempts[id].status)
           x == Moved(s.attempts[id], at, status, None, None)
           y == Moved(t.attempts[id], at, status, None, None)
<1>1. held => /\ id \in DOMAIN t.attempts /\ t.attempts[id].status \in LeasedStatus
              /\ AttemptTyped(s.attempts[id]) /\ AttemptTyped(t.attempts[id])
              /\ s.attempts[id].status = t.attempts[id].status
  BY AttemptsOf, SameStatuses DEF P!HeldBy, AttemptsTyped, AlikeRow, AttemptColumns
<1>2. M!AttemptsRelease(s, id, worker, at) =
        IF held THEN Ok(Put(s, "attempts", id, x), id) ELSE Ok(s, None)
  <2>1. held => x = M!Returned(s.attempts[id], at)
    BY <1>1, ReturnedIsMoved
  <2> HIDE DEF x
  <2> QED
    BY <2>1, SameLeases DEF M!AttemptsRelease, Ok, Put, WithRow
<1>3. P!AttemptsRelease(t, id, worker, at) =
        IF held THEN P!UpdateAttempt(t, id, y) ELSE Ok(t, None)
  <2>1. held => y = P!Unleased(P!Bump(t.attempts[id], at))
    BY <1>1, ReturnedIsMoved
  <2> HIDE DEF y
  <2> QED
    BY <2>1 DEF P!AttemptsRelease, Ok
<1>4. ASSUME held
      PROVE  Compared("attempts.release", s, t, Ok(Put(s, "attempts", id, x), id),
                                                P!UpdateAttempt(t, id, y))
  <2>1. t.attempts[id].status \notin AttemptTerminal /\ status # "accepted"
    BY <1>1, <1>4 DEF LeasedStatus, AttemptTerminal, Back
  <2>2. <<"attempts.release", "23514">> \in OnlyMemory
    BY DEF OnlyMemory
  <2> HIDE DEF status
  <2> QED
    BY <1>1, <1>4, <2>1, <2>2, MoveCompared
<1> HIDE DEF held, x, y
<1> QED
  BY <1>2, <1>3, <1>4, BothRead
(* The queues: the attempts a claim chooses from are the same.             *)
Claimable(s, statuses, at) ==
  {a \in DOMAIN s.attempts : s.attempts[a].status \in statuses /\ Expired(s.attempts[a], at)}

LEMMA SameQueue ==
  ASSUME NEW s, NEW t, Pair(s, t), NEW statuses, NEW at
  PROVE  Claimable(s, statuses, at) = Claimable(t, statuses, at)
<1>1. /\ DOMAIN s.attempts = DOMAIN t.attempts
      /\ \A a \in DOMAIN t.attempts : /\ s.attempts[a].status = t.attempts[a].status
                                      /\ s.attempts[a].expires = t.attempts[a].expires
  BY AttemptsOf DEF AlikeRow, AttemptColumns
<1> QED
  BY <1>1 DEF Claimable, Expired

LEMMA FirstOfQueue ==
  ASSUME NEW s, AttemptsTyped(s.attempts), NEW ids \in SUBSET DOMAIN s.attempts, ids # {},
         NEW column \in {"queuedAt", "updated"}
  PROVE  First([a \in ids |-> s.attempts[a][column]]) \in ids
<1> DEFINE times == [a \in ids |-> s.attempts[a][column]]
<1>1. DOMAIN times = ids /\ ids \subseteq Nat /\ \A a \in ids : times[a] \in Nat
  BY DEF AttemptsTyped, AttemptTyped
<1> HIDE DEF times
<1>2. First(times) \in ids
  BY <1>1, FirstIsOne
<1> QED
  BY <1>2 DEF times

LEMMA AttemptsClaimNextCompared ==
  ASSUME NEW s, NEW t, Pair(s, t), NEW worker, NEW at \in Nat, NEW until \in Nat
  PROVE  Compared("attempts.claimNext", s, t, M!AttemptsClaimNext(s, worker, at, until),
                                              P!AttemptsClaimNext(t, worker, at, until))
<1> DEFINE ids == Claimable(t, {"queued"}, at)
           busy == P!HoldsLease(t, worker, at)
           id == First([a \in ids |-> t.attempts[a].queuedAt])
           x == Moved(s.attempts[id], at, "claimed", worker, until)
           y == Moved(t.attempts[id], at, "claimed", worker, until)
<1>1. ids # {} => /\ id \in DOMAIN t.attempts /\ t.attempts[id].status = "queued"
                  /\ AttemptTyped(s.attempts[id]) /\ AttemptTyped(t.attempts[id])
  <2>1. ids # {} => id \in ids
    BY AttemptsOf, FirstOfQueue DEF Claimable
  <2> HIDE DEF id
  <2> QED
    BY <2>1, AttemptsOf DEF Claimable, AttemptsTyped
<1>2. id = First([a \in ids |-> s.attempts[a].queuedAt])
  <2>1. \A a \in ids : s.attempts[a].queuedAt = t.attempts[a].queuedAt
    BY AttemptsOf DEF Claimable, AlikeRow, AttemptColumns
  <2>2. [a \in ids |-> s.attempts[a].queuedAt] = [a \in ids |-> t.attempts[a].queuedAt]
    BY <2>1
  <2> QED
    BY <2>2
<1>3. M!AttemptsClaimNext(s, worker, at, until) =
        IF busy \/ ids = {} THEN Ok(s, None) ELSE Ok(Put(s, "attempts", id, x), id)
  <2>1. {a \in DOMAIN s.attempts : s.attempts[a].status = "queued"
                                   /\ M!Expired(s.attempts[a], at)} = ids
    <3>1. ids = Claimable(s, {"queued"}, at)
      BY SameQueue
    <3> QED
      BY <3>1 DEF Claimable, Expired, M!Expired
  <2>2. ids # {} => x = [M!Touch(s.attempts[id], at) EXCEPT !.status = "claimed",
                                                     !.owner = worker, !.expires = until]
    BY <1>1 DEF Moved, M!Touch, AttemptTyped, AttemptColumns
  <2>3. M!HoldsLease(s, worker, at) <=> busy
    BY SameLeases
  <2>4. M!First([a \in ids |-> s.attempts[a].queuedAt]) = id
    BY <1>2 DEF M!First, First
  <2> HIDE DEF ids, busy, id, x
  <2> QED
    BY <2>1, <2>2, <2>3, <2>4 DEF M!AttemptsClaimNext, Ok, Put, WithRow
<1>4. P!AttemptsClaimNext(t, worker, at, until) =
        IF busy \/ ids = {} THEN Ok(t, None) ELSE P!UpdateAttempt(t, id, y)
  <2>1. {a \in DOMAIN t.attempts : t.attempts[a].status = "queued"
                                   /\ P!Expired(t.attempts[a], at)} = ids
    BY DEF Claimable, Expired, P!Expired
  <2>2. ids # {} => y = [P!Bump(t.attempts[id], at) EXCEPT !.owner = worker, !.expires = until,
                                                           !.status = "claimed"]
    BY <1>1 DEF Moved, P!Bump, AttemptTyped, AttemptColumns
  <2>3. P!First([a \in ids |-> t.attempts[a]["queuedAt"]]) = id
    BY DEF P!First, First
  <2> HIDE DEF ids, busy, id, y
  <2>4. P!Lease(t, ids, worker, at, until, "queuedAt", "claimed") =
          IF P!HoldsLease(t, worker, at) \/ ids = {} THEN Ok(t, None) ELSE P!UpdateAttempt(t, id, y)
    BY <2>2, <2>3 DEF P!Lease, Ok
  <2> QED
    BY <2>1, <2>4 DEF P!AttemptsClaimNext, busy
<1>5. ASSUME ids # {}
      PROVE  Compared("attempts.claimNext", s, t, Ok(Put(s, "attempts", id, x), id),
                                                  P!UpdateAttempt(t, id, y))
  <2>1. t.attempts[id].status \notin AttemptTerminal
    BY <1>1, <1>5 DEF AttemptTerminal
  <2>2. <<"attempts.claimNext", "23514">> \in OnlyMemory
    BY DEF OnlyMemory
  <2> HIDE DEF id
  <2> QED
    BY <1>1, <1>5, <2>1, <2>2, MoveCompared
<1> HIDE DEF ids, busy, id, x, y
<1> QED
  BY <1>3, <1>4, <1>5, BothRead

(* The recovery's order is that of the last update, which the two stores   *)
(* note differently: they may take different attempts.                     *)
LEMMA AttemptsClaimForRecoveryCompared ==
  ASSUME NEW s, NEW t, Pair(s, t), NEW worker, NEW at \in Nat, NEW until \in Nat
  PROVE  Compared("attempts.claimForRecovery", s, t,
                  M!AttemptsClaimForRecovery(s, worker, at, until),
                  P!AttemptsClaimForRecovery(t, worker, at, until))
<1> DEFINE ids == Claimable(t, RecoveryStatus, at)
           busy == P!HoldsLease(t, worker, at)
           i == First([a \in ids |-> s.attempts[a].updated])
           j == First([a \in ids |-> t.attempts[a].updated])
           x == Moved(s.attempts[i], at, s.attempts[i].status, worker, until)
           y == Moved(t.attempts[j], at, t.attempts[j].status, worker, until)
<1>1. ids # {} => i \in ids /\ j \in ids
  BY AttemptsOf, FirstOfQueue DEF Claimable
<1>2. ASSUME NEW a \in ids
      PROVE  /\ a \in DOMAIN t.attempts /\ a \in DOMAIN s.attempts
             /\ t.attempts[a].status \in RecoveryStatus
             /\ s.attempts[a].status = t.attempts[a].status
             /\ AttemptTyped(s.attempts[a]) /\ AttemptTyped(t.attempts[a])
  BY AttemptsOf DEF Claimable, AttemptsTyped, AlikeRow, AttemptColumns
<1>3. M!AttemptsClaimForRecovery(s, worker, at, until) =
        IF busy \/ ids = {} THEN Ok(s, None) ELSE Ok(Put(s, "attempts", i, x), i)
  <2>1. {a \in DOMAIN s.attempts : s.attempts[a].status \in M!RecoveryStatus
                                   /\ M!Expired(s.attempts[a], at)} = ids
    <3>1. ids = Claimable(s, RecoveryStatus, at)
      BY SameQueue
    <3> QED
      BY <3>1, SameStatuses DEF Claimable, Expired, M!Expired
  <2>2. ids # {} => x = [M!Touch(s.attempts[i], at) EXCEPT !.owner = worker, !.expires = until]
    BY <1>1, <1>2 DEF Moved, M!Touch, AttemptTyped, AttemptColumns
  <2>3. M!HoldsLease(s, worker, at) <=> busy
    BY SameLeases
  <2>4. M!First([a \in ids |-> s.attempts[a].updated]) = i
    BY DEF M!First, First
  <2> HIDE DEF ids, busy, i, x
  <2> QED
    BY <2>1, <2>2, <2>3, <2>4 DEF M!AttemptsClaimForRecovery, Ok, Put, WithRow
<1>4. P!AttemptsClaimForRecovery(t, worker, at, until) =
        IF busy \/ ids = {} THEN Ok(t, None) ELSE P!UpdateAttempt(t, j, y)
  <2>1. {a \in DOMAIN t.attempts : t.attempts[a].status \in P!RecoveryStatus
                                   /\ P!Expired(t.attempts[a], at)} = ids
    BY SameStatuses DEF Claimable, Expired, P!Expired
  <2>2. ids # {} => y = [P!Bump(t.attempts[j], at) EXCEPT
                           !.owner = worker, !.expires = until, !.status = @]
    BY <1>1, <1>2 DEF Moved, P!Bump, AttemptTyped, AttemptColumns
  <2>3. P!First([a \in ids |-> t.attempts[a]["updated"]]) = j
    BY DEF P!First, First
  <2> HIDE DEF ids, busy, j, y
  <2>4. P!Lease(t, ids, worker, at, until, "updated", None) =
          IF P!HoldsLease(t, worker, at) \/ ids = {} THEN Ok(t, None) ELSE P!UpdateAttempt(t, j, y)
    BY <2>2, <2>3 DEF P!Lease, Ok
  <2> QED
    BY <2>1, <2>4 DEF P!AttemptsClaimForRecovery, busy
<1>5. ASSUME ids # {}
      PROVE  Compared("attempts.claimForRecovery", s, t, Ok(Put(s, "attempts", i, x), i),
                                                         P!UpdateAttempt(t, j, y))
  <2> DEFINE u == Put(s, "attempts", i, x)
             v == Put(t, "attempts", j, y)
  <2>1. \A status \in RecoveryStatus : status \notin AttemptTerminal /\ status # "accepted"
    BY DEF RecoveryStatus, LeasedStatus, AttemptTerminal
  <2>2. <<"attempts.claimForRecovery", "23514">> \in OnlyMemory
    BY DEF OnlyMemory
  <2>3. /\ i \in DOMAIN s.attempts /\ Rewrites(s.attempts[i], x)
        /\ j \in DOMAIN t.attempts /\ Rewrites(t.attempts[j], y)
    <3> HIDE DEF i, j, ids
    <3> QED
      BY <1>1, <1>2, <1>5, <2>1, MovedRewrites
  <2>4. CASE i = j
    <3>1. AlikeRow(x, y)
      <4>1. s.attempts[j].status = t.attempts[j].status
        BY <1>1, <1>2, <1>5
      <4>2. AttemptTyped(s.attempts[j]) /\ AttemptTyped(t.attempts[j])
            /\ AlikeRow(s.attempts[j], t.attempts[j])
        BY <1>1, <1>2, <1>5, AttemptsOf
      <4> HIDE DEF i, j
      <4> QED
        BY <2>4, <4>1, <4>2, MovedAlike
    <3> HIDE DEF i, j, x, y
    <3> QED
      BY <2>2, <2>3, <2>4, <3>1, RewriteCompared
  <2>5. CASE i # j
    <3>1. MemSound(u) /\ Later(s, u)
      <4> HIDE DEF i, x
      <4> QED
        BY <2>3, AttemptsOf, MemRewrites
    <3>2. /\ PgSound(v) /\ Later(t, v) /\ Grows(t, v) /\ t.nextSequence <= v.nextSequence
          /\ P!UpdateAttempt(t, j, y) \in {Ok(v, j), Refuse(t, "23514")}
      <4> HIDE DEF j, y
      <4> QED
        BY <2>3, AttemptsOf, PgRewrites
    <3>3. t.nextSequence \in Nat /\ t.nextSequence <= t.nextSequence
      BY AttemptsOf, NumbersOfPg
    <3> HIDE DEF u, v, i, j, x, y
    <3>4. Compared("attempts.claimForRecovery", s, t, Ok(u, i), Ok(v, j))
      BY <2>5, <3>1, <3>2, BothDoOtherwise DEF OtherRow
    <3>5. Compared("attempts.claimForRecovery", s, t, Ok(u, i), Refuse(t, "23514"))
      BY <2>2, <3>1, <3>3, MemDoes DEF SqlState
    <3> QED
      BY <3>2, <3>4, <3>5 DEF u
  <2> QED
    BY <2>4, <2>5
<1> HIDE DEF ids, busy, i, j, x, y
<1> QED
  BY <1>3, <1>4, <1>5, BothRead
(* The attempts whose worker is gone before it submitted them.             *)
Stale(s, at) ==
  {a \in DOMAIN s.attempts : s.attempts[a].status = "claimed"
                             /\ s.attempts[a].expires # None /\ s.attempts[a].expires < at}

Requeued(s, at) ==
  [s EXCEPT !.attempts = [a \in DOMAIN @ |->
     IF a \in Stale(s, at) THEN Moved(@[a], at, "queued", None, None) ELSE @[a]]]

LEMMA RequeuedRows ==
  ASSUME NEW s, MemSound(s), NEW at \in Nat
  PROVE  LET u == Requeued(s, at)
         IN  /\ Only(s, u, {"attempts"}) /\ AttemptsTyped(u.attempts)
             /\ DOMAIN u.attempts = DOMAIN s.attempts
             /\ \A a \in DOMAIN s.attempts :
                  /\ a \notin Stale(s, at) => u.attempts[a] = s.attempts[a]
                  /\ a \in Stale(s, at) =>
                       /\ u.attempts[a] = Moved(s.attempts[a], at, "queued", None, None)
                       /\ Rewrites(s.attempts[a], u.attempts[a])
<1> DEFINE u == Requeued(s, at)
           moved(a) == Moved(s.attempts[a], at, "queued", None, None)
<1>1. DOMAIN s = Columns /\ "attempts" \in Columns /\ AttemptsTyped(s.attempts)
  BY DEF MemSound, Typed, Columns, Table
<1>2. /\ Only(s, u, {"attempts"})
      /\ u.attempts = [a \in DOMAIN s.attempts |->
                         IF a \in Stale(s, at) THEN moved(a) ELSE s.attempts[a]]
  BY <1>1 DEF Requeued, Only
<1> HIDE DEF u
<1>3. ASSUME NEW a \in Stale(s, at) PROVE Rewrites(s.attempts[a], moved(a))
  <2>1. AttemptTyped(s.attempts[a]) /\ s.attempts[a].status \notin AttemptTerminal
    BY <1>1 DEF Stale, AttemptsTyped, AttemptTerminal
  <2> QED
    BY <2>1, MovedRewrites
<1> HIDE DEF moved
<1>4. AttemptsTyped(u.attempts)
  BY <1>1, <1>2, <1>3 DEF AttemptsTyped, Rewrites
<1>5. /\ DOMAIN u.attempts = DOMAIN s.attempts
      /\ \A a \in DOMAIN s.attempts :
           /\ a \notin Stale(s, at) => u.attempts[a] = s.attempts[a]
           /\ a \in Stale(s, at) =>
                u.attempts[a] = moved(a) /\ Rewrites(s.attempts[a], u.attempts[a])
  BY <1>2, <1>3
<1> QED
  BY <1>2, <1>4, <1>5 DEF u, moved

LEMMA AttemptsRecoverStaleCompared ==
  ASSUME NEW s, NEW t, Pair(s, t), NEW at \in Nat
  PROVE  Compared("attempts.recoverStale", s, t, M!AttemptsRecoverStale(s, at),
                                                 P!AttemptsRecoverStale(t, at))
<1> DEFINE u == Requeued(s, at)
           v == Requeued(t, at)
           stale == Stale(t, at)
           row(a) == P!Unleased(P!Bump(t.attempts[a], at))
           faults == {P!UpdateAttempt(t, a, row(a)).answer : a \in stale} \ {"ok"}
<1>1. Stale(s, at) = stale
  BY AttemptsOf DEF Stale, AlikeRow, AttemptColumns
<1>2. ASSUME NEW a \in stale
      PROVE  /\ a \in DOMAIN t.attempts
             /\ M!Returned(s.attempts[a], at) = Moved(s.attempts[a], at, "queued", None, None)
             /\ row(a) = Moved(t.attempts[a], at, "queued", None, None)
  <2>1. /\ AttemptTyped(s.attempts[a]) /\ AttemptTyped(t.attempts[a])
        /\ s.attempts[a].status = "claimed" /\ t.attempts[a].status = "claimed"
    BY AttemptsOf DEF Stale, AttemptsTyped, AlikeRow, AttemptColumns
  <2> QED
    BY <2>1, ReturnedIsMoved DEF Stale, Back
<1>3. M!AttemptsRecoverStale(s, at) = Ok(u, stale)
  <2>1. M!AttemptsRecoverStale(s, at) =
          Ok([s EXCEPT !.attempts = [a \in DOMAIN @ |->
                IF a \in Stale(s, at) THEN M!Returned(@[a], at) ELSE @[a]]], Stale(s, at))
    BY DEF M!AttemptsRecoverStale, Stale, Ok
  <2>2. [a \in DOMAIN s.attempts |->
           IF a \in Stale(s, at) THEN M!Returned(s.attempts[a], at) ELSE s.attempts[a]]
        = [a \in DOMAIN s.attempts |->
             IF a \in Stale(s, at) THEN Moved(s.attempts[a], at, "queued", None, None)
             ELSE s.attempts[a]]
    BY <1>1, <1>2
  <2> QED
    BY <1>1, <2>1, <2>2 DEF Requeued
<1>4. P!AttemptsRecoverStale(t, at) =
        IF faults # {} THEN Refuse(t, CHOOSE fault \in faults : TRUE) ELSE Ok(v, stale)
  <2>1. P!AttemptsRecoverStale(t, at) =
          IF faults # {} THEN Refuse(t, CHOOSE fault \in faults : TRUE)
          ELSE Ok([t EXCEPT !.attempts = [a \in DOMAIN @ |->
                     IF a \in stale THEN row(a) ELSE @[a]]], stale)
    BY DEF P!AttemptsRecoverStale, Stale, Ok, Refuse
  <2>2. [a \in DOMAIN t.attempts |-> IF a \in stale THEN row(a) ELSE t.attempts[a]]
        = [a \in DOMAIN t.attempts |->
             IF a \in stale THEN Moved(t.attempts[a], at, "queued", None, None)
             ELSE t.attempts[a]]
    BY <1>2
  <2> HIDE DEF faults, row
  <2> QED
    BY <2>1, <2>2 DEF Requeued
<1>5. faults \subseteq {"23514"}
  <2>1. ASSUME NEW a \in stale PROVE P!UpdateAttempt(t, a, row(a)).answer \in {"ok", "23514"}
    <3>1. Rewrites(t.attempts[a], row(a))
      BY <1>2, RequeuedRows, AttemptsOf
    <3>2. P!UpdateAttempt(t, a, row(a)) \in {Ok(Put(t, "attempts", a, row(a)), a),
                                            Refuse(t, "23514")}
      <4> HIDE DEF row
      <4> QED
        BY <1>2, <3>1, PgRewrites, AttemptsOf
    <3> HIDE DEF row
    <3> QED
      BY <3>2 DEF Ok, Refuse
  <2> QED
    BY <2>1
<1>6. MemSound(u) /\ Later(s, u) /\ AttemptsTyped(u.attempts) /\ Only(s, u, {"attempts"})
  <2>1. /\ Only(s, u, {"attempts"}) /\ AttemptsTyped(u.attempts)
        /\ DOMAIN u.attempts = DOMAIN s.attempts
        /\ \A a \in DOMAIN s.attempts :
             u.attempts[a] = s.attempts[a] \/ Rewrites(s.attempts[a], u.attempts[a])
    BY RequeuedRows, AttemptsOf
  <2> HIDE DEF u
  <2>2. Later(s, u)
    BY <2>1 DEF Later, Rewrites
  <2> QED
    BY <2>1, <2>2, AttemptsKept, AttemptsOf
<1>7. PgSound(v) /\ Later(t, v) /\ Grows(t, v) /\ t.nextSequence <= v.nextSequence
  <2>1. /\ Only(t, v, {"attempts"}) /\ AttemptsTyped(v.attempts)
        /\ DOMAIN v.attempts = DOMAIN t.attempts
        /\ \A a \in DOMAIN t.attempts :
             v.attempts[a] = t.attempts[a] \/ Rewrites(t.attempts[a], v.attempts[a])
    BY RequeuedRows, AttemptsOf
  <2> HIDE DEF v
  <2>2. Indexed(v.attempts) /\ Referenced(v) /\ Later(t, v)
    BY <2>1, RowsRewritten, AttemptsOf
  <2> QED
    BY <2>1, <2>2, AttemptsKept, AttemptsOf
<1>8. Alike(u, v)
  <2>1. /\ Only(s, u, {"attempts"}) /\ Only(t, v, {"attempts"})
        /\ DOMAIN u.attempts = DOMAIN t.attempts /\ DOMAIN v.attempts = DOMAIN t.attempts
    BY RequeuedRows, AttemptsOf
  <2>2. ASSUME NEW a \in DOMAIN t.attempts PROVE AlikeRow(u.attempts[a], v.attempts[a])
    <3>1. /\ AttemptTyped(s.attempts[a]) /\ AttemptTyped(t.attempts[a])
          /\ AlikeRow(s.attempts[a], t.attempts[a]) /\ a \in DOMAIN s.attempts
      BY AttemptsOf DEF AttemptsTyped
    <3>2. CASE a \in stale
      <4>1. /\ u.attempts[a] = Moved(s.attempts[a], at, "queued", None, None)
            /\ v.attempts[a] = Moved(t.attempts[a], at, "queued", None, None)
        BY <1>1, <3>1, <3>2, RequeuedRows, AttemptsOf
      <4> QED
        BY <3>1, <4>1, MovedAlike
    <3>3. CASE a \notin stale
      <4>1. u.attempts[a] = s.attempts[a] /\ v.attempts[a] = t.attempts[a]
        BY <1>1, <3>1, <3>3, RequeuedRows, AttemptsOf
      <4> QED
        BY <3>1, <4>1
    <3> QED
      BY <3>2, <3>3
  <2> HIDE DEF u, v
  <2>3. AlikeAttempts(u.attempts, v.attempts)
    BY <2>1, <2>2 DEF AlikeAttempts, AlikeRow
  <2> QED
    BY <2>1, <2>3, AttemptsOf DEF Alike, Only, Plain, Columns, Table
<1> HIDE DEF u, v, stale, faults
<1>9. Compared("attempts.recoverStale", s, t, Ok(u, stale), Ok(v, stale))
  BY <1>6, <1>7, <1>8, BothDo
<1>10. Compared("attempts.recoverStale", s, t, Ok(u, stale), Refuse(t, "23514"))
  <2>1. t.nextSequence \in Nat /\ t.nextSequence <= t.nextSequence
    BY AttemptsOf, NumbersOfPg
  <2> QED
    BY <1>6, <2>1, MemDoes DEF SqlState, OnlyMemory
<1>11. faults # {} => (CHOOSE fault \in faults : TRUE) = "23514"
  BY <1>5
<1> QED
  BY <1>3, <1>4, <1>9, <1>10, <1>11

LEMMA SameRevisionFits ==
  ASSUME NEW s, NEW t, Pair(s, t), NEW row
  PROVE  M!ManagedRevisionIsValid(s, row) <=> P!RevisionFits(t, row)
BY SameTables DEF M!ManagedRevisionIsValid, P!RevisionFits, M!InScope, P!InScope

(* An index that a new row does not meet, and one row more.                *)
LEMMA IndexedWith ==
  ASSUME NEW t, Indexed(t.attempts), NEW id, NEW row, P!AttemptIndexes(t, id, row)
  PROVE  Indexed(WithRow(t.attempts, id, row))
<1> DEFINE rows == WithRow(t.attempts, id, row)
<1>1. ASSUME NEW a \in DOMAIN t.attempts \ {id}
      PROVE  Distinct(t.attempts[a], row) /\ Distinct(row, t.attempts[a])
  <2>1. t.attempts[a] \in P!Others(t, "attempts", id)
    OBVIOUS
  <2> QED
    BY <2>1 DEF P!AttemptIndexes, P!UniqueAmong, Distinct
<1>2. /\ DOMAIN rows = DOMAIN t.attempts \cup {id} /\ rows[id] = row
      /\ \A a \in DOMAIN t.attempts \ {id} : rows[a] = t.attempts[a]
  BY DEF WithRow
<1> HIDE DEF rows
<1>3. ASSUME NEW a \in DOMAIN rows, NEW b \in DOMAIN rows, a # b
      PROVE  Distinct(rows[a], rows[b])
  <2>1. CASE a = id
    BY <1>1, <1>2, <1>3, <2>1
  <2>2. CASE b = id
    BY <1>1, <1>2, <1>3, <2>2
  <2>3. CASE a # id /\ b # id
    BY <1>2, <1>3, <2>3 DEF Indexed
  <2> QED
    BY <2>1, <2>2, <2>3
<1> QED
  BY <1>3 DEF rows, Indexed

LEMMA PgKeepsAttempt ==
  ASSUME NEW t, PgSound(t), NEW id \in Nat, NEW row, AttemptTyped(row),
         P!AttemptIndexes(t, id, row),
         row.project \in DOMAIN t.projects, row.shot \in DOMAIN t.shots,
         id \in DOMAIN t.attempts => P!TerminalUntouched(t.attempts[id], row)
  PROVE  LET v == Put(t, "attempts", id, row)
         IN  PgSound(v) /\ Later(t, v) /\ Grows(t, v) /\ t.nextSequence <= v.nextSequence
<1> DEFINE v == Put(t, "attempts", id, row)
<1>1. /\ DOMAIN t = Columns /\ AttemptsTyped(t.attempts) /\ MemSound(t)
      /\ Indexed(t.attempts) /\ Referenced(t)
  BY DEF PgSound, MemSound, Typed
<1>2. Only(t, v, {"attempts"}) /\ v.attempts = WithRow(t.attempts, id, row)
      /\ AttemptsTyped(v.attempts)
  BY <1>1, AttemptWritten
<1> HIDE DEF v
<1>3. Indexed(v.attempts)
  BY <1>1, <1>2, IndexedWith
<1>4. Referenced(v)
  <2>1. v.projects = t.projects /\ v.shots = t.shots
    BY <1>2 DEF Only, Columns, Table
  <2> QED
    BY <1>1, <1>2, <2>1 DEF Referenced, WithRow
<1>5. Later(t, v)
  BY <1>2, SameStatuses DEF Later, WithRow, P!TerminalUntouched
<1>6. PgSound(v) /\ Grows(t, v) /\ t.nextSequence <= v.nextSequence
  BY <1>1, <1>2, <1>3, <1>4, AttemptsKept
<1> QED
  BY <1>5, <1>6 DEF v

LEMMA MemKeepsAttempt ==
  ASSUME NEW s, MemSound(s), NEW id \in Nat, NEW row, AttemptTyped(row),
         id \in DOMAIN s.attempts => s.attempts[id].status \notin AttemptTerminal
  PROVE  MemSound(Put(s, "attempts", id, row)) /\ Later(s, Put(s, "attempts", id, row))
<1> DEFINE u == Put(s, "attempts", id, row)
<1>1. DOMAIN s = Columns /\ AttemptsTyped(s.attempts)
  BY DEF MemSound, Typed
<1>2. Only(s, u, {"attempts"}) /\ u.attempts = WithRow(s.attempts, id, row)
      /\ AttemptsTyped(u.attempts)
  BY <1>1, AttemptWritten
<1> HIDE DEF u
<1>3. MemSound(u)
  BY <1>2, AttemptsKept
<1>4. Later(s, u)
  BY <1>2 DEF Later, WithRow
<1> QED
  BY <1>3, <1>4 DEF u

(* A new attempt of a shot there is.                                       *)
LEMMA AttemptsCreateCompared ==
  ASSUME NEW s, NEW t, Pair(s, t), NEW id \in Nat, NEW row, AttemptTyped(row),
         row.status # "accepted",
         row.project \in DOMAIN t.projects, row.shot \in DOMAIN t.shots
  PROVE  Compared("attempts.create", s, t, M!AttemptsCreate(s, id, row),
                                           P!AttemptsCreate(t, id, row))
<1> DEFINE fits == P!RevisionFits(t, row)
           new == id \notin DOMAIN t.attempts /\ P!AttemptIndexes(t, id, row)
           u == Put(s, "attempts", id, row)
           v == Put(t, "attempts", id, row)
<1>1. M!AttemptIsNew(s, id, row) <=> new
  <2>1. M!AttemptIsNew(s, id, row) <=>
          /\ id \notin DOMAIN s.attempts
          /\ \A a \in DOMAIN s.attempts \ {id} :
               /\ s.attempts[a].key # row.key /\ s.attempts[a].corr # row.corr
               /\ row.prompt = None \/ s.attempts[a].prompt # row.prompt
    BY DEF M!AttemptIsNew
  <2>2. P!AttemptIndexes(t, id, row) <=>
          \A a \in DOMAIN t.attempts \ {id} :
            /\ t.attempts[a].key # row.key /\ t.attempts[a].corr # row.corr
            /\ row.prompt = None \/ t.attempts[a].prompt # row.prompt
    BY DEF P!AttemptIndexes, P!UniqueAmong
  <2>3. /\ DOMAIN s.attempts = DOMAIN t.attempts
        /\ \A a \in DOMAIN t.attempts : /\ s.attempts[a].key = t.attempts[a].key
                                        /\ s.attempts[a].corr = t.attempts[a].corr
                                        /\ s.attempts[a].prompt = t.attempts[a].prompt
    BY AttemptsOf DEF AlikeRow, AttemptColumns
  <2> QED
    BY <2>1, <2>2, <2>3
<1>2. M!AttemptsCreate(s, id, row) =
        IF ~ fits THEN Refuse(s, "SCOPE_VIOLATION")
        ELSE IF ~ new THEN Refuse(s, "UNIQUE_VIOLATION") ELSE Ok(u, id)
  BY <1>1, SameRevisionFits DEF M!AttemptsCreate, Refuse, Ok, Put, WithRow
<1>3. P!AttemptsCreate(t, id, row) =
        IF ~ fits THEN Refuse(t, "23514")
        ELSE IF ~ new THEN Refuse(t, "23505") ELSE Ok(v, id)
  <2>1. P!References(t, "projects", {row.project}) /\ P!References(t, "shots", {row.shot})
    BY DEF P!References
  <2> DEFINE fault == P!AttemptFault(t, id, row)
  <2>2. fault = IF ~ fits THEN "23514"
                ELSE IF ~ P!AttemptIndexes(t, id, row) THEN "23505" ELSE None
    BY <2>1 DEF P!AttemptFault
  <2>3. P!AttemptsCreate(t, id, row) =
          IF fits /\ id \in DOMAIN t.attempts THEN Refuse(t, "23505")
          ELSE IF fault = None THEN Ok(v, id) ELSE Refuse(t, fault)
    BY DEF P!AttemptsCreate, Refuse, Ok, Put, WithRow
  <2> HIDE DEF fault, fits, v
  <2> QED
    BY <2>2, <2>3
<1>4. /\ Compared("attempts.create", s, t, Refuse(s, "SCOPE_VIOLATION"), Refuse(t, "23514"))
      /\ Compared("attempts.create", s, t, Refuse(s, "UNIQUE_VIOLATION"), Refuse(t, "23505"))
  BY BothRefuseHere DEF RepositoryError, SqlState
<1>5. ASSUME new PROVE Compared("attempts.create", s, t, Ok(u, id), Ok(v, id))
  <2>1. MemSound(u) /\ Later(s, u)
    BY <1>5, AttemptsOf, MemKeepsAttempt
  <2>2. PgSound(v) /\ Later(t, v) /\ Grows(t, v) /\ t.nextSequence <= v.nextSequence
    BY <1>5, AttemptsOf, PgKeepsAttempt
  <2>3. Alike(u, v)
    BY WrittenAlike DEF AlikeRow
  <2> HIDE DEF u, v
  <2> QED
    BY <2>1, <2>2, <2>3, BothDo
<1> HIDE DEF fits, new, u, v
<1> QED
  BY <1>2, <1>3, <1>4, <1>5

(* A write that keeps the attempt's scope.                                 *)
LEMMA AttemptsUpdateCompared ==
  ASSUME NEW s, NEW t, Pair(s, t), NEW id, NEW row, AttemptTyped(row), NEW expected,
         id \in DOMAIN t.attempts =>
           InScope(row, t.attempts[id].project, t.attempts[id].shot)
  PROVE  Compared("attempts.update", s, t, M!AttemptsUpdate(s, id, row, expected),
                                           P!AttemptsUpdate(t, id, row, expected))
<1> DEFINE found == id \in DOMAIN t.attempts /\ t.attempts[id].version = expected
           open == /\ t.attempts[id].status \notin AttemptTerminal
                   /\ M!ExecutionKept(t.attempts[id], row)
           u == Put(s, "attempts", id, row)
           v == Put(t, "attempts", id, row)
           p == P!UpdateAttempt(t, id, row)
<1>1. DOMAIN s.attempts = DOMAIN t.attempts
      /\ (id \in DOMAIN t.attempts => AlikeRow(s.attempts[id], t.attempts[id]))
  BY AttemptsOf
<1>2. M!AttemptsUpdate(s, id, row, expected) =
        IF ~ found THEN Refuse(s, "OPTIMISTIC_CONFLICT")
        ELSE IF ~ open THEN Refuse(s, "INVALID_ARGUMENT") ELSE Ok(u, id)
  <2>1. id \in DOMAIN t.attempts =>
          /\ s.attempts[id].version = t.attempts[id].version
          /\ s.attempts[id].status = t.attempts[id].status
          /\ s.attempts[id].revision = t.attempts[id].revision
          /\ s.attempts[id].seed = t.attempts[id].seed
          /\ s.attempts[id].hash = t.attempts[id].hash
    BY <1>1 DEF AlikeRow, AttemptColumns
  <2>2. found <=> Has(s, "attempts", id) /\ s.attempts[id].version = expected
    BY <1>1, <2>1 DEF Has
  <2>3. found => (open <=> ~ (\/ s.attempts[id].status \in M!AttemptTerminal
                             \/ ~ M!ExecutionKept(s.attempts[id], row)))
    BY <2>1, SameStatuses DEF M!ExecutionKept
  <2> HIDE DEF found, open
  <2> QED
    BY <2>2, <2>3 DEF M!AttemptsUpdate, Has, Refuse, Ok, Put, WithRow
<1>3. P!AttemptsUpdate(t, id, row, expected) =
        IF ~ found THEN Refuse(t, "OPTIMISTIC_CONFLICT") ELSE p
  BY DEF P!AttemptsUpdate, Refuse
<1>4. ASSUME found
      PROVE  \/ p = Refuse(t, "23514") \/ p = Refuse(t, "23505")
             \/ p = Refuse(t, "55000") /\ ~ open
             \/ p = Ok(v, id) /\ P!AttemptIndexes(t, id, row)
                /\ P!TerminalUntouched(t.attempts[id], row)
  <2> DEFINE fits == P!RevisionFits(t, row)
             indexed == P!AttemptIndexes(t, id, row)
             kept == P!ExecutionUnchanged(t.attempts[id], row)
             untouched == P!TerminalUntouched(t.attempts[id], row)
             fault == P!AttemptFault(t, id, row)
  <2>1. open => kept /\ untouched
    BY SameStatuses DEF M!ExecutionKept, P!ExecutionUnchanged, P!TerminalUntouched
  <2>2. P!References(t, "projects", {row.project}) /\ P!References(t, "shots", {row.shot})
    BY <1>4, AttemptsOf DEF P!References, Referenced, InScope
  <2>3. fault = IF ~ fits THEN "23514" ELSE IF ~ indexed THEN "23505" ELSE None
    BY <2>2 DEF P!AttemptFault
  <2>4. p = IF ~ fits THEN Refuse(t, "23514")
            ELSE IF ~ kept \/ ~ untouched THEN Refuse(t, "55000")
            ELSE IF fault = None THEN Ok(v, id) ELSE Refuse(t, fault)
    BY DEF P!UpdateAttempt, Refuse, Ok, Put, WithRow
  <2> HIDE DEF fits, indexed, kept, untouched, fault, open, p, v
  <2>5. \/ p = Refuse(t, "23514") \/ p = Refuse(t, "23505")
        \/ p = Refuse(t, "55000") /\ ~ open
        \/ p = Ok(v, id) /\ indexed /\ untouched
    BY <2>1, <2>3, <2>4
  <2> QED
    BY <2>5 DEF indexed, untouched
<1>5. t.nextSequence \in Nat /\ t.nextSequence <= t.nextSequence
  BY AttemptsOf, NumbersOfPg
<1>6. ASSUME found, open
      PROVE  /\ MemSound(u) /\ Later(s, u)
             /\ Compared("attempts.update", s, t, Ok(u, id), Refuse(t, "23514"))
             /\ Compared("attempts.update", s, t, Ok(u, id), Refuse(t, "23505"))
  <2>1. id \in Nat /\ id \in DOMAIN s.attempts /\ s.attempts[id].status \notin AttemptTerminal
    BY <1>1, <1>6, AttemptsOf DEF AttemptsTyped, AlikeRow, AttemptColumns
  <2>2. MemSound(u) /\ Later(s, u)
    BY <2>1, AttemptsOf, MemKeepsAttempt
  <2> HIDE DEF u
  <2> QED
    BY <1>5, <2>2, MemDoes DEF SqlState, OnlyMemory
<1>7. ASSUME found, P!AttemptIndexes(t, id, row), P!TerminalUntouched(t.attempts[id], row)
      PROVE  /\ open => Compared("attempts.update", s, t, Ok(u, id), Ok(v, id))
             /\ Compared("attempts.update", s, t, Refuse(s, "INVALID_ARGUMENT"), Ok(v, id))
  <2>1. id \in Nat /\ row.project \in DOMAIN t.projects /\ row.shot \in DOMAIN t.shots
    BY <1>7, AttemptsOf DEF AttemptsTyped, Referenced, InScope
  <2>2. PgSound(v) /\ Later(t, v) /\ Grows(t, v) /\ t.nextSequence <= v.nextSequence
    BY <1>7, <2>1, AttemptsOf, PgKeepsAttempt
  <2>3. Alike(u, v)
    BY <2>1, WrittenAlike DEF AlikeRow
  <2> HIDE DEF u, v, open
  <2>4. open => Compared("attempts.update", s, t, Ok(u, id), Ok(v, id))
    BY <1>6, <1>7, <2>2, <2>3, BothDo
  <2>5. Compared("attempts.update", s, t, Refuse(s, "INVALID_ARGUMENT"), Ok(v, id))
    BY <2>2, PgDoes DEF RepositoryError, OnlyPostgres
  <2> QED
    BY <2>4, <2>5
<1>8. /\ Compared("attempts.update", s, t, Refuse(s, "OPTIMISTIC_CONFLICT"),
                                           Refuse(t, "OPTIMISTIC_CONFLICT"))
      /\ \A d \in SqlState :
           Compared("attempts.update", s, t, Refuse(s, "INVALID_ARGUMENT"), Refuse(t, d))
  BY BothRefuseHere DEF RepositoryError
<1>9. {"23514", "23505", "55000"} \subseteq SqlState
  BY DEF SqlState
<1> HIDE DEF found, open, u, v, p
<1>10. found => Compared("attempts.update", s, t,
                         IF ~ open THEN Refuse(s, "INVALID_ARGUMENT") ELSE Ok(u, id), p)
  BY <1>4, <1>6, <1>7, <1>8, <1>9
<1> QED
  BY <1>2, <1>3, <1>8, <1>10
-----------------------------------------------------------------------------
(* The mutations of drafts and revisions, under their keys.                *)

DoneKey(operation, request, id) ==
  [operation |-> operation, request |-> request, resource |-> id]

(* The row and its completed key are what the mutation changes.            *)
Mutated(s, u, c, id, row, key, done) ==
  /\ Only(s, u, {"keys", c})
  /\ u.keys = WithRow(s.keys, key, done)
  /\ u[c] = WithRow(s[c], id, row)

Mutable == {"drafts", "revisions"}

(* The store a mutation leaves: the key reserved, the row written, the key  *)
(* completed.                                                              *)
MutatedStore(s, c, id, row, key, operation, request) ==
  [Put(Put(s, "keys", key, KeyRow(operation, request)), c, id, row)
     EXCEPT !.keys[key].resource = id]

LEMMA MutatedStoreIs ==
  ASSUME NEW s, DOMAIN s = Columns, NEW c \in Mutable, NEW id, NEW row, NEW key,
         NEW operation, NEW request
  PROVE  Mutated(s, MutatedStore(s, c, id, row, key, operation, request), c, id, row, key,
                 DoneKey(operation, request, id))
<1> DEFINE open == KeyRow(operation, request)
           reserved == Put(s, "keys", key, open)
           written == Put(reserved, c, id, row)
           u == [written EXCEPT !.keys[key].resource = id]
<1>1. "keys" \in Columns /\ c \in Columns /\ c # "keys"
  BY DEF Columns, Table, Mutable
<1>2. /\ DOMAIN reserved = Columns /\ reserved.keys = WithRow(s.keys, key, open)
      /\ \A d \in Columns \ {"keys"} : reserved[d] = s[d]
  BY <1>1, TableWritten
<1> HIDE DEF reserved
<1>3. /\ DOMAIN written = Columns /\ written[c] = WithRow(reserved[c], id, row)
      /\ \A d \in Columns \ {c} : written[d] = reserved[d]
  BY <1>1, <1>2, TableWritten
<1> HIDE DEF written
<1>4. /\ DOMAIN u = Columns /\ u.keys = [written.keys EXCEPT ![key].resource = id]
      /\ \A d \in Columns \ {"keys"} : u[d] = written[d]
  BY <1>1, <1>3
<1>5. u.keys = WithRow(s.keys, key, DoneKey(operation, request, id))
  <2>1. written.keys = WithRow(s.keys, key, open)
    BY <1>1, <1>2, <1>3
  <2>2. [open EXCEPT !.resource = id] = DoneKey(operation, request, id)
    BY DEF KeyRow, DoneKey
  <2> HIDE DEF open, u
  <2>3. WithRow(s.keys, key, open)[key] = open
    BY DEF WithRow
  <2>4. u.keys = [WithRow(s.keys, key, open) EXCEPT ![key] = [open EXCEPT !.resource = id]]
    BY <1>4, <2>1, <2>3
  <2> QED
    BY <2>2, <2>4 DEF WithRow
<1> HIDE DEF u
<1>6. Mutated(s, u, c, id, row, key, DoneKey(operation, request, id))
  BY <1>1, <1>2, <1>3, <1>4, <1>5 DEF Mutated, Only
<1> QED
  BY <1>6 DEF u, written, reserved, open, MutatedStore

(* Completing a write: the key names the row, or the refusal stays.        *)
LEMMA CompletingIs ==
  ASSUME NEW key
  PROVE  /\ \A write : M!Completed(write, key) = P!Completing(write, key)
         /\ \A s, code : code # "ok" => P!Completing(Refuse(s, code), key) = Refuse(s, code)
<1>1. ASSUME NEW write PROVE M!Completed(write, key) = P!Completing(write, key)
  BY SameKeyCalls DEF M!Completed, P!Completing
<1>2. ASSUME NEW s, NEW code, code # "ok"
      PROVE  P!Completing(Refuse(s, code), key) = Refuse(s, code)
  BY <1>2 DEF P!Completing, Refuse
<1> QED
  BY <1>1, <1>2

LEMMA CompletingWrites ==
  ASSUME NEW s, DOMAIN s = Columns, NEW c \in Mutable, NEW id, NEW row, NEW key,
         NEW operation, NEW request
  PROVE  P!Completing(Ok(Put(Put(s, "keys", key, KeyRow(operation, request)), c, id, row), id),
                      key)
           = Ok(MutatedStore(s, c, id, row, key, operation, request), id)
<1> DEFINE open == KeyRow(operation, request)
           reserved == Put(s, "keys", key, open)
           written == Put(reserved, c, id, row)
<1>1. "keys" \in Columns /\ c \in Columns /\ c # "keys"
  BY DEF Columns, Table, Mutable
<1>2. DOMAIN reserved = Columns /\ reserved.keys = WithRow(s.keys, key, open)
  BY <1>1, TableWritten
<1> HIDE DEF reserved
<1>3. written.keys = reserved.keys
  BY <1>1, <1>2, TableWritten
<1> HIDE DEF written
<1>4. key \in DOMAIN written.keys /\ written.keys[key].resource = None
  <2>1. open.resource = None
    BY DEF KeyRow
  <2>2. key \in DOMAIN WithRow(s.keys, key, open) /\ WithRow(s.keys, key, open)[key] = open
    BY DEF WithRow
  <2> HIDE DEF open
  <2> QED
    BY <1>2, <1>3, <2>1, <2>2
<1>5. P!IdempotencyComplete(written, key, id) = Ok([written EXCEPT !.keys[key].resource = id], None)
  BY <1>4 DEF P!IdempotencyComplete, Ok
<1>6. P!Completing(Ok(written, id), key) = Ok([written EXCEPT !.keys[key].resource = id], id)
  BY <1>5 DEF P!Completing, Ok
<1> QED
  BY <1>6 DEF written, reserved, MutatedStore
(* The rows of the table a mutation writes keep their scopes, so earlier    *)
(* keys still name a row where they should, and the new key names its own.  *)
LEMMA MutatedKept ==
  ASSUME NEW s, NEW u, MemSound(s), NEW operation \in MutationOps, NEW request,
         RequestIsWhole(operation, request),
         NEW c, c = IF operation \in DraftOps THEN "drafts" ELSE "revisions",
         NEW id, NEW row, {"project", "shot"} \subseteq DOMAIN row,
         InScope(row, request[2].project, request[2].shot),
         id \in DOMAIN s[c] => InScope(row, s[c][id].project, s[c][id].shot),
         NEW key, key \notin DOMAIN s.keys,
         Mutated(s, u, c, id, row, key, DoneKey(operation, request, id))
  PROVE  /\ MemSound(u) /\ Later(s, u)
         /\ PgSound(s) /\ ShotIn(s, row.project, row.shot) /\ OneDraftEach(u.drafts) =>
              PgSound(u) /\ Grows(s, u) /\ s.nextSequence <= u.nextSequence
<1> DEFINE done == DoneKey(operation, request, id)
<1>1. /\ u.attempts = s.attempts /\ u.outbox = s.outbox /\ u.events = s.events
      /\ u.nextSequence = s.nextSequence /\ u.projects = s.projects /\ u.shots = s.shots
      /\ c = "drafts" => u.revisions = s.revisions
      /\ c = "revisions" => u.drafts = s.drafts
      /\ DOMAIN u = Columns /\ c \in {"drafts", "revisions"}
  BY DEF Mutated, Only, Columns, Table
<1>2. /\ done.operation = operation /\ done.request = request /\ done.resource = id
      /\ DOMAIN u.keys = DOMAIN s.keys \cup {key} /\ u.keys[key] = done
      /\ \A k \in DOMAIN s.keys : u.keys[k] = s.keys[k]
  BY DEF Mutated, DoneKey, WithRow
<1>3. /\ DOMAIN u[c] = DOMAIN s[c] \cup {id} /\ u[c][id] = row
      /\ \A r \in DOMAIN s[c] : r # id => u[c][r] = s[c][r]
  BY DEF Mutated, WithRow
<1> HIDE DEF done
<1>4. \A r \in DOMAIN s[c] : InScope(u[c][r], s[c][r].project, s[c][r].shot)
  BY <1>3 DEF InScope
<1>5. ScopesTyped(u.drafts) /\ ScopesTyped(u.revisions)
  <2>1. ScopesTyped(s.drafts) /\ ScopesTyped(s.revisions)
    BY DEF MemSound, Typed
  <2>2. ScopesTyped(u[c])
    BY <1>1, <1>3, <2>1 DEF ScopesTyped
  <2> QED
    BY <1>1, <2>1, <2>2
<1>6. Typed(u)
  BY <1>1, <1>5 DEF MemSound, Typed
<1>7. \A r, q : /\ Lies(s.drafts, r, q) => Lies(u.drafts, r, q)
                /\ Lies(s.revisions, r, q) => Lies(u.revisions, r, q)
  <2>1. \A r, q : Lies(s[c], r, q) => Lies(u[c], r, q)
    BY <1>3, <1>4 DEF Lies, InScope
  <2> QED
    BY <1>1, <2>1
<1>8. KeysNameRows(u)
  <2> SUFFICES ASSUME NEW k \in DOMAIN u.keys, u.keys[k].resource # None
               PROVE  KeyNamesRow(u, u.keys[k])
    BY DEF KeysNameRows
  <2>1. CASE k = key
    <3>1. Lies(u[c], id, request[2])
      BY <1>3 DEF Lies
    <3>2. operation = RevisionOp => operation \notin DraftOps
      BY DEF RevisionOp, DraftOps
    <3>3. /\ operation \in DraftOps => Lies(u.drafts, id, request[2])
          /\ operation = RevisionOp => Lies(u.revisions, id, request[2])
      BY <3>1, <3>2
    <3> QED
      BY <1>2, <2>1, <3>3 DEF KeyNamesRow
  <2>2. CASE k # key
    <3>1. k \in DOMAIN s.keys /\ u.keys[k] = s.keys[k]
      BY <1>2, <2>2
    <3>2. KeyNamesRow(s, s.keys[k])
      BY <3>1 DEF MemSound, KeysNameRows
    <3> QED
      BY <1>7, <3>1, <3>2 DEF KeyNamesRow
  <2> QED
    BY <2>1, <2>2
<1>9. Later(s, u) /\ Grows(s, u)
  BY <1>1 DEF Later, Grows
<1>10. ASSUME PgSound(s), ShotIn(s, row.project, row.shot), OneDraftEach(u.drafts)
       PROVE  PgSound(u)
  <2>1. Indexed(u.attempts)
    BY <1>1, <1>10 DEF PgSound
  <2>2. Referenced(u)
    BY <1>1, <1>10 DEF PgSound, Referenced
  <2>3. KeysAreScoped(u)
    <3> SUFFICES ASSUME NEW k \in DOMAIN u.keys, u.keys[k].resource # None
                 PROVE  KeyIsScoped(u, u.keys[k])
      BY DEF KeysAreScoped
    <3>1. CASE k = key
      BY <1>1, <1>2, <1>10, <3>1 DEF KeyIsScoped, ShotIn, InScope
    <3>2. CASE k # key
      <4>1. k \in DOMAIN s.keys /\ u.keys[k] = s.keys[k]
        BY <1>2, <3>2
      <4>2. KeyIsScoped(s, s.keys[k])
        BY <1>10, <4>1 DEF PgSound, KeysAreScoped
      <4> QED
        BY <1>1, <4>1, <4>2 DEF KeyIsScoped, ShotIn
    <3> QED
      BY <3>1, <3>2
  <2> QED
    BY <1>6, <1>8, <1>10, <2>1, <2>2, <2>3 DEF PgSound, MemSound
<1>11. s.nextSequence <= u.nextSequence
  BY <1>1 DEF MemSound, Typed, EventsNumbered
<1> QED
  BY <1>6, <1>8, <1>9, <1>10, <1>11 DEF MemSound

LEMMA MutatedAlike ==
  ASSUME NEW s, NEW t, Pair(s, t), NEW c \in Mutable, NEW id, NEW row, NEW key, NEW done,
         NEW u, NEW v, Mutated(s, u, c, id, row, key, done), Mutated(t, v, c, id, row, key, done)
  PROVE  Alike(u, v)
<1>1. s.keys = t.keys /\ s[c] = t[c] /\ Alike(s, t)
  BY SameTables DEF Mutable, Pair
<1>2. u.keys = v.keys /\ u[c] = v[c]
  BY <1>1 DEF Mutated
<1>3. \A d \in Plain : u[d] = v[d]
  BY <1>1, <1>2 DEF Alike, Mutated, Only, Plain
<1>4. \A d \in {"attempts", "outbox", "events"} : u[d] = s[d] /\ v[d] = t[d]
  BY DEF Mutated, Only, Mutable, Columns, Table
<1> QED
  BY <1>1, <1>3, <1>4, AlikeElsewhere

(* Both carry the mutation out.                                            *)
LEMMA BothMutate ==
  ASSUME NEW name, NEW s, NEW t, Pair(s, t), NEW operation \in MutationOps, NEW request,
         RequestIsWhole(operation, request),
         NEW c, c = IF operation \in DraftOps THEN "drafts" ELSE "revisions",
         NEW id, NEW row, {"project", "shot"} \subseteq DOMAIN row,
         InScope(row, request[2].project, request[2].shot),
         id \in DOMAIN t[c] => InScope(row, t[c][id].project, t[c][id].shot),
         NEW key, key \notin DOMAIN t.keys, ShotIn(t, row.project, row.shot),
         c = "drafts" => OneDraftEach(WithRow(t.drafts, id, row))
  PROVE  Compared(name, s, t, Ok(MutatedStore(s, c, id, row, key, operation, request), id),
                              Ok(MutatedStore(t, c, id, row, key, operation, request), id))
<1> DEFINE u == MutatedStore(s, c, id, row, key, operation, request)
           v == MutatedStore(t, c, id, row, key, operation, request)
           done == DoneKey(operation, request, id)
<1>1. /\ c \in Mutable /\ MemSound(s) /\ MemSound(t) /\ PgSound(t)
      /\ DOMAIN s = Columns /\ DOMAIN t = Columns /\ s.keys = t.keys /\ s[c] = t[c]
  BY SameTables DEF Mutable, Pair, PgSound, MemSound, Typed
<1>2. Mutated(s, u, c, id, row, key, done) /\ Mutated(t, v, c, id, row, key, done)
  BY <1>1, MutatedStoreIs
<1> HIDE DEF u, v
<1>3. MemSound(u) /\ Later(s, u)
  BY <1>1, <1>2, MutatedKept
<1>4. OneDraftEach(v.drafts)
  <2>1. CASE c = "drafts"
    BY <1>2, <2>1 DEF Mutated
  <2>2. CASE c # "drafts"
    BY <1>1, <1>2, <2>2 DEF Mutated, Only, PgSound, Columns, Table
  <2> QED
    BY <2>1, <2>2
<1>5. PgSound(v) /\ Later(t, v) /\ Grows(t, v) /\ t.nextSequence <= v.nextSequence
  BY <1>1, <1>2, <1>4, MutatedKept
<1>6. Alike(u, v)
  BY <1>1, <1>2, MutatedAlike
<1>7. Compared(name, s, t, Ok(u, id), Ok(v, id))
  BY <1>3, <1>5, <1>6, BothDo
<1> QED
  BY <1>7 DEF u, v
(* The reservation of a mutation's key, in either store.                   *)
Replays(s, key, operation, request) ==
  /\ key \in DOMAIN s.keys
  /\ s.keys[key].operation = operation /\ s.keys[key].request = request
  /\ s.keys[key].resource # None

LEMMA ReservedIs ==
  ASSUME NEW s, NEW key, NEW operation, NEW request,
         NEW got, got = P!IdempotencyReserve(s, key, operation, request)
  PROVE  /\ M!IdempotencyReserve(s, key, operation, request) = got
         /\ M!Fresh(got) <=> key \notin DOMAIN s.keys
         /\ P!Fresh(got) <=> key \notin DOMAIN s.keys
         /\ M!Replayed(got) <=> Replays(s, key, operation, request)
         /\ P!Replayed(got) <=> Replays(s, key, operation, request)
         /\ key \notin DOMAIN s.keys => got.s = Put(s, "keys", key, KeyRow(operation, request))
         /\ Replays(s, key, operation, request) => got.value = s.keys[key].resource
<1>1. M!IdempotencyReserve(s, key, operation, request) = got
  BY SameKeyCalls
<1>2. /\ M!Fresh(got) <=> got.answer = "reserved"
      /\ P!Fresh(got) <=> got.answer = "reserved"
      /\ M!Replayed(got) <=> got.answer = "replay"
      /\ P!Replayed(got) <=> got.answer = "replay"
  BY DEF M!Fresh, P!Fresh, M!Replayed, P!Replayed
<1>3. CASE key \notin DOMAIN s.keys
  BY <1>1, <1>2, <1>3, Reservation DEF Replays
<1>4. CASE key \in DOMAIN s.keys
  BY <1>1, <1>2, <1>4, Reservation DEF Replays
<1> QED
  BY <1>3, <1>4

LEMMA ReservedStore ==
  ASSUME NEW s, DOMAIN s = Columns, NEW key, NEW row, NEW r, r = Put(s, "keys", key, row)
  PROVE  /\ DOMAIN r = Columns
         /\ r.projects = s.projects /\ r.shots = s.shots /\ r.revisions = s.revisions
         /\ r.drafts = s.drafts /\ r.nextSequence = s.nextSequence
<1>1. "keys" \in Columns /\ Columns = Table \cup {"tenant", "nextSequence"}
  BY DEF Columns, Table
<1>2. DOMAIN r = Columns /\ \A d \in Columns \ {"keys"} : r[d] = s[d]
  BY <1>1, TableWritten
<1> QED
  BY <1>1, <1>2 DEF Table

(* A completed key that is sent again with its request.                    *)
LEMMA ReplayIsSound ==
  ASSUME NEW t, PgSound(t), NEW key, NEW operation \in MutationOps, NEW request,
         Replays(t, key, operation, request)
  PROVE  LET row == request[2]
             id  == t.keys[key].resource
         IN  /\ ShotIn(t, row.project, row.shot)
             /\ operation \in DraftOps =>
                  /\ Lies(t.drafts, id, row)
                  /\ {d \in DOMAIN t.drafts : InScope(t.drafts[d], row.project, row.shot)} = {id}
             /\ operation = RevisionOp => Lies(t.revisions, id, row)
<1> DEFINE row == request[2]
           id  == t.keys[key].resource
<1>1. KeyNamesRow(t, t.keys[key]) /\ KeyIsScoped(t, t.keys[key]) /\ OneDraftEach(t.drafts)
  BY DEF PgSound, MemSound, KeysNameRows, KeysAreScoped, Replays
<1>2. /\ ShotIn(t, row.project, row.shot)
      /\ operation \in DraftOps => Lies(t.drafts, id, row)
      /\ operation = RevisionOp => Lies(t.revisions, id, row)
  BY <1>1 DEF KeyNamesRow, KeyIsScoped, Replays
<1>3. ASSUME Lies(t.drafts, id, row)
      PROVE  {d \in DOMAIN t.drafts : InScope(t.drafts[d], row.project, row.shot)} = {id}
  BY <1>1, <1>3 DEF Lies, OneDraftEach, InScope
<1> QED
  BY <1>2, <1>3

-----------------------------------------------------------------------------
(* The writes of the drafts, as both stores decide them.                   *)

Based(s, id, row) == id = None \/ Lies(s.revisions, id, row)

Rival(s, id, row) ==
  \E d \in DOMAIN s.drafts \ {id} : InScope(s.drafts[d], row.project, row.shot)

LEMMA ScopeWords ==
  /\ \A s, project, shot : /\ M!ShotInScope(s, project, shot) <=> ShotIn(s, project, shot)
                           /\ P!ShotInProject(s, project, shot) <=> ShotIn(s, project, shot)
  /\ \A s, id, row : /\ P!RevisionInScope(s, id, row) <=> Based(s, id, row)
                     /\ M!RevisionOfShot(s, id, row.project, row.shot) <=> Lies(s.revisions, id, row)
  /\ \A row, project, shot : /\ M!InScope(row, project, shot) <=> InScope(row, project, shot)
                             /\ P!InScope(row, project, shot) <=> InScope(row, project, shot)
  /\ \A row : /\ M!DraftIsBounded(row) <=> DraftIsBounded(row)
              /\ P!DraftIsBounded(row) <=> DraftIsBounded(row)
              /\ M!RevisionIsSound(row) <=> RevisionIsSound(row)
              /\ P!RevisionIsSound(row) <=> RevisionIsSound(row)
              /\ M!RevisionRequest(row) = RevisionRequest(row)
              /\ P!RevisionRequest(row) = RevisionRequest(row)
<1>1. \A row, project, shot : /\ M!InScope(row, project, shot) <=> InScope(row, project, shot)
                              /\ P!InScope(row, project, shot) <=> InScope(row, project, shot)
  BY DEF M!InScope, P!InScope, InScope
<1>2. \A s, project, shot : /\ M!ShotInScope(s, project, shot) <=> ShotIn(s, project, shot)
                            /\ P!ShotInProject(s, project, shot) <=> ShotIn(s, project, shot)
  BY DEF M!ShotInScope, P!ShotInProject, ShotIn
<1>3. \A s, id, row :
        /\ P!RevisionInScope(s, id, row) <=> Based(s, id, row)
        /\ M!RevisionOfShot(s, id, row.project, row.shot) <=> Lies(s.revisions, id, row)
  BY <1>1 DEF P!RevisionInScope, M!RevisionOfShot, Based, Lies
<1>4. \A row : /\ M!DraftIsBounded(row) <=> DraftIsBounded(row)
               /\ P!DraftIsBounded(row) <=> DraftIsBounded(row)
               /\ M!RevisionRequest(row) = RevisionRequest(row)
               /\ P!RevisionRequest(row) = RevisionRequest(row)
  BY DEF M!DraftIsBounded, P!DraftIsBounded, DraftIsBounded, M!RevisionRequest,
         P!RevisionRequest, RevisionRequest
<1>5. \A row : /\ M!RevisionIsSound(row) <=> RevisionIsSound(row)
               /\ P!RevisionIsSound(row) <=> RevisionIsSound(row)
  BY DEF M!RevisionIsSound, P!RevisionIsSound, RevisionIsSound, M!HashOf, P!HashOf, HashOf
<1> QED
  BY <1>1, <1>2, <1>3, <1>4, <1>5

LEMMA InsertDraftIs ==
  ASSUME NEW r, NEW id, NEW row
  PROVE  M!InsertDraft(r, id, row) =
           IF ~ ShotIn(r, row.project, row.shot) \/ ~ Based(r, row.base, row)
           THEN Refuse(r, "SCOPE_VIOLATION")
           ELSE IF id \in DOMAIN r.drafts \/ Rival(r, id, row)
           THEN Refuse(r, "UNIQUE_VIOLATION")
           ELSE Ok(Put(r, "drafts", id, row), id)
<1>1. M!DraftRefusal(r, row) =
        IF ~ ShotIn(r, row.project, row.shot) \/ ~ Based(r, row.base, row)
        THEN "SCOPE_VIOLATION" ELSE None
  BY ScopeWords DEF M!DraftRefusal, Based
<1>2. Rival(r, id, row) <=>
        \E other \in {r.drafts[d] : d \in DOMAIN r.drafts \ {id}} :
          M!InScope(other, row.project, row.shot)
  BY ScopeWords DEF Rival
<1> QED
  BY <1>1, <1>2 DEF M!InsertDraft, Refuse, Ok, Put, WithRow

LEMMA ReplaceDraftIs ==
  ASSUME NEW r, NEW id, NEW row, NEW expected
  PROVE  M!ReplaceDraft(r, id, row, expected) =
           IF ~ ShotIn(r, row.project, row.shot) THEN Refuse(r, "SCOPE_VIOLATION")
           ELSE IF ~ (Lies(r.drafts, id, row) /\ r.drafts[id].version = expected)
           THEN Refuse(r, "OPTIMISTIC_CONFLICT")
           ELSE IF ~ Based(r, row.base, row) THEN Refuse(r, "SCOPE_VIOLATION")
           ELSE Ok(Put(r, "drafts", id, row), id)
<1>1. M!DraftRefusal(r, row) =
        IF ~ ShotIn(r, row.project, row.shot) \/ ~ Based(r, row.base, row)
        THEN "SCOPE_VIOLATION" ELSE None
  BY ScopeWords DEF M!DraftRefusal, Based
<1> QED
  BY <1>1, ScopeWords DEF M!ReplaceDraft, Lies, Refuse, Ok, Put, WithRow

LEMMA DraftFaultIs ==
  ASSUME NEW r, NEW id, NEW row
  PROVE  /\ P!DraftFault(r, row, P!Others(r, "drafts", id)) =
              IF ~ Based(r, row.base, row) THEN "23514"
              ELSE IF Rival(r, id, row) THEN "23505" ELSE None
         /\ P!DraftFault(r, row, {}) = IF ~ Based(r, row.base, row) THEN "23514" ELSE None
<1>1. Rival(r, id, row) <=>
        \E other \in {r.drafts[d] : d \in DOMAIN r.drafts \ {id}} :
          P!InScope(other, row.project, row.shot)
  BY ScopeWords DEF Rival
<1> QED
  BY <1>1, ScopeWords DEF P!DraftFault
-----------------------------------------------------------------------------
(* The calls on drafts.                                                    *)

LEMMA KeysAreOne ==
  ASSUME NEW s, NEW t, Pair(s, t), NEW key, NEW operation, NEW request
  PROVE  /\ DOMAIN s = Columns /\ DOMAIN t = Columns /\ PgSound(t)
         /\ key \in DOMAIN s.keys <=> key \in DOMAIN t.keys
         /\ Replays(s, key, operation, request) <=> Replays(t, key, operation, request)
         /\ s.keys = t.keys /\ s.drafts = t.drafts /\ s.revisions = t.revisions
         /\ s.projects = t.projects /\ s.shots = t.shots
BY SameTables DEF Pair, PgSound, MemSound, Typed, Replays

(* Refusals of a mutation, in memory after its key was reserved.           *)
LEMMA MutationRefused ==
  ASSUME NEW name, NEW s, NEW t, Pair(s, t), NEW r
  PROVE  /\ \A c \in RepositoryError :
              /\ Compared(name, s, t, Refuse(r, c), Refuse(t, c))
              /\ \A d \in SqlState : Compared(name, s, t, Refuse(r, c), Refuse(t, d))
         /\ Compared(name, s, t, Refuse(r, "IDEMPOTENCY_CONFLICT"), Refuse(t, "SCOPE_VIOLATION"))
<1>1. PgSound(t) /\ t.nextSequence \in Nat /\ t.nextSequence <= t.nextSequence
  BY NumbersOfPg DEF Pair
<1> QED
  BY <1>1, BothRefuse, BothRefuseOtherwise

(* What the keys and the scope decide before a draft is written.  Fresh is *)
(* what either store does under a new key.                                 *)
LEMMA DraftMutationCompared ==
  ASSUME NEW name, NEW s, NEW t, Pair(s, t), NEW key, NEW operation \in DraftOps,
         NEW request, NEW row, request[2] = row,
         NEW m, NEW p, NEW fresh, NEW inserted,
         key \notin DOMAIN t.keys => Compared(name, s, t, fresh, inserted),
         ~ ShotIn(t, row.project, row.shot) => inserted = Refuse(t, "SCOPE_VIOLATION"),
         m = IF ~ DraftIsBounded(row) THEN Refuse(s, "INVALID_ARGUMENT")
             ELSE IF Replays(s, key, operation, request)
                  THEN M!DraftReplay(s, row, s.keys[key].resource)
             ELSE IF key \notin DOMAIN s.keys THEN fresh
             ELSE Refuse(s, "IDEMPOTENCY_CONFLICT"),
         p = IF ~ DraftIsBounded(row) THEN Refuse(t, "INVALID_ARGUMENT")
             ELSE IF ~ ShotIn(t, row.project, row.shot) THEN Refuse(t, "SCOPE_VIOLATION")
             ELSE IF Replays(t, key, operation, request)
                  THEN P!ReplayDraft(t, row, t.keys[key].resource)
             ELSE IF key \in DOMAIN t.keys THEN Refuse(t, "IDEMPOTENCY_CONFLICT")
             ELSE inserted
  PROVE  Compared(name, s, t, m, p)
<1>1. /\ PgSound(t) /\ s.keys = t.keys /\ s.drafts = t.drafts
      /\ key \in DOMAIN s.keys <=> key \in DOMAIN t.keys
      /\ Replays(s, key, operation, request) <=> Replays(t, key, operation, request)
  BY KeysAreOne
<1>2. CASE ~ DraftIsBounded(row)
  BY <1>2, MutationRefused DEF RepositoryError
<1>3. CASE DraftIsBounded(row) /\ Replays(t, key, operation, request)
  <2> DEFINE id == t.keys[key].resource
  <2>1. /\ ShotIn(t, row.project, row.shot) /\ Lies(t.drafts, id, row)
        /\ {d \in DOMAIN t.drafts : InScope(t.drafts[d], row.project, row.shot)} = {id}
    BY <1>1, <1>3, ReplayIsSound DEF MutationOps
  <2>2. M!DraftReplay(s, row, s.keys[key].resource) = Ok(s, id)
    BY <1>1, <2>1, ScopeWords DEF M!DraftReplay, Lies, Ok
  <2>3. P!DraftOf(t, row.project, row.shot) = {id}
    BY <2>1, ScopeWords DEF P!DraftOf
  <2>4. P!ReplayDraft(t, row, id) = Ok(t, id)
    BY <2>3 DEF P!ReplayDraft, Ok
  <2>5. m = Ok(s, id) /\ p = Ok(t, id)
    BY <1>1, <1>3, <2>1, <2>2, <2>4
  <2> QED
    BY <2>5, BothRead
<1>4. CASE DraftIsBounded(row) /\ ~ Replays(t, key, operation, request) /\ key \in DOMAIN t.keys
  <2>1. m = Refuse(s, "IDEMPOTENCY_CONFLICT")
    BY <1>1, <1>4
  <2>2. p \in {Refuse(t, "IDEMPOTENCY_CONFLICT"), Refuse(t, "SCOPE_VIOLATION")}
    BY <1>4
  <2>3. "IDEMPOTENCY_CONFLICT" \in RepositoryError
    BY DEF RepositoryError
  <2> QED
    BY <2>1, <2>2, <2>3, MutationRefused
<1>5. CASE DraftIsBounded(row) /\ key \notin DOMAIN t.keys
  <2>1. m = fresh /\ p = inserted
    BY <1>1, <1>5 DEF Replays
  <2> QED
    BY <1>5, <2>1
<1> QED
  BY <1>2, <1>3, <1>4, <1>5

LEMMA DraftsCreateCompared ==
  ASSUME NEW s, NEW t, Pair(s, t), NEW id, NEW row, {"project", "shot"} \subseteq DOMAIN row,
         NEW key
  PROVE  Compared("drafts.create", s, t, M!DraftsCreate(s, id, row, key),
                                         P!DraftsCreate(t, id, row, key))
<1> DEFINE operation == "workflow-draft.create"
           request == <<id, row>>
           open == KeyRow(operation, request)
           rs == Put(s, "keys", key, open)
           rt == Put(t, "keys", key, open)
           scoped == ShotIn(t, row.project, row.shot)
           based == Based(t, row.base, row)
           taken == id \in DOMAIN t.drafts
           rival == Rival(t, id, row)
           u == MutatedStore(s, "drafts", id, row, key, operation, request)
           v == MutatedStore(t, "drafts", id, row, key, operation, request)
           fresh == IF ~ scoped \/ ~ based THEN Refuse(rs, "SCOPE_VIOLATION")
                    ELSE IF taken \/ rival THEN Refuse(rs, "UNIQUE_VIOLATION")
                    ELSE Ok(u, id)
           inserted == IF ~ scoped THEN Refuse(t, "SCOPE_VIOLATION")
                       ELSE IF taken THEN Refuse(t, "23505")
                       ELSE IF ~ based THEN Refuse(rt, "23514")
                       ELSE IF rival THEN Refuse(rt, "23505")
                       ELSE Ok(v, id)
           m == IF ~ DraftIsBounded(row) THEN Refuse(s, "INVALID_ARGUMENT")
                ELSE IF Replays(s, key, operation, request)
                     THEN M!DraftReplay(s, row, s.keys[key].resource)
                ELSE IF key \notin DOMAIN s.keys THEN fresh
                ELSE Refuse(s, "IDEMPOTENCY_CONFLICT")
           p == IF ~ DraftIsBounded(row) THEN Refuse(t, "INVALID_ARGUMENT")
                ELSE IF ~ scoped THEN Refuse(t, "SCOPE_VIOLATION")
                ELSE IF Replays(t, key, operation, request)
                     THEN P!ReplayDraft(t, row, t.keys[key].resource)
                ELSE IF key \in DOMAIN t.keys THEN Refuse(t, "IDEMPOTENCY_CONFLICT")
                ELSE inserted
<1>1. /\ DOMAIN s = Columns /\ DOMAIN t = Columns /\ PgSound(t)
      /\ s.keys = t.keys /\ s.drafts = t.drafts /\ s.revisions = t.revisions
      /\ s.projects = t.projects /\ s.shots = t.shots
      /\ "drafts" \in Mutable /\ operation \in DraftOps /\ operation \in MutationOps
  BY KeysAreOne DEF Mutable, DraftOps, MutationOps
<1>2. /\ rs.projects = t.projects /\ rs.shots = t.shots /\ rs.revisions = t.revisions
      /\ rs.drafts = t.drafts /\ rt.nextSequence = t.nextSequence
  BY <1>1, ReservedStore
<1>3. P!Completing(Ok(Put(rs, "drafts", id, row), id), key) = Ok(u, id)
      /\ P!Completing(Ok(Put(rt, "drafts", id, row), id), key) = Ok(v, id)
  BY <1>1, CompletingWrites
<1>4. M!Completed(M!InsertDraft(rs, id, row), key) = fresh
  <2> DEFINE scopedIn(x) == ShotIn(x, row.project, row.shot)
  <2>1. /\ scopedIn(rs) <=> scoped
        /\ Based(rs, row.base, row) <=> based
        /\ Rival(rs, id, row) <=> rival
    BY <1>2 DEF ShotIn, Based, Rival
  <2>2. M!InsertDraft(rs, id, row) =
          IF ~ scoped \/ ~ based THEN Refuse(rs, "SCOPE_VIOLATION")
          ELSE IF taken \/ rival THEN Refuse(rs, "UNIQUE_VIOLATION")
          ELSE Ok(Put(rs, "drafts", id, row), id)
    BY <1>2, <2>1, InsertDraftIs
  <2> HIDE DEF rs, u, scoped, based, taken, rival
  <2> QED
    BY <1>3, <2>2, CompletingIs
<1>5. M!DraftsCreate(s, id, row, key) = m
  <2> DEFINE got == P!IdempotencyReserve(s, key, operation, request)
  <2>1. /\ M!IdempotencyReserve(s, key, operation, request) = got
        /\ M!Fresh(got) <=> key \notin DOMAIN s.keys
        /\ M!Replayed(got) <=> Replays(s, key, operation, request)
        /\ key \notin DOMAIN s.keys => got.s = rs
        /\ Replays(s, key, operation, request) => got.value = s.keys[key].resource
    BY ReservedIs
  <2> HIDE DEF got, rs, fresh
  <2> QED
    BY <1>4, <2>1, ScopeWords DEF M!DraftsCreate, M!ReservationRefused, Refuse
<1>6. P!DraftsCreate(t, id, row, key) = p
  <2> DEFINE got == P!IdempotencyReserve(t, key, operation, request)
             fault == P!DraftFault(t, row, P!Others(t, "drafts", id))
  <2>1. /\ P!Fresh(got) <=> key \notin DOMAIN t.keys
        /\ P!Replayed(got) <=> Replays(t, key, operation, request)
        /\ key \notin DOMAIN t.keys => got.s = rt
        /\ Replays(t, key, operation, request) => got.value = t.keys[key].resource
    BY ReservedIs
  <2>2. fault = IF ~ based THEN "23514" ELSE IF rival THEN "23505" ELSE None
    BY DraftFaultIs
  <2>3. P!DraftsCreate(t, id, row, key) =
          IF ~ DraftIsBounded(row) THEN Refuse(t, "INVALID_ARGUMENT")
          ELSE IF ~ scoped THEN Refuse(t, "SCOPE_VIOLATION")
          ELSE IF P!Replayed(got) THEN P!ReplayDraft(t, row, got.value)
          ELSE IF ~ P!Fresh(got) THEN Refuse(t, "IDEMPOTENCY_CONFLICT")
          ELSE IF taken THEN Refuse(t, "23505")
          ELSE P!Completing(IF fault = None THEN Ok(Put(got.s, "drafts", id, row), id)
                            ELSE Refuse(got.s, fault), key)
    BY ScopeWords DEF P!DraftsCreate, P!ReservationRefused, Refuse, Ok, Put, WithRow
  <2> HIDE DEF got, fault, rt, v, scoped, based, taken, rival
  <2>4. P!Completing(IF fault = None THEN Ok(Put(rt, "drafts", id, row), id)
                     ELSE Refuse(rt, fault), key)
          = IF ~ based THEN Refuse(rt, "23514")
            ELSE IF rival THEN Refuse(rt, "23505") ELSE Ok(v, id)
    BY <1>3, <2>2, CompletingIs
  <2> QED
    BY <2>1, <2>3, <2>4
<1>7. ASSUME key \notin DOMAIN t.keys, DraftIsBounded(row)
      PROVE  Compared("drafts.create", s, t, fresh, inserted)
  <2>1. ASSUME scoped, ~ taken, ~ rival
        PROVE  Compared("drafts.create", s, t, Ok(u, id), Ok(v, id))
    <3>1. RequestIsWhole(operation, request) /\ request[2] = row
      BY <1>7 DEF RequestIsWhole, RevisionOp, DraftOps
    <3>2. InScope(row, request[2].project, request[2].shot)
      BY DEF InScope
    <3>3. OneDraftEach(WithRow(t.drafts, id, row))
      BY <1>1, <2>1 DEF PgSound, OneDraftEach, WithRow, Rival, InScope
    <3> HIDE DEF operation, request
    <3> QED
      BY <1>1, <1>7, <2>1, <3>1, <3>2, <3>3, BothMutate
  <2>2. {"SCOPE_VIOLATION", "UNIQUE_VIOLATION"} \subseteq RepositoryError
        /\ {"23505", "23514"} \subseteq SqlState
    BY DEF RepositoryError, SqlState
  <2>3. t.nextSequence \in Nat /\ t.nextSequence <= rt.nextSequence
    BY <1>1, <1>2, NumbersOfPg
  <2>4. \A c \in RepositoryError, d \in SqlState :
          Compared("drafts.create", s, t, Refuse(rs, c), Refuse(rt, d))
    BY <1>2, <2>3, BothRefuse
  <2> HIDE DEF rs, rt, u, v, scoped, based, taken, rival
  <2> QED
    BY <2>1, <2>2, <2>4, MutationRefused
<1> QED
  <2> HIDE DEF fresh, inserted, operation, request
  <2>1. request[2] = row /\ (~ scoped => inserted = Refuse(t, "SCOPE_VIOLATION"))
    BY DEF request, inserted
  <2>2. CASE DraftIsBounded(row)
    <3>1. Compared("drafts.create", s, t, m, p)
      BY <1>1, <1>7, <2>1, <2>2, DraftMutationCompared
    <3> QED
      BY <1>5, <1>6, <3>1
  <2>3. CASE ~ DraftIsBounded(row)
    <3>1. m = Refuse(s, "INVALID_ARGUMENT") /\ p = Refuse(t, "INVALID_ARGUMENT")
      BY <2>3
    <3> QED
      BY <1>5, <1>6, <3>1, MutationRefused DEF RepositoryError
  <2> QED
    BY <2>2, <2>3
LEMMA DraftsUpdateCompared ==
  ASSUME NEW s, NEW t, Pair(s, t), NEW id, NEW row, {"project", "shot"} \subseteq DOMAIN row,
         NEW expected, NEW key
  PROVE  Compared("drafts.update", s, t, M!DraftsUpdate(s, id, row, expected, key),
                                         P!DraftsUpdate(t, id, row, expected, key))
<1> DEFINE operation == "workflow-draft.update"
           request == <<id, row, expected>>
           open == KeyRow(operation, request)
           rs == Put(s, "keys", key, open)
           rt == Put(t, "keys", key, open)
           scoped == ShotIn(t, row.project, row.shot)
           based == Based(t, row.base, row)
           present == Lies(t.drafts, id, row) /\ t.drafts[id].version = expected
           u == MutatedStore(s, "drafts", id, row, key, operation, request)
           v == MutatedStore(t, "drafts", id, row, key, operation, request)
           fresh == IF ~ scoped THEN Refuse(rs, "SCOPE_VIOLATION")
                    ELSE IF ~ present THEN Refuse(rs, "OPTIMISTIC_CONFLICT")
                    ELSE IF ~ based THEN Refuse(rs, "SCOPE_VIOLATION")
                    ELSE Ok(u, id)
           inserted == IF ~ scoped THEN Refuse(t, "SCOPE_VIOLATION")
                       ELSE IF ~ present THEN Refuse(t, "OPTIMISTIC_CONFLICT")
                       ELSE IF ~ based THEN Refuse(rt, "23514")
                       ELSE Ok(v, id)
           m == IF ~ DraftIsBounded(row) THEN Refuse(s, "INVALID_ARGUMENT")
                ELSE IF Replays(s, key, operation, request)
                     THEN M!DraftReplay(s, row, s.keys[key].resource)
                ELSE IF key \notin DOMAIN s.keys THEN fresh
                ELSE Refuse(s, "IDEMPOTENCY_CONFLICT")
           p == IF ~ DraftIsBounded(row) THEN Refuse(t, "INVALID_ARGUMENT")
                ELSE IF ~ scoped THEN Refuse(t, "SCOPE_VIOLATION")
                ELSE IF Replays(t, key, operation, request)
                     THEN P!ReplayDraft(t, row, t.keys[key].resource)
                ELSE IF key \in DOMAIN t.keys THEN Refuse(t, "IDEMPOTENCY_CONFLICT")
                ELSE inserted
<1>1. /\ DOMAIN s = Columns /\ DOMAIN t = Columns /\ PgSound(t)
      /\ s.keys = t.keys /\ s.drafts = t.drafts /\ s.revisions = t.revisions
      /\ s.projects = t.projects /\ s.shots = t.shots
      /\ "drafts" \in Mutable /\ operation \in DraftOps /\ operation \in MutationOps
  BY KeysAreOne DEF Mutable, DraftOps, MutationOps
<1>2. /\ rs.projects = t.projects /\ rs.shots = t.shots /\ rs.revisions = t.revisions
      /\ rs.drafts = t.drafts /\ rt.nextSequence = t.nextSequence
  BY <1>1, ReservedStore
<1>3. P!Completing(Ok(Put(rs, "drafts", id, row), id), key) = Ok(u, id)
      /\ P!Completing(Ok(Put(rt, "drafts", id, row), id), key) = Ok(v, id)
  BY <1>1, CompletingWrites
<1>4. M!Completed(M!ReplaceDraft(rs, id, row, expected), key) = fresh
  <2>1. /\ ShotIn(rs, row.project, row.shot) <=> scoped
        /\ Based(rs, row.base, row) <=> based
        /\ Lies(rs.drafts, id, row) /\ rs.drafts[id].version = expected <=> present
    BY <1>2 DEF ShotIn, Based
  <2>2. M!ReplaceDraft(rs, id, row, expected) =
          IF ~ scoped THEN Refuse(rs, "SCOPE_VIOLATION")
          ELSE IF ~ present THEN Refuse(rs, "OPTIMISTIC_CONFLICT")
          ELSE IF ~ based THEN Refuse(rs, "SCOPE_VIOLATION")
          ELSE Ok(Put(rs, "drafts", id, row), id)
    BY <2>1, ReplaceDraftIs
  <2> HIDE DEF rs, u, scoped, based, present
  <2> QED
    BY <1>3, <2>2, CompletingIs
<1>5. M!DraftsUpdate(s, id, row, expected, key) = m
  <2> DEFINE got == P!IdempotencyReserve(s, key, operation, request)
  <2>1. /\ M!IdempotencyReserve(s, key, operation, request) = got
        /\ M!Fresh(got) <=> key \notin DOMAIN s.keys
        /\ M!Replayed(got) <=> Replays(s, key, operation, request)
        /\ key \notin DOMAIN s.keys => got.s = rs
        /\ Replays(s, key, operation, request) => got.value = s.keys[key].resource
    BY ReservedIs
  <2> HIDE DEF got, rs, fresh
  <2> QED
    BY <1>4, <2>1, ScopeWords DEF M!DraftsUpdate, M!ReservationRefused, Refuse
<1>6. P!DraftsUpdate(t, id, row, expected, key) = p
  <2> DEFINE got == P!IdempotencyReserve(t, key, operation, request)
             fault == P!DraftFault(t, row, {})
  <2>1. /\ P!Fresh(got) <=> key \notin DOMAIN t.keys
        /\ P!Replayed(got) <=> Replays(t, key, operation, request)
        /\ key \notin DOMAIN t.keys => got.s = rt
        /\ Replays(t, key, operation, request) => got.value = t.keys[key].resource
    BY ReservedIs
  <2>2. fault = IF ~ based THEN "23514" ELSE None
    BY DraftFaultIs
  <2>3. P!DraftsUpdate(t, id, row, expected, key) =
          IF ~ DraftIsBounded(row) THEN Refuse(t, "INVALID_ARGUMENT")
          ELSE IF ~ scoped THEN Refuse(t, "SCOPE_VIOLATION")
          ELSE IF P!Replayed(got) THEN P!ReplayDraft(t, row, got.value)
          ELSE IF ~ P!Fresh(got) THEN Refuse(t, "IDEMPOTENCY_CONFLICT")
          ELSE IF present
          THEN P!Completing(IF fault = None THEN Ok(Put(got.s, "drafts", id, row), id)
                            ELSE Refuse(got.s, fault), key)
          ELSE Refuse(t, "OPTIMISTIC_CONFLICT")
    BY ScopeWords DEF P!DraftsUpdate, P!ReservationRefused, Lies, Refuse, Ok, Put, WithRow
  <2> HIDE DEF got, fault, rt, v, scoped, based, present
  <2>4. P!Completing(IF fault = None THEN Ok(Put(rt, "drafts", id, row), id)
                     ELSE Refuse(rt, fault), key)
          = IF ~ based THEN Refuse(rt, "23514") ELSE Ok(v, id)
    BY <1>3, <2>2, CompletingIs
  <2> QED
    BY <2>1, <2>3, <2>4
<1>7. ASSUME key \notin DOMAIN t.keys, DraftIsBounded(row)
      PROVE  Compared("drafts.update", s, t, fresh, inserted)
  <2>1. ASSUME scoped, present
        PROVE  Compared("drafts.update", s, t, Ok(u, id), Ok(v, id))
    <3>1. RequestIsWhole(operation, request) /\ request[2] = row
      BY <1>7 DEF RequestIsWhole, RevisionOp, DraftOps
    <3>2. /\ InScope(row, request[2].project, request[2].shot)
          /\ InScope(row, t.drafts[id].project, t.drafts[id].shot)
      BY <2>1 DEF InScope, Lies
    <3>3. OneDraftEach(WithRow(t.drafts, id, row))
      BY <1>1, <2>1 DEF PgSound, OneDraftEach, WithRow, Lies, InScope
    <3> HIDE DEF operation, request
    <3> QED
      BY <1>1, <1>7, <2>1, <3>1, <3>2, <3>3, BothMutate
  <2>2. {"SCOPE_VIOLATION", "OPTIMISTIC_CONFLICT"} \subseteq RepositoryError
        /\ "23514" \in SqlState
    BY DEF RepositoryError, SqlState
  <2>3. t.nextSequence \in Nat /\ t.nextSequence <= rt.nextSequence
    BY <1>1, <1>2, NumbersOfPg
  <2>4. \A c \in RepositoryError, d \in SqlState :
          Compared("drafts.update", s, t, Refuse(rs, c), Refuse(rt, d))
    BY <1>2, <2>3, BothRefuse
  <2> HIDE DEF rs, rt, u, v, scoped, based, present
  <2> QED
    BY <2>1, <2>2, <2>4, MutationRefused
<1> QED
  <2> HIDE DEF fresh, inserted, operation, request
  <2>1. request[2] = row /\ (~ scoped => inserted = Refuse(t, "SCOPE_VIOLATION"))
    BY DEF request, inserted
  <2>2. CASE DraftIsBounded(row)
    <3>1. Compared("drafts.update", s, t, m, p)
      BY <1>1, <1>7, <2>1, <2>2, DraftMutationCompared
    <3> QED
      BY <1>5, <1>6, <3>1
  <2>3. CASE ~ DraftIsBounded(row)
    <3>1. m = Refuse(s, "INVALID_ARGUMENT") /\ p = Refuse(t, "INVALID_ARGUMENT")
      BY <2>3
    <3> QED
      BY <1>5, <1>6, <3>1, MutationRefused DEF RepositoryError
  <2> QED
    BY <2>2, <2>3
-----------------------------------------------------------------------------
(* The calls on revisions.                                                 *)

RevisionColumns == {"project", "shot", "graph", "hash", "validation", "errors"}

Numbers(s, row) ==
  {s.revisions[r].number : r \in {q \in DOMAIN s.revisions :
                                    InScope(s.revisions[q], row.project, row.shot)}}

Numbered(s, row) == [row EXCEPT !.number = Max({0} \cup Numbers(s, row)) + 1]

LEMMA SameNumbers ==
  ASSUME NEW r, NEW row
  PROVE  /\ M!Max({0} \cup M!NumbersOf(r, row)) = Max({0} \cup Numbers(r, row))
         /\ P!NextNumber(r, row) = Max({0} \cup Numbers(r, row)) + 1
<1>1. M!NumbersOf(r, row) = Numbers(r, row)
  BY ScopeWords DEF M!NumbersOf, Numbers
<1>2. {r.revisions[q].number : q \in P!RevisionsOf(r, row.project, row.shot)} = Numbers(r, row)
  BY ScopeWords DEF P!RevisionsOf, Numbers
<1>3. \A T : M!Max(T) = Max(T) /\ P!Max(T) = Max(T)
  BY DEF M!Max, P!Max, Max
<1> QED
  BY <1>1, <1>2, <1>3 DEF P!NextNumber

LEMMA InsertRevisionIs ==
  ASSUME NEW r, NEW id, NEW row
  PROVE  /\ M!InsertRevision(r, id, row) =
              IF ~ ShotIn(r, row.project, row.shot) \/ ~ Based(r, row.parent, row)
              THEN Refuse(r, "SCOPE_VIOLATION")
              ELSE IF id \in DOMAIN r.revisions THEN Refuse(r, "UNIQUE_VIOLATION")
              ELSE Ok(Put(r, "revisions", id, Numbered(r, row)), id)
         /\ P!InsertRevision(r, id, row) =
              IF ~ Based(r, row.parent, row) THEN Refuse(r, "23514")
              ELSE IF id \in DOMAIN r.revisions THEN Refuse(r, "23505")
              ELSE Ok(Put(r, "revisions", id, Numbered(r, row)), id)
<1>1. row.parent # None /\ ~ M!RevisionOfShot(r, row.parent, row.project, row.shot)
        <=> ~ Based(r, row.parent, row)
  BY ScopeWords DEF Based
<1>2. /\ [row EXCEPT !.number = M!Max({0} \cup M!NumbersOf(r, row)) + 1] = Numbered(r, row)
      /\ [row EXCEPT !.number = P!NextNumber(r, row)] = Numbered(r, row)
  BY SameNumbers DEF Numbered
<1> QED
  BY <1>1, <1>2, ScopeWords DEF M!InsertRevision, P!InsertRevision, Refuse, Ok, Put, WithRow

LEMMA RevisionRequestIs ==
  ASSUME NEW row, RevisionColumns \subseteq DOMAIN row, NEW s
  PROVE  /\ RevisionRequest(RevisionRequest(row)) = RevisionRequest(row)
         /\ RevisionIsSound(row) => RevisionIsSound(RevisionRequest(row))
         /\ RevisionRequest(row).project = row.project /\ RevisionRequest(row).shot = row.shot
         /\ Numbered(s, row).project = row.project /\ Numbered(s, row).shot = row.shot
         /\ DOMAIN Numbered(s, row) = DOMAIN row
BY DEF RevisionColumns, RevisionRequest, RevisionIsSound, Numbered

LEMMA RevisionsCreateCompared ==
  ASSUME NEW s, NEW t, Pair(s, t), NEW id, NEW row, RevisionColumns \subseteq DOMAIN row, NEW key
  PROVE  Compared("revisions.create", s, t, M!RevisionsCreate(s, id, row, key),
                                            P!RevisionsCreate(t, id, row, key))
<1> DEFINE operation == RevisionOp
           request == <<id, RevisionRequest(row)>>
           open == KeyRow(operation, request)
           rs == Put(s, "keys", key, open)
           rt == Put(t, "keys", key, open)
           scoped == ShotIn(t, row.project, row.shot)
           based == Based(t, row.parent, row)
           taken == id \in DOMAIN t.revisions
           written == Numbered(t, row)
           u == MutatedStore(s, "revisions", id, written, key, operation, request)
           v == MutatedStore(t, "revisions", id, written, key, operation, request)
           fresh == IF ~ scoped \/ ~ based THEN Refuse(rs, "SCOPE_VIOLATION")
                    ELSE IF taken THEN Refuse(rs, "UNIQUE_VIOLATION")
                    ELSE Ok(u, id)
           inserted == IF ~ based THEN Refuse(rt, "23514")
                       ELSE IF taken THEN Refuse(rt, "23505")
                       ELSE Ok(v, id)
           found(x) == Lies(x.revisions, x.keys[key].resource, row)
           m == IF ~ RevisionIsSound(row) THEN Refuse(s, "INVALID_ARGUMENT")
                ELSE IF key \notin DOMAIN s.keys THEN fresh
                ELSE IF ~ Replays(s, key, operation, request)
                     THEN Refuse(s, "IDEMPOTENCY_CONFLICT")
                ELSE IF found(s) THEN Ok(s, s.keys[key].resource)
                ELSE Refuse(s, "DATABASE_ERROR")
           p == IF ~ RevisionIsSound(row) THEN Refuse(t, "INVALID_ARGUMENT")
                ELSE IF ~ scoped THEN Refuse(t, "SCOPE_VIOLATION")
                ELSE IF key \notin DOMAIN t.keys THEN inserted
                ELSE IF ~ Replays(t, key, operation, request)
                     THEN Refuse(t, "IDEMPOTENCY_CONFLICT")
                ELSE IF found(t) THEN Ok(t, t.keys[key].resource)
                ELSE Refuse(t, "DATABASE_ERROR")
<1>1. /\ DOMAIN s = Columns /\ DOMAIN t = Columns /\ PgSound(t)
      /\ s.keys = t.keys /\ s.drafts = t.drafts /\ s.revisions = t.revisions
      /\ s.projects = t.projects /\ s.shots = t.shots
      /\ "revisions" \in Mutable /\ operation \notin DraftOps /\ operation \in MutationOps
  BY KeysAreOne DEF Mutable, DraftOps, MutationOps, RevisionOp
<1>2. /\ rs.projects = t.projects /\ rs.shots = t.shots /\ rs.revisions = t.revisions
      /\ rt.revisions = t.revisions /\ rt.nextSequence = t.nextSequence
  BY <1>1, ReservedStore
<1>3. P!Completing(Ok(Put(rs, "revisions", id, written), id), key) = Ok(u, id)
      /\ P!Completing(Ok(Put(rt, "revisions", id, written), id), key) = Ok(v, id)
  BY <1>1, CompletingWrites
<1>4. M!Completed(M!InsertRevision(rs, id, row), key) = fresh
      /\ P!Completing(P!InsertRevision(rt, id, row), key) = inserted
  <2>1. /\ ShotIn(rs, row.project, row.shot) <=> scoped
        /\ Based(rs, row.parent, row) <=> based
        /\ Based(rt, row.parent, row) <=> based
        /\ Numbered(rs, row) = written /\ Numbered(rt, row) = written
    BY <1>2 DEF ShotIn, Based, Numbered, Numbers
  <2>2. M!InsertRevision(rs, id, row) =
          IF ~ scoped \/ ~ based THEN Refuse(rs, "SCOPE_VIOLATION")
          ELSE IF taken THEN Refuse(rs, "UNIQUE_VIOLATION")
          ELSE Ok(Put(rs, "revisions", id, written), id)
    BY <1>2, <2>1, InsertRevisionIs
  <2>3. P!InsertRevision(rt, id, row) =
          IF ~ based THEN Refuse(rt, "23514")
          ELSE IF taken THEN Refuse(rt, "23505")
          ELSE Ok(Put(rt, "revisions", id, written), id)
    BY <1>2, <2>1, InsertRevisionIs
  <2> HIDE DEF rs, rt, u, v, scoped, based, taken, written
  <2> QED
    BY <1>3, <2>2, <2>3, CompletingIs
<1>5. M!RevisionsCreate(s, id, row, key) = m
  <2> DEFINE got == P!IdempotencyReserve(s, key, operation, request)
  <2>1. /\ M!IdempotencyReserve(s, key, operation, request) = got
        /\ M!Fresh(got) <=> key \notin DOMAIN s.keys
        /\ M!Replayed(got) <=> Replays(s, key, operation, request)
        /\ key \notin DOMAIN s.keys => got.s = rs
        /\ Replays(s, key, operation, request) => got.value = s.keys[key].resource
    BY ReservedIs
  <2>2. M!IdempotencyReserve(s, key, "workflow-revision.create", <<id, M!RevisionRequest(row)>>)
          = got
    BY <2>1, ScopeWords DEF RevisionOp
  <2> HIDE DEF got, rs, fresh, request, operation
  <2> QED
    BY <1>4, <2>1, <2>2, ScopeWords DEF M!RevisionsCreate, M!ReservationRefused, Refuse, Ok
<1>6. P!RevisionsCreate(t, id, row, key) = p
  <2> DEFINE got == P!IdempotencyReserve(t, key, operation, request)
  <2>1. /\ P!Fresh(got) <=> key \notin DOMAIN t.keys
        /\ P!Replayed(got) <=> Replays(t, key, operation, request)
        /\ key \notin DOMAIN t.keys => got.s = rt
        /\ Replays(t, key, operation, request) => got.value = t.keys[key].resource
    BY ReservedIs
  <2>2. P!IdempotencyReserve(t, key, "workflow-revision.create", <<id, P!RevisionRequest(row)>>)
          = got
    BY ScopeWords DEF RevisionOp
  <2>3. \A r : r \in P!RevisionsOf(t, row.project, row.shot) <=> Lies(t.revisions, r, row)
    BY ScopeWords DEF P!RevisionsOf, Lies
  <2> HIDE DEF got, rt, inserted, scoped, request, operation
  <2>4. scoped <=> P!ShotInProject(t, row.project, row.shot)
    BY ScopeWords DEF scoped
  <2> QED
    BY <1>4, <2>1, <2>2, <2>3, <2>4, ScopeWords
    DEF P!RevisionsCreate, P!ReservationRefused, Refuse, Ok
<1>7. /\ RevisionRequest(row).project = row.project /\ RevisionRequest(row).shot = row.shot
      /\ written.project = row.project /\ written.shot = row.shot
      /\ {"project", "shot"} \subseteq DOMAIN written
  BY RevisionRequestIs DEF RevisionColumns
<1>8. ASSUME key \notin DOMAIN t.keys, RevisionIsSound(row)
      PROVE  Compared("revisions.create", s, t, fresh,
                      IF scoped THEN inserted ELSE Refuse(t, "SCOPE_VIOLATION"))
  <2>1. ASSUME scoped, ~ taken
        PROVE  Compared("revisions.create", s, t, Ok(u, id), Ok(v, id))
    <3>1. RequestIsWhole(operation, request)
      BY <1>8, RevisionRequestIs DEF RequestIsWhole, RevisionOp, DraftOps
    <3>2. InScope(written, request[2].project, request[2].shot)
      BY <1>7 DEF InScope
    <3>3. ShotIn(t, written.project, written.shot)
      BY <1>7, <2>1
    <3> HIDE DEF operation, request, written
    <3> QED
      BY <1>1, <1>7, <1>8, <2>1, <3>1, <3>2, <3>3, BothMutate
  <2>2. {"SCOPE_VIOLATION", "UNIQUE_VIOLATION"} \subseteq RepositoryError
        /\ {"23505", "23514"} \subseteq SqlState
    BY DEF RepositoryError, SqlState
  <2>3. t.nextSequence \in Nat /\ t.nextSequence <= rt.nextSequence
    BY <1>1, <1>2, NumbersOfPg
  <2>4. \A c \in RepositoryError, d \in SqlState :
          Compared("revisions.create", s, t, Refuse(rs, c), Refuse(rt, d))
    BY <1>2, <2>3, BothRefuse
  <2> HIDE DEF rs, rt, u, v, scoped, based, taken
  <2> QED
    BY <2>1, <2>2, <2>4, MutationRefused
<1>9. ASSUME Replays(t, key, operation, request)
      PROVE  scoped /\ found(t)
  BY <1>1, <1>7, <1>9, ReplayIsSound DEF Lies
<1>10. /\ key \in DOMAIN s.keys <=> key \in DOMAIN t.keys
       /\ Replays(s, key, operation, request) <=> Replays(t, key, operation, request)
       /\ Replays(t, key, operation, request) => key \in DOMAIN t.keys
       /\ found(s) <=> found(t)
  BY <1>1 DEF Replays
<1>11. {"INVALID_ARGUMENT", "IDEMPOTENCY_CONFLICT"} \subseteq RepositoryError
  BY DEF RepositoryError
<1> HIDE DEF operation, request, rs, rt, scoped, fresh, inserted
<1>12. Compared("revisions.create", s, t, m, p)
  <2>1. CASE ~ RevisionIsSound(row)
    BY <1>11, <2>1, MutationRefused
  <2>2. CASE RevisionIsSound(row) /\ key \notin DOMAIN t.keys
    <3>1. m = fresh /\ p = IF scoped THEN inserted ELSE Refuse(t, "SCOPE_VIOLATION")
      BY <1>10, <2>2
    <3> QED
      BY <1>8, <2>2, <3>1
  <2>3. CASE RevisionIsSound(row) /\ Replays(t, key, operation, request)
    <3>1. m = Ok(s, t.keys[key].resource) /\ p = Ok(t, t.keys[key].resource)
      BY <1>1, <1>9, <1>10, <2>3
    <3> QED
      BY <3>1, BothRead
  <2>4. CASE RevisionIsSound(row) /\ key \in DOMAIN t.keys /\ ~ Replays(t, key, operation, request)
    <3>1. m = Refuse(s, "IDEMPOTENCY_CONFLICT")
      BY <1>10, <2>4
    <3>2. p \in {Refuse(t, "IDEMPOTENCY_CONFLICT"), Refuse(t, "SCOPE_VIOLATION")}
      BY <2>4
    <3> QED
      BY <1>11, <3>1, <3>2, MutationRefused
  <2> QED
    BY <1>10, <2>1, <2>2, <2>3, <2>4
<1> QED
  BY <1>5, <1>6, <1>12
-----------------------------------------------------------------------------
(* Transactions.                                                           *)

LEMMA HomeKept ==
  ASSUME NEW g, NEW t, NEW u, Home(g, t), Grows(t, u), g \notin {"keys", "projects"}
  PROVE  Home(g, u)
BY DEF Home, Grows

(* A rollback restores the rows; the numbers drawn stay drawn.             *)
LEMMA RolledBack ==
  ASSUME NEW saved, PgSound(saved), NEW t, t.nextSequence \in Nat,
         saved.nextSequence <= t.nextSequence
  PROVE  LET u == P!Rollback(t, saved)
         IN  /\ PgSound(u) /\ Later(saved, u) /\ u.nextSequence = t.nextSequence
             /\ \A g : Home(g, saved) => Home(g, u)
             /\ \A s : Alike(s, saved) => Alike(s, u)
<1> DEFINE u == P!Rollback(t, saved)
<1>1. DOMAIN saved = Columns /\ MemSound(saved)
  BY DEF PgSound, MemSound, Typed
<1>2. /\ DOMAIN u = Columns /\ u.nextSequence = t.nextSequence
      /\ \A c \in Columns \ {"nextSequence"} : u[c] = saved[c]
  BY <1>1 DEF P!Rollback, Columns
<1> HIDE DEF u
<1>3. /\ u.attempts = saved.attempts /\ u.outbox = saved.outbox /\ u.events = saved.events
      /\ u.drafts = saved.drafts /\ u.revisions = saved.revisions /\ u.keys = saved.keys
      /\ u.projects = saved.projects /\ u.shots = saved.shots
  BY <1>2 DEF Columns, Table
<1>4. Later(saved, u) /\ Grows(saved, u)
  BY <1>3 DEF Later, Grows
<1>5. Typed(u)
  <2>1. EventsNumbered(u.events, u.nextSequence)
    BY <1>1, <1>2, <1>3 DEF MemSound, Typed, EventsNumbered
  <2> QED
    BY <1>1, <1>2, <1>3, <2>1 DEF MemSound, Typed
<1>6. KeysNameRows(u)
  BY <1>1, <1>3 DEF MemSound, KeysNameRows, KeyNamesRow
<1>7. Indexed(u.attempts) /\ OneDraftEach(u.drafts) /\ KeysAreScoped(u)
  BY <1>3, <1>4, ScopesStay DEF PgSound
<1>8. Referenced(u)
  BY <1>3 DEF PgSound, Referenced
<1>9. PgSound(u)
  BY <1>5, <1>6, <1>7, <1>8 DEF PgSound, MemSound
<1>10. ASSUME NEW g, Home(g, saved) PROVE Home(g, u)
  BY <1>3, <1>10 DEF Home
<1>11. ASSUME NEW s, Alike(s, saved) PROVE Alike(s, u)
  BY <1>2, <1>3, <1>11 DEF Alike, Plain
<1> QED
  BY <1>2, <1>4, <1>9, <1>10, <1>11 DEF u

LEMMA LaterIsFrozen ==
  ASSUME NEW s, NEW u, Later(s, u)
  PROVE  Frozen(s, u)
BY DEF Later, Frozen

(* A call that keeps both stores sound and compares as Compared says keeps *)
(* the invariant, whether it is carried out, refused or ends the session.  *)
LEMMA CallKeeps ==
  ASSUME IInv, NEW g, NEW name, NEW m, NEW p, Call(g, name, m, p),
         Compared(name, mem, pg, m, p), Accepted(p) => Home(group, p.s)
  PROVE  IInv' /\ Frozen(begun.mem, mem') /\ Frozen(begun.pg, pg')
<1> DEFINE rolled == P!Rollback(p.s, begun.pg)
<1>1. /\ MemSound(mem) /\ MemSound(begun.mem) /\ PgSound(pg) /\ PgSound(begun.pg)
      /\ begun.pg.nextSequence <= pg.nextSequence
      /\ Later(begun.mem, mem) /\ Later(begun.pg, pg)
      /\ Home(group, pg) /\ Home(group, begun.pg) /\ now \in Nat
      /\ ~ last.apart => Alike(mem, pg) /\ Alike(begun.mem, begun.pg)
  BY DEF IInv
<1>2. /\ ~ last.apart /\ group' = group /\ now' = now
      /\ mem' = IF Accepted(m) THEN m.s ELSE begun.mem
      /\ pg' = IF Accepted(p) THEN p.s ELSE rolled
      /\ begun'.mem = IF Accepted(m) THEN begun.mem ELSE mem'
      /\ begun'.pg = IF Accepted(p) THEN begun.pg ELSE pg'
      /\ last'.call = name /\ last'.mem = m.answer /\ last'.pg = p.answer
      /\ last'.apart <=> Apart(m, p)
  BY DEF Call, After, M!Rollback, Apart
<1>3. /\ p.s.nextSequence \in Nat /\ begun.pg.nextSequence \in Nat /\ pg.nextSequence \in Nat
      /\ pg.nextSequence <= p.s.nextSequence /\ begun.pg.nextSequence <= p.s.nextSequence
  <2>1. p.s.nextSequence \in Nat /\ pg.nextSequence <= p.s.nextSequence
    BY DEF Compared, PgKept
  <2>2. pg.nextSequence \in Nat /\ begun.pg.nextSequence \in Nat
    BY <1>1, NumbersOfPg
  <2> QED
    BY <1>1, <2>1, <2>2
<1>4. /\ PgSound(rolled) /\ Later(begun.pg, rolled) /\ rolled.nextSequence = p.s.nextSequence
      /\ Home(group, rolled) /\ Alike(begun.mem, rolled)
  BY <1>1, <1>2, <1>3, RolledBack
<1> HIDE DEF rolled
<1>5. /\ MemSound(mem') /\ MemSound(begun'.mem) /\ Later(begun'.mem, mem')
      /\ Later(begun.mem, mem')
  BY <1>1, <1>2, LaterAgain, LaterAtOnce DEF Compared, MemKept
<1>6. /\ PgSound(pg') /\ PgSound(begun'.pg) /\ Later(begun'.pg, pg') /\ Later(begun.pg, pg')
      /\ Home(group, pg') /\ Home(group, begun'.pg)
      /\ begun'.pg.nextSequence <= pg'.nextSequence
  <2>1. CASE Accepted(p)
    <3>1. PgSound(p.s) /\ Later(pg, p.s)
      BY <2>1 DEF Compared, PgKept
    <3> QED
      BY <1>1, <1>2, <1>3, <2>1, <3>1, LaterAgain
  <2>2. CASE ~ Accepted(p)
    <3>1. pg' = rolled /\ begun'.pg = rolled
      BY <1>2, <2>2
    <3> QED
      BY <1>3, <1>4, <3>1, LaterAtOnce
  <2> QED
    BY <2>1, <2>2
<1>7. ASSUME ~ Apart(m, p) PROVE Alike(mem', pg') /\ Alike(begun'.mem, begun'.pg)
  <2>1. Accepted(m) <=> Accepted(p)
    BY <1>7 DEF Apart
  <2>2. Accepted(m) => Alike(m.s, p.s)
    BY <1>7 DEF Compared
  <2> QED
    BY <1>1, <1>2, <1>4, <2>1, <2>2
<1>8. KnownSplits'
  BY <1>2 DEF KnownSplits, Compared, SplitIsKnown
<1>9. SameCodes'
  BY <1>2 DEF SameCodes, Compared, CodesAgree
<1>10. IInv'
  BY <1>1, <1>2, <1>5, <1>6, <1>7, <1>8, <1>9 DEF IInv
<1> QED
  BY <1>5, <1>6, <1>10, LaterIsFrozen

(* Between the calls.                                                      *)
LEMMA NothingSaid ==
  ASSUME last' = NoCall
  PROVE  ~ last'.apart /\ KnownSplits' /\ SameCodes'
BY DEF NoCall, KnownSplits, SameCodes

LEMMA CommitKeeps ==
  ASSUME IInv, Commit
  PROVE  IInv' /\ Frozen(begun.mem, mem') /\ Frozen(begun.pg, pg')
<1>1. /\ MemSound(mem) /\ PgSound(pg) /\ Later(begun.mem, mem) /\ Later(begun.pg, pg)
      /\ Home(group, pg) /\ now \in Nat /\ Alike(mem, pg) /\ pg.nextSequence \in Nat
  BY NumbersOfPg DEF IInv, Commit
<1>2. /\ mem' = mem /\ pg' = pg /\ group' = group /\ now' = now /\ last' = NoCall
      /\ begun'.mem = mem /\ begun'.pg = pg
  BY DEF Commit
<1>3. IInv'
  BY <1>1, <1>2, NothingSaid, LaterAtOnce DEF IInv
<1> QED
  BY <1>1, <1>2, <1>3, LaterIsFrozen

LEMMA WorkThrowsKeeps ==
  ASSUME IInv, WorkThrows
  PROVE  IInv' /\ Frozen(begun.mem, mem') /\ Frozen(begun.pg, pg')
<1> DEFINE rolled == P!Rollback(pg, begun.pg)
<1>1. /\ MemSound(begun.mem) /\ PgSound(begun.pg) /\ pg.nextSequence \in Nat
      /\ begun.pg.nextSequence <= pg.nextSequence
      /\ Home(group, begun.pg) /\ now \in Nat /\ Alike(begun.mem, begun.pg)
  BY NumbersOfPg DEF IInv, WorkThrows
<1>2. /\ mem' = begun.mem /\ pg' = rolled /\ group' = group /\ now' = now /\ last' = NoCall
      /\ begun'.mem = begun.mem /\ begun'.pg = rolled
  BY DEF WorkThrows, M!Rollback
<1>3. /\ PgSound(rolled) /\ Later(begun.pg, rolled) /\ rolled.nextSequence \in Nat
      /\ Home(group, rolled) /\ Alike(begun.mem, rolled)
  BY <1>1, RolledBack
<1> HIDE DEF rolled
<1>4. IInv'
  BY <1>1, <1>2, <1>3, NothingSaid, LaterAtOnce DEF IInv
<1> QED
  BY <1>2, <1>3, <1>4, LaterAtOnce, LaterIsFrozen

LEMMA TickKeeps ==
  ASSUME IInv, Tick
  PROVE  IInv' /\ Frozen(begun.mem, mem') /\ Frozen(begun.pg, pg')
<1>1. /\ mem' = mem /\ pg' = pg /\ begun' = begun /\ group' = group /\ now' = now + 1
      /\ last' = NoCall /\ ~ last.apart
  BY DEF Tick
<1>2. IInv'
  BY <1>1, NothingSaid DEF IInv
<1> QED
  BY <1>1, <1>2, LaterIsFrozen DEF IInv
-----------------------------------------------------------------------------
(* One step: every call of every group.                                    *)

Kept == IInv' /\ Frozen(begun.mem, mem') /\ Frozen(begun.pg, pg')

(* A call is made on two stores that are alike.                            *)
LEMMA CallPair ==
  ASSUME IInv, NEW g, NEW name, NEW m, NEW p, Call(g, name, m, p)
  PROVE  Pair(mem, pg) /\ group \in g /\ Home(group, pg) /\ now \in Nat /\ now + 1 \in Nat
BY DEF IInv, Call, Pair

LEMMA CallIsKept ==
  ASSUME IInv, NEW g, NEW name, NEW m, NEW p, Call(g, name, m, p),
         "keys" \notin g, "projects" \notin g, Compared(name, mem, pg, m, p)
  PROVE  Kept
<1>1. group \in g /\ Home(group, pg)
  BY CallPair
<1>2. Accepted(p) => Home(group, p.s)
  BY <1>1, HomeKept DEF Compared, PgKept
<1> QED
  BY <1>2, CallKeeps DEF Kept

LEMMA RecordsKept ==
  ASSUME IInv,
         \/ ArtifactsCreate \/ EvaluationsCreate \/ AgentRunsCreate \/ AgentRunsUpdate
         \/ AgentRunsCost \/ WorkflowVersionsCreate
  PROVE  Kept
<1>1. CASE ArtifactsCreate
  <2>1. PICK id, row : Call({"records"}, "artifacts.create", M!ArtifactsCreate(mem, id, row),
                                                             P!ArtifactsCreate(pg, id, row))
    BY <1>1 DEF ArtifactsCreate
  <2> QED
    BY <2>1, CallPair, ArtifactsCreateCompared, CallIsKept
<1>2. CASE EvaluationsCreate
  <2>1. PICK id, row : Call({"records"}, "evaluations.create", M!EvaluationsCreate(mem, id, row),
                                                               P!EvaluationsCreate(pg, id, row))
    BY <1>2 DEF EvaluationsCreate
  <2> QED
    BY <2>1, CallPair, EvaluationsCreateCompared, CallIsKept
<1>3. CASE AgentRunsCreate
  <2>1. PICK id, row : Call({"records"}, "agentRuns.create", M!AgentRunsCreate(mem, id, row),
                                                             P!AgentRunsCreate(pg, id, row))
    BY <1>3 DEF AgentRunsCreate
  <2> QED
    BY <2>1, CallPair, AgentRunsCreateCompared, CallIsKept
<1>4. CASE AgentRunsUpdate
  <2>1. PICK id, row, e : Call({"records"}, "agentRuns.update", M!AgentRunsUpdate(mem, id, row, e),
                                                                P!AgentRunsUpdate(pg, id, row, e))
    BY <1>4 DEF AgentRunsUpdate
  <2> QED
    BY <2>1, CallPair, AgentRunsUpdateCompared, CallIsKept
<1>5. CASE AgentRunsCost
  <2>1. Call({"records"}, "agentRuns.sumProviderCost", M!AgentRunsCost(mem, "p1"),
                                                       P!AgentRunsCost(pg, "p1"))
    BY <1>5 DEF AgentRunsCost
  <2> QED
    BY <2>1, CallPair, AgentRunsCostCompared, CallIsKept
<1>6. CASE WorkflowVersionsCreate
  <2>1. PICK id, row : Call({"records"}, "workflowVersions.create",
                            M!WorkflowVersionsCreate(mem, id, row),
                            P!WorkflowVersionsCreate(pg, id, row))
    BY <1>6 DEF WorkflowVersionsCreate
  <2> QED
    BY <2>1, CallPair, WorkflowVersionsCreateCompared, CallIsKept
<1> QED
  BY <1>1, <1>2, <1>3, <1>4, <1>5, <1>6

LEMMA AdviceKept ==
  ASSUME IInv,
         \/ EventsAppend \/ OutboxEnqueue \/ OutboxClaimNext \/ OutboxMarkDelivered
         \/ OutboxMarkFailed \/ RecommendationsCreate \/ RecommendationsUpdateStatus
  PROVE  Kept
<1>1. CASE EventsAppend
  <2>1. PICK id, attempt : Call({"advice"}, "events.append",
                                M!EventsAppend(mem, id, Event("s1", attempt)),
                                P!EventsAppend(pg, id, Event("s1", attempt)))
    BY <1>1 DEF EventsAppend
  <2>2. DOMAIN Event("s1", attempt) = EventColumns
    BY DEF Event, EventColumns
  <2> QED
    BY <2>1, <2>2, CallPair, EventsAppendCompared, CallIsKept
<1>2. CASE OutboxEnqueue
  <2>1. PICK id \in {1, 2} : Call({"advice"}, "outbox.enqueue", M!OutboxEnqueue(mem, id, now),
                                                                P!OutboxEnqueue(pg, id, now))
    BY <1>2 DEF OutboxEnqueue
  <2> QED
    BY <2>1, CallPair, OutboxEnqueueCompared, CallIsKept
<1>3. CASE OutboxClaimNext
  <2>1. Call({"advice"}, "outbox.claimNext", M!OutboxClaimNext(mem, now), P!OutboxClaimNext(pg, now))
    BY <1>3 DEF OutboxClaimNext
  <2> QED
    BY <2>1, CallPair, OutboxClaimNextCompared, CallIsKept
<1>4. CASE OutboxMarkDelivered
  <2>1. PICK id : Call({"advice"}, "outbox.markDelivered", M!OutboxMarkDelivered(mem, id),
                                                           P!OutboxMarkDelivered(pg, id))
    BY <1>4 DEF OutboxMarkDelivered
  <2> QED
    BY <2>1, CallPair, OutboxMarkDeliveredCompared, CallIsKept
<1>5. CASE OutboxMarkFailed
  <2>1. PICK id : Call({"advice"}, "outbox.markFailed", M!OutboxMarkFailed(mem, id, now),
                                                        P!OutboxMarkFailed(pg, id, now))
    BY <1>5 DEF OutboxMarkFailed
  <2> QED
    BY <2>1, CallPair, OutboxMarkFailedCompared, CallIsKept
<1>6. CASE RecommendationsCreate
  <2>1. PICK id, row : Call({"advice"}, "recommendations.create",
                            M!RecommendationsCreate(mem, id, row),
                            P!RecommendationsCreate(pg, id, row))
    BY <1>6 DEF RecommendationsCreate
  <2> QED
    BY <2>1, CallPair, RecommendationsCreateCompared, CallIsKept
<1>7. CASE RecommendationsUpdateStatus
  <2>1. PICK status, e : Call({"advice"}, "recommendations.updateStatus",
                              M!RecommendationsUpdateStatus(mem, "p1", 1, status, e),
                              P!RecommendationsUpdateStatus(pg, "p1", 1, status, e))
    BY <1>7 DEF RecommendationsUpdateStatus
  <2> QED
    BY <2>1, CallPair, RecommendationsUpdateStatusCompared, CallIsKept
<1> QED
  BY <1>1, <1>2, <1>3, <1>4, <1>5, <1>6, <1>7

LEMMA MutationsKept ==
  ASSUME IInv,
         \/ DraftsCreate \/ DraftsUpdate \/ RevisionsCreate \/ RevisionsUpdateValidation
         \/ RevisionsInvalidate
  PROVE  Kept
<1>1. CASE DraftsCreate
  <2>1. PICK key, id, scope, base, graph :
          Call({"drafts"}, "drafts.create", M!DraftsCreate(mem, id, Draft(scope, base, graph, 1), key),
                                            P!DraftsCreate(pg, id, Draft(scope, base, graph, 1), key))
    BY <1>1 DEF DraftsCreate
  <2>2. {"project", "shot"} \subseteq DOMAIN Draft(scope, base, graph, 1)
    BY DEF Draft
  <2> QED
    BY <2>1, <2>2, CallPair, DraftsCreateCompared, CallIsKept
<1>2. CASE DraftsUpdate
  <2>1. PICK key, id, base, e :
          Call({"drafts"}, "drafts.update",
               M!DraftsUpdate(mem, id, Draft(<<"p1", "s1">>, base, "g2", e + 1), e, key),
               P!DraftsUpdate(pg, id, Draft(<<"p1", "s1">>, base, "g2", e + 1), e, key))
    BY <1>2 DEF DraftsUpdate
  <2>2. {"project", "shot"} \subseteq DOMAIN Draft(<<"p1", "s1">>, base, "g2", e + 1)
    BY DEF Draft
  <2> QED
    BY <2>1, <2>2, CallPair, DraftsUpdateCompared, CallIsKept
<1>3. CASE RevisionsCreate
  <2>1. PICK g \in {"drafts", "revisions"}, key \in MutationKey, id \in {"r1", "r2", "r3"},
             scope \in Scopes, parent \in Bases, hash \in {HashOf("g"), HashOf("g2")} :
          LET row == [Revision(scope[2], "g") EXCEPT !.project = scope[1], !.parent = parent,
                                                     !.hash = hash]
          IN  /\ g = "drafts" => id = "r1" /\ key = "k3" /\ parent = None
              /\ Call({g}, "revisions.create", M!RevisionsCreate(mem, id, row, key),
                                             P!RevisionsCreate(pg, id, row, key))
    BY <1>3, Zenon DEF RevisionsCreate
  <2> DEFINE row == [Revision(scope[2], "g") EXCEPT !.project = scope[1], !.parent = parent,
                                                    !.hash = hash]
  <2>2. RevisionColumns \subseteq DOMAIN row
    BY DEF Revision, RevisionColumns
  <2>3. Call({g}, "revisions.create", M!RevisionsCreate(mem, id, row, key),
                                      P!RevisionsCreate(pg, id, row, key))
    BY <2>1
  <2> HIDE DEF row
  <2> QED
    BY <2>1, <2>2, <2>3, CallPair, RevisionsCreateCompared, CallIsKept
<1>4. CASE RevisionsUpdateValidation
  <2>1. PICK id, shot, update :
          Call({"revisions"}, "revisions.updateValidation",
               M!RevisionsUpdateValidation(mem, "p1", shot, id, update),
               P!RevisionsUpdateValidation(pg, "p1", shot, id, update))
    BY <1>4 DEF RevisionsUpdateValidation
  <2> QED
    BY <2>1, CallPair, RevisionsUpdateValidationCompared, CallIsKept
<1>5. CASE RevisionsInvalidate
  <2>1. PICK update : Call(Queueing, "revisions.updateValidation",
                           M!RevisionsUpdateValidation(mem, "p1", "s1", "r1", update),
                           P!RevisionsUpdateValidation(pg, "p1", "s1", "r1", update))
    BY <1>5 DEF RevisionsInvalidate
  <2> QED
    BY <2>1, CallPair, RevisionsUpdateValidationCompared, CallIsKept DEF Queueing
<1> QED
  BY <1>1, <1>2, <1>3, <1>4, <1>5
LEMMA QueueKept ==
  ASSUME IInv,
         \/ AttemptsReview \/ AttemptsClaimNext \/ AttemptsClaimForRecovery
         \/ AttemptsHeartbeat \/ AttemptsRelease \/ AttemptsRecoverStale
  PROVE  Kept
<1> USE DEF Queueing
<1>1. CASE AttemptsReview
  <2>1. PICK id \in {1, 9}, decision \in {"accepted"} :
          Call(Queueing, "attempts.review", M!AttemptsReview(mem, id, decision, now),
                                            P!AttemptsReview(pg, id, decision, now))
    BY <1>1 DEF AttemptsReview
  <2> QED
    BY <2>1, CallPair, AttemptsReviewCompared, CallIsKept
<1>2. CASE AttemptsClaimNext
  <2>1. PICK w : Call(Queueing, "attempts.claimNext", M!AttemptsClaimNext(mem, w, now, now + 1),
                                                      P!AttemptsClaimNext(pg, w, now, now + 1))
    BY <1>2 DEF AttemptsClaimNext
  <2> QED
    BY <2>1, CallPair, AttemptsClaimNextCompared, CallIsKept
<1>3. CASE AttemptsClaimForRecovery
  <2>1. PICK w : Call(Queueing, "attempts.claimForRecovery",
                      M!AttemptsClaimForRecovery(mem, w, now, now + 1),
                      P!AttemptsClaimForRecovery(pg, w, now, now + 1))
    BY <1>3 DEF AttemptsClaimForRecovery
  <2> QED
    BY <2>1, CallPair, AttemptsClaimForRecoveryCompared, CallIsKept
<1>4. CASE AttemptsHeartbeat
  <2>1. PICK id, w : Call(Queueing, "attempts.heartbeat",
                          M!AttemptsHeartbeat(mem, id, w, now, now + 1),
                          P!AttemptsHeartbeat(pg, id, w, now, now + 1))
    BY <1>4 DEF AttemptsHeartbeat
  <2> QED
    BY <2>1, CallPair, AttemptsHeartbeatCompared, CallIsKept
<1>5. CASE AttemptsRelease
  <2>1. PICK id, w : Call(Queueing, "attempts.release", M!AttemptsRelease(mem, id, w, now),
                                                        P!AttemptsRelease(pg, id, w, now))
    BY <1>5 DEF AttemptsRelease
  <2> QED
    BY <2>1, CallPair, AttemptsReleaseCompared, CallIsKept
<1>6. CASE AttemptsRecoverStale
  <2>1. Call(Queueing, "attempts.recoverStale", M!AttemptsRecoverStale(mem, now),
                                                P!AttemptsRecoverStale(pg, now))
    BY <1>6 DEF AttemptsRecoverStale
  <2> QED
    BY <2>1, CallPair, AttemptsRecoverStaleCompared, CallIsKept
<1> QED
  BY <1>1, <1>2, <1>3, <1>4, <1>5, <1>6

LEMMA WrittenAttemptIsTyped ==
  ASSUME NEW old, AttemptTyped(old), NEW written \in AttemptWrites(old), NEW e, NEW at \in Nat,
         NEW row, row = [written EXCEPT !.version = e + 1, !.updated = at]
  PROVE  AttemptTyped(row) /\ InScope(row, old.project, old.shot)
<1>1. /\ DOMAIN written = AttemptColumns /\ written.queuedAt = old.queuedAt
      /\ written.project = old.project /\ written.shot = old.shot
  <2>1. ASSUME NEW to,
               written = [old EXCEPT !.status = to,
                            !.owner = IF to \in LeasedStatus THEN @ ELSE None,
                            !.expires = IF to \in LeasedStatus THEN @ ELSE None]
        PROVE  /\ DOMAIN written = AttemptColumns /\ written.queuedAt = old.queuedAt
               /\ written.project = old.project /\ written.shot = old.shot
    BY <2>1 DEF AttemptTyped, AttemptColumns
  <2>2. CASE written \in {old, [old EXCEPT !.seed = 2], [old EXCEPT !.prompt = <<"prompt", 2>>]}
    BY <2>2 DEF AttemptTyped, AttemptColumns
  <2> QED
    BY <2>1, <2>2 DEF AttemptWrites
<1> QED
  BY <1>1 DEF AttemptTyped, AttemptColumns, InScope

LEMMA AttemptsKeptByCalls ==
  ASSUME IInv, AttemptsCreate \/ AttemptsUpdate
  PROVE  Kept
<1>1. CASE AttemptsCreate
  <2> DEFINE row(id, like) == [Attempt(id, "queued", "r1") EXCEPT !.corr = <<"corr", like>>,
                                                                  !.queuedAt = now, !.updated = now]
  <2>1. PICK id \in {1, 3}, like \in {1, 3} :
          Call({"attempts"}, "attempts.create", M!AttemptsCreate(mem, id, row(id, like)),
                                                P!AttemptsCreate(pg, id, row(id, like)))
    BY <1>1 DEF AttemptsCreate
  <2>2. Pair(mem, pg) /\ "p1" \in DOMAIN pg.projects /\ "s1" \in DOMAIN pg.shots /\ now \in Nat
    BY <2>1, CallPair DEF Home
  <2>3. /\ AttemptTyped(row(id, like)) /\ row(id, like).status # "accepted"
        /\ row(id, like).project = "p1" /\ row(id, like).shot = "s1"
    BY <2>2 DEF Attempt, AttemptTyped, AttemptColumns
  <2> HIDE DEF row
  <2> QED
    BY <2>1, <2>2, <2>3, AttemptsCreateCompared, CallIsKept
<1>2. CASE AttemptsUpdate
  <2> DEFINE row(written, e) == [written EXCEPT !.version = e + 1, !.updated = now]
  <2>1. PICK id, e, written :
          /\ id \in DOMAIN pg.attempts /\ written \in AttemptWrites(pg.attempts[id])
          /\ Call({"attempts"}, "attempts.update", M!AttemptsUpdate(mem, id, row(written, e), e),
                                                   P!AttemptsUpdate(pg, id, row(written, e), e))
    BY <1>2 DEF AttemptsUpdate
  <2>2. Pair(mem, pg) /\ AttemptTyped(pg.attempts[id]) /\ now \in Nat
    BY <2>1, CallPair, AttemptsOf DEF AttemptsTyped
  <2>3. /\ AttemptTyped(row(written, e))
        /\ InScope(row(written, e), pg.attempts[id].project, pg.attempts[id].shot)
    BY <2>1, <2>2, WrittenAttemptIsTyped
  <2> HIDE DEF row
  <2> QED
    BY <2>1, <2>2, <2>3, AttemptsUpdateCompared, CallIsKept
<1> QED
  BY <1>1, <1>2

(* The calls of a session about the services' own keys.                    *)
LEMMA KeyCallsKept ==
  ASSUME IInv, IdempotencyReserve \/ IdempotencyComplete \/ IdempotencyRelease
  PROVE  Kept
<1> DEFINE OthersOnly(s) == \A k \in DOMAIN s.keys : s.keys[k].operation \notin MutationOps
<1>1. ASSUME NEW name, NEW m, NEW p, Call({"keys"}, name, m, p)
      PROVE  Pair(mem, pg) /\ OthersOnly(pg) /\ group = "keys" /\ DOMAIN pg = Columns
             /\ "keys" \in Columns
  BY <1>1, CallPair, KeysOf DEF Home
<1>2. ASSUME NEW name, NEW m, NEW p, Call({"keys"}, name, m, p), Compared(name, mem, pg, m, p),
             OthersOnly(p.s)
      PROVE  Kept
  <2>1. Home(group, p.s)
    BY <1>1, <1>2 DEF Home
  <2> QED
    BY <1>2, <2>1, CallKeeps DEF Kept
<1>3. CASE IdempotencyReserve
  <2>1. PICK request : Call({"keys"}, "idempotency.reserve",
                            M!IdempotencyReserve(mem, "k1", "runs", request),
                            P!IdempotencyReserve(pg, "k1", "runs", request))
    BY <1>3 DEF IdempotencyReserve
  <2> DEFINE p == P!IdempotencyReserve(pg, "k1", "runs", request)
             row == KeyRow("runs", request)
  <2>2. row.operation \notin MutationOps
    BY DEF KeyRow, MutationOps, DraftOps, RevisionOp
  <2>3. p.s = pg \/ p.s = Put(pg, "keys", "k1", row)
    BY Reservation
  <2>4. Put(pg, "keys", "k1", row).keys = WithRow(pg.keys, "k1", row)
    BY <1>1, <2>1, TableWritten
  <2> HIDE DEF row, p
  <2>5. OthersOnly(p.s)
    BY <1>1, <2>1, <2>2, <2>3, <2>4 DEF WithRow
  <2> QED
    BY <1>1, <1>2, <2>1, <2>5, IdempotencyReserveCompared DEF p
<1>4. CASE IdempotencyComplete
  <2> DEFINE p == P!IdempotencyComplete(pg, "k1", "response")
  <2>1. Call({"keys"}, "idempotency.complete", M!IdempotencyComplete(mem, "k1", "response"), p)
    BY <1>4 DEF IdempotencyComplete
  <2>2. p.s = pg \/ p.s = [pg EXCEPT !.keys["k1"].resource = "response"]
    BY DEF P!IdempotencyComplete
  <2>3. [pg EXCEPT !.keys["k1"].resource = "response"].keys
          = [pg.keys EXCEPT !["k1"].resource = "response"]
    BY <1>1, <2>1
  <2>4. \A k \in DOMAIN pg.keys :
          [pg.keys EXCEPT !["k1"].resource = "response"][k].operation = pg.keys[k].operation
    OBVIOUS
  <2>5. OthersOnly(p.s)
    BY <1>1, <2>1, <2>2, <2>3, <2>4
  <2>6. Compared("idempotency.complete", mem, pg, M!IdempotencyComplete(mem, "k1", "response"), p)
    BY <1>1, <2>1, IdempotencyCompleteCompared
  <2> HIDE DEF p
  <2> QED
    BY <1>2, <2>1, <2>5, <2>6
<1>5. CASE IdempotencyRelease
  <2> DEFINE p == P!IdempotencyRelease(pg, "k1")
             u == Drop(pg, "keys", "k1")
  <2>1. Call({"keys"}, "idempotency.release", M!IdempotencyRelease(mem, "k1"), p)
    BY <1>5 DEF IdempotencyRelease
  <2>2. p.s = pg \/ p.s = u
    BY DEF P!IdempotencyRelease, P!Drop, Drop
  <2>3. u.keys = [k \in DOMAIN pg.keys \ {"k1"} |-> pg.keys[k]]
    BY <1>1, <2>1 DEF Drop
  <2> HIDE DEF u
  <2>4. OthersOnly(p.s)
    BY <1>1, <2>1, <2>2, <2>3
  <2>5. Compared("idempotency.release", mem, pg, M!IdempotencyRelease(mem, "k1"), p)
    BY <1>1, <2>1, IdempotencyReleaseCompared
  <2> HIDE DEF p
  <2> QED
    BY <1>2, <2>1, <2>4, <2>5
<1> QED
  BY <1>3, <1>4, <1>5
(* The calls of a session about projects and shots: every shot keeps       *)
(* naming a project.                                                       *)
Named(rows) == \A shot \in DOMAIN rows : "project" \in DOMAIN rows[shot]

LEMMA GreatestOfBatch ==
  ASSUME NEW n \in Nat, NEW T, T \subseteq 1 .. n, T # {}
  PROVE  Max(T) \in T
<1>1. PICK y \in {n - x : x \in T} : \A z \in {n - x : x \in T} : y <= z
  <2>1. \A x \in T : n - x \in Nat
    OBVIOUS
  <2>2. {n - x : x \in T} \subseteq Nat /\ {n - x : x \in T} # {}
    BY <2>1
  <2> QED
    BY <2>2, LeastNumber
<1>2. PICK x \in T : y = n - x
  BY <1>1
<1>3. ASSUME NEW z \in T PROVE z <= x
  <2>1. n - x <= n - z
    BY <1>1, <1>2
  <2>2. z \in Nat /\ x \in Nat
    OBVIOUS
  <2> QED
    BY <2>1, <2>2
<1> QED
  BY <1>2, <1>3 DEF Max

LEMMA BatchIsNamed ==
  ASSUME NEW rows, Named(rows), NEW shots, NEW n \in Nat,
         \A i \in 1 .. n : "project" \in DOMAIN shots[i].row
  PROVE  Named(WithRows(rows, shots, n))
<1> SUFFICES ASSUME NEW id \in DOMAIN WithRows(rows, shots, n)
             PROVE  "project" \in DOMAIN WithRows(rows, shots, n)[id]
  BY DEF Named
<1> DEFINE same == {i \in 1 .. n : shots[i].id = id}
<1>1. id \in DOMAIN rows \cup {shots[i].id : i \in 1 .. n}
  BY DEF WithRows
<1>2. CASE same # {}
  <2>1. Max(same) \in same
    BY <1>2, GreatestOfBatch
  <2>2. WithRows(rows, shots, n)[id] = shots[Max(same)].row
    BY <1>1, <1>2 DEF WithRows
  <2> QED
    BY <2>1, <2>2
<1>3. CASE same = {}
  <2>1. WithRows(rows, shots, n)[id] = rows[id] /\ id \in DOMAIN rows
    BY <1>1, <1>3 DEF WithRows
  <2> QED
    BY <2>1 DEF Named
<1> QED
  BY <1>2, <1>3

LEMMA BatchesAreShots ==
  ASSUME NEW shots \in ShotBatches
  PROVE  /\ shots \in Seq({shots[1], shots[2]})
         /\ \A i \in DOMAIN shots : /\ "project" \in DOMAIN shots[i].row
                                    /\ shots[i].row.status # "accepted"
<1>1. \A id, project, ordinal : /\ "project" \in DOMAIN NewShot(id, project, ordinal).row
                                /\ NewShot(id, project, ordinal).row.status = "generating"
  BY DEF NewShot, Shot
<1>2. \/ \E x : shots = <<x>> /\ "project" \in DOMAIN x.row /\ x.row.status = "generating"
      \/ \E x, y : /\ shots = <<x, y>>
                   /\ "project" \in DOMAIN x.row /\ x.row.status = "generating"
                   /\ "project" \in DOMAIN y.row /\ y.row.status = "generating"
  BY <1>1 DEF ShotBatches
<1>3. ASSUME NEW x, shots = <<x>>, "project" \in DOMAIN x.row, x.row.status = "generating"
      PROVE  /\ shots \in Seq({shots[1], shots[2]})
             /\ \A i \in DOMAIN shots : /\ "project" \in DOMAIN shots[i].row
                                        /\ shots[i].row.status # "accepted"
  BY <1>3
<1>4. ASSUME NEW x, NEW y, shots = <<x, y>>,
             "project" \in DOMAIN x.row, x.row.status = "generating",
             "project" \in DOMAIN y.row, y.row.status = "generating"
      PROVE  /\ shots \in Seq({shots[1], shots[2]})
             /\ \A i \in DOMAIN shots : /\ "project" \in DOMAIN shots[i].row
                                        /\ shots[i].row.status # "accepted"
  <2>1. DOMAIN shots = {1, 2} /\ shots[1] = x /\ shots[2] = y
    BY <1>4
  <2>2. shots \in Seq({shots[1], shots[2]})
    BY <1>4, <2>1
  <2> QED
    BY <1>4, <2>1, <2>2
<1> QED
  BY <1>2, <1>3, <1>4

LEMMA ShotWriteIsNamed ==
  ASSUME NEW old, "project" \in DOMAIN old, NEW written \in ShotWrites(old), NEW e,
         NEW row, row = [written EXCEPT !.version = e + 1]
  PROVE  "project" \in DOMAIN row /\ row.project = old.project
BY DEF ShotWrites

LEMMA ProjectCallsKept ==
  ASSUME IInv,
         TenantsEnsure \/ ProjectsCreate \/ ProjectsUpdate \/ ShotsCreateMany \/ ShotsUpdate
  PROVE  Kept
<1>1. ASSUME NEW name, NEW m, NEW p, Call({"projects"}, name, m, p)
      PROVE  /\ Pair(mem, pg) /\ Named(pg.shots) /\ group = "projects" /\ DOMAIN pg = Columns
             /\ "projects" \in Columns /\ "shots" \in Columns /\ "tenant" \in Columns
  BY <1>1, CallPair, KeysOf DEF Home, Named, Columns, Table
<1>2. ASSUME NEW name, NEW m, NEW p, Call({"projects"}, name, m, p),
             Compared(name, mem, pg, m, p), Accepted(p) => Named(p.s.shots)
      PROVE  Kept
  <2>1. Accepted(p) => Home(group, p.s)
    BY <1>1, <1>2 DEF Home, Named
  <2> QED
    BY <1>2, <2>1, CallKeeps DEF Kept
<1>3. CASE TenantsEnsure
  <2> DEFINE p == P!TenantsEnsure(pg)
  <2>1. Call({"projects"}, "tenants.ensure", M!TenantsEnsure(mem), p)
    BY <1>3 DEF TenantsEnsure
  <2>2. p.s.shots = pg.shots
    BY <1>1, <2>1 DEF P!TenantsEnsure
  <2>3. Compared("tenants.ensure", mem, pg, M!TenantsEnsure(mem), p)
    BY <1>1, <2>1, TenantsEnsureCompared
  <2> HIDE DEF p
  <2> QED
    BY <1>1, <1>2, <2>1, <2>2, <2>3
<1>4. CASE ProjectsCreate
  <2>1. PICK id : Call({"projects"}, "projects.create", M!ProjectsCreate(mem, id, Project),
                                                        P!ProjectsCreate(pg, id, Project))
    BY <1>4 DEF ProjectsCreate
  <2> DEFINE p == P!ProjectsCreate(pg, id, Project)
  <2>2. p.s.shots = pg.shots
    <3>1. Put(pg, "projects", id, Project).shots = pg.shots
      BY <1>1, <2>1, TableWritten
    <3>2. p.s = pg \/ p.s = Put(pg, "projects", id, Project)
      BY DEF P!ProjectsCreate, Put, WithRow
    <3> QED
      BY <3>1, <3>2
  <2>3. Compared("projects.create", mem, pg, M!ProjectsCreate(mem, id, Project), p)
    BY <1>1, <2>1, ProjectsCreateCompared
  <2> HIDE DEF p
  <2> QED
    BY <1>1, <1>2, <2>1, <2>2, <2>3 DEF p
<1>5. CASE ProjectsUpdate
  <2>1. PICK id, row, e : Call({"projects"}, "projects.update", M!ProjectsUpdate(mem, id, row, e),
                                                                P!ProjectsUpdate(pg, id, row, e))
    BY <1>5 DEF ProjectsUpdate
  <2> DEFINE p == P!ProjectsUpdate(pg, id, row, e)
  <2>2. p.s.shots = pg.shots
    <3>1. Put(pg, "projects", id, row).shots = pg.shots
      BY <1>1, <2>1, TableWritten
    <3>2. p.s = pg \/ p.s = Put(pg, "projects", id, row)
      BY DEF P!ProjectsUpdate, Put, WithRow
    <3> QED
      BY <3>1, <3>2
  <2>3. Compared("projects.update", mem, pg, M!ProjectsUpdate(mem, id, row, e), p)
    BY <1>1, <2>1, ProjectsUpdateCompared
  <2> HIDE DEF p
  <2> QED
    BY <1>1, <1>2, <2>1, <2>2, <2>3 DEF p
<1>6. CASE ShotsCreateMany
  <2>1. PICK shots \in ShotBatches :
          Call({"projects"}, "shots.createMany", M!ShotsCreateMany(mem, shots),
                                                 P!ShotsCreateMany(pg, shots))
    BY <1>6 DEF ShotsCreateMany
  <2> DEFINE p == P!ShotsCreateMany(pg, shots)
             n == Len(shots)
             X == {shots[1], shots[2]}
  <2>2. /\ shots \in Seq(X)
        /\ \A i \in DOMAIN shots : /\ "project" \in DOMAIN shots[i].row
                                   /\ shots[i].row.status # "accepted"
    BY <2>1, BatchesAreShots
  <2>8. n \in Nat /\ DOMAIN shots = 1 .. n
    BY <2>2
  <2>3. Compared("shots.createMany", mem, pg, M!ShotsCreateMany(mem, shots), p)
    BY <1>1, <2>1, <2>2, ShotsCreateManyCompared
  <2> HIDE DEF n, X
  <2>4. \/ p.s = Inserted(pg, shots, n)
        \/ \E i \in Nat : p \in {Refuse(Inserted(pg, shots, i), "23505"),
                                 Refuse(Inserted(pg, shots, i), "23503")}
    BY <1>1, <2>1, <2>2, PgInsertsBatch DEF Ok, n
  <2> HIDE DEF p
  <2>5. Accepted(p) => p.s = Inserted(pg, shots, n)
    BY <2>4, Codes DEF SqlState
  <2>6. Inserted(pg, shots, n).shots = WithRows(pg.shots, shots, n)
    BY <1>1, <2>1, InsertedIsElsewhere
  <2>7. Accepted(p) => Named(p.s.shots)
    BY <1>1, <2>1, <2>2, <2>5, <2>6, <2>8, BatchIsNamed
  <2> QED
    BY <1>2, <2>1, <2>3, <2>7 DEF p
<1>7. CASE ShotsUpdate
  <2> DEFINE row(written, e) == [written EXCEPT !.version = e + 1]
  <2>1. PICK id, e, written :
          /\ id \in DOMAIN pg.shots /\ written \in ShotWrites(pg.shots[id])
          /\ Call({"projects"}, "shots.update", M!ShotsUpdate(mem, id, row(written, e), e),
                                                P!ShotsUpdate(pg, id, row(written, e), e))
    BY <1>7 DEF ShotsUpdate
  <2>2. "project" \in DOMAIN row(written, e) /\ row(written, e).project = pg.shots[id].project
    BY <1>1, <2>1, ShotWriteIsNamed DEF Named
  <2> HIDE DEF row
  <2> DEFINE p == P!ShotsUpdate(pg, id, row(written, e), e)
             u == Put(pg, "shots", id, row(written, e))
  <2>3. p.s = pg \/ p.s = u
    BY DEF P!ShotsUpdate, Put, WithRow
  <2>4. u.shots = WithRow(pg.shots, id, row(written, e))
    BY <1>1, <2>1, TableWritten
  <2>5. Compared("shots.update", mem, pg, M!ShotsUpdate(mem, id, row(written, e), e), p)
    BY <1>1, <2>1, <2>2, ShotsUpdateCompared
  <2> HIDE DEF p, u
  <2>6. Named(p.s.shots)
    BY <1>1, <2>1, <2>2, <2>3, <2>4 DEF Named, WithRow
  <2> QED
    BY <1>2, <2>1, <2>5, <2>6 DEF p
<1> QED
  BY <1>3, <1>4, <1>5, <1>6, <1>7
-----------------------------------------------------------------------------
(* The stores that sessions start from.                                    *)

Seeded(s) ==
  /\ DOMAIN s = Columns /\ s.nextSequence = 1
  /\ DOMAIN s.outbox = {} /\ DOMAIN s.events = {} /\ DOMAIN s.drafts = {} /\ DOMAIN s.keys = {}
  /\ ScopesTyped(s.revisions) /\ AttemptsTyped(s.attempts) /\ Indexed(s.attempts)
  /\ Referenced(s) /\ Named(s.shots)

LEMMA SeededIsSound ==
  ASSUME NEW s, Seeded(s)
  PROVE  PgSound(s) /\ MemSound(s)
<1>1. Typed(s)
  BY DEF Seeded, Typed, OutboxTyped, EventsNumbered, ScopesTyped
<1>2. KeysNameRows(s) /\ KeysAreScoped(s) /\ OneDraftEach(s.drafts)
  BY DEF Seeded, KeysNameRows, KeysAreScoped, OneDraftEach
<1> QED
  BY <1>1, <1>2 DEF Seeded, PgSound, MemSound

LEMMA EmptyIsSeeded ==
  /\ Seeded(EmptyStore)
  /\ \A c \in Table : DOMAIN EmptyStore[c] = {}
<1>1. DOMAIN EmptyStore = Columns /\ EmptyStore.nextSequence = 1
  BY DEF EmptyStore, Columns
<1>2. ASSUME NEW c \in Table PROVE DOMAIN EmptyStore[c] = {}
  <2>1. c # "tenant" /\ c # "nextSequence" /\ c \in Table \cup {"tenant", "nextSequence"}
    BY DEF Table
  <2>2. EmptyStore[c] = <<>>
    BY <2>1 DEF EmptyStore
  <2> QED
    BY <2>2
<1>3. {"outbox", "events", "drafts", "keys", "revisions", "attempts", "shots"} \subseteq Table
  BY DEF Table
<1> HIDE DEF EmptyStore
<1>4. Seeded(EmptyStore)
  BY <1>1, <1>2, <1>3
  DEF Seeded, ScopesTyped, AttemptsTyped, Indexed, Referenced, Named
<1> QED
  BY <1>2, <1>4

Grounded(s) == "p1" \in DOMAIN s.projects /\ "s1" \in DOMAIN s.shots

LEMMA BaseIsSeeded == Seeded(Base) /\ Grounded(Base) /\ DOMAIN Base.attempts = {}
<1> DEFINE projects == [p \in {"p1", "p2"} |-> Project]
           shots == [shot \in {"s1", "s2"} |-> Shot(IF shot = "s1" THEN "p1" ELSE "p2")]
<1>1. /\ DOMAIN EmptyStore = Columns /\ EmptyStore.nextSequence = 1
      /\ {"tenant", "projects", "shots"} \subseteq Columns
  BY EmptyIsSeeded DEF Seeded, Columns, Table
<1> HIDE DEF EmptyStore
<1>2. /\ DOMAIN Base = Columns /\ Base.projects = projects /\ Base.shots = shots
      /\ \A c \in Columns \ {"tenant", "projects", "shots"} : Base[c] = EmptyStore[c]
  BY <1>1 DEF Base
<1>3. {"outbox", "events", "drafts", "keys", "revisions", "attempts", "nextSequence"}
        \subseteq Columns \ {"tenant", "projects", "shots"}
  BY DEF Columns, Table
<1>4. {"outbox", "events", "drafts", "keys", "revisions", "attempts"} \subseteq Table
  BY DEF Table
<1>5. Named(shots) /\ "p1" \in DOMAIN projects /\ "s1" \in DOMAIN shots
  BY DEF Named, Shot
<1>6. /\ Base.nextSequence = 1 /\ DOMAIN Base.attempts = {} /\ DOMAIN Base.revisions = {}
      /\ DOMAIN Base.outbox = {} /\ DOMAIN Base.events = {} /\ DOMAIN Base.drafts = {}
      /\ DOMAIN Base.keys = {}
  BY <1>1, <1>2, <1>3, <1>4, EmptyIsSeeded
<1> HIDE DEF Base, projects, shots
<1> QED
  BY <1>2, <1>5, <1>6
  DEF Seeded, Grounded, ScopesTyped, AttemptsTyped, Indexed, Referenced

LEMMA RevisionIsSeeded ==
  LET s == [Base EXCEPT !.revisions = [r \in {"r1"} |-> Revision("s1", "g")]]
  IN  Seeded(s) /\ Grounded(s)
<1> DEFINE rows == [r \in {"r1"} |-> Revision("s1", "g")]
           s == [Base EXCEPT !.revisions = rows]
<1>1. DOMAIN Base = Columns /\ Seeded(Base) /\ Grounded(Base)
  BY BaseIsSeeded DEF Seeded
<1>2. ScopesTyped(rows)
  BY DEF ScopesTyped, Revision
<1> HIDE DEF Base, rows
<1>3. /\ DOMAIN s = Columns /\ s.revisions = rows
      /\ s.attempts = Base.attempts /\ s.projects = Base.projects /\ s.shots = Base.shots
      /\ s.outbox = Base.outbox /\ s.events = Base.events /\ s.drafts = Base.drafts
      /\ s.keys = Base.keys /\ s.nextSequence = Base.nextSequence
  BY <1>1 DEF Columns, Table
<1> HIDE DEF s
<1>4. Seeded(s) /\ Grounded(s)
  BY <1>1, <1>2, <1>3 DEF Seeded, Grounded, Referenced
<1> QED
  BY <1>4 DEF s, rows

(* The attempts of a session's start have keys and prompts of their own.   *)
LEMMA AttemptsAreSeeded ==
  ASSUME NEW s, Seeded(s), Grounded(s), NEW statuses, NEW revision,
         DOMAIN statuses \subseteq Nat, \A a \in DOMAIN statuses : statuses[a] # "accepted"
  PROVE  LET u == WithAttempts(s, statuses, revision)
         IN  Seeded(u) /\ Grounded(u)
<1> DEFINE rows == [a \in DOMAIN statuses |-> Attempt(a, statuses[a], revision)]
           u == [s EXCEPT !.attempts = rows]
<1>1. /\ DOMAIN u = Columns /\ u.attempts = rows
      /\ u.projects = s.projects /\ u.shots = s.shots /\ u.revisions = s.revisions
      /\ u.outbox = s.outbox /\ u.events = s.events /\ u.drafts = s.drafts
      /\ u.keys = s.keys /\ u.nextSequence = s.nextSequence
  BY DEF Seeded, Columns, Table
<1>2. ASSUME NEW a \in DOMAIN statuses
      PROVE  /\ AttemptTyped(rows[a]) /\ rows[a].key = <<"key", a>> /\ rows[a].corr = <<"corr", a>>
             /\ rows[a].prompt \in {None, <<"prompt", a>>} /\ rows[a].status = statuses[a]
             /\ rows[a].project = "p1" /\ rows[a].shot = "s1"
  BY DEF Attempt, AttemptTyped, AttemptColumns
<1>3. DOMAIN rows = DOMAIN statuses
  OBVIOUS
<1> HIDE DEF rows, u
<1>4. AttemptsTyped(u.attempts)
  BY <1>1, <1>2, <1>3 DEF AttemptsTyped
<1>5. Indexed(u.attempts)
  <2> SUFFICES ASSUME NEW a \in DOMAIN statuses, NEW b \in DOMAIN statuses, a # b
               PROVE  Distinct(rows[a], rows[b])
    BY <1>1, <1>3 DEF Indexed
  <2>1. /\ rows[a].key = <<"key", a>> /\ rows[b].key = <<"key", b>>
        /\ rows[a].corr = <<"corr", a>> /\ rows[b].corr = <<"corr", b>>
    BY <1>2
  <2>2. rows[a].key # rows[b].key /\ rows[a].corr # rows[b].corr
    BY <2>1
  <2>3. rows[a].prompt = None \/ rows[a].prompt # rows[b].prompt
    <3>1. rows[a].prompt \in {None, <<"prompt", a>>} /\ rows[b].prompt \in {None, <<"prompt", b>>}
      BY <1>2
    <3>2. <<"prompt", a>> # <<"prompt", b>>
      OBVIOUS
    <3> QED
      BY <3>1, <3>2
  <2>4. rows[a].status # "accepted"
    BY <1>2
  <2> QED
    BY <2>2, <2>3, <2>4 DEF Distinct
<1>6. Referenced(u)
  BY <1>1, <1>2, <1>3 DEF Referenced, Grounded
<1>7. Seeded(u) /\ Grounded(u)
  BY <1>1, <1>4, <1>5, <1>6 DEF Seeded, Grounded
<1> QED
  BY <1>7 DEF u, rows, WithAttempts

LEMMA StartIsSeeded ==
  ASSUME NEW g, NEW s \in Start(g)
  PROVE  Seeded(s) /\ (g # "projects" => Grounded(s))
<1> DEFINE based == [Base EXCEPT !.revisions = [r \in {"r1"} |-> Revision("s1", "g")]]
<1>1. ASSUME NEW b \in {Base, based}, NEW revision,
             NEW statuses \in SeedStatus \cup {<<"awaiting_review">>, <<"running">>,
                                               <<"running", "running">>}
      PROVE  Seeded(WithAttempts(b, statuses, revision)) /\ Grounded(WithAttempts(b, statuses, revision))
  <2>1. DOMAIN statuses \subseteq Nat /\ \A a \in DOMAIN statuses : statuses[a] # "accepted"
    BY DEF SeedStatus
  <2>2. Seeded(b) /\ Grounded(b)
    BY BaseIsSeeded, RevisionIsSeeded
  <2> HIDE DEF based
  <2> QED
    BY <2>1, <2>2, AttemptsAreSeeded
<1>2. Seeded(EmptyStore) /\ Seeded(Base) /\ Grounded(Base)
  BY EmptyIsSeeded, BaseIsSeeded
<1> HIDE DEF Base, EmptyStore
<1>3. CASE g = "projects"
  <2>1. s \in {EmptyStore, WithAttempts(Base, <<"awaiting_review">>, None)}
    BY <1>3 DEF Start
  <2> QED
    BY <1>1, <1>2, <1>3, <2>1
<1>4. CASE g \in {"attempts", "queue"}
  <2>1. \E statuses \in SeedStatus : \E revision : s = WithAttempts(based, statuses, revision)
    BY <1>4 DEF Start
  <2> HIDE DEF based
  <2> QED
    BY <1>1, <2>1
<1>5. CASE g = "advice"
  <2>1. s = WithAttempts(Base, <<"running">>, None)
    BY <1>5 DEF Start
  <2> QED
    BY <1>1, <2>1
<1>6. CASE g \notin {"projects", "attempts", "queue", "advice"}
  <2>1. s \in {Base, WithAttempts(Base, <<"running", "running">>, None)}
    BY <1>6 DEF Start
  <2> QED
    BY <1>1, <1>2, <2>1
<1> QED
  BY <1>3, <1>4, <1>5, <1>6

LEMMA AlikeAtOnce == \A s : Alike(s, s)
BY DEF Alike, AlikeAttempts, AlikeOutbox, AlikeEvents

LEMMA InitIsSound ==
  ASSUME Init
  PROVE  IInv
<1>1. Seeded(mem) /\ (group # "projects" => Grounded(mem)) /\ pg = mem
      /\ begun.mem = mem /\ begun.pg = mem /\ last = NoCall /\ now = 0
  BY StartIsSeeded DEF Init
<1>2. PgSound(mem) /\ MemSound(mem)
  BY <1>1, SeededIsSound
<1>3. Home(group, mem)
  BY <1>1 DEF Home, Seeded, Grounded, Named
<1>4. KnownSplits /\ SameCodes
  BY <1>1 DEF KnownSplits, SameCodes, NoCall
<1>5. mem.nextSequence <= mem.nextSequence
  BY <1>2, NumbersOfPg
<1> QED
  BY <1>1, <1>2, <1>3, <1>4, <1>5, AlikeAtOnce, LaterAtOnce DEF IInv
-----------------------------------------------------------------------------
(* Every step keeps the invariant and the terminal attempts.               *)

LEMMA StepKeeps ==
  ASSUME IInv, [Next]_vars
  PROVE  Kept
<1>1. CASE \/ ArtifactsCreate \/ EvaluationsCreate \/ AgentRunsCreate \/ AgentRunsUpdate
           \/ AgentRunsCost \/ WorkflowVersionsCreate
  BY <1>1, RecordsKept
<1>2. CASE \/ EventsAppend \/ OutboxEnqueue \/ OutboxClaimNext \/ OutboxMarkDelivered
           \/ OutboxMarkFailed \/ RecommendationsCreate \/ RecommendationsUpdateStatus
  BY <1>2, AdviceKept
<1>3. CASE \/ DraftsCreate \/ DraftsUpdate \/ RevisionsCreate \/ RevisionsUpdateValidation
           \/ RevisionsInvalidate
  BY <1>3, MutationsKept
<1>4. CASE \/ AttemptsReview \/ AttemptsClaimNext \/ AttemptsClaimForRecovery
           \/ AttemptsHeartbeat \/ AttemptsRelease \/ AttemptsRecoverStale
  BY <1>4, QueueKept
<1>5. CASE AttemptsCreate \/ AttemptsUpdate
  BY <1>5, AttemptsKeptByCalls
<1>6. CASE IdempotencyReserve \/ IdempotencyComplete \/ IdempotencyRelease
  BY <1>6, KeyCallsKept
<1>7. CASE TenantsEnsure \/ ProjectsCreate \/ ProjectsUpdate \/ ShotsCreateMany \/ ShotsUpdate
  BY <1>7, ProjectCallsKept
<1>8. CASE Commit
  BY <1>8, CommitKeeps DEF Kept
<1>9. CASE WorkThrows
  BY <1>9, WorkThrowsKeeps DEF Kept
<1>10. CASE Tick
  BY <1>10, TickKeeps DEF Kept
<1>11. CASE UNCHANGED vars
  <2>1. /\ mem' = mem /\ pg' = pg /\ begun' = begun /\ last' = last /\ group' = group
        /\ now' = now
    BY <1>11 DEF vars
  <2>2. IInv'
    BY <2>1 DEF IInv, KnownSplits, SameCodes
  <2> QED
    BY <2>1, <2>2, LaterIsFrozen DEF IInv, Kept
<1> QED
  BY <1>1, <1>2, <1>3, <1>4, <1>5, <1>6, <1>7, <1>8, <1>9, <1>10, <1>11 DEF Next

(* The inductive invariant: both stores are sound, through every commit,   *)
(* rollback and refused call; while they answered alike they are alike, at *)
(* the start of the open transaction as well as now; and the last call     *)
(* parted them, or was refused by both, only as the properties allow.      *)
THEOREM StoresInvariant == Spec => []IInv
<1>1. Init => IInv
  BY InitIsSound
<1>2. IInv /\ [Next]_vars => IInv'
  BY StepKeeps DEF Kept
<1> QED
  BY <1>1, <1>2, PTL DEF Spec

(* A terminal attempt that was committed is never changed in either store, *)
(* but for its review, with the version and the time AttemptsReview        *)
(* writes: no claim, recovery, heartbeat, release or write of a stale copy *)
(* reaches it, and a rollback gives it back.                               *)
THEOREM TerminalAttemptsAreFrozen == Spec => TerminalIsFrozen
<1>1. IInv /\ [Next]_vars => [Frozen(begun.mem, mem') /\ Frozen(begun.pg, pg')]_vars
  BY StepKeeps DEF Kept
<1> QED
  BY <1>1, StoresInvariant, PTL DEF Spec, TerminalIsFrozen

-----------------------------------------------------------------------------
(* What alike means to a service: it reads the same rows.                  *)

LEMMA AlikeIsReadable ==
  ASSUME NEW s, NEW t, MemSound(s), MemSound(t), Alike(s, t)
  PROVE  Readable(s) = Readable(t)
<1> DEFINE attempts(x) == [a \in DOMAIN x.attempts |-> [x.attempts[a] EXCEPT !.updated = 0]]
           outbox(x) == [m \in DOMAIN x.outbox |-> [x.outbox[m] EXCEPT !.available = 0]]
           events(x) == [e \in DOMAIN x.events |-> [x.events[e] EXCEPT !.sequence = Place(x, e)]]
<1>1. /\ DOMAIN s = Columns /\ AttemptsTyped(s.attempts) /\ OutboxTyped(s.outbox)
      /\ DOMAIN t = Columns /\ AttemptsTyped(t.attempts) /\ OutboxTyped(t.outbox)
      /\ \A e \in DOMAIN s.events : DOMAIN s.events[e] = EventColumns
      /\ \A e \in DOMAIN t.events : DOMAIN t.events[e] = EventColumns
  BY DEF MemSound, Typed, EventsNumbered
<1>2. attempts(s) = attempts(t)
  <2>1. DOMAIN s.attempts = DOMAIN t.attempts
    BY DEF Alike, AlikeAttempts
  <2>2. ASSUME NEW a \in DOMAIN s.attempts
        PROVE  [s.attempts[a] EXCEPT !.updated = 0] = [t.attempts[a] EXCEPT !.updated = 0]
    <3>1. /\ DOMAIN s.attempts[a] = AttemptColumns /\ DOMAIN t.attempts[a] = AttemptColumns
          /\ \A c \in AttemptColumns \ {"updated"} : s.attempts[a][c] = t.attempts[a][c]
      BY <1>1, <2>1 DEF Alike, AlikeAttempts, AttemptsTyped, AttemptTyped
    <3> QED
      BY <3>1
  <2> QED
    BY <2>1, <2>2
<1>3. outbox(s) = outbox(t)
  <2>1. DOMAIN s.outbox = DOMAIN t.outbox
    BY DEF Alike, AlikeOutbox
  <2>2. ASSUME NEW m \in DOMAIN s.outbox
        PROVE  [s.outbox[m] EXCEPT !.available = 0] = [t.outbox[m] EXCEPT !.available = 0]
    <3>1. /\ DOMAIN s.outbox[m] = OutboxColumns /\ DOMAIN t.outbox[m] = OutboxColumns
          /\ \A c \in OutboxColumns \ {"available"} : s.outbox[m][c] = t.outbox[m][c]
      BY <1>1, <2>1 DEF Alike, AlikeOutbox, OutboxTyped
    <3> QED
      BY <3>1
  <2> QED
    BY <2>1, <2>2
<1>4. events(s) = events(t)
  <2>1. DOMAIN s.events = DOMAIN t.events
    BY DEF Alike, AlikeEvents
  <2>2. ASSUME NEW e \in DOMAIN s.events
        PROVE  [s.events[e] EXCEPT !.sequence = Place(s, e)]
                 = [t.events[e] EXCEPT !.sequence = Place(t, e)]
    <3>1. /\ DOMAIN s.events[e] = EventColumns /\ DOMAIN t.events[e] = EventColumns
          /\ \A c \in EventColumns \ {"sequence"} : s.events[e][c] = t.events[e][c]
      BY <1>1, <2>1 DEF Alike, AlikeEvents
    <3>2. {o \in DOMAIN s.events : s.events[o].sequence <= s.events[e].sequence}
            = {o \in DOMAIN t.events : t.events[o].sequence <= t.events[e].sequence}
      BY <2>1 DEF Alike, AlikeEvents
    <3>3. Place(s, e) = Place(t, e)
      BY <3>2 DEF Place
    <3> QED
      BY <3>1, <3>3
  <2> QED
    BY <2>1, <2>2
<1>5. ASSUME NEW x, DOMAIN x = Columns
      PROVE  /\ DOMAIN Readable(x) = Columns
             /\ Readable(x)["nextSequence"] = 0 /\ Readable(x)["attempts"] = attempts(x)
             /\ Readable(x)["outbox"] = outbox(x) /\ Readable(x)["events"] = events(x)
             /\ \A c \in Plain : Readable(x)[c] = x[c]
  <2>1. Readable(x) = [x EXCEPT !.nextSequence = 0, !.attempts = attempts(x),
                          !.outbox = outbox(x), !.events = events(x)]
    BY DEF Readable
  <2>2. {"nextSequence", "attempts", "outbox", "events"} \subseteq Columns
    BY DEF Columns, Table
  <2> HIDE DEF attempts, outbox, events
  <2> QED
    BY <1>5, <2>1, <2>2 DEF Plain
<1>6. \A x : DOMAIN x = Columns => Readable(x) = [c \in Columns |-> Readable(x)[c]]
  BY DEF Readable
<1> HIDE DEF attempts, outbox, events
<1>7. \A c \in Columns : Readable(s)[c] = Readable(t)[c]
  BY <1>1, <1>2, <1>3, <1>4, <1>5 DEF Alike, Plain
<1> QED
  BY <1>1, <1>6, <1>7

(* While no call was answered differently the two stores hold the same     *)
(* rows: what a service test reads of the in-memory store it would have    *)
(* read of PostgreSQL.                                                     *)
THEOREM StoresHoldTheSameRows == Spec => []SameRows
<1>1. IInv => SameRows
  BY AlikeIsReadable DEF IInv, SameRows, PgSound
<1> QED
  BY <1>1, StoresInvariant, PTL

(* The two stores part only at the calls listed in OnlyMemory, OnlyPostgres *)
(* and OtherRow.                                                           *)
THEOREM StoresPartWhereKnown == Spec => []KnownSplits
<1>1. IInv => KnownSplits
  BY DEF IInv
<1> QED
  BY <1>1, StoresInvariant, PTL

(* Both refuse with the same RepositoryError code, but for errors of the   *)
(* driver and the two codes named.                                         *)
THEOREM StoresRefuseAlike == Spec => []SameCodes
<1>1. IInv => SameCodes
  BY DEF IInv
<1> QED
  BY <1>1, StoresInvariant, PTL

-----------------------------------------------------------------------------
(* A mutation sent again under its key.                                    *)

LEMMA MemReplay ==
  ASSUME NEW s, KeysNameRows(s), NEW k \in DOMAIN s.keys, s.keys[k].resource # None
  PROVE  Retry(s, k, M!DraftsCreate, M!DraftsUpdate, M!RevisionsCreate)
           = Ok(s, s.keys[k].resource)
<1> DEFINE key == s.keys[k]
           request == key.request
           row == request[2]
<1>1. KeyNamesRow(s, key)
  BY DEF KeysNameRows
<1>2. key.operation \in DraftOps =>
        /\ DraftIsBounded(row) /\ M!DraftReplay(s, row, key.resource) = Ok(s, key.resource)
  BY <1>1, ScopeWords DEF KeyNamesRow, RequestIsWhole, M!DraftReplay, Lies, Ok
<1>3. key.operation = RevisionOp =>
        /\ RevisionIsSound(row) /\ RevisionRequest(row) = row
        /\ M!RevisionOfShot(s, key.resource, row.project, row.shot)
  BY <1>1, ScopeWords DEF KeyNamesRow, RequestIsWhole
<1>4. CASE key.operation = "workflow-draft.create"
  <2> DEFINE got == P!IdempotencyReserve(s, k, "workflow-draft.create", request)
  <2>1. request = <<request[1], row>>
    BY <1>1, <1>4 DEF KeyNamesRow, RequestIsWhole
  <2>2. /\ M!IdempotencyReserve(s, k, "workflow-draft.create", request) = got
        /\ M!Replayed(got) /\ got.value = key.resource
    BY <1>4, ReservedIs DEF Replays
  <2> HIDE DEF got
  <2>3. M!DraftsCreate(s, request[1], row, k) = Ok(s, key.resource)
    BY <1>2, <1>4, <2>1, <2>2, ScopeWords DEF M!DraftsCreate, DraftOps
  <2> QED
    BY <1>4, <2>3 DEF Retry
<1>5. CASE key.operation = "workflow-draft.update"
  <2> DEFINE got == P!IdempotencyReserve(s, k, "workflow-draft.update", request)
  <2>1. request = <<request[1], row, request[3]>>
    BY <1>1, <1>5 DEF KeyNamesRow, RequestIsWhole
  <2>2. /\ M!IdempotencyReserve(s, k, "workflow-draft.update", request) = got
        /\ M!Replayed(got) /\ got.value = key.resource
    BY <1>5, ReservedIs DEF Replays
  <2> HIDE DEF got
  <2>3. M!DraftsUpdate(s, request[1], row, request[3], k) = Ok(s, key.resource)
    BY <1>2, <1>5, <2>1, <2>2, ScopeWords DEF M!DraftsUpdate, DraftOps
  <2> QED
    BY <1>5, <2>3 DEF Retry
<1>6. CASE key.operation = RevisionOp
  <2> DEFINE got == P!IdempotencyReserve(s, k, "workflow-revision.create", request)
  <2>1. request = <<request[1], row>>
    BY <1>1, <1>6 DEF KeyNamesRow, RequestIsWhole
  <2>2. /\ M!IdempotencyReserve(s, k, "workflow-revision.create", request) = got
        /\ M!Replayed(got) /\ ~ M!Fresh(got) /\ got.value = key.resource
    BY <1>6, ReservedIs DEF Replays, RevisionOp
  <2>3. <<request[1], M!RevisionRequest(row)>> = request
    BY <1>3, <1>6, <2>1, ScopeWords
  <2> HIDE DEF got
  <2>4. M!RevisionsCreate(s, request[1], row, k) = Ok(s, key.resource)
    BY <1>3, <1>6, <2>2, <2>3, ScopeWords DEF M!RevisionsCreate, Ok
  <2> QED
    BY <1>6, <2>4 DEF Retry, RevisionOp
<1>7. CASE key.operation \notin MutationOps
  BY <1>7 DEF Retry, MutationOps, DraftOps, RevisionOp
<1> QED
  BY <1>4, <1>5, <1>6, <1>7 DEF MutationOps, DraftOps

LEMMA PgReplay ==
  ASSUME NEW t, PgSound(t), NEW k \in DOMAIN t.keys, t.keys[k].resource # None
  PROVE  Retry(t, k, P!DraftsCreate, P!DraftsUpdate, P!RevisionsCreate)
           = Ok(t, t.keys[k].resource)
<1> DEFINE key == t.keys[k]
           request == key.request
           row == request[2]
<1>1. KeyNamesRow(t, key)
  BY DEF PgSound, MemSound, KeysNameRows
<1>2. Replays(t, k, key.operation, request)
  BY DEF Replays
<1>3. key.operation \in DraftOps =>
        /\ DraftIsBounded(row) /\ P!ShotInProject(t, row.project, row.shot)
        /\ P!ReplayDraft(t, row, key.resource) = Ok(t, key.resource)
  <2>1. ASSUME key.operation \in DraftOps
        PROVE  /\ ShotIn(t, row.project, row.shot)
               /\ {d \in DOMAIN t.drafts : InScope(t.drafts[d], row.project, row.shot)}
                    = {key.resource}
    BY <1>2, <2>1, ReplayIsSound DEF MutationOps
  <2>2. ASSUME key.operation \in DraftOps
        PROVE  P!DraftOf(t, row.project, row.shot) = {key.resource}
    BY <2>1, <2>2, ScopeWords DEF P!DraftOf
  <2>3. key.operation \in DraftOps => DraftIsBounded(row)
    BY <1>1 DEF KeyNamesRow, RequestIsWhole
  <2> QED
    BY <2>1, <2>2, <2>3, ScopeWords DEF P!ReplayDraft, Ok
<1>4. key.operation = RevisionOp =>
        /\ RevisionIsSound(row) /\ RevisionRequest(row) = row
        /\ P!ShotInProject(t, row.project, row.shot)
        /\ key.resource \in P!RevisionsOf(t, row.project, row.shot)
  <2>1. key.operation = RevisionOp =>
          ShotIn(t, row.project, row.shot) /\ Lies(t.revisions, key.resource, row)
    BY <1>2, ReplayIsSound DEF MutationOps
  <2>2. key.operation = RevisionOp => RevisionIsSound(row) /\ RevisionRequest(row) = row
    BY <1>1 DEF KeyNamesRow, RequestIsWhole
  <2> QED
    BY <2>1, <2>2, ScopeWords DEF P!RevisionsOf, Lies
<1>5. CASE key.operation = "workflow-draft.create"
  <2> DEFINE got == P!IdempotencyReserve(t, k, "workflow-draft.create", request)
  <2>1. request = <<request[1], row>>
    BY <1>1, <1>5 DEF KeyNamesRow, RequestIsWhole
  <2>2. P!Replayed(got) /\ got.value = key.resource
    BY <1>2, <1>5, ReservedIs
  <2> HIDE DEF got
  <2>3. P!DraftsCreate(t, request[1], row, k) = Ok(t, key.resource)
    BY <1>3, <1>5, <2>1, <2>2, ScopeWords DEF P!DraftsCreate, DraftOps, got
  <2> QED
    BY <1>5, <2>3 DEF Retry
<1>6. CASE key.operation = "workflow-draft.update"
  <2> DEFINE got == P!IdempotencyReserve(t, k, "workflow-draft.update", request)
  <2>1. request = <<request[1], row, request[3]>>
    BY <1>1, <1>6 DEF KeyNamesRow, RequestIsWhole
  <2>2. P!Replayed(got) /\ got.value = key.resource
    BY <1>2, <1>6, ReservedIs
  <2> HIDE DEF got
  <2>3. P!DraftsUpdate(t, request[1], row, request[3], k) = Ok(t, key.resource)
    BY <1>3, <1>6, <2>1, <2>2, ScopeWords DEF P!DraftsUpdate, DraftOps, got
  <2> QED
    BY <1>6, <2>3 DEF Retry
<1>7. CASE key.operation = RevisionOp
  <2> DEFINE got == P!IdempotencyReserve(t, k, "workflow-revision.create", request)
  <2>1. request = <<request[1], row>>
    BY <1>1, <1>7 DEF KeyNamesRow, RequestIsWhole
  <2>2. P!Replayed(got) /\ ~ P!Fresh(got) /\ got.value = key.resource
    BY <1>2, <1>7, ReservedIs DEF RevisionOp
  <2>3. <<request[1], P!RevisionRequest(row)>> = request
    BY <1>4, <1>7, <2>1, ScopeWords
  <2> HIDE DEF got
  <2>4. P!RevisionsCreate(t, request[1], row, k) = Ok(t, key.resource)
    BY <1>4, <1>7, <2>2, <2>3, ScopeWords DEF P!RevisionsCreate, Ok, got
  <2> QED
    BY <1>7, <2>4 DEF Retry, RevisionOp
<1>8. CASE key.operation \notin MutationOps
  BY <1>8 DEF Retry, MutationOps, DraftOps, RevisionOp
<1> QED
  BY <1>5, <1>6, <1>7, <1>8 DEF MutationOps, DraftOps

(* A mutation that is sent again under its key, with its request, is       *)
(* answered with what the first call made and changes nothing, however     *)
(* many writes came between, in both stores.                               *)
THEOREM RetriesAreAnswered == Spec => []RetryIsAnswered
<1>1. IInv => RetryIsAnswered
  BY MemReplay, PgReplay DEF IInv, MemSound, RetryIsAnswered
<1> QED
  BY <1>1, StoresInvariant, PTL

================================================================================
