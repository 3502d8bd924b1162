------------------------- MODULE WorkflowStudio_proofs -------------------------
(***************************************************************************)
(* Proofs about WorkflowStudio: its inductive invariant, that a command    *)
(* that committed is answered with what it made, and that no edit of a     *)
(* draft is lost.  The first section states what the repository calls of   *)
(* PostgresStore that a command makes leave in the tables.                 *)
(***************************************************************************)
EXTENDS WorkflowStudio, TLAPS

USE NoneAssumption, StoreRowsAssumption

IsStore(s) == s = [f \in Fields |-> s[f]]
IsResult(r) == r = [answer |-> r.answer, value |-> r.value, s |-> r.s]

Record(op, request, resource) ==
  [operation |-> op, request |-> request, resource |-> resource]

Log == {"events", "outbox", "nextSequence"}

(* Only this table is touched, or only this one, the keys and the log. *)
Touches(s, r, table) == IsStore(r) /\ \A f \in Fields : f # table => r[f] = s[f]
Changes(s, r, table) ==
  /\ IsStore(r)
  /\ \A f \in Fields : f \notin {table, "keys"} \cup Log => r[f] = s[f]

(* Only this key is taken or completed. *)
KeysGrow(s, r, key) ==
  /\ \A k \in DOMAIN r.keys : k \in DOMAIN s.keys \/ k = key
  /\ \A k \in DOMAIN s.keys : /\ k \in DOMAIN r.keys
                              /\ k # key => r.keys[k] = s.keys[k]

-----------------------------------------------------------------------------
(* The tables *)

LEMMA FieldNames ==
  /\ {"projects", "shots", "drafts", "revisions", "events", "outbox", "keys",
      "nextSequence"} \subseteq Fields
BY DEF Fields, Table

LEMMA NoneIsNoCode == None # "ok" /\ None # Check /\ None # Unique
BY DEF Codes

LEMMA PutFacts ==
  ASSUME NEW s, IsStore(s), NEW table \in Fields, NEW id, NEW row
  PROVE  /\ Touches(s, Put(s, table, id, row), table)
         /\ Put(s, table, id, row)[table] = WithRow(s[table], id, row)
BY DEF IsStore, Touches, Put

LEMMA WithRowFacts ==
  ASSUME NEW rows, NEW id, NEW row
  PROVE  /\ \A k : k \in DOMAIN WithRow(rows, id, row) <=> k \in DOMAIN rows \/ k = id
         /\ WithRow(rows, id, row)[id] = row
         /\ \A k \in DOMAIN rows : k # id => WithRow(rows, id, row)[k] = rows[k]
BY DEF WithRow

LEMMA ReserveFacts ==
  ASSUME NEW s, IsStore(s), NEW key, NEW op, NEW request
  PROVE  LET key_ == IdempotencyReserve(s, key, op, request) IN
         /\ Fresh(key_) =>
              /\ key \notin DOMAIN s.keys
              /\ Touches(s, key_.s, "keys") /\ KeysGrow(s, key_.s, key)
              /\ key \in DOMAIN key_.s.keys
              /\ key_.s.keys[key] = Record(op, request, None)
         /\ ~ Fresh(key_) => /\ key \in DOMAIN s.keys /\ key_.s = s
                             /\ key_.value = s.keys[key].resource
         /\ Replayed(key_) <=> /\ key \in DOMAIN s.keys
                               /\ s.keys[key].operation = op /\ s.keys[key].request = request
                               /\ s.keys[key].resource # None
<1> DEFINE record == Record(op, request, None)
<1>1. CASE key \notin DOMAIN s.keys
  <2> DEFINE q == Put(s, "keys", key, record)
  <2>1. Touches(s, q, "keys") /\ q.keys = WithRow(s.keys, key, record)
    BY FieldNames, PutFacts
  <2>2. /\ \A k : k \in DOMAIN q.keys <=> k \in DOMAIN s.keys \/ k = key
        /\ q.keys[key] = record
        /\ \A k \in DOMAIN s.keys : k # key => q.keys[k] = s.keys[k]
    <3> HIDE DEF q, record
    <3> QED
      BY <2>1, WithRowFacts
  <2>3. IdempotencyReserve(s, key, op, request)
          = [answer |-> "reserved", value |-> None, s |-> q]
    BY <1>1 DEF IdempotencyReserve, Has, Record
  <2> QED
    BY <1>1, <2>1, <2>2, <2>3 DEF Fresh, Replayed, KeysGrow
<1>2. CASE key \in DOMAIN s.keys
  BY <1>2 DEF IdempotencyReserve, Has, Fresh, Replayed
<1> QED
  BY <1>1, <1>2

LEMMA CompleteFacts ==
  ASSUME NEW s, IsStore(s), NEW key, NEW resource
  PROVE  LET q == IdempotencyComplete(s, key, resource).s IN
         /\ Touches(s, q, "keys") /\ DOMAIN q.keys = DOMAIN s.keys
         /\ \A k \in DOMAIN s.keys : k # key => q.keys[k] = s.keys[k]
         /\ \A op, request :
              key \in DOMAIN s.keys /\ s.keys[key] = Record(op, request, None) =>
              q.keys[key] = Record(op, request, resource)
<1> DEFINE q == IdempotencyComplete(s, key, resource).s
<1>1. CASE Has(s, "keys", key) /\ s.keys[key].resource = None
  <2>1. q = [s EXCEPT !.keys[key].resource = resource]
    BY <1>1 DEF IdempotencyComplete, Ok
  <2>2. /\ Touches(s, q, "keys")
        /\ q.keys = [s.keys EXCEPT ![key].resource = resource]
    BY <2>1, FieldNames DEF IsStore, Touches
  <2> QED
    BY <1>1, <2>2 DEF Has, Record
<1>2. CASE ~ (Has(s, "keys", key) /\ s.keys[key].resource = None)
  <2>1. q = s
    BY <1>2 DEF IdempotencyComplete, Refuse
  <2> QED
    BY <1>2, <2>1 DEF Has, Touches, Record
<1> QED
  BY <1>1, <1>2

(* A write that goes through, and the completion of its key. *)
LEMMA CompletingFacts ==
  ASSUME NEW s, NEW write, IsResult(write), NEW key, IsStore(write.s),
         KeysGrow(s, write.s, key)
  PROVE  LET r == Completing(write, key) IN
         /\ IsResult(r) /\ r.answer = write.answer /\ r.value = write.value
         /\ write.answer = "ok" =>
              Touches(write.s, r.s, "keys") /\ KeysGrow(s, r.s, key)
<1> DEFINE q == IdempotencyComplete(write.s, key, write.value).s
<1>1. CASE write.answer = "ok"
  <2>1. Completing(write, key) = [answer |-> write.answer, value |-> write.value, s |-> q]
    BY <1>1 DEF Completing, IsResult
  <2>2. /\ Touches(write.s, q, "keys") /\ DOMAIN q.keys = DOMAIN write.s.keys
        /\ \A k \in DOMAIN write.s.keys : k # key => q.keys[k] = write.s.keys[k]
    BY CompleteFacts
  <2> QED
    BY <2>1, <2>2 DEF IsResult, KeysGrow
<1>2. CASE write.answer # "ok"
  BY <1>2 DEF Completing
<1> QED
  BY <1>1, <1>2

LEMMA CodesAreErrors ==
  ASSUME NEW s, NEW code, code # "ok"
  PROVE  IsResult(Refuse(s, code)) /\ Refuse(s, code).answer # "ok"
BY DEF IsResult, Refuse

LEMMA WriteFacts ==
  ASSUME NEW s, IsStore(s), NEW table \in Fields, NEW id, NEW row, NEW fault, fault # "ok"
  PROVE  LET r == Write(s, table, id, row, fault) IN
         /\ IsResult(r)
         /\ r.answer = "ok" =>
              /\ r.value = id /\ fault = None
              /\ Touches(s, r.s, table) /\ r.s[table] = WithRow(s[table], id, row)
BY PutFacts DEF Write, IsResult, Ok, Refuse

(* A reserved key, the write of a row of another table, and its completion. *)
LEMMA KeyedWrite ==
  ASSUME NEW s, IsStore(s), NEW key, NEW k_, IsStore(k_), NEW table \in Fields, table # "keys",
         Touches(s, k_, "keys"), KeysGrow(s, k_, key),
         NEW id, NEW row, NEW fault, fault # "ok"
  PROVE  LET r == Completing(Write(k_, table, id, row, fault), key) IN
         /\ IsResult(r)
         /\ r.answer = "ok" =>
              /\ r.value = id /\ fault = None
              /\ Changes(s, r.s, table) /\ KeysGrow(s, r.s, key)
              /\ r.s[table] = WithRow(s[table], id, row)
<1> DEFINE w == Write(k_, table, id, row, fault)
           r == Completing(w, key)
<1>1. /\ IsResult(w)
      /\ w.answer = "ok" =>
           /\ w.value = id /\ fault = None
           /\ Touches(k_, w.s, table) /\ w.s[table] = WithRow(k_[table], id, row)
  BY WriteFacts
<1>2. CASE w.answer = "ok"
  <2>1. "keys" \in Fields
    BY FieldNames
  <2>2. w.s.keys = k_.keys /\ k_[table] = s[table]
    BY <1>1, <1>2, <2>1 DEF Touches
  <2>3. IsStore(w.s) /\ KeysGrow(s, w.s, key)
    BY <1>1, <1>2, <2>2 DEF Touches, KeysGrow
  <2>4. /\ IsResult(r) /\ r.answer = w.answer /\ r.value = w.value
        /\ Touches(w.s, r.s, "keys") /\ KeysGrow(s, r.s, key)
    BY <1>1, <1>2, <2>3, CompletingFacts
  <2> HIDE DEF w, r
  <2>5. Changes(s, r.s, table) /\ r.s[table] = w.s[table]
    BY <1>1, <1>2, <2>4 DEF Touches, Changes
  <2> QED
    BY <1>1, <1>2, <2>2, <2>4, <2>5 DEF r, w
<1>3. CASE w.answer # "ok"
  BY <1>1, <1>3 DEF Completing
<1> QED
  BY <1>2, <1>3

LEMMA DraftsCreateFacts ==
  ASSUME NEW s, IsStore(s), NEW id, NEW row, NEW key
  PROVE  LET r == DraftsCreate(s, id, row, key) IN
         /\ IsResult(r)
         /\ r.answer = "ok" =>
              /\ Changes(s, r.s, "drafts") /\ KeysGrow(s, r.s, key)
              /\ \/ r.s = s /\ r.value \in DraftOf(s, row.project, row.shot)
                 \/ /\ id \notin DOMAIN s.drafts
                    /\ \A d \in DOMAIN s.drafts : ~ InScope(s.drafts[d], row.project, row.shot)
                    /\ r.s.drafts = WithRow(s.drafts, id, row) /\ r.value = id
<1> DEFINE key_ == IdempotencyReserve(s, key, "workflow-draft.create", <<id, row>>)
           fault == DraftFault(s, row, Others(s, "drafts", id))
           w == Completing(Write(key_.s, "drafts", id, row, fault), key)
           r == DraftsCreate(s, id, row, key)
<1>1. CASE ~ DraftIsBounded(row) \/ ~ ShotInProject(s, row.project, row.shot)
  BY <1>1, CodesAreErrors DEF DraftsCreate
<1>2. CASE DraftIsBounded(row) /\ ShotInProject(s, row.project, row.shot)
  <2>0. r = IF Replayed(key_) THEN ReplayDraft(s, row, key_.value)
            ELSE IF ~ Fresh(key_) THEN ReservationRefused(s)
            ELSE IF Has(s, "drafts", id) THEN Refuse(s, Unique)
            ELSE w
    BY <1>2 DEF DraftsCreate
  <2> HIDE DEF r
  <2>1. CASE Replayed(key_)
    <3>1. r = ReplayDraft(s, row, key_.value)
      BY <2>0, <2>1
    <3>2. IsResult(r) /\ (r.answer = "ok" => r.s = s /\ r.value \in DraftOf(s, row.project, row.shot))
      BY <3>1 DEF ReplayDraft, IsResult, Ok, Refuse
    <3> QED
      BY <3>2 DEF r, Changes, KeysGrow
  <2>2. CASE ~ Replayed(key_) /\ (~ Fresh(key_) \/ Has(s, "drafts", id))
    <3>1. IsResult(r) /\ r.answer # "ok"
      BY <2>0, <2>2, CodesAreErrors DEF ReservationRefused, Unique
    <3> QED
      BY <3>1 DEF r
  <2>3. CASE Fresh(key_) /\ ~ Has(s, "drafts", id) /\ ~ Replayed(key_)
    <3>1. r = w
      BY <2>0, <2>3
    <3>2. Touches(s, key_.s, "keys") /\ KeysGrow(s, key_.s, key) /\ IsStore(key_.s)
      BY <2>3, ReserveFacts DEF Touches
    <3>3. fault \in {None, Check, Unique} /\ fault # "ok"
      BY NoneIsNoCode DEF DraftFault, Check, Unique
    <3>4. fault = None => \A other \in Others(s, "drafts", id) : ~ InScope(other, row.project, row.shot)
      BY NoneIsNoCode DEF DraftFault, Check, Unique
    <3>5. /\ IsResult(w)
          /\ w.answer = "ok" =>
               /\ w.value = id /\ fault = None
               /\ Changes(s, w.s, "drafts") /\ KeysGrow(s, w.s, key)
               /\ w.s.drafts = WithRow(s.drafts, id, row)
      <4> HIDE DEF fault, key_
      <4> QED
        BY <3>2, <3>3, FieldNames, KeyedWrite
    <3>6. id \notin DOMAIN s.drafts
      BY <2>3 DEF Has
    <3>7. \A d \in DOMAIN s.drafts : s.drafts[d] \in Others(s, "drafts", id)
      BY <3>6 DEF Others
    <3> HIDE DEF w, fault
    <3> QED
      BY <3>1, <3>4, <3>5, <3>6, <3>7 DEF r
  <2> QED
    BY <2>1, <2>2, <2>3
<1> QED
  BY <1>1, <1>2


LEMMA DraftsUpdateFacts ==
  ASSUME NEW s, IsStore(s), NEW id, NEW row, NEW expected, NEW key
  PROVE  LET r == DraftsUpdate(s, id, row, expected, key) IN
         /\ IsResult(r)
         /\ r.answer = "ok" =>
              /\ Changes(s, r.s, "drafts") /\ KeysGrow(s, r.s, key)
              /\ \/ r.s = s /\ r.value \in DraftOf(s, row.project, row.shot)
                 \/ /\ id \in DOMAIN s.drafts /\ s.drafts[id].version = expected
                    /\ r.s.drafts = WithRow(s.drafts, id, row) /\ r.value = id
<1> DEFINE key_ == IdempotencyReserve(s, key, "workflow-draft.update", <<id, row, expected>>)
           fault == DraftFault(s, row, {})
           w == Completing(Write(key_.s, "drafts", id, row, fault), key)
           there == /\ Has(s, "drafts", id) /\ InScope(s.drafts[id], row.project, row.shot)
                    /\ s.drafts[id].version = expected
           r == DraftsUpdate(s, id, row, expected, key)
<1>1. CASE ~ DraftIsBounded(row) \/ ~ ShotInProject(s, row.project, row.shot)
  BY <1>1, CodesAreErrors DEF DraftsUpdate
<1>2. CASE DraftIsBounded(row) /\ ShotInProject(s, row.project, row.shot)
  <2>0. r = IF Replayed(key_) THEN ReplayDraft(s, row, key_.value)
            ELSE IF ~ Fresh(key_) THEN ReservationRefused(s)
            ELSE IF there THEN w
            ELSE Refuse(s, "OPTIMISTIC_CONFLICT")
    BY <1>2 DEF DraftsUpdate
  <2> HIDE DEF r
  <2>1. CASE Replayed(key_)
    <3>1. r = ReplayDraft(s, row, key_.value)
      BY <2>0, <2>1
    <3>2. IsResult(r) /\ (r.answer = "ok" => r.s = s /\ r.value \in DraftOf(s, row.project, row.shot))
      BY <3>1 DEF ReplayDraft, IsResult, Ok, Refuse
    <3> QED
      BY <3>2 DEF r, Changes, KeysGrow
  <2>2. CASE ~ Replayed(key_) /\ (~ Fresh(key_) \/ ~ there)
    <3>1. IsResult(r) /\ r.answer # "ok"
      BY <2>0, <2>2, CodesAreErrors DEF ReservationRefused
    <3> QED
      BY <3>1 DEF r
  <2>3. CASE Fresh(key_) /\ there /\ ~ Replayed(key_)
    <3>1. r = w
      BY <2>0, <2>3
    <3>2. Touches(s, key_.s, "keys") /\ KeysGrow(s, key_.s, key) /\ IsStore(key_.s)
      BY <2>3, ReserveFacts DEF Touches
    <3>3. fault # "ok"
      BY NoneIsNoCode DEF DraftFault, Check, Unique
    <3>4. /\ IsResult(w)
          /\ w.answer = "ok" =>
               /\ w.value = id
               /\ Changes(s, w.s, "drafts") /\ KeysGrow(s, w.s, key)
               /\ w.s.drafts = WithRow(s.drafts, id, row)
      <4> HIDE DEF fault, key_
      <4> QED
        BY <3>2, <3>3, FieldNames, KeyedWrite
    <3>5. id \in DOMAIN s.drafts /\ s.drafts[id].version = expected
      BY <2>3 DEF Has
    <3> HIDE DEF w
    <3> QED
      BY <3>1, <3>4, <3>5 DEF r
  <2> QED
    BY <2>1, <2>2, <2>3
<1> QED
  BY <1>1, <1>2

WithNumber(row, n) == [row EXCEPT !.number = n]
Numbered(s, row) == WithNumber(row, NextNumber(s, row))

LEMMA RevisionsCreateFacts ==
  ASSUME NEW s, IsStore(s), NEW id, NEW row, NEW key
  PROVE  LET r == RevisionsCreate(s, id, row, key) IN
         /\ IsResult(r)
         /\ r.answer = "ok" =>
              /\ Changes(s, r.s, "revisions") /\ KeysGrow(s, r.s, key)
              /\ \/ r.s = s /\ r.value \in RevisionsOf(s, row.project, row.shot)
                 \/ /\ id \notin DOMAIN s.revisions
                    /\ r.s.revisions = WithRow(s.revisions, id, Numbered(s, row)) /\ r.value = id
<1> DEFINE key_ == IdempotencyReserve(s, key, "workflow-revision.create",
                                      <<id, RevisionRequest(row)>>)
           insert == InsertRevision(key_.s, id, row)
           numbered == Numbered(s, row)
           w == Completing(Write(key_.s, "revisions", id, numbered, None), key)
           r == RevisionsCreate(s, id, row, key)
<1>1. CASE ~ RevisionIsSound(row) \/ ~ ShotInProject(s, row.project, row.shot)
  BY <1>1, CodesAreErrors DEF RevisionsCreate
<1>2. CASE RevisionIsSound(row) /\ ShotInProject(s, row.project, row.shot)
  <2>0. r = IF Fresh(key_) THEN Completing(insert, key)
            ELSE IF ~ Replayed(key_) THEN ReservationRefused(s)
            ELSE IF key_.value \in RevisionsOf(s, row.project, row.shot)
            THEN Ok(s, key_.value) ELSE Refuse(s, "DATABASE_ERROR")
    BY <1>2 DEF RevisionsCreate
  <2> HIDE DEF r
  <2>1. CASE ~ Fresh(key_)
    <3>1. IsResult(r) /\ (r.answer = "ok" => r.s = s /\ r.value \in RevisionsOf(s, row.project, row.shot))
      BY <2>0, <2>1 DEF ReservationRefused, IsResult, Ok, Refuse
    <3> QED
      BY <3>1 DEF r, Changes, KeysGrow
  <2>2. CASE Fresh(key_)
    <3>1. Touches(s, key_.s, "keys") /\ KeysGrow(s, key_.s, key) /\ IsStore(key_.s)
      BY <2>2, ReserveFacts DEF Touches
    <3>2. key_.s.revisions = s.revisions
      BY <3>1, FieldNames DEF Touches
    <3>3. NextNumber(key_.s, row) = NextNumber(s, row)
      BY <3>2 DEF NextNumber, RevisionsOf
    <3>4. CASE RevisionInScope(key_.s, row.parent, row) /\ ~ Has(key_.s, "revisions", id)
      <4>1. insert = Write(key_.s, "revisions", id, numbered, None)
        BY <3>3, <3>4 DEF InsertRevision, Numbered, WithNumber
      <4>2. r = w
        BY <2>0, <2>2, <4>1
      <4>3. /\ IsResult(w)
            /\ w.answer = "ok" =>
                 /\ w.value = id
                 /\ Changes(s, w.s, "revisions") /\ KeysGrow(s, w.s, key)
                 /\ w.s.revisions = WithRow(s.revisions, id, numbered)
        <5> HIDE DEF key_, numbered
        <5> QED
          BY <3>1, NoneIsNoCode, FieldNames, KeyedWrite
      <4>4. id \notin DOMAIN s.revisions
        BY <3>2, <3>4 DEF Has
      <4> HIDE DEF w
      <4> QED
        BY <4>2, <4>3, <4>4 DEF r
    <3>5. CASE ~ (RevisionInScope(key_.s, row.parent, row) /\ ~ Has(key_.s, "revisions", id))
      <4>1. IsResult(insert) /\ insert.answer # "ok"
        BY <3>5 DEF InsertRevision, IsResult, Refuse, Check, Unique
      <4>2. r = insert
        BY <2>0, <2>2, <4>1 DEF Completing
      <4> QED
        BY <4>1, <4>2 DEF r
    <3> QED
      BY <3>4, <3>5
  <2> QED
    BY <2>1, <2>2
<1> QED
  BY <1>1, <1>2


Judged(row, validation, errors) ==
  [row EXCEPT !.validation = validation, !.errors = errors]

LEMMA ValidationFacts ==
  ASSUME NEW s, IsStore(s), NEW project, NEW shot, NEW id, NEW update
  PROVE  LET r == RevisionsUpdateValidation(s, project, shot, id, update)
             row == Judged(s.revisions[id], update.validation, update.errors) IN
         /\ IsResult(r)
         /\ r.answer = "ok" =>
              /\ Touches(s, r.s, "revisions") /\ id \in RevisionsOf(s, project, shot)
              /\ r.s.revisions = WithRow(s.revisions, id, row) /\ r.value = id
<1> DEFINE row == Judged(s.revisions[id], update.validation, update.errors)
           r == RevisionsUpdateValidation(s, project, shot, id, update)
<1>1. CASE ~ ValidationIsBounded(update) \/ id \notin RevisionsOf(s, project, shot)
  BY <1>1, CodesAreErrors DEF RevisionsUpdateValidation
<1>2. CASE ValidationIsBounded(update) /\ id \in RevisionsOf(s, project, shot)
  <2>1. r = Write(s, "revisions", id, row, None)
    BY <1>2 DEF RevisionsUpdateValidation, Judged
  <2> HIDE DEF r, row
  <2>2. /\ IsResult(r)
        /\ r.answer = "ok" =>
             /\ r.value = id /\ Touches(s, r.s, "revisions")
             /\ r.s.revisions = WithRow(s.revisions, id, row)
    BY <2>1, NoneIsNoCode, FieldNames, WriteFacts
  <2> QED
    BY <1>2, <2>2 DEF r, row
<1> QED
  BY <1>1, <1>2

-----------------------------------------------------------------------------
(* The service *)

(* Only the log is touched. *)
Logs(s, r) == IsStore(r) /\ \A f \in Fields : f \notin Log => r[f] = s[f]

LEMMA AnnounceLogs ==
  ASSUME NEW s, IsStore(s), NEW id, NEW type, NEW revision
  PROVE  Logs(s, Announce(s, id, type, revision))
<1> DEFINE row == [project |-> TheProject, shot |-> TheShot, attempt |-> None,
                   type |-> type, revision |-> revision, sequence |-> 0]
           q == EventsAppend(s, id, row).s
           drawn == [s EXCEPT !.nextSequence = @ + 1]
           message == [available |-> 0, tries |-> 0, delivered |-> FALSE, failed |-> FALSE]
           after == OutboxEnqueue(q, id, 0).s
<1>1. Logs(s, drawn)
  BY FieldNames DEF Logs, Log, IsStore
<1>2. \E x : q \in {drawn, Put(drawn, "events", id, x)}
  BY DEF EventsAppend, Write, Ok, Refuse
<1>3. Logs(s, q)
  <2>1. PICK x : q \in {drawn, Put(drawn, "events", id, x)}
    BY <1>2
  <2>2. Touches(drawn, Put(drawn, "events", id, x), "events")
    BY <1>1, FieldNames, PutFacts DEF Logs, Log
  <2> HIDE DEF q, drawn
  <2> QED
    BY <1>1, <2>1, <2>2 DEF Logs, Log, Touches
<1>4. after \in {q, Put(q, "outbox", id, message)}
  BY DEF OutboxEnqueue, Write, Ok, Refuse
<1>5. Logs(s, after)
  <2>1. Touches(q, Put(q, "outbox", id, message), "outbox")
    BY <1>3, FieldNames, PutFacts DEF Logs, Log
  <2> HIDE DEF q, after, message
  <2> QED
    BY <1>3, <1>4, <2>1 DEF Logs, Log, Touches
<1> QED
  BY <1>5 DEF Announce

LEMMA LogsOnly ==
  ASSUME NEW s, NEW r, NEW q, Logs(s, r), Logs(r, q)
  PROVE  Logs(s, q)
BY DEF Logs, Log

LEMMA EventsAreLogged ==
  ASSUME NEW result, IsResult(result), result.answer = "ok" => IsStore(result.s), NEW errors
  PROVE  LET r == WithEvents(result, errors) IN
         /\ IsResult(r) /\ r.answer = result.answer /\ r.value = result.value
         /\ r.answer = "ok" => Logs(result.s, r.s)
<1> DEFINE s == result.s
           invalid == Announce(s, nextId + 1, "workflow.revision.invalid", result.value)
           q == AppendValidationEvents(s, result.value, errors)
<1>1. CASE result.answer = "ok"
  <2>1. Logs(s, s) /\ Logs(s, invalid)
    BY <1>1, AnnounceLogs DEF Logs, Log
  <2>2. Logs(invalid, Announce(invalid, nextId + 2, "executor.unavailable", result.value))
    <3>1. IsStore(invalid)
      BY <2>1 DEF Logs, Log
    <3> HIDE DEF invalid
    <3> QED
      BY <3>1, AnnounceLogs
  <2>3. Logs(s, Announce(invalid, nextId + 2, "executor.unavailable", result.value))
    BY <2>1, <2>2, LogsOnly
  <2>4. Logs(s, q)
    BY <2>1, <2>3 DEF AppendValidationEvents
  <2>5. WithEvents(result, errors) = [answer |-> result.answer, value |-> result.value, s |-> q]
    BY <1>1 DEF WithEvents, IsResult
  <2> HIDE DEF q
  <2> QED
    BY <2>4, <2>5 DEF IsResult
<1>2. CASE result.answer # "ok"
  BY <1>2 DEF WithEvents
<1> QED
  BY <1>1, <1>2


(* The key of the command is new, and of the other keys only those of      *)
(* resources are taken.                                                    *)
TakesKey(s, r, cmd) ==
  /\ \A k \in DOMAIN r.keys : k \in DOMAIN s.keys \/ k[1] = "resource" \/ k = ApplicationKey(cmd)
  /\ \A k \in DOMAIN s.keys :
       /\ k \in DOMAIN r.keys
       /\ k[1] # "resource" /\ k # ApplicationKey(cmd) => r.keys[k] = s.keys[k]

(* The key of the command says what it made, or what it makes. *)
Recorded(s, cmd, op, request) ==
  /\ ApplicationKey(cmd) \in DOMAIN s.keys
  /\ s.keys[ApplicationKey(cmd)].operation = op
  /\ s.keys[ApplicationKey(cmd)].request = request
  /\ s.keys[ApplicationKey(cmd)].resource # None

Makes(s, r, cmd, op, request, value) ==
  /\ ApplicationKey(cmd) \notin DOMAIN s.keys
  /\ ApplicationKey(cmd) \in DOMAIN r.keys
  /\ r.keys[ApplicationKey(cmd)] = Record(op, request, value)
  /\ TakesKey(s, r, cmd)

LEMMA KeysDiffer ==
  ASSUME NEW cmd, NEW op
  PROVE  /\ ResourceKey(op, cmd) # ApplicationKey(cmd)
         /\ ResourceKey(op, cmd)[1] = "resource" /\ ApplicationKey(cmd)[1] = "application"
BY DEF ResourceKey, ApplicationKey

LEMMA MutationFacts ==
  ASSUME NEW s, IsStore(s), NEW cmd, NEW op, NEW request, NEW key_,
         key_ = Reserved(s, cmd, op, request),
         NEW replay, IsResult(replay), NEW made, IsResult(made),
         NEW table \in Fields, table # "keys", NEW key, key[1] = "resource",
         Fresh(key_) /\ made.answer = "ok" =>
           Changes(key_.s, made.s, table) /\ KeysGrow(key_.s, made.s, key)
  PROVE  LET r == Mutation(s, cmd, key_, replay, made) IN
         /\ IsResult(r)
         /\ r.answer = "ok" =>
              \/ Recorded(s, cmd, op, request) /\ r = replay
              \/ /\ Fresh(key_) /\ made.answer = "ok" /\ r.value = made.value
                 /\ Changes(s, r.s, table) /\ r.s[table] = made.s[table]
                 /\ Makes(s, r.s, cmd, op, request, made.value)
         /\ Recorded(s, cmd, op, request) => r = replay
<1> DEFINE app == ApplicationKey(cmd)
           q == IdempotencyComplete(made.s, app, made.value).s
           r == Mutation(s, cmd, key_, replay, made)
<1>1. /\ Fresh(key_) =>
           /\ app \notin DOMAIN s.keys
           /\ Touches(s, key_.s, "keys") /\ KeysGrow(s, key_.s, app)
           /\ app \in DOMAIN key_.s.keys /\ key_.s.keys[app] = Record(op, request, None)
      /\ Replayed(key_) <=> Recorded(s, cmd, op, request)
      /\ ~ Fresh(key_) => app \in DOMAIN s.keys
  BY ReserveFacts DEF Reserved, Recorded
<1>2. CASE Fresh(key_) /\ made.answer = "ok"
  <2>1. app[1] = "application" /\ app # key
    BY KeysDiffer
  <2>2. IsStore(made.s) /\ KeysGrow(key_.s, made.s, key) /\ Changes(key_.s, made.s, table)
    BY <1>2 DEF Changes
  <2>3. app \in DOMAIN made.s.keys /\ made.s.keys[app] = Record(op, request, None)
    <3> HIDE DEF app
    <3> QED
      BY <1>1, <1>2, <2>1, <2>2 DEF KeysGrow
  <2>4. /\ Touches(made.s, q, "keys") /\ DOMAIN q.keys = DOMAIN made.s.keys
        /\ \A k \in DOMAIN made.s.keys : k # app => q.keys[k] = made.s.keys[k]
        /\ q.keys[app] = Record(op, request, made.value)
    <3> HIDE DEF app
    <3>1. made.s.keys[app].resource = None
      BY <2>3 DEF Record
    <3>2. LET z == IdempotencyComplete(made.s, app, made.value).s IN
          /\ Touches(made.s, z, "keys") /\ DOMAIN z.keys = DOMAIN made.s.keys
          /\ \A k \in DOMAIN made.s.keys : k # app => z.keys[k] = made.s.keys[k]
          /\ z.keys[app] = Record(op, request, made.value)
      BY <2>2, <2>3, <3>1, CompleteFacts
    <3> QED
      BY <3>2
  <2>5. r = [answer |-> "ok", value |-> made.value, s |-> q]
    BY <1>2 DEF Mutation, Completing, IsResult
  <2> HIDE DEF q, r
  <2>6. Changes(s, q, table) /\ q[table] = made.s[table]
    <3>1. Touches(s, key_.s, "keys")
      BY <1>1, <1>2
    <3> QED
      BY <2>2, <2>4, <3>1 DEF Touches, Changes
  <2>7. TakesKey(s, q, cmd)
    <3>1. KeysGrow(s, key_.s, app)
      BY <1>1, <1>2
    <3>2. \A k \in DOMAIN q.keys : k \in DOMAIN s.keys \/ k = key \/ k = app
      <4> HIDE DEF app
      <4> QED
        BY <2>2, <2>4, <3>1 DEF KeysGrow
    <3>3. \A k \in DOMAIN s.keys :
            k \in DOMAIN q.keys /\ (k # key /\ k # app => q.keys[k] = s.keys[k])
      <4> HIDE DEF app
      <4> QED
        BY <2>2, <2>4, <3>1 DEF KeysGrow
    <3> QED
      BY <3>2, <3>3 DEF TakesKey
  <2>8. Makes(s, q, cmd, op, request, made.value)
    BY <1>1, <1>2, <2>3, <2>4, <2>7 DEF Makes
  <2>9. ~ Recorded(s, cmd, op, request)
    BY <1>1, <1>2 DEF Recorded
  <2> HIDE DEF app
  <2> QED
    BY <1>2, <2>5, <2>6, <2>8, <2>9 DEF r, IsResult
<1>3. CASE ~ (Fresh(key_) /\ made.answer = "ok")
  <2>1. /\ IsResult(r)
        /\ r.answer = "ok" => Replayed(key_) /\ r = replay
        /\ Replayed(key_) => r = replay
    <3>1. Replayed(key_) => ~ Fresh(key_)
      BY DEF Replayed, Fresh
    <3> QED
      BY <1>3, <3>1 DEF Mutation, Completing, IsResult, Refuse
  <2> QED
    BY <1>1, <2>1
<1> QED
  BY <1>2, <1>3


(* The draft a command makes, and the one it makes of another. *)
NewDraft(cmd, base) ==
  [project |-> TheProject, shot |-> TheShot, base |-> base, graph |-> cmd.graph, version |-> 1]
NextDraft(cmd, base, row) ==
  [row EXCEPT !.base = base, !.graph = cmd.graph, !.version = @ + 1]

CreateRequest(cmd, base) == <<cmd.graph, base>>
UpdateRequest(cmd, base, id) == <<id, cmd.expected, cmd.graph, base>>

(* What the key of a command that was recorded is answered with. *)
Replay(s, cmd, ids) == ReplayOf(s, ids, s.keys[ApplicationKey(cmd)].resource)

LEMMA ReplaysAreResults ==
  ASSUME NEW s, NEW ids, NEW id
  PROVE  /\ IsResult(ReplayOf(s, ids, id))
         /\ ReplayOf(s, ids, id).answer = "ok" <=> id \in ids
         /\ id \in ids => ReplayOf(s, ids, id).s = s /\ ReplayOf(s, ids, id).value = id
BY DEF ReplayOf, IsResult, Ok, Refuse

LEMMA SameDrafts ==
  ASSUME NEW s, NEW q, Touches(s, q, "keys")
  PROVE  q.drafts = s.drafts /\ q.revisions = s.revisions
BY FieldNames DEF Touches

LEMMA CreateDraftFacts ==
  ASSUME NEW s, IsStore(s), NEW cmd, NEW read
  PROVE  LET r == CreateDraft(s, cmd, read)
             request == CreateRequest(cmd, read.base) IN
         /\ IsResult(r)
         /\ Recorded(s, cmd, "draft.create", request) => r = Replay(s, cmd, TheDraft(s))
         /\ r.answer = "ok" =>
              \/ Recorded(s, cmd, "draft.create", request)
              \/ /\ Makes(s, r.s, cmd, "draft.create", request, r.value)
                 /\ Changes(s, r.s, "drafts")
                 /\ \/ r.s.drafts = s.drafts /\ r.value \in TheDraft(s)
                    \/ /\ nextId \notin DOMAIN s.drafts
                       /\ \A d \in DOMAIN s.drafts : ~ InScope(s.drafts[d], TheProject, TheShot)
                       /\ r.s.drafts = WithRow(s.drafts, nextId, NewDraft(cmd, read.base))
                       /\ r.value = nextId
<1> DEFINE request == CreateRequest(cmd, read.base)
           row == NewDraft(cmd, read.base)
           key == ResourceKey("draft.create", cmd)
           key_ == Reserved(s, cmd, "draft.create", request)
           replay == ReplayOf(s, TheDraft(s), key_.value)
           made == DraftsCreate(key_.s, nextId, row, key)
           r == CreateDraft(s, cmd, read)
<1>1. r = Mutation(s, cmd, key_, replay, made)
  BY DEF CreateDraft, CreateRequest, NewDraft
<1>2. row.project = TheProject /\ row.shot = TheShot /\ key[1] = "resource"
  BY KeysDiffer DEF NewDraft
<1> HIDE DEF row, key, request
<1>3. /\ Recorded(s, cmd, "draft.create", request) => key_.value = s.keys[ApplicationKey(cmd)].resource
      /\ Fresh(key_) => Touches(s, key_.s, "keys")
      /\ IsStore(key_.s)
  BY ReserveFacts DEF Reserved, Recorded, Touches, Fresh, Replayed
<1> HIDE DEF key_
<1>4. /\ IsResult(made)
      /\ made.answer = "ok" =>
           /\ Changes(key_.s, made.s, "drafts") /\ KeysGrow(key_.s, made.s, key)
           /\ \/ made.s = key_.s /\ made.value \in DraftOf(key_.s, TheProject, TheShot)
              \/ /\ nextId \notin DOMAIN key_.s.drafts
                 /\ \A d \in DOMAIN key_.s.drafts : ~ InScope(key_.s.drafts[d], TheProject, TheShot)
                 /\ made.s.drafts = WithRow(key_.s.drafts, nextId, row) /\ made.value = nextId
  BY <1>2, <1>3, DraftsCreateFacts
<1>5. IsResult(replay)
  BY ReplaysAreResults
<1> HIDE DEF made, replay, r
<1>6. /\ IsResult(r)
      /\ r.answer = "ok" =>
           \/ Recorded(s, cmd, "draft.create", request) /\ r = replay
           \/ /\ Fresh(key_) /\ made.answer = "ok" /\ r.value = made.value
              /\ Changes(s, r.s, "drafts") /\ r.s.drafts = made.s.drafts
              /\ Makes(s, r.s, cmd, "draft.create", request, made.value)
      /\ Recorded(s, cmd, "draft.create", request) => r = replay
  <2>1. key_ = Reserved(s, cmd, "draft.create", request)
    BY DEF key_
  <2> QED
    BY <1>1, <1>2, <1>4, <1>5, <2>1, FieldNames, MutationFacts
<1>7. Recorded(s, cmd, "draft.create", request) => replay = Replay(s, cmd, TheDraft(s))
  BY <1>3 DEF replay, Replay
<1>8. CASE Fresh(key_) /\ made.answer = "ok"
  <2>1. key_.s.drafts = s.drafts
    BY <1>3, <1>8, SameDrafts
  <2>2. DraftOf(key_.s, TheProject, TheShot) = TheDraft(s)
    BY <2>1 DEF DraftOf, TheDraft
  <2> QED
    BY <1>4, <1>6, <1>7, <1>8, <2>1, <2>2 DEF r, request, row
<1>9. CASE ~ (Fresh(key_) /\ made.answer = "ok")
  BY <1>6, <1>7, <1>9 DEF r, request
<1> QED
  BY <1>8, <1>9


LEMMA UpdateDraftFacts ==
  ASSUME NEW s, IsStore(s), NEW cmd, NEW read, read.draft \in Draft
  PROVE  LET r == UpdateDraft(s, cmd, read)
             id == read.draft.id
             request == UpdateRequest(cmd, read.base, id) IN
         /\ IsResult(r)
         /\ Recorded(s, cmd, "draft.update", request) => r = Replay(s, cmd, TheDraft(s))
         /\ r.answer = "ok" =>
              \/ Recorded(s, cmd, "draft.update", request)
              \/ /\ Makes(s, r.s, cmd, "draft.update", request, r.value)
                 /\ Changes(s, r.s, "drafts")
                 /\ \/ r.s.drafts = s.drafts /\ r.value \in TheDraft(s)
                    \/ /\ id \in DOMAIN s.drafts /\ s.drafts[id].version = cmd.expected
                       /\ r.s.drafts = WithRow(s.drafts, id, NextDraft(cmd, read.base, read.draft.row))
                       /\ r.value = id
<1> DEFINE id == read.draft.id
           request == UpdateRequest(cmd, read.base, id)
           row == NextDraft(cmd, read.base, read.draft.row)
           key == ResourceKey("draft.update", cmd)
           key_ == Reserved(s, cmd, "draft.update", request)
           replay == ReplayOf(s, TheDraft(s), key_.value)
           made == DraftsUpdate(key_.s, id, row, cmd.expected, key)
           r == UpdateDraft(s, cmd, read)
<1>1. r = Mutation(s, cmd, key_, replay, made)
  BY DEF UpdateDraft, UpdateOf, UpdateRequest, NextDraft
<1>2. row.project = TheProject /\ row.shot = TheShot /\ key[1] = "resource"
  BY KeysDiffer DEF NextDraft, Draft, DraftRow
<1> HIDE DEF row, key, request, id
<1>3. /\ Recorded(s, cmd, "draft.update", request) => key_.value = s.keys[ApplicationKey(cmd)].resource
      /\ Fresh(key_) => Touches(s, key_.s, "keys")
      /\ IsStore(key_.s)
  BY ReserveFacts DEF Reserved, Recorded, Touches, Fresh, Replayed
<1> HIDE DEF key_
<1>4. /\ IsResult(made)
      /\ made.answer = "ok" =>
           /\ Changes(key_.s, made.s, "drafts") /\ KeysGrow(key_.s, made.s, key)
           /\ \/ made.s = key_.s /\ made.value \in DraftOf(key_.s, TheProject, TheShot)
              \/ /\ id \in DOMAIN key_.s.drafts /\ key_.s.drafts[id].version = cmd.expected
                 /\ made.s.drafts = WithRow(key_.s.drafts, id, row) /\ made.value = id
  BY <1>2, <1>3, DraftsUpdateFacts
<1>5. IsResult(replay)
  BY ReplaysAreResults
<1> HIDE DEF made, replay, r
<1>6. /\ IsResult(r)
      /\ r.answer = "ok" =>
           \/ Recorded(s, cmd, "draft.update", request) /\ r = replay
           \/ /\ Fresh(key_) /\ made.answer = "ok" /\ r.value = made.value
              /\ Changes(s, r.s, "drafts") /\ r.s.drafts = made.s.drafts
              /\ Makes(s, r.s, cmd, "draft.update", request, made.value)
      /\ Recorded(s, cmd, "draft.update", request) => r = replay
  <2>1. key_ = Reserved(s, cmd, "draft.update", request)
    BY DEF key_
  <2> QED
    BY <1>1, <1>2, <1>4, <1>5, <2>1, FieldNames, MutationFacts
<1>7. Recorded(s, cmd, "draft.update", request) => replay = Replay(s, cmd, TheDraft(s))
  BY <1>3 DEF replay, Replay
<1>8. CASE Fresh(key_) /\ made.answer = "ok"
  <2>1. key_.s.drafts = s.drafts
    BY <1>3, <1>8, SameDrafts
  <2>2. DraftOf(key_.s, TheProject, TheShot) = TheDraft(s)
    BY <2>1 DEF DraftOf, TheDraft
  <2> QED
    BY <1>4, <1>6, <1>7, <1>8, <2>1, <2>2 DEF r, request, row, id
<1>9. CASE ~ (Fresh(key_) /\ made.answer = "ok")
  BY <1>6, <1>7, <1>9 DEF r, request, id
<1> QED
  BY <1>8, <1>9

NewRevision(cmd, read) ==
  [project |-> TheProject, shot |-> TheShot, number |-> 1, parent |-> cmd.parent,
   graph |-> cmd.graph, hash |-> HashOf(cmd.graph),
   validation |-> Verdict(read.errors), errors |-> Persisted(read.errors)]

RevisionRequestOf(cmd) == <<cmd.graph, cmd.parent>>

LEMMA CreateRevisionFacts ==
  ASSUME NEW s, IsStore(s), NEW cmd, NEW read
  PROVE  LET r == CreateRevision(s, cmd, read)
             request == RevisionRequestOf(cmd)
             ids == RevisionsOf(s, TheProject, TheShot) IN
         /\ IsResult(r)
         /\ Recorded(s, cmd, "revision.create", request) => r = Replay(s, cmd, ids)
         /\ r.answer = "ok" =>
              \/ Recorded(s, cmd, "revision.create", request)
              \/ /\ Makes(s, r.s, cmd, "revision.create", request, r.value)
                 /\ Changes(s, r.s, "revisions")
                 /\ \/ r.s.revisions = s.revisions /\ r.value \in ids
                    \/ /\ nextId \notin DOMAIN s.revisions /\ r.value = nextId
                       /\ \E n : r.s.revisions =
                            WithRow(s.revisions, nextId, WithNumber(NewRevision(cmd, read), n))
<1> DEFINE ids == RevisionsOf(s, TheProject, TheShot)
           request == RevisionRequestOf(cmd)
           row == NewRevision(cmd, read)
           key == ResourceKey("revision.create", cmd)
           key_ == Reserved(s, cmd, "revision.create", request)
           replay == ReplayOf(s, ids, key_.value)
           created == RevisionsCreate(key_.s, nextId, row, key)
           made == WithEvents(created, read.errors)
           r == CreateRevision(s, cmd, read)
           numbered == Numbered(key_.s, row)
<1>1. r = Mutation(s, cmd, key_, replay, made)
  BY DEF CreateRevision, RevisionRequestOf, NewRevision
<1>2. row.project = TheProject /\ row.shot = TheShot /\ key[1] = "resource"
  BY KeysDiffer DEF NewRevision
<1> HIDE DEF row, key, request
<1>3. /\ Recorded(s, cmd, "revision.create", request) => key_.value = s.keys[ApplicationKey(cmd)].resource
      /\ Fresh(key_) => Touches(s, key_.s, "keys")
      /\ IsStore(key_.s)
  BY ReserveFacts DEF Reserved, Recorded, Touches, Fresh, Replayed
<1> HIDE DEF key_
<1>4. /\ IsResult(created)
      /\ created.answer = "ok" =>
           /\ Changes(key_.s, created.s, "revisions") /\ KeysGrow(key_.s, created.s, key)
           /\ \/ created.s = key_.s /\ created.value \in RevisionsOf(key_.s, TheProject, TheShot)
              \/ /\ nextId \notin DOMAIN key_.s.revisions
                 /\ created.s.revisions = WithRow(key_.s.revisions, nextId, numbered)
                 /\ created.value = nextId
  BY <1>2, <1>3, RevisionsCreateFacts
<1> HIDE DEF created, numbered, ids
<1>5. /\ IsResult(made) /\ made.answer = created.answer /\ made.value = created.value
      /\ made.answer = "ok" => Logs(created.s, made.s)
  <2>1. created.answer = "ok" => IsStore(created.s)
    BY <1>4 DEF Changes
  <2> QED
    BY <1>4, <2>1, EventsAreLogged
<1>6. IsResult(replay)
  BY ReplaysAreResults
<1> HIDE DEF made, replay, r
<1>7. Fresh(key_) /\ made.answer = "ok" =>
        /\ Changes(key_.s, made.s, "revisions") /\ KeysGrow(key_.s, made.s, key)
        /\ made.s.revisions = created.s.revisions
  <2>1. CASE made.answer = "ok"
    <3>1. made.s.keys = created.s.keys /\ made.s.revisions = created.s.revisions
      BY <1>5, <2>1, FieldNames DEF Logs, Log
    <3>2. KeysGrow(key_.s, made.s, key)
      BY <1>4, <1>5, <2>1, <3>1 DEF KeysGrow
    <3>3. Changes(key_.s, made.s, "revisions")
      BY <1>4, <1>5, <2>1 DEF Logs, Changes
    <3> QED
      BY <3>1, <3>2, <3>3
  <2> QED
    BY <2>1
<1>8. /\ IsResult(r)
      /\ r.answer = "ok" =>
           \/ Recorded(s, cmd, "revision.create", request) /\ r = replay
           \/ /\ Fresh(key_) /\ made.answer = "ok" /\ r.value = made.value
              /\ Changes(s, r.s, "revisions") /\ r.s.revisions = made.s.revisions
              /\ Makes(s, r.s, cmd, "revision.create", request, made.value)
      /\ Recorded(s, cmd, "revision.create", request) => r = replay
  <2>1. key_ = Reserved(s, cmd, "revision.create", request)
    BY DEF key_
  <2> QED
    BY <1>1, <1>2, <1>5, <1>6, <1>7, <2>1, FieldNames, MutationFacts
<1>9. Recorded(s, cmd, "revision.create", request) => replay = Replay(s, cmd, ids)
  BY <1>3 DEF replay, Replay
<1>10. CASE Fresh(key_) /\ made.answer = "ok"
  <2>1. key_.s.revisions = s.revisions
    BY <1>3, <1>10, SameDrafts
  <2>2. RevisionsOf(key_.s, TheProject, TheShot) = ids
    BY <2>1 DEF RevisionsOf, ids
  <2>3. \E n : numbered = WithNumber(NewRevision(cmd, read), n)
    BY DEF numbered, Numbered, row
  <2> QED
    BY <1>4, <1>5, <1>7, <1>8, <1>9, <1>10, <2>1, <2>2, <2>3 DEF r, request, ids
<1>11. CASE ~ (Fresh(key_) /\ made.answer = "ok")
  BY <1>8, <1>9, <1>11 DEF r, request, ids
<1> QED
  BY <1>10, <1>11


LEMMA ValidateRevisionFacts ==
  ASSUME NEW s, IsStore(s), NEW cmd, NEW read
  PROVE  LET r == ValidateRevision(s, cmd, read)
             id == cmd.revision IN
         /\ IsResult(r)
         /\ r.answer = "ok" =>
              /\ Changes(s, r.s, "revisions") /\ r.s.keys = s.keys
              /\ id \in RevisionsOf(s, TheProject, TheShot)
              /\ \E validation, errors : r.s.revisions =
                   WithRow(s.revisions, id, Judged(s.revisions[id], validation, errors))
<1> DEFINE id == cmd.revision
           result == Validated(s, cmd, read)
           r == ValidateRevision(s, cmd, read)
           update == [validation |-> Verdict(read.errors), errors |-> Persisted(read.errors)]
           row == Judged(s.revisions[id], update.validation, update.errors)
<1>1. /\ IsResult(result)
      /\ result.answer = "ok" =>
           /\ Touches(s, result.s, "revisions") /\ id \in RevisionsOf(s, TheProject, TheShot)
           /\ result.s.revisions = WithRow(s.revisions, id, row) /\ result.value = id
  <2> HIDE DEF update
  <2>1. result = RevisionsUpdateValidation(s, TheProject, TheShot, id, update)
    BY DEF Validated, update
  <2> HIDE DEF result
  <2> QED
    BY <2>1, ValidationFacts
<1>2. r = WithEvents(result, read.errors)
  BY DEF ValidateRevision
<1>3. \E validation, errors : row = Judged(s.revisions[id], validation, errors)
  OBVIOUS
<1> HIDE DEF result, r, row
<1>4. /\ IsResult(r) /\ r.answer = result.answer
      /\ r.answer = "ok" => Logs(result.s, r.s)
  <2>1. result.answer = "ok" => IsStore(result.s)
    BY <1>1 DEF Touches
  <2> QED
    BY <1>1, <1>2, <2>1, EventsAreLogged
<1>5. CASE r.answer = "ok"
  <2>1. r.s.keys = result.s.keys /\ r.s.revisions = result.s.revisions
    BY <1>4, <1>5, FieldNames DEF Logs, Log
  <2>2. result.s.keys = s.keys
    BY <1>1, <1>4, <1>5, FieldNames DEF Touches
  <2>3. Changes(s, r.s, "revisions")
    BY <1>1, <1>4, <1>5 DEF Logs, Touches, Changes
  <2> QED
    BY <1>1, <1>3, <1>4, <1>5, <2>1, <2>2, <2>3 DEF r
<1>6. CASE r.answer # "ok"
  BY <1>4, <1>6 DEF r
<1> QED
  BY <1>5, <1>6

-----------------------------------------------------------------------------
(* What a transaction leaves of the tables it found *)

(* The draft is left alone, is the first one, or is the next version of     *)
(* what the client was given.                                               *)
Edits(s, q, cmd) ==
  \/ q.drafts = s.drafts
  \/ \E id \in Nat, row \in DraftRow :
       /\ q.drafts = WithRow(s.drafts, id, row)
       /\ \/ \A d : d \notin DOMAIN s.drafts
          \/ /\ id \in DOMAIN s.drafts /\ row.version = s.drafts[id].version + 1
             /\ cmd.basis = CurrentDraft(s)

(* No revision changes its shot. *)
RevisionsStay(s, q) ==
  /\ \A x \in DOMAIN q.revisions :
       x \in Nat /\ "project" \in DOMAIN q.revisions[x] /\ "shot" \in DOMAIN q.revisions[x]
  /\ \A x \in DOMAIN s.revisions :
       /\ x \in DOMAIN q.revisions
       /\ InScope(q.revisions[x], TheProject, TheShot)
            <=> InScope(s.revisions[x], TheProject, TheShot)

Commits(s, q, cmd, value) ==
  /\ ApplicationKey(cmd) \notin DOMAIN s.keys
  /\ q.keys[ApplicationKey(cmd)].resource = value
  /\ TakesKey(s, q, cmd)
  /\ KeyIsTrue(q, cmd)

Passes(s, q, cmd) ==
  /\ IsStore(q) /\ q.projects = s.projects /\ q.shots = s.shots
  /\ Edits(s, q, cmd) /\ RevisionsStay(s, q)
  /\ q.keys = s.keys \/ \E value : Commits(s, q, cmd, value)

(* What a command comes to: nothing, when it is refused; nothing more, when *)
(* it had committed; else what it says.                                     *)
Outcome(s, r, cmd) ==
  /\ IsResult(r)
  /\ Committed(s, cmd) /\ NamesItsFields(cmd) =>
       /\ r.answer = "ok" /\ r.s = s
       /\ r.value = s.keys[ApplicationKey(cmd)].resource
  /\ r.answer = "ok" =>
       /\ Passes(s, r.s, cmd)
       /\ r.s.keys = s.keys \/ Commits(s, r.s, cmd, r.value)

LEMMA RevisionsUntouched ==
  ASSUME NEW s, NEW n, TablesAreSound(s, n), NEW q, q.revisions = s.revisions
  PROVE  RevisionsStay(s, q)
BY DEF TablesAreSound, RevisionsStay

LEMMA NothingPasses ==
  ASSUME NEW s, NEW n, TablesAreSound(s, n), NEW cmd
  PROVE  Passes(s, s, cmd)
BY RevisionsUntouched DEF Passes, Edits, TablesAreSound, IsStore

LEMMA ScopeUntouched ==
  ASSUME NEW s, NEW q, NEW table, Changes(s, q, table), table \in {"drafts", "revisions"}
  PROVE  /\ IsStore(q) /\ q.projects = s.projects /\ q.shots = s.shots
         /\ table = "drafts" => q.revisions = s.revisions
         /\ table = "revisions" => q.drafts = s.drafts
BY FieldNames DEF Changes, Log

(* A mutation whose key was recorded is replayed. *)
LEMMA ReplayIsOutcome ==
  ASSUME NEW s, NEW n, TablesAreSound(s, n), NEW cmd, NEW ids, NEW r, r = Replay(s, cmd, ids)
  PROVE  /\ IsResult(r)
         /\ r.answer = "ok" => r.s = s /\ Passes(s, r.s, cmd)
         /\ s.keys[ApplicationKey(cmd)].resource \in ids =>
              /\ r.answer = "ok" /\ r.s = s
              /\ r.value = s.keys[ApplicationKey(cmd)].resource
BY ReplaysAreResults, NothingPasses DEF Replay

LEMMA MakesCommits ==
  ASSUME NEW s, NEW q, NEW cmd, NEW op, NEW request, NEW value,
         Makes(s, q, cmd, op, request, value),
         NamesItsFields(cmd) => op = OperationOf(cmd) /\ request = RequestOf(cmd),
         cmd.op = "draft.save" => value \in TheDraft(q),
         cmd.op # "draft.save" => value \in RevisionsOf(q, TheProject, TheShot),
         cmd.op = "revision.create" => cmd.parent # Elsewhere
  PROVE  Commits(s, q, cmd, value)
BY DEF Makes, Record, Commits, KeyIsTrue


LEMMA DraftsAreTheShots ==
  ASSUME NEW s, NEW n, TablesAreSound(s, n)
  PROVE  /\ \A d : d \in TheDraft(s) <=> d \in DOMAIN s.drafts
         /\ \A d \in DOMAIN s.drafts : InScope(s.drafts[d], TheProject, TheShot)
         /\ \A d \in DOMAIN s.drafts : d \in Nat /\ d # None
BY DEF TablesAreSound, TheDraft, DraftOf, InScope, DraftRow

LEMMA RowInNewDrafts ==
  ASSUME NEW s, NEW q, NEW id, NEW row \in DraftRow, q.drafts = WithRow(s.drafts, id, row)
  PROVE  id \in TheDraft(q)
<1>1. id \in DOMAIN q.drafts /\ q.drafts[id] = row
  BY WithRowFacts
<1>2. InScope(row, TheProject, TheShot)
  BY DEF DraftRow, InScope
<1> QED
  BY <1>1, <1>2 DEF TheDraft, DraftOf

LEMMA CurrentDraftIs ==
  ASSUME NEW s, NEW n, TablesAreSound(s, n), NEW id \in DOMAIN s.drafts
  PROVE  /\ CurrentDraft(s) \in Draft
         /\ CurrentDraft(s).id = id /\ CurrentDraft(s).row = s.drafts[id]
<1>1. TheDraft(s) # {} /\ \A d \in TheDraft(s) : d = id
  BY DraftsAreTheShots DEF TablesAreSound
<1>2. (CHOOSE d \in TheDraft(s) : TRUE) = id
  BY <1>1
<1>3. CurrentDraft(s) = [id |-> id, row |-> s.drafts[id]]
  BY <1>1, <1>2 DEF CurrentDraft
<1> QED
  BY <1>3 DEF Draft, TablesAreSound

LEMMA NoCurrentDraft ==
  ASSUME NEW s, NEW n, TablesAreSound(s, n), \A d : d \notin DOMAIN s.drafts
  PROVE  CurrentDraft(s) = None
BY DraftsAreTheShots DEF CurrentDraft

LEMMA CreateOutcome ==
  ASSUME NEW s, NEW n, TablesAreSound(s, n), nextId \in Nat, NEW cmd, CommandIsSound(s, n, cmd),
         NEW read, ReadIsSound(s, cmd, read), cmd.op = "draft.save",
         CreatesDraft(cmd, read.draft)
  PROVE  Outcome(s, CreateDraft(s, cmd, read), cmd)
<1> DEFINE r == CreateDraft(s, cmd, read)
           request == CreateRequest(cmd, read.base)
           row == NewDraft(cmd, read.base)
<1>1. cmd.expected = None
  BY DEF CommandIsSound, ReadIsSound, CreatesDraft
<1>2. NamesItsFields(cmd) => "draft.create" = OperationOf(cmd) /\ request = RequestOf(cmd)
  BY <1>1 DEF NamesItsFields, OperationOf, RequestOf, CreateRequest, ReadIsSound
<1>3. row \in DraftRow
  BY DEF NewDraft, DraftRow, CommandIsSound, ReadIsSound
<1>4. IsStore(s)
  BY DEF TablesAreSound, IsStore
<1> HIDE DEF request, row, r
<1>5. /\ IsResult(r)
      /\ Recorded(s, cmd, "draft.create", request) => r = Replay(s, cmd, TheDraft(s))
      /\ r.answer = "ok" =>
           \/ Recorded(s, cmd, "draft.create", request)
           \/ /\ Makes(s, r.s, cmd, "draft.create", request, r.value)
              /\ Changes(s, r.s, "drafts")
              /\ \/ r.s.drafts = s.drafts /\ r.value \in TheDraft(s)
                 \/ /\ nextId \notin DOMAIN s.drafts
                    /\ \A d \in DOMAIN s.drafts : ~ InScope(s.drafts[d], TheProject, TheShot)
                    /\ r.s.drafts = WithRow(s.drafts, nextId, row) /\ r.value = nextId
  BY <1>4, CreateDraftFacts DEF r, request, row
<1>6. Committed(s, cmd) /\ NamesItsFields(cmd) =>
        /\ Recorded(s, cmd, "draft.create", request)
        /\ s.keys[ApplicationKey(cmd)].resource \in TheDraft(s)
  <2>1. ASSUME Committed(s, cmd), NamesItsFields(cmd)
        PROVE  /\ Recorded(s, cmd, "draft.create", request)
               /\ s.keys[ApplicationKey(cmd)].resource \in TheDraft(s)
    <3>1. KeyIsTrue(s, cmd)
      BY DEF CommandIsSound
    <3>2. /\ s.keys[ApplicationKey(cmd)].operation = OperationOf(cmd)
          /\ s.keys[ApplicationKey(cmd)].request = RequestOf(cmd)
          /\ s.keys[ApplicationKey(cmd)].resource \in TheDraft(s)
      BY <2>1, <3>1 DEF KeyIsTrue
    <3> QED
      BY <1>2, <2>1, <3>2, DraftsAreTheShots DEF Recorded, Committed, Has
  <2> QED
    BY <2>1
<1>7. CASE Recorded(s, cmd, "draft.create", request)
  <2>1. /\ IsResult(r) /\ r.answer = "ok" => r.s = s /\ Passes(s, r.s, cmd)
    BY <1>5, <1>7, ReplayIsOutcome
  <2>2. s.keys[ApplicationKey(cmd)].resource \in TheDraft(s) =>
          /\ r.answer = "ok" /\ r.s = s /\ r.value = s.keys[ApplicationKey(cmd)].resource
    BY <1>5, <1>7, ReplayIsOutcome
  <2> QED
    BY <1>5, <1>6, <2>1, <2>2 DEF Outcome, r
<1>8. CASE ~ Recorded(s, cmd, "draft.create", request) /\ r.answer = "ok"
  <2>1. /\ Makes(s, r.s, cmd, "draft.create", request, r.value)
        /\ Changes(s, r.s, "drafts")
    BY <1>5, <1>8
  <2>2. CASE r.s.drafts = s.drafts /\ r.value \in TheDraft(s)
    <3>1. r.value \in TheDraft(r.s) /\ Edits(s, r.s, cmd)
      BY <2>2 DEF TheDraft, DraftOf, Edits
    <3> QED
      BY <1>2, <1>5, <1>6, <1>8, <2>1, <3>1, MakesCommits, ScopeUntouched, RevisionsUntouched
         DEF Outcome, Passes, r
  <2>3. CASE /\ \A d \in DOMAIN s.drafts : ~ InScope(s.drafts[d], TheProject, TheShot)
             /\ r.s.drafts = WithRow(s.drafts, nextId, row) /\ r.value = nextId
    <3>1. \A d : d \notin DOMAIN s.drafts
      BY <2>3, DraftsAreTheShots
    <3>2. r.value \in TheDraft(r.s) /\ Edits(s, r.s, cmd)
      BY <1>3, <2>3, <3>1, RowInNewDrafts DEF Edits
    <3> QED
      BY <1>2, <1>5, <1>6, <1>8, <2>1, <3>2, MakesCommits, ScopeUntouched, RevisionsUntouched
         DEF Outcome, Passes, r
  <2> QED
    BY <1>5, <1>8, <2>2, <2>3
<1>9. CASE ~ Recorded(s, cmd, "draft.create", request) /\ r.answer # "ok"
  BY <1>5, <1>6, <1>9 DEF Outcome, r
<1> QED
  BY <1>7, <1>8, <1>9


(* The command expects the version that its client was given; the version   *)
(* the transaction read lies between that and the one in the table.        *)
LEMMA ExpectedIsCurrent ==
  ASSUME NEW s, NEW n, TablesAreSound(s, n), NEW cmd, CommandIsSound(s, n, cmd),
         NEW read, ReadIsSound(s, cmd, read), cmd.op = "draft.save",
         cmd.expected # None, read.draft # None,
         read.draft.id \in DOMAIN s.drafts,
         s.drafts[read.draft.id].version = cmd.expected
  PROVE  /\ cmd.basis = CurrentDraft(s)
         /\ read.draft.row = s.drafts[read.draft.id]
<1> DEFINE id == read.draft.id
           stored == s.drafts[id]
           basis == cmd.basis
<1>1. /\ WasDraft(s, basis) /\ WasDraft(s, read.draft)
      /\ basis # None /\ cmd.expected = basis.row.version
      /\ basis.row.version <= read.draft.row.version
  BY DEF CommandIsSound, ReadIsSound
<1>2. stored \in DraftRow /\ basis \in Draft /\ read.draft \in Draft
  BY <1>1 DEF WasDraft, TablesAreSound
<1>3. basis.id = id
  BY <1>1, DraftsAreTheShots DEF WasDraft, TablesAreSound
<1>4. read.draft.row.version <= stored.version
  BY <1>1 DEF WasDraft
<1>5. basis.row.version = stored.version /\ read.draft.row.version = stored.version
  <2>1. /\ stored.version \in Nat /\ basis.row.version \in Nat /\ read.draft.row.version \in Nat
    BY <1>2 DEF Draft, DraftRow
  <2> QED
    BY <1>1, <1>4, <2>1
<1>6. basis.row = stored /\ read.draft.row = stored
  BY <1>1, <1>3, <1>5 DEF WasDraft
<1>7. CurrentDraft(s) \in Draft /\ CurrentDraft(s).id = id /\ CurrentDraft(s).row = stored
  BY CurrentDraftIs
<1>8. basis = CurrentDraft(s)
  BY <1>2, <1>3, <1>6, <1>7 DEF Draft
<1> QED
  BY <1>6, <1>8

LEMMA NextDraftFacts ==
  ASSUME NEW cmd, cmd.graph \in Graphs, NEW base \in {None, TheRevision}, NEW old \in DraftRow
  PROVE  /\ NextDraft(cmd, base, old) \in DraftRow
         /\ NextDraft(cmd, base, old).version = old.version + 1
<1> DEFINE next == NextDraft(cmd, base, old)
           version == old.version + 1
           graph == cmd.graph
<1>0. old = [project |-> old.project, shot |-> old.shot, base |-> old.base,
             graph |-> old.graph, version |-> old.version]
  BY DEF DraftRow
<1>1. next = [project |-> old.project, shot |-> old.shot, base |-> base, graph |-> graph,
              version |-> version]
  <2>1. next = [old EXCEPT !.base = base, !.graph = graph, !.version = version]
    BY DEF NextDraft
  <2> HIDE DEF version, graph, next
  <2> QED
    BY <1>0, <2>1
<1>2. old.project = TheProject /\ old.shot = TheShot /\ old.version + 1 \in Nat
  BY DEF DraftRow
<1> QED
  BY <1>1, <1>2 DEF DraftRow

LEMMA UpdateOutcome ==
  ASSUME NEW s, NEW n, TablesAreSound(s, n), NEW cmd, CommandIsSound(s, n, cmd),
         NEW read, ReadIsSound(s, cmd, read), cmd.op = "draft.save",
         ~ CreatesDraft(cmd, read.draft)
  PROVE  Outcome(s, UpdateDraft(s, cmd, read), cmd)
<1> DEFINE r == UpdateDraft(s, cmd, read)
           id == read.draft.id
           request == UpdateRequest(cmd, read.base, id)
           row == NextDraft(cmd, read.base, read.draft.row)
<1>1. cmd.expected # None /\ read.draft # None
  BY DEF CreatesDraft
<1>2. /\ read.draft \in Draft /\ id \in TheDraft(s)
      /\ cmd.basis # None /\ cmd.basis.id \in TheDraft(s)
  BY <1>1 DEF CommandIsSound, ReadIsSound, WasDraft
<1>3. cmd.basis.id = id /\ id \in Nat
  BY <1>2, DraftsAreTheShots DEF TablesAreSound
<1>4. NamesItsFields(cmd) => "draft.update" = OperationOf(cmd) /\ request = RequestOf(cmd)
  BY <1>1, <1>3 DEF NamesItsFields, OperationOf, RequestOf, UpdateRequest, ReadIsSound
<1>5. row \in DraftRow /\ row.version = read.draft.row.version + 1
  <2>1. read.draft.row \in DraftRow /\ read.base \in {None, TheRevision} /\ cmd.graph \in Graphs
    BY <1>2 DEF Draft, CommandIsSound, ReadIsSound
  <2> QED
    BY <2>1, NextDraftFacts
<1>6. IsStore(s)
  BY DEF TablesAreSound, IsStore
<1> HIDE DEF request, row, r, id
<1>7. /\ IsResult(r)
      /\ Recorded(s, cmd, "draft.update", request) => r = Replay(s, cmd, TheDraft(s))
      /\ r.answer = "ok" =>
           \/ Recorded(s, cmd, "draft.update", request)
           \/ /\ Makes(s, r.s, cmd, "draft.update", request, r.value)
              /\ Changes(s, r.s, "drafts")
              /\ \/ r.s.drafts = s.drafts /\ r.value \in TheDraft(s)
                 \/ /\ id \in DOMAIN s.drafts /\ s.drafts[id].version = cmd.expected
                    /\ r.s.drafts = WithRow(s.drafts, id, row) /\ r.value = id
  BY <1>2, <1>6, UpdateDraftFacts DEF r, request, row, id
<1>8. Committed(s, cmd) /\ NamesItsFields(cmd) =>
        /\ Recorded(s, cmd, "draft.update", request)
        /\ s.keys[ApplicationKey(cmd)].resource \in TheDraft(s)
  <2>1. ASSUME Committed(s, cmd), NamesItsFields(cmd)
        PROVE  /\ Recorded(s, cmd, "draft.update", request)
               /\ s.keys[ApplicationKey(cmd)].resource \in TheDraft(s)
    <3>1. KeyIsTrue(s, cmd)
      BY DEF CommandIsSound
    <3>2. /\ s.keys[ApplicationKey(cmd)].operation = OperationOf(cmd)
          /\ s.keys[ApplicationKey(cmd)].request = RequestOf(cmd)
          /\ s.keys[ApplicationKey(cmd)].resource \in TheDraft(s)
      BY <2>1, <3>1 DEF KeyIsTrue
    <3> QED
      BY <1>4, <2>1, <3>2, DraftsAreTheShots DEF Recorded, Committed, Has
  <2> QED
    BY <2>1
<1>9. CASE Recorded(s, cmd, "draft.update", request)
  <2>1. r.answer = "ok" => r.s = s /\ Passes(s, r.s, cmd)
    BY <1>7, <1>9, ReplayIsOutcome
  <2>2. s.keys[ApplicationKey(cmd)].resource \in TheDraft(s) =>
          /\ r.answer = "ok" /\ r.s = s /\ r.value = s.keys[ApplicationKey(cmd)].resource
    BY <1>7, <1>9, ReplayIsOutcome
  <2> QED
    BY <1>7, <1>8, <2>1, <2>2 DEF Outcome, r
<1>10. CASE ~ Recorded(s, cmd, "draft.update", request) /\ r.answer = "ok"
  <2>1. /\ Makes(s, r.s, cmd, "draft.update", request, r.value)
        /\ Changes(s, r.s, "drafts")
    BY <1>7, <1>10
  <2>2. CASE r.s.drafts = s.drafts /\ r.value \in TheDraft(s)
    <3>1. r.value \in TheDraft(r.s) /\ Edits(s, r.s, cmd)
      BY <2>2 DEF TheDraft, DraftOf, Edits
    <3> QED
      BY <1>4, <1>7, <1>8, <1>10, <2>1, <3>1, MakesCommits, ScopeUntouched, RevisionsUntouched
         DEF Outcome, Passes, r
  <2>3. CASE /\ id \in DOMAIN s.drafts /\ s.drafts[id].version = cmd.expected
             /\ r.s.drafts = WithRow(s.drafts, id, row) /\ r.value = id
    <3>1. cmd.basis = CurrentDraft(s) /\ read.draft.row = s.drafts[id]
      BY <1>1, <2>3, ExpectedIsCurrent DEF id
    <3>2. r.value \in TheDraft(r.s) /\ Edits(s, r.s, cmd)
      BY <1>3, <1>5, <2>3, <3>1, RowInNewDrafts DEF Edits
    <3> QED
      BY <1>4, <1>7, <1>8, <1>10, <2>1, <3>2, MakesCommits, ScopeUntouched, RevisionsUntouched
         DEF Outcome, Passes, r
  <2> QED
    BY <1>7, <1>10, <2>2, <2>3
<1>11. CASE ~ Recorded(s, cmd, "draft.update", request) /\ r.answer # "ok"
  BY <1>7, <1>8, <1>11 DEF Outcome, r
<1> QED
  BY <1>9, <1>10, <1>11


LEMMA RevisionAdded ==
  ASSUME NEW s, NEW n, TablesAreSound(s, n), NEW q, NEW id \in Nat, NEW row,
         "project" \in DOMAIN row, "shot" \in DOMAIN row,
         id \in DOMAIN s.revisions => (InScope(row, TheProject, TheShot)
                                         <=> InScope(s.revisions[id], TheProject, TheShot)),
         q.revisions = WithRow(s.revisions, id, row)
  PROVE  RevisionsStay(s, q)
<1>1. /\ \A k : k \in DOMAIN q.revisions <=> k \in DOMAIN s.revisions \/ k = id
      /\ q.revisions[id] = row
      /\ \A k \in DOMAIN s.revisions : k # id => q.revisions[k] = s.revisions[k]
  BY WithRowFacts
<1>2. \A k \in DOMAIN s.revisions :
        k \in Nat /\ "project" \in DOMAIN s.revisions[k] /\ "shot" \in DOMAIN s.revisions[k]
  BY DEF TablesAreSound
<1> QED
  BY <1>1, <1>2 DEF RevisionsStay

LEMMA RevisionOutcome ==
  ASSUME NEW s, NEW n, TablesAreSound(s, n), nextId \in Nat, NEW cmd, CommandIsSound(s, n, cmd),
         NEW read, ReadIsSound(s, cmd, read), cmd.op = "revision.create", read.refusal = None
  PROVE  Outcome(s, CreateRevision(s, cmd, read), cmd)
<1> DEFINE r == CreateRevision(s, cmd, read)
           request == RevisionRequestOf(cmd)
           ids == RevisionsOf(s, TheProject, TheShot)
<1>1. "revision.create" = OperationOf(cmd) /\ request = RequestOf(cmd)
  BY DEF OperationOf, RequestOf, RevisionRequestOf
<1>2. cmd.parent # Elsewhere
  BY DEF ReadIsSound
<1>3. IsStore(s)
  BY DEF TablesAreSound, IsStore
<1>4. \A id \in ids : id \in DOMAIN s.revisions /\ id \in Nat /\ id # None
  BY DEF RevisionsOf, TablesAreSound
<1> HIDE DEF request, r, ids
<1>5. /\ IsResult(r)
      /\ Recorded(s, cmd, "revision.create", request) => r = Replay(s, cmd, ids)
      /\ r.answer = "ok" =>
           \/ Recorded(s, cmd, "revision.create", request)
           \/ /\ Makes(s, r.s, cmd, "revision.create", request, r.value)
              /\ Changes(s, r.s, "revisions")
              /\ \/ r.s.revisions = s.revisions /\ r.value \in ids
                 \/ /\ nextId \notin DOMAIN s.revisions /\ r.value = nextId
                    /\ \E m : r.s.revisions =
                         WithRow(s.revisions, nextId, WithNumber(NewRevision(cmd, read), m))
  BY <1>3, CreateRevisionFacts DEF r, request, ids
<1>6. Committed(s, cmd) =>
        /\ Recorded(s, cmd, "revision.create", request)
        /\ s.keys[ApplicationKey(cmd)].resource \in ids
  <2>1. ASSUME Committed(s, cmd)
        PROVE  /\ Recorded(s, cmd, "revision.create", request)
               /\ s.keys[ApplicationKey(cmd)].resource \in ids
    <3>1. KeyIsTrue(s, cmd) /\ NamesItsFields(cmd)
      BY DEF CommandIsSound, NamesItsFields
    <3>2. /\ s.keys[ApplicationKey(cmd)].operation = OperationOf(cmd)
          /\ s.keys[ApplicationKey(cmd)].request = RequestOf(cmd)
          /\ s.keys[ApplicationKey(cmd)].resource \in ids
      BY <2>1, <3>1 DEF KeyIsTrue, ids
    <3> QED
      BY <1>1, <1>4, <2>1, <3>2 DEF Recorded, Committed, Has
  <2> QED
    BY <2>1
<1>7. CASE Recorded(s, cmd, "revision.create", request)
  <2>1. r.answer = "ok" => r.s = s /\ Passes(s, r.s, cmd)
    BY <1>5, <1>7, ReplayIsOutcome
  <2>2. s.keys[ApplicationKey(cmd)].resource \in ids =>
          /\ r.answer = "ok" /\ r.s = s /\ r.value = s.keys[ApplicationKey(cmd)].resource
    BY <1>5, <1>7, ReplayIsOutcome
  <2> QED
    BY <1>5, <1>6, <2>1, <2>2 DEF Outcome, r
<1>8. CASE ~ Recorded(s, cmd, "revision.create", request) /\ r.answer = "ok"
  <2>1. /\ Makes(s, r.s, cmd, "revision.create", request, r.value)
        /\ Changes(s, r.s, "revisions")
    BY <1>5, <1>8
  <2>2. r.value \in RevisionsOf(r.s, TheProject, TheShot) /\ RevisionsStay(s, r.s)
    <3>1. CASE r.s.revisions = s.revisions /\ r.value \in ids
      BY <3>1, RevisionsUntouched DEF RevisionsOf, ids
    <3>2. CASE /\ nextId \notin DOMAIN s.revisions /\ r.value = nextId
               /\ \E m : r.s.revisions =
                    WithRow(s.revisions, nextId, WithNumber(NewRevision(cmd, read), m))
      <4>1. PICK m : r.s.revisions =
                       WithRow(s.revisions, nextId, WithNumber(NewRevision(cmd, read), m))
        BY <3>2
      <4> DEFINE row == WithNumber(NewRevision(cmd, read), m)
      <4>2. /\ "project" \in DOMAIN row /\ "shot" \in DOMAIN row
            /\ InScope(row, TheProject, TheShot)
        BY DEF WithNumber, NewRevision, InScope
      <4> HIDE DEF row
      <4>3. RevisionsStay(s, r.s)
        BY <3>2, <4>1, <4>2, RevisionAdded DEF row
      <4>4. nextId \in DOMAIN r.s.revisions /\ r.s.revisions[nextId] = row
        BY <4>1, WithRowFacts DEF row
      <4> QED
        BY <3>2, <4>2, <4>3, <4>4 DEF RevisionsOf
    <3> QED
      BY <1>5, <1>8, <3>1, <3>2
  <2>3. Commits(s, r.s, cmd, r.value)
    BY <1>1, <1>2, <2>1, <2>2, MakesCommits
  <2>4. /\ IsStore(r.s) /\ r.s.projects = s.projects /\ r.s.shots = s.shots
        /\ r.s.drafts = s.drafts
    BY <2>1, ScopeUntouched
  <2>5. Passes(s, r.s, cmd)
    BY <2>2, <2>3, <2>4 DEF Passes, Edits
  <2> QED
    BY <1>5, <1>6, <1>8, <2>3, <2>5 DEF Outcome, r
<1>9. CASE ~ Recorded(s, cmd, "revision.create", request) /\ r.answer # "ok"
  BY <1>5, <1>6, <1>9 DEF Outcome, r
<1> QED
  BY <1>7, <1>8, <1>9

LEMMA ValidationOutcome ==
  ASSUME NEW s, NEW n, TablesAreSound(s, n), NEW cmd, cmd.op = "revision.validate", NEW read
  PROVE  Outcome(s, ValidateRevision(s, cmd, read), cmd)
<1> DEFINE r == ValidateRevision(s, cmd, read)
           id == cmd.revision
<1>1. IsStore(s)
  BY DEF TablesAreSound, IsStore
<1> HIDE DEF r, id
<1>2. /\ IsResult(r)
      /\ r.answer = "ok" =>
           /\ Changes(s, r.s, "revisions") /\ r.s.keys = s.keys
           /\ id \in RevisionsOf(s, TheProject, TheShot)
           /\ \E validation, errors : r.s.revisions =
                WithRow(s.revisions, id, Judged(s.revisions[id], validation, errors))
  BY <1>1, ValidateRevisionFacts DEF r, id
<1>3. CASE r.answer = "ok"
  <2>1. PICK validation, errors : r.s.revisions =
               WithRow(s.revisions, id, Judged(s.revisions[id], validation, errors))
    BY <1>2, <1>3
  <2> DEFINE old == s.revisions[id]
             row == Judged(old, validation, errors)
  <2>2. /\ id \in Nat /\ id \in DOMAIN s.revisions
        /\ "project" \in DOMAIN old /\ "shot" \in DOMAIN old
    BY <1>2, <1>3 DEF TablesAreSound, RevisionsOf
  <2>3. /\ "project" \in DOMAIN row /\ "shot" \in DOMAIN row
        /\ row.project = old.project /\ row.shot = old.shot
    <3> HIDE DEF old
    <3> QED
      BY <2>2 DEF Judged
  <2>4. InScope(row, TheProject, TheShot) <=> InScope(old, TheProject, TheShot)
    <3> HIDE DEF row, old
    <3> QED
      BY <2>3 DEF InScope
  <2>5. RevisionsStay(s, r.s)
    <3> HIDE DEF row
    <3> QED
      BY <2>1, <2>2, <2>3, <2>4, RevisionAdded DEF row
  <2>6. Passes(s, r.s, cmd)
    BY <1>2, <1>3, <2>5, ScopeUntouched DEF Passes, Edits
  <2> QED
    BY <1>2, <1>3, <2>6 DEF Outcome, Committed, r
<1>4. CASE r.answer # "ok"
  BY <1>2, <1>4 DEF Outcome, Committed, r
<1> QED
  BY <1>3, <1>4

LEMMA RefusalOutcome ==
  ASSUME NEW s, NEW cmd, NEW code, code # "ok", ~ (Committed(s, cmd) /\ NamesItsFields(cmd))
  PROVE  Outcome(s, Refuse(s, code), cmd)
BY CodesAreErrors DEF Outcome

LEMMA WrittenOutcome ==
  ASSUME NEW s, NEW n, TablesAreSound(s, n), nextId \in Nat, NEW cmd, CommandIsSound(s, n, cmd),
         NEW read, ReadIsSound(s, cmd, read)
  PROVE  Outcome(s, Written(s, cmd, read), cmd)
<1> DEFINE r == Written(s, cmd, read)
<1>1. CASE read.refusal # None
  <2>1. r = Refuse(s, read.refusal) /\ read.refusal # "ok"
    BY <1>1 DEF Written, ReadIsSound
  <2>2. cmd.op = "revision.create" /\ Committed(s, cmd) => cmd.parent # Elsewhere
    BY DEF CommandIsSound, KeyIsTrue, NamesItsFields
  <2>3. ~ (Committed(s, cmd) /\ NamesItsFields(cmd))
    BY <1>1, <2>2 DEF ReadIsSound, CommandIsSound, Committed
  <2> HIDE DEF r
  <2> QED
    BY <2>1, <2>3, RefusalOutcome DEF r
<1>2. CASE read.refusal = None /\ cmd.op = "draft.save"
  <2>1. r = SaveDraft(s, cmd, read)
    BY <1>2 DEF Written
  <2>2. r = IF CreatesDraft(cmd, read.draft) THEN CreateDraft(s, cmd, read)
            ELSE UpdateDraft(s, cmd, read)
    BY <2>1 DEF SaveDraft
  <2> HIDE DEF r
  <2>3. CASE CreatesDraft(cmd, read.draft)
    BY <1>2, <2>2, <2>3, CreateOutcome DEF r
  <2>4. CASE ~ CreatesDraft(cmd, read.draft)
    BY <1>2, <2>2, <2>4, UpdateOutcome DEF r
  <2> QED
    BY <2>3, <2>4
<1>3. CASE read.refusal = None /\ cmd.op = "revision.create"
  <2>1. r = CreateRevision(s, cmd, read)
    BY <1>3 DEF Written
  <2> HIDE DEF r
  <2> QED
    BY <1>3, <2>1, RevisionOutcome DEF r
<1>4. CASE read.refusal = None /\ cmd.op = "revision.validate"
  <2>1. r = ValidateRevision(s, cmd, read)
    BY <1>4 DEF Written
  <2> HIDE DEF r
  <2> QED
    BY <1>4, <2>1, ValidationOutcome DEF r
<1> QED
  BY <1>1, <1>2, <1>3, <1>4 DEF CommandIsSound


-----------------------------------------------------------------------------
(* What passes keeps what the others know *)

LEMMA EditedRow ==
  ASSUME NEW s, NEW n, TablesAreSound(s, n), NEW q, NEW cmd, Edits(s, q, cmd)
  PROVE  /\ \A d \in DOMAIN s.drafts :
              /\ d \in DOMAIN q.drafts
              /\ \/ q.drafts[d] = s.drafts[d]
                 \/ /\ q.drafts[d].version = s.drafts[d].version + 1
                    /\ cmd.basis = CurrentDraft(s)
         /\ \A d \in DOMAIN q.drafts : d \in Nat /\ q.drafts[d] \in DraftRow
         /\ \A d, e \in DOMAIN q.drafts : d = e
<1>1. CASE q.drafts = s.drafts
  BY <1>1 DEF TablesAreSound
<1>2. CASE q.drafts # s.drafts
  <2>1. PICK id \in Nat, row \in DraftRow :
          /\ q.drafts = WithRow(s.drafts, id, row)
          /\ \/ \A d : d \notin DOMAIN s.drafts
             \/ /\ id \in DOMAIN s.drafts /\ row.version = s.drafts[id].version + 1
                /\ cmd.basis = CurrentDraft(s)
    BY <1>2 DEF Edits
  <2>2. /\ \A k : k \in DOMAIN q.drafts <=> k \in DOMAIN s.drafts \/ k = id
        /\ q.drafts[id] = row
        /\ \A k \in DOMAIN s.drafts : k # id => q.drafts[k] = s.drafts[k]
    BY <2>1, WithRowFacts
  <2>3. \A d, e \in DOMAIN s.drafts : d = e
    BY DEF TablesAreSound
  <2>4. \A d \in DOMAIN s.drafts : d \in Nat /\ s.drafts[d] \in DraftRow
    BY DEF TablesAreSound
  <2> QED
    BY <2>1, <2>2, <2>3, <2>4
<1> QED
  BY <1>1, <1>2

LEMMA TablesStaySound ==
  ASSUME NEW s, NEW n \in Nat, TablesAreSound(s, n), NEW q, NEW cmd, cmd.key \in 1 .. n,
         Passes(s, q, cmd)
  PROVE  TablesAreSound(q, n)
<1>1. q = [f \in Fields |-> q[f]]
  BY DEF Passes, IsStore
<1>2. ShotInProject(q, TheProject, TheShot)
  BY DEF Passes, TablesAreSound, ShotInProject, Has
<1>3. /\ \A d \in DOMAIN q.drafts : d \in Nat /\ q.drafts[d] \in DraftRow
      /\ \A d, e \in DOMAIN q.drafts : d = e
  BY EditedRow DEF Passes
<1>4. /\ \A r \in DOMAIN q.revisions :
           r \in Nat /\ {"project", "shot"} \subseteq DOMAIN q.revisions[r]
      /\ TheRevision \in RevisionsOf(q, TheProject, TheShot)
      /\ Elsewhere \in DOMAIN q.revisions \ RevisionsOf(q, TheProject, TheShot)
  BY DEF Passes, RevisionsStay, RevisionsOf, TablesAreSound
<1>5. \A k \in DOMAIN q.keys : k[1] = "application" => k[2] \in 1 .. n
  <2>1. \A k \in DOMAIN s.keys : k[1] = "application" => k[2] \in 1 .. n
    BY DEF TablesAreSound
  <2>2. CASE q.keys = s.keys
    BY <2>1, <2>2
  <2>3. CASE q.keys # s.keys
    <3>1. \A k \in DOMAIN q.keys : k \in DOMAIN s.keys \/ k[1] = "resource" \/ k = ApplicationKey(cmd)
      BY <2>3 DEF Passes, Commits, TakesKey
    <3>2. ApplicationKey(cmd)[2] = cmd.key
      BY DEF ApplicationKey
    <3> QED
      BY <2>1, <3>1, <3>2
  <2> QED
    BY <2>2, <2>3
<1> QED
  BY <1>1, <1>2, <1>3, <1>4, <1>5 DEF TablesAreSound

LEMMA WasDraftStays ==
  ASSUME NEW s, NEW n, TablesAreSound(s, n), NEW q, NEW cmd, Passes(s, q, cmd),
         NEW d, WasDraft(s, d)
  PROVE  WasDraft(q, d)
<1>1. SUFFICES ASSUME d # None  PROVE  WasDraft(q, d)
  BY DEF WasDraft
<1> DEFINE id == d.id
           x == s.drafts[id]
           y == q.drafts[id]
<1>2. /\ d \in Draft /\ id \in DOMAIN s.drafts
      /\ d.row.version <= x.version /\ (d.row.version = x.version => d.row = x)
  BY <1>1, DraftsAreTheShots DEF WasDraft
<1>3. /\ id \in DOMAIN q.drafts /\ y \in DraftRow
      /\ y = x \/ y.version = x.version + 1
  BY <1>2, EditedRow DEF Passes
<1>4. x \in DraftRow
  BY <1>2 DEF TablesAreSound
<1>5. d.row.version \in Nat /\ x.version \in Nat /\ y.version \in Nat
  BY <1>2, <1>3, <1>4 DEF Draft, DraftRow
<1>6. id \in TheDraft(q)
  <2>1. InScope(y, TheProject, TheShot)
    BY <1>3 DEF DraftRow, InScope
  <2> QED
    BY <1>3, <2>1 DEF TheDraft, DraftOf
<1>7. d.row.version <= y.version /\ (d.row.version = y.version => d.row = y)
  <2>1. CASE y = x
    BY <1>2, <2>1
  <2>2. CASE y.version = x.version + 1
    BY <1>2, <1>5, <2>2
  <2> QED
    BY <1>3, <2>1, <2>2
<1> QED
  BY <1>2, <1>6, <1>7 DEF WasDraft

LEMMA ReadStaysSound ==
  ASSUME NEW s, NEW n, TablesAreSound(s, n), NEW q, NEW cmd, Passes(s, q, cmd),
         NEW other, NEW read, ReadIsSound(s, other, read)
  PROVE  ReadIsSound(q, other, read)
BY WasDraftStays DEF ReadIsSound

LEMMA CommandStaysSound ==
  ASSUME NEW s, NEW n, TablesAreSound(s, n), NEW q, NEW cmd, Passes(s, q, cmd),
         NEW other, CommandIsSound(s, n, other), other = cmd \/ other.key # cmd.key
  PROVE  CommandIsSound(q, n, other)
<1> DEFINE app == ApplicationKey(other)
           record == s.keys[app]
<1>1. KeyIsTrue(s, other)
  BY DEF CommandIsSound
<1>2. CASE other = cmd /\ q.keys # s.keys
  <2>1. KeyIsTrue(q, other)
    BY <1>2 DEF Passes, Commits
  <2> QED
    BY <2>1, WasDraftStays DEF CommandIsSound
<1>3. CASE other.key # cmd.key \/ q.keys = s.keys
  <2>1. app # ApplicationKey(cmd) \/ q.keys = s.keys
    BY <1>3 DEF ApplicationKey
  <2>2. app[1] = "application"
    BY KeysDiffer
  <2>3. Committed(q, other) => Committed(s, other) /\ q.keys[app] = record
    <3>1. app \in DOMAIN q.keys => app \in DOMAIN s.keys /\ q.keys[app] = s.keys[app]
      <4>1. CASE q.keys # s.keys
        <5>1. TakesKey(s, q, cmd)
          BY <4>1 DEF Passes, Commits
        <5> HIDE DEF app
        <5> QED
          BY <2>1, <2>2, <4>1, <5>1 DEF TakesKey
      <4> QED
        BY <4>1
    <3> QED
      BY <3>1 DEF Committed, Has
  <2>4. /\ \A d \in TheDraft(s) : d \in TheDraft(q)
        /\ \A r \in RevisionsOf(s, TheProject, TheShot) : r \in RevisionsOf(q, TheProject, TheShot)
    <3>1. \A d \in DOMAIN s.drafts : d \in DOMAIN q.drafts /\ q.drafts[d] \in DraftRow
      BY EditedRow DEF Passes
    <3>2. \A d \in DOMAIN s.drafts : InScope(q.drafts[d], TheProject, TheShot)
      BY <3>1 DEF InScope, DraftRow
    <3>3. RevisionsStay(s, q)
      BY DEF Passes
    <3> QED
      BY <3>1, <3>2, <3>3 DEF TheDraft, DraftOf, RevisionsStay, RevisionsOf
  <2>5. KeyIsTrue(q, other)
    BY <1>1, <2>3, <2>4 DEF KeyIsTrue
  <2> QED
    BY <2>5, WasDraftStays DEF CommandIsSound
<1> QED
  BY <1>2, <1>3


-----------------------------------------------------------------------------
(* The steps *)

LEMMA ReadIsTrue ==
  ASSUME NEW s, NEW n, TablesAreSound(s, n), NEW cmd,
         cmd.op \in {"draft.save", "revision.create", "revision.validate"},
         cmd.op = "draft.save" => /\ cmd.base \in {Default, None, TheRevision}
                                  /\ WasDraft(s, cmd.basis),
         cmd.op = "revision.create" => cmd.parent \in {TheRevision, Elsewhere},
         NEW up
  PROVE  ReadIsSound(s, cmd, Read(s, cmd, up))
<1> DEFINE read == Read(s, cmd, up)
<1>0. /\ None \notin {"WORKFLOW_PROJECT_NOT_FOUND", "WORKFLOW_SHOT_NOT_FOUND",
                      "WORKFLOW_SCOPE_VIOLATION", "WORKFLOW_REVISION_NOT_FOUND", "ok"}
      /\ None \notin Int /\ None \notin Draft
  BY DEF Codes
<1>1. RequireShotScope(s) = None
  BY DEF TablesAreSound, ShotInProject, RequireShotScope
<1>2. TheRevision \in RevisionsOf(s, TheProject, TheShot)
      /\ Elsewhere \notin RevisionsOf(s, TheProject, TheShot)
  BY DEF TablesAreSound
<1>3. CASE cmd.op = "draft.save"
  <2> DEFINE draft == CurrentDraft(s)
             base == BaseOf(cmd, IF CreatesDraft(cmd, draft) THEN None ELSE draft)
  <2>1. /\ WasDraft(s, draft)
        /\ draft # None => draft \in Draft
        /\ cmd.basis # None => draft # None /\ cmd.basis.row.version <= draft.row.version
    <3>1. CASE \A d : d \notin DOMAIN s.drafts
      <4>1. draft = None
        BY <3>1, NoCurrentDraft
      <4>2. cmd.basis = None
        BY <1>3, <3>1, DraftsAreTheShots DEF WasDraft
      <4> QED
        BY <4>1, <4>2 DEF WasDraft
    <3>2. CASE \E d : d \in DOMAIN s.drafts
      <4>1. PICK id : id \in DOMAIN s.drafts
        BY <3>2
      <4>2. draft \in Draft /\ draft.id = id /\ draft.row = s.drafts[id]
        BY <4>1, CurrentDraftIs
      <4>3. id \in TheDraft(s) /\ s.drafts[id].version \in Nat
        BY <4>1, DraftsAreTheShots DEF TablesAreSound, DraftRow
      <4>4. cmd.basis # None => cmd.basis.id = id
        BY <1>3, <4>1, DraftsAreTheShots DEF WasDraft, TablesAreSound
      <4> HIDE DEF draft
      <4> QED
        BY <1>0, <1>3, <4>2, <4>3, <4>4 DEF WasDraft
    <3> QED
      BY <3>1, <3>2
  <2>2. base \in {None, TheRevision} /\ (cmd.base # Default => base = cmd.base)
    <3>1. draft # None => draft.row.base \in {None, TheRevision}
      <4> HIDE DEF draft
      <4> QED
        BY <2>1 DEF Draft, DraftRow
    <3> HIDE DEF draft
    <3> QED
      BY <1>3, <3>1 DEF BaseOf
  <2>3. RequireRevision(s, base, "WORKFLOW_SCOPE_VIOLATION") = None
    <3> HIDE DEF base
    <3> QED
      BY <1>2, <2>2 DEF RequireRevision
  <2>4. read = [refusal |-> None, draft |-> draft, base |-> base, errors |-> {}]
    <3>1. read = Reading(None, None, [NoRead EXCEPT !.draft = draft, !.base = base])
      BY <1>1, <1>3, <2>3 DEF Read, ReadDraft
    <3> HIDE DEF draft, base, read
    <3> QED
      BY <3>1 DEF Reading, NoRead
  <2> HIDE DEF draft, base, read
  <2> QED
    BY <1>0, <1>3, <2>1, <2>2, <2>4 DEF ReadIsSound, read
<1>4. CASE cmd.op = "revision.create"
  <2> DEFINE refusal == RequireRevision(s, cmd.parent, "WORKFLOW_SCOPE_VIOLATION")
             errors == ValidateGraphs(cmd.graph, up)
  <2>1. refusal = IF cmd.parent = Elsewhere THEN "WORKFLOW_SCOPE_VIOLATION" ELSE None
    <3>1. cmd.parent \in {TheRevision, Elsewhere} /\ Elsewhere # None /\ Elsewhere # TheRevision
      BY <1>0, <1>4 DEF Elsewhere, TheRevision
    <3> QED
      BY <1>2, <3>1 DEF RequireRevision
  <2>2. read = Reading(None, refusal, [NoRead EXCEPT !.errors = errors])
    BY <1>1, <1>4 DEF Read, ReadForRevision
  <2>3. read.refusal = refusal
    <3> HIDE DEF read, refusal, errors
    <3> QED
      BY <2>2 DEF Reading, NoRead, Refused
  <2> HIDE DEF read, refusal
  <2> QED
    BY <1>0, <1>4, <2>1, <2>3 DEF ReadIsSound, read
<1>5. CASE cmd.op = "revision.validate"
  <2> DEFINE refusal == RequireRevision(s, cmd.revision, "WORKFLOW_REVISION_NOT_FOUND")
             errors == ValidateGraphs(s.revisions[cmd.revision].graph, up)
  <2>1. refusal # "ok"
    BY <1>0 DEF RequireRevision
  <2>2. read = Reading(None, refusal, [NoRead EXCEPT !.errors = errors])
    BY <1>1, <1>5 DEF Read, ReadForValidation
  <2>3. read.refusal = refusal
    <3> HIDE DEF read, refusal, errors
    <3> QED
      BY <2>2 DEF Reading, NoRead, Refused
  <2> HIDE DEF read, refusal
  <2> QED
    BY <1>5, <2>1, <2>3 DEF ReadIsSound, read
<1> QED
  BY <1>3, <1>4, <1>5


LEMMA InitTables == Init => TablesAreSound(store, 0)
<1>1. SUFFICES ASSUME Init  PROVE  TablesAreSound(store, 0)
  OBVIOUS
<1> DEFINE shots == [shot \in {TheShot, "s2"} |->
                       [project |-> TheProject, ordinal |-> IF shot = TheShot THEN 1 ELSE 2,
                        status |-> "approved_for_generation", accepted |-> None,
                        pinned |-> None, version |-> 1]]
           projects == [p \in {TheProject} |-> [body |-> "a", version |-> 1]]
           revisions == [r \in {TheRevision, Elsewhere} |->
                           [project |-> TheProject, shot |-> IF r = TheRevision THEN TheShot ELSE "s2",
                            number |-> 1, parent |-> None,
                            graph |-> Graph(0, TRUE), hash |-> HashOf(Graph(0, TRUE)),
                            validation |-> "validated", errors |-> 0]]
<1>2. store = [EmptyStore EXCEPT !.tenant = TRUE, !.projects = projects, !.shots = shots,
                                 !.revisions = revisions]
  BY <1>1 DEF Init
<1>3. EmptyStore = [f \in Fields |-> EmptyStore[f]]
  BY DEF EmptyStore, Fields
<1>4. EmptyStore.drafts = <<>> /\ EmptyStore.keys = <<>>
  BY DEF EmptyStore, Table
<1>5. /\ TheProject \in DOMAIN projects /\ TheShot \in DOMAIN shots
      /\ shots[TheShot].project = TheProject
  OBVIOUS
<1>6. /\ DOMAIN revisions = {TheRevision, Elsewhere} /\ TheRevision # Elsewhere
      /\ TheRevision \in Nat /\ Elsewhere \in Nat
      /\ \A r \in DOMAIN revisions :
           /\ "project" \in DOMAIN revisions[r] /\ "shot" \in DOMAIN revisions[r]
           /\ revisions[r].project = TheProject
           /\ revisions[r].shot = IF r = TheRevision THEN TheShot ELSE "s2"
  <2>1. TheRevision # Elsewhere /\ TheRevision \in Nat /\ Elsewhere \in Nat
    BY DEF TheRevision, Elsewhere
  <2>2. DOMAIN revisions = {TheRevision, Elsewhere}
    OBVIOUS
  <2>3. ASSUME NEW r \in {TheRevision, Elsewhere}
        PROVE  /\ "project" \in DOMAIN revisions[r] /\ "shot" \in DOMAIN revisions[r]
               /\ revisions[r].project = TheProject
               /\ revisions[r].shot = IF r = TheRevision THEN TheShot ELSE "s2"
    OBVIOUS
  <2> QED
    BY <2>1, <2>2, <2>3
<1>11. /\ InScope(revisions[TheRevision], TheProject, TheShot)
       /\ ~ InScope(revisions[Elsewhere], TheProject, TheShot)
  <2> HIDE DEF revisions
  <2> QED
    BY <1>6 DEF InScope, TheShot
<1> HIDE DEF shots, projects, revisions
<1>7. /\ store = [f \in Fields |-> store[f]]
      /\ store.drafts = <<>> /\ store.keys = <<>>
      /\ store.projects = projects /\ store.shots = shots /\ store.revisions = revisions
  BY <1>2, <1>3, <1>4, FieldNames
<1>8. ShotInProject(store, TheProject, TheShot)
  BY <1>5, <1>7 DEF ShotInProject, Has
<1>9. /\ TheRevision \in RevisionsOf(store, TheProject, TheShot)
      /\ Elsewhere \in DOMAIN store.revisions \ RevisionsOf(store, TheProject, TheShot)
      /\ \A r \in DOMAIN store.revisions :
           r \in Nat /\ {"project", "shot"} \subseteq DOMAIN store.revisions[r]
  BY <1>6, <1>7, <1>11 DEF RevisionsOf
<1>10. \A x : x \notin DOMAIN store.drafts /\ x \notin DOMAIN store.keys
  BY <1>7
<1> QED
  BY <1>7, <1>8, <1>9, <1>10 DEF TablesAreSound

LEMMA InitIInv == Init => IInv
<1>1. SUFFICES ASSUME Init  PROVE  IInv
  OBVIOUS
<1>2. TablesAreSound(store, sent)
  BY <1>1, InitTables DEF Init
<1>3. UnderWay = {}
  BY <1>1 DEF Init, UnderWay
<1>4. \A c \in Clients : WasDraft(store, seen[c])
  BY <1>1 DEF Init, WasDraft
<1>5. running = {} /\ last = None /\ nextId \in Nat /\ sent \in Nat
  BY <1>1 DEF Init
<1>6. command = [c \in Clients |-> command[c]] /\ seen = [c \in Clients |-> seen[c]]
  BY <1>1 DEF Init
<1> QED
  BY <1>2, <1>3, <1>4, <1>5, <1>6 DEF IInv, KeysAreUnique, CommittedIsAnswered

(* The number of commands grows. *)
LEMMA MoreCommands ==
  ASSUME NEW s, NEW n \in Nat
  PROVE  /\ TablesAreSound(s, n) => TablesAreSound(s, n + 1)
         /\ \A cmd : CommandIsSound(s, n, cmd) => CommandIsSound(s, n + 1, cmd)
<1>1. \A i \in 1 .. n : i \in 1 .. (n + 1)
  OBVIOUS
<1>2. TablesAreSound(s, n) => TablesAreSound(s, n + 1)
  BY <1>1 DEF TablesAreSound
<1>3. \A cmd : CommandIsSound(s, n, cmd) => CommandIsSound(s, n + 1, cmd)
  BY <1>1 DEF CommandIsSound
<1> QED
  BY <1>2, <1>3

LEMMA NewCommand ==
  ASSUME IInv, NEW c \in Clients, NEW cmd \in Commands(c, sent + 1)
  PROVE  /\ CommandIsSound(store, sent + 1, cmd)
         /\ cmd.key = sent + 1
<1> DEFINE key == sent + 1
<1>0. sent \in Nat /\ TablesAreSound(store, sent) /\ WasDraft(store, seen[c])
  BY DEF IInv
<1>1. key \in 1 .. key /\ key \notin 1 .. sent /\ key \in Nat
  BY <1>0
<1>2. cmd.key = key /\ cmd.op \in {"draft.save", "revision.create", "revision.validate"}
  BY DEF Commands
<1>3. cmd.op = "draft.save" =>
        /\ cmd.graph \in Graphs /\ cmd.base \in {Default, None, TheRevision}
        /\ WasDraft(store, cmd.basis)
        /\ cmd.expected # None => cmd.basis # None /\ cmd.expected = cmd.basis.row.version
  <2>1. ASSUME cmd.op = "draft.save"
        PROVE  /\ cmd.graph = Graph(key, TRUE) /\ cmd.basis = seen[c]
               /\ cmd.base \in IF seen[c] = None THEN {None, TheRevision} ELSE {Default, None}
               /\ cmd.expected \in IF seen[c] = None THEN {None} ELSE {None, seen[c].row.version}
    BY <2>1 DEF Commands
  <2>2. Graph(key, TRUE) \in Graphs
    BY <1>1 DEF Graph, Graphs
  <2> QED
    BY <1>0, <2>1, <2>2
<1>4. cmd.op = "revision.create" => cmd.parent \in {TheRevision, Elsewhere}
  BY DEF Commands
<1>5. ~ Committed(store, cmd)
  <2>1. ApplicationKey(cmd)[1] = "application" /\ ApplicationKey(cmd)[2] = key
    BY <1>2 DEF ApplicationKey
  <2> QED
    BY <1>0, <1>1, <2>1 DEF Committed, Has, TablesAreSound
<1> QED
  BY <1>1, <1>2, <1>3, <1>4, <1>5 DEF CommandIsSound, KeyIsTrue


(* Only Finish touches the tables; the other steps keep what was answered. *)
LEMMA AnsweredStays ==
  ASSUME IInv, UNCHANGED <<store, last>>
  PROVE  CommittedIsAnswered'
<1>1. CommittedIsAnswered
  BY DEF IInv
<1> QED
  BY <1>1 DEF CommittedIsAnswered, Committed

LEMMA BeginReads ==
  ASSUME TablesAreSound(store, sent), NEW n \in Nat, NEW c, NEW i, NEW cmd,
         CommandIsSound(store, n, cmd), Begin(c, i, cmd)
  PROVE  \A t \in running' :
           t \in running \/ (t.cmd = cmd /\ ReadIsSound(store, cmd, t.read))
<1>1. PICK up \in BOOLEAN :
        running' = running \cup {[client |-> c, try |-> i, cmd |-> cmd, read |-> Read(store, cmd, up)]}
  BY DEF Begin
<1>2. ReadIsSound(store, cmd, Read(store, cmd, up))
  BY ReadIsTrue DEF CommandIsSound
<1> QED
  BY <1>1, <1>2

LEMMA SendKeeps == ASSUME IInv, NEW c \in Clients, Send(c) PROVE IInv'
<1>0. /\ sent \in Nat /\ nextId \in Nat /\ TablesAreSound(store, sent)
      /\ command = [d \in Clients |-> command[d]] /\ seen = [d \in Clients |-> seen[d]]
  BY DEF IInv
<1>1. PICK cmd \in Commands(c, sent + 1) :
        command' = [command EXCEPT ![c] = cmd] /\ Begin(c, 1, cmd)
  BY DEF Send
<1>2. /\ UNCHANGED <<store, seen, last, nextId>> /\ sent' = sent + 1
      /\ command[c] = None
  BY DEF Send
<1>3. CommandIsSound(store, sent + 1, cmd) /\ cmd.key = sent + 1
  BY <1>1, NewCommand
<1>4. \A t \in running' : t \in running \/ (t.cmd = cmd /\ ReadIsSound(store, cmd, t.read))
  <2>1. PICK n \in Nat : n = sent + 1
    BY <1>0
  <2>2. CommandIsSound(store, n, cmd)
    BY <1>3, <2>1
  <2> QED
    BY <1>0, <1>1, <2>2, BeginReads
<1>5. \A x \in UnderWay' : x \in UnderWay \/ x = cmd
  BY <1>0, <1>1, <1>4 DEF UnderWay
<1>6. TablesAreSound(store', sent')
  BY <1>0, <1>2, MoreCommands
<1>7. \A x \in UnderWay' : CommandIsSound(store', sent', x)
  BY <1>0, <1>2, <1>3, <1>5, MoreCommands DEF IInv
<1>8. \A t \in running' : ReadIsSound(store', t.cmd, t.read)
  BY <1>2, <1>4 DEF IInv
<1>9. KeysAreUnique'
  <2>1. \A x \in UnderWay : x.key # sent + 1
    BY <1>0 DEF IInv, CommandIsSound
  <2>2. KeysAreUnique
    BY DEF IInv
  <2> QED
    BY <1>3, <1>5, <2>1, <2>2 DEF KeysAreUnique
<1>10. command' = [d \in Clients |-> command'[d]] /\ seen' = [d \in Clients |-> seen'[d]]
  BY <1>0, <1>1, <1>2
<1>11. \A d \in Clients : WasDraft(store', seen'[d])
  BY <1>2 DEF IInv
<1> QED
  BY <1>0, <1>2, <1>6, <1>7, <1>8, <1>9, <1>10, <1>11, AnsweredStays DEF IInv

LEMMA ResendKeeps == ASSUME IInv, NEW c \in Clients, Resend(c) PROVE IInv'
<1>0. sent \in Nat /\ TablesAreSound(store, sent)
  BY DEF IInv
<1>1. /\ command[c] # None /\ Begin(c, try[c] + 1, command[c])
      /\ UNCHANGED <<store, command, seen, last, nextId, sent>>
  BY DEF Resend
<1>2. command[c] \in UnderWay
  BY <1>1 DEF UnderWay
<1>3. \A t \in running' :
        t \in running \/ (t.cmd = command[c] /\ ReadIsSound(store, command[c], t.read))
  <2>1. PICK cmd : cmd = command[c]
    OBVIOUS
  <2>2. PICK i : i = try[c] + 1
    OBVIOUS
  <2>3. CommandIsSound(store, sent, cmd) /\ Begin(c, i, cmd)
    BY <1>1, <1>2, <2>1, <2>2 DEF IInv
  <2>4. \A t \in running' : t \in running \/ (t.cmd = cmd /\ ReadIsSound(store, cmd, t.read))
    BY <1>0, <2>3, BeginReads
  <2> QED
    BY <2>1, <2>4
<1>4. \A x \in UnderWay' : x \in UnderWay
  BY <1>1, <1>2, <1>3 DEF UnderWay
<1>5. \A t \in running' : ReadIsSound(store', t.cmd, t.read)
  BY <1>1, <1>3 DEF IInv
<1>6. KeysAreUnique'
  BY <1>4 DEF KeysAreUnique, IInv
<1>7. \A x \in UnderWay' : CommandIsSound(store', sent', x)
  BY <1>1, <1>4 DEF IInv
<1> QED
  BY <1>1, <1>5, <1>6, <1>7, AnsweredStays DEF IInv

LEMMA DieKeeps == ASSUME IInv, NEW t \in running, Die(t) PROVE IInv'
<1>1. /\ running' = running \ {t}
      /\ UNCHANGED <<store, command, seen, last, nextId, sent>>
  BY DEF Die
<1>2. \A x \in UnderWay' : x \in UnderWay
  BY <1>1 DEF UnderWay
<1>3. KeysAreUnique'
  BY <1>2 DEF KeysAreUnique, IInv
<1> QED
  BY <1>1, <1>2, <1>3, AnsweredStays DEF IInv

LEMMA CurrentDraftWasDraft ==
  ASSUME NEW s, NEW n, TablesAreSound(s, n)
  PROVE  WasDraft(s, CurrentDraft(s))
<1>1. CASE \A d : d \notin DOMAIN s.drafts
  BY <1>1, NoCurrentDraft DEF WasDraft
<1>2. CASE \E d : d \in DOMAIN s.drafts
  <2>1. PICK id : id \in DOMAIN s.drafts
    BY <1>2
  <2>2. /\ CurrentDraft(s) \in Draft
        /\ CurrentDraft(s).id = id /\ CurrentDraft(s).row = s.drafts[id]
    BY <2>1, CurrentDraftIs
  <2>3. id \in TheDraft(s) /\ s.drafts[id].version \in Nat
    BY <2>1, DraftsAreTheShots DEF TablesAreSound, DraftRow
  <2> QED
    BY <2>2, <2>3 DEF WasDraft
<1> QED
  BY <1>1, <1>2

LEMMA GetDraftKeeps == ASSUME IInv, NEW c \in Clients, GetDraft(c) PROVE IInv'
<1>1. /\ seen' = [seen EXCEPT ![c] = CurrentDraft(store)]
      /\ UNCHANGED <<store, command, running, last, nextId, sent>>
  BY DEF GetDraft
<1>2. WasDraft(store, CurrentDraft(store))
  BY CurrentDraftWasDraft DEF IInv
<1>3. /\ seen' = [d \in Clients |-> seen'[d]]
      /\ \A d \in Clients : WasDraft(store', seen'[d])
  BY <1>1, <1>2 DEF IInv
<1>4. UnderWay' = UnderWay
  BY <1>1 DEF UnderWay
<1>5. KeysAreUnique'
  BY <1>4 DEF KeysAreUnique, IInv
<1> QED
  BY <1>1, <1>3, <1>4, <1>5, AnsweredStays DEF IInv


LEMMA RollbackPasses ==
  ASSUME NEW s, NEW n, TablesAreSound(s, n), NEW q, NEW cmd
  PROVE  Passes(s, Rollback(q, s), cmd) /\ Rollback(q, s).keys = s.keys
<1> DEFINE r == Rollback(q, s)
<1>1. /\ IsStore(r) /\ r.projects = s.projects /\ r.shots = s.shots
      /\ r.drafts = s.drafts /\ r.revisions = s.revisions /\ r.keys = s.keys
  BY FieldNames DEF Rollback, TablesAreSound, IsStore
<1> HIDE DEF r
<1>2. Passes(s, r, cmd)
  BY <1>1, RevisionsUntouched DEF Passes, Edits
<1> QED
  BY <1>1, <1>2 DEF r

(* What a transaction that ends has left, and what it answered. *)
LEMMA FinishPasses ==
  ASSUME IInv, NEW t \in running, NEW lost \in BOOLEAN, Finish(t, lost)
  PROVE  /\ Passes(store, store', t.cmd)
         /\ last'.cmd = t.cmd
         /\ Committed(store', t.cmd) /\ NamesItsFields(t.cmd) =>
              /\ last'.answer = "ok"
              /\ last'.value = store'.keys[ApplicationKey(t.cmd)].resource
<1> DEFINE cmd == t.cmd
           result == Written(store, cmd, t.read)
           app == ApplicationKey(cmd)
<1>1. /\ store' = IF result.answer = "ok" THEN result.s ELSE Rollback(result.s, store)
      /\ last' = [cmd |-> cmd, answer |-> result.answer, value |-> result.value]
  BY DEF Finish
<1>2. TablesAreSound(store, sent) /\ nextId \in Nat
  BY DEF IInv
<1>3. Outcome(store, result, cmd)
  <2>1. CommandIsSound(store, sent, cmd) /\ ReadIsSound(store, cmd, t.read)
    BY DEF IInv, UnderWay
  <2> QED
    BY <1>2, <2>1, WrittenOutcome
<1> HIDE DEF result, cmd, app
<1>4. last'.cmd = cmd /\ last'.answer = result.answer /\ last'.value = result.value
  BY <1>1
<1>5. CASE result.answer = "ok"
  <2>1. /\ store' = result.s /\ Passes(store, store', cmd)
        /\ store'.keys = store.keys \/ Commits(store, store', cmd, result.value)
    BY <1>1, <1>3, <1>5 DEF Outcome
  <2>2. Committed(store', cmd) /\ NamesItsFields(cmd) => result.value = store'.keys[app].resource
    <3>1. CASE store'.keys = store.keys
      <4>1. Committed(store', cmd) => Committed(store, cmd)
        BY <3>1 DEF Committed, Has
      <4> QED
        BY <1>3, <3>1, <4>1 DEF Outcome, app
    <3>2. CASE Commits(store, store', cmd, result.value)
      BY <3>2 DEF Commits, app
    <3> QED
      BY <2>1, <3>1, <3>2
  <2> QED
    BY <1>4, <1>5, <2>1, <2>2 DEF cmd, app
<1>6. CASE result.answer # "ok"
  <2>1. Passes(store, store', cmd) /\ store'.keys = store.keys
    BY <1>1, <1>2, <1>6, RollbackPasses
  <2>2. Committed(store', cmd) => Committed(store, cmd)
    BY <2>1 DEF Committed, Has
  <2> QED
    BY <1>3, <1>4, <1>6, <2>1, <2>2 DEF Outcome, cmd
<1> QED
  BY <1>5, <1>6

LEMMA FinishKeeps ==
  ASSUME IInv, NEW t \in running, NEW lost \in BOOLEAN, Finish(t, lost)
  PROVE  IInv'
<1> DEFINE cmd == t.cmd
<1>0. /\ sent \in Nat /\ nextId \in Nat /\ TablesAreSound(store, sent) /\ cmd \in UnderWay
      /\ command = [c \in Clients |-> command[c]] /\ seen = [c \in Clients |-> seen[c]]
  BY DEF IInv, UnderWay
<1>1. CommandIsSound(store, sent, cmd)
  BY <1>0 DEF IInv
<1>2. /\ Passes(store, store', cmd) /\ last'.cmd = cmd
      /\ Committed(store', cmd) /\ NamesItsFields(cmd) =>
           /\ last'.answer = "ok"
           /\ last'.value = store'.keys[ApplicationKey(cmd)].resource
  BY FinishPasses
<1>3. /\ running' = running \ {t} /\ sent' = sent
      /\ \/ command' = command /\ seen' = seen
         \/ /\ command' = [command EXCEPT ![t.client] = None]
            /\ seen' = seen \/ seen' = [seen EXCEPT ![t.client] = CurrentDraft(store')]
  BY DEF Finish
<1>4. nextId' \in Nat
  <2>1. nextId' = nextId \/ nextId' = nextId + 3
    BY DEF Finish
  <2> QED
    BY <1>0, <2>1
<1>5. TablesAreSound(store', sent')
  <2>1. cmd.key \in 1 .. sent
    BY <1>1 DEF CommandIsSound
  <2>2. PICK n \in Nat : n = sent
    BY <1>0
  <2>3. TablesAreSound(store', n)
    <3> HIDE DEF cmd
    <3> QED
      BY <1>0, <1>2, <2>1, <2>2, TablesStaySound
  <2> QED
    BY <1>3, <2>2, <2>3
<1>6. /\ command' = [c \in Clients |-> command'[c]] /\ seen' = [c \in Clients |-> seen'[c]]
      /\ \A c \in Clients : command'[c] \in {None, command[c]}
      /\ \A c \in Clients : seen'[c] \in {seen[c], CurrentDraft(store')}
  <2>1. /\ command' = [c \in Clients |-> command'[c]]
        /\ \A c \in Clients : command'[c] \in {None, command[c]}
    BY <1>0, <1>3
  <2>2. /\ seen' = [c \in Clients |-> seen'[c]]
        /\ \A c \in Clients : seen'[c] \in {seen[c], CurrentDraft(store')}
    BY <1>0, <1>3
  <2> QED
    BY <2>1, <2>2
<1>7. \A x \in UnderWay' : x \in UnderWay
  BY <1>3, <1>6 DEF UnderWay
<1>8. KeysAreUnique'
  BY <1>7 DEF KeysAreUnique, IInv
<1>9. \A c \in Clients : WasDraft(store', seen'[c])
  <2>1. WasDraft(store', CurrentDraft(store'))
    BY <1>5, CurrentDraftWasDraft
  <2>2. \A c \in Clients : WasDraft(store', seen[c])
    <3>1. ASSUME NEW c \in Clients
          PROVE  WasDraft(store', seen[c])
      <4>1. PICK d : d = seen[c]
        OBVIOUS
      <4>2. WasDraft(store, d)
        BY <4>1 DEF IInv
      <4>3. WasDraft(store', d)
        BY <1>0, <1>2, <4>2, WasDraftStays
      <4> QED
        BY <4>1, <4>3
    <3> QED
      BY <3>1
  <2> QED
    BY <1>6, <2>1, <2>2
<1>10. \A x \in UnderWay' : CommandIsSound(store', sent', x)
  <2>1. ASSUME NEW x \in UnderWay'
        PROVE  CommandIsSound(store', sent', x)
    <3>1. x \in UnderWay
      BY <1>7, <2>1
    <3>2. CommandIsSound(store, sent, x) /\ (x = cmd \/ x.key # cmd.key)
      BY <1>0, <3>1 DEF IInv, KeysAreUnique
    <3>3. CommandIsSound(store', sent, x)
      BY <1>0, <1>2, <3>2, CommandStaysSound
    <3> QED
      BY <1>3, <3>3
  <2> QED
    BY <2>1
<1>11. \A u \in running' : ReadIsSound(store', u.cmd, u.read)
  <2>1. ASSUME NEW u \in running
        PROVE  ReadIsSound(store', u.cmd, u.read)
    <3>1. ReadIsSound(store, u.cmd, u.read)
      BY DEF IInv
    <3> QED
      BY <1>0, <1>2, <3>1, ReadStaysSound
  <2> QED
    BY <1>3, <2>1
<1>12. CommittedIsAnswered'
  BY <1>2 DEF CommittedIsAnswered
<1> QED
  BY <1>0, <1>3, <1>4, <1>5, <1>6, <1>8, <1>9, <1>10, <1>11, <1>12 DEF IInv

LEMMA NextKeeps == IInv /\ [Next]_vars => IInv'
<1>1. SUFFICES ASSUME IInv, [Next]_vars  PROVE  IInv'
  OBVIOUS
<1>2. CASE UNCHANGED vars
  <2>1. UnderWay' = UnderWay /\ UNCHANGED <<store, last>>
    BY <1>2 DEF UnderWay, vars
  <2>2. KeysAreUnique'
    BY <1>1, <2>1 DEF KeysAreUnique, IInv
  <2> QED
    BY <1>1, <1>2, <2>1, <2>2, AnsweredStays DEF IInv, vars
<1>3. CASE Next
  <2>1. CASE \E c \in Clients : Send(c) \/ Resend(c) \/ GetDraft(c)
    BY <1>1, <2>1, SendKeeps, ResendKeeps, GetDraftKeeps
  <2>2. CASE \E t \in running, lost \in BOOLEAN : Finish(t, lost)
    BY <1>1, <2>2, FinishKeeps
  <2>3. CASE \E t \in running : Die(t)
    BY <1>1, <2>3, DieKeeps
  <2> QED
    BY <1>3, <2>1, <2>2, <2>3 DEF Next
<1> QED
  BY <1>1, <1>2, <1>3

-----------------------------------------------------------------------------
(* The inductive invariant: the tables are sound, what a client or a        *)
(* transaction was given is the draft or an older version of it, and the    *)
(* key of a command that committed says what it made.                       *)
THEOREM StudioInvariant == Spec => []IInv
<1>1. Init => IInv
  BY InitIInv
<1>2. IInv /\ [Next]_vars => IInv'
  BY NextKeeps
<1> QED
  BY <1>1, <1>2, PTL DEF Spec

(* A command that has committed is answered with what it made, by every    *)
(* transaction that runs it again (WorkflowApplicationService.mutate).     *)
THEOREM CommittedAnswered == Spec => []CommittedIsAnswered
<1>1. IInv => CommittedIsAnswered
  BY DEF IInv
<1> QED
  BY <1>1, StudioInvariant, PTL

(* No step but the end of a transaction touches a draft, and that one only  *)
(* replaces what the client was given by its next version.                 *)
LEMMA EditStep ==
  IInv /\ [Next]_vars =>
    [\A d \in Drafts : store'.drafts[d] # store.drafts[d] =>
       /\ last'.cmd.basis = CurrentDraft(store)
       /\ store'.drafts[d].version = store.drafts[d].version + 1]_vars
<1>1. SUFFICES ASSUME IInv, Next
               PROVE  \A d \in Drafts : store'.drafts[d] # store.drafts[d] =>
                        /\ last'.cmd.basis = CurrentDraft(store)
                        /\ store'.drafts[d].version = store.drafts[d].version + 1
  OBVIOUS
<1>2. CASE UNCHANGED store
  BY <1>2
<1>3. CASE \E t \in running, lost \in BOOLEAN : Finish(t, lost)
  <2>1. PICK t \in running, lost \in BOOLEAN : Finish(t, lost)
    BY <1>3
  <2>2. Passes(store, store', t.cmd) /\ last'.cmd = t.cmd
    BY <1>1, <2>1, FinishPasses
  <2>3. TablesAreSound(store, sent)
    BY <1>1 DEF IInv
  <2>4. \A d \in DOMAIN store.drafts :
          \/ store'.drafts[d] = store.drafts[d]
          \/ /\ store'.drafts[d].version = store.drafts[d].version + 1
             /\ t.cmd.basis = CurrentDraft(store)
    BY <2>2, <2>3, EditedRow DEF Passes
  <2> QED
    BY <2>2, <2>4 DEF Drafts, TheDraft, DraftOf
<1>4. Next => UNCHANGED store \/ \E t \in running, lost \in BOOLEAN : Finish(t, lost)
  BY DEF Next, Send, Resend, GetDraft, Die
<1> QED
  BY <1>1, <1>2, <1>3, <1>4

(* No edit is lost: a draft is replaced only by the command of a client     *)
(* that was given exactly what it replaces (saveDraft, drafts.update).      *)
THEOREM EditsSeen == Spec => EditsAreSeen
<1> QED
  BY StudioInvariant, EditStep, PTL DEF Spec, EditsAreSeen

================================================================================
