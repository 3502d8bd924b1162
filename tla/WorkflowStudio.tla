----------------------------- MODULE WorkflowStudio -----------------------------
(***************************************************************************)
(* WorkflowApplicationService over PostgreSQL: the draft of a shot, its    *)
(* revisions and their validations.  A command runs in one transaction at  *)
(* READ COMMITTED: it reads (the scope, the draft, a revision it names)    *)
(* and asks the executor, then reserves its key, writes and commits.  Its  *)
(* writes are one step, for they wait for one another: two commands of a   *)
(* key at the key's row, others at the shot that the repositories lock.    *)
(* What was read before may be stale by then.                              *)
(*                                                                         *)
(* A client sends one command at a time, with a key of its own and the     *)
(* version of the draft it was last given.  If no answer comes it sends    *)
(* the command again, while the first transaction may still be running,    *)
(* or have committed, or have died with its process.                       *)
(***************************************************************************)
EXTENDS PostgresStore, Integers

CONSTANTS
  Clients,     \* who edits the draft
  MaxCommands, \* bound: commands of all clients
  MaxFaults    \* bound: answers that do not come, transactions that die

VARIABLES
  store,       \* the committed tables
  command,     \* the command a client waits for
  try,         \* how often the client has sent it
  running,     \* transactions that have read and not written yet
  seen,        \* the draft a client was last given
  last,        \* the last transaction that ended: its command and its answer
  nextId, sent, faults

vars == <<store, command, try, running, seen, last, nextId, sent, faults>>

Default == -1   \* a field a command leaves out; identifiers are naturals
TheProject == "p1"
TheShot == "s1"

-----------------------------------------------------------------------------
(* Reading: what a transaction knows before it writes.                     *)

NoRead == [refusal |-> None, draft |-> None, base |-> None, errors |-> {}]
Refused(code) == [NoRead EXCEPT !.refusal = code]

TheDraft(s) == DraftOf(s, TheProject, TheShot)
CurrentDraft(s) == IF TheDraft(s) = {} THEN None
                   ELSE LET id == CHOOSE d \in TheDraft(s) : TRUE
                        IN [id |-> id, row |-> s.drafts[id]]

RequireShotScope(s) ==
  IF ~ Has(s, "projects", TheProject) THEN "WORKFLOW_PROJECT_NOT_FOUND"
  ELSE IF ~ ShotInProject(s, TheProject, TheShot) THEN "WORKFLOW_SHOT_NOT_FOUND"
  ELSE None

RequireRevision(s, id, code) ==
  IF id = None \/ id \in RevisionsOf(s, TheProject, TheShot) THEN None ELSE code

(* The first refusal, or what was read. *)
Reading(scope, revision, read) ==
  IF scope # None THEN Refused(scope)
  ELSE IF revision # None THEN Refused(revision)
  ELSE read

(* A field that a command leaves out of an update keeps its value. *)
BaseOf(cmd, draft) ==
  IF cmd.base # Default THEN cmd.base
  ELSE IF draft = None THEN None
  ELSE draft.row.base

CreatesDraft(cmd, draft) == draft = None \/ cmd.expected = None

ReadDraft(s, cmd) ==
  LET draft == CurrentDraft(s)
      base == BaseOf(cmd, IF CreatesDraft(cmd, draft) THEN None ELSE draft)
  IN Reading(RequireShotScope(s), RequireRevision(s, base, "WORKFLOW_SCOPE_VIOLATION"),
             [NoRead EXCEPT !.draft = draft, !.base = base])

(* validateGraphs: the codes of its errors; up is whether GET /object_info *)
(* was answered.                                                           *)
ValidateGraphs(graph, up) ==
  (IF graph.sound THEN {} ELSE {"PARAMETER_MISMATCH"})
  \cup (IF up THEN {} ELSE {"EXECUTOR_UNAVAILABLE"})

ReadForRevision(s, cmd, up) ==
  Reading(RequireShotScope(s), RequireRevision(s, cmd.parent, "WORKFLOW_SCOPE_VIOLATION"),
          [NoRead EXCEPT !.errors = ValidateGraphs(cmd.graph, up)])

ReadForValidation(s, cmd, up) ==
  Reading(RequireShotScope(s), RequireRevision(s, cmd.revision, "WORKFLOW_REVISION_NOT_FOUND"),
          [NoRead EXCEPT !.errors = ValidateGraphs(s.revisions[cmd.revision].graph, up)])

Read(s, cmd, up) ==
  CASE cmd.op = "draft.save" -> ReadDraft(s, cmd)
    [] cmd.op = "revision.create" -> ReadForRevision(s, cmd, up)
    [] cmd.op = "revision.validate" -> ReadForValidation(s, cmd, up)

-----------------------------------------------------------------------------
(* Writing: the result of a transaction's writes on the tables s.          *)

ApplicationKey(cmd) == <<"application", cmd.key>>
ResourceKey(op, cmd) == <<"resource", op, cmd.key>>

Reserved(s, cmd, op, request) == IdempotencyReserve(s, ApplicationKey(cmd), op, request)

(* What a key that was reserved leads to: the resource made under it and   *)
(* the completion of the key, or the resource that the key made.           *)
Mutation(s, cmd, key_, replay, made) ==
  IF Fresh(key_) THEN Completing(made, ApplicationKey(cmd))
  ELSE IF Replayed(key_) THEN replay
  ELSE IF key_.answer = "conflict" THEN Refuse(s, "WORKFLOW_IDEMPOTENCY_CONFLICT")
  ELSE Refuse(s, "WORKFLOW_MUTATION_IN_PROGRESS")

ReplayOf(s, made, id) ==
  IF id \in made THEN Ok(s, id) ELSE Refuse(s, "WORKFLOW_IDEMPOTENCY_STATE_INVALID")

CreateDraft(s, cmd, read) ==
  LET key_ == Reserved(s, cmd, "draft.create", <<cmd.graph, read.base>>)
      row == [project |-> TheProject, shot |-> TheShot, base |-> read.base,
              graph |-> cmd.graph, version |-> 1]
  IN Mutation(s, cmd, key_, ReplayOf(s, TheDraft(s), key_.value),
              DraftsCreate(key_.s, nextId, row, ResourceKey("draft.create", cmd)))

UpdateOf(s, cmd, read, expected) ==
  LET id == read.draft.id
      key_ == Reserved(s, cmd, "draft.update", <<id, cmd.expected, cmd.graph, read.base>>)
      row == [read.draft.row EXCEPT !.base = read.base, !.graph = cmd.graph, !.version = @ + 1]
  IN Mutation(s, cmd, key_, ReplayOf(s, TheDraft(s), key_.value),
              DraftsUpdate(key_.s, id, row, expected, ResourceKey("draft.update", cmd)))

(* Mutant of UpdateDraft: the update expects the version the transaction    *)
(* read, not the one the client was given.                                 *)
UpdateDraftAsRead(s, cmd, read) == UpdateOf(s, cmd, read, read.draft.row.version)

UpdateDraft(s, cmd, read) == UpdateOf(s, cmd, read, cmd.expected)

(* Mutant of SaveDraft: an update of another version than the one read is  *)
(* turned away before its key is looked up.                                *)
SaveDraftOfVersion(s, cmd, read) ==
  IF CreatesDraft(cmd, read.draft) THEN CreateDraft(s, cmd, read)
  ELSE IF read.draft.row.version # cmd.expected THEN Refuse(s, "OPTIMISTIC_CONFLICT")
  ELSE UpdateDraft(s, cmd, read)

SaveDraft(s, cmd, read) ==
  IF CreatesDraft(cmd, read.draft) THEN CreateDraft(s, cmd, read) ELSE UpdateDraft(s, cmd, read)

(* One event, and its message in the outbox. *)
Announce(s, id, type, revision) ==
  OutboxEnqueue(EventsAppend(s, id, [project |-> TheProject, shot |-> TheShot, attempt |-> None,
                                     type |-> type, revision |-> revision, sequence |-> 0]).s,
                id, 0).s

AppendValidationEvents(s, revision, errors) ==
  LET invalid == Announce(s, nextId + 1, "workflow.revision.invalid", revision)
  IN IF errors = {} THEN s
     ELSE IF "EXECUTOR_UNAVAILABLE" \in errors
     THEN Announce(invalid, nextId + 2, "executor.unavailable", revision)
     ELSE invalid

WithEvents(result, errors) ==
  IF result.answer # "ok" THEN result
  ELSE [result EXCEPT !.s = AppendValidationEvents(result.s, result.value, errors)]

Verdict(errors) == IF errors = {} THEN "validated" ELSE "invalid"
Persisted(errors) == Min({Cardinality(errors), ListLimit})

CreateRevision(s, cmd, read) ==
  LET key_ == Reserved(s, cmd, "revision.create", <<cmd.graph, cmd.parent>>)
      row == [project |-> TheProject, shot |-> TheShot, number |-> 1, parent |-> cmd.parent,
              graph |-> cmd.graph, hash |-> HashOf(cmd.graph),
              validation |-> Verdict(read.errors), errors |-> Persisted(read.errors)]
  IN Mutation(s, cmd, key_, ReplayOf(s, RevisionsOf(s, TheProject, TheShot), key_.value),
              WithEvents(RevisionsCreate(key_.s, nextId, row, ResourceKey("revision.create", cmd)),
                         read.errors))

Validated(s, cmd, read) ==
  RevisionsUpdateValidation(s, TheProject, TheShot, cmd.revision,
    [validation |-> Verdict(read.errors), errors |-> Persisted(read.errors)])

ValidateRevision(s, cmd, read) == WithEvents(Validated(s, cmd, read), read.errors)

Written(s, cmd, read) ==
  IF read.refusal # None THEN Refuse(s, read.refusal)
  ELSE CASE cmd.op = "draft.save" -> SaveDraft(s, cmd, read)
         [] cmd.op = "revision.create" -> CreateRevision(s, cmd, read)
         [] cmd.op = "revision.validate" -> ValidateRevision(s, cmd, read)

-----------------------------------------------------------------------------
(* The shot has a revision and no draft yet, and so has another shot.      *)

TheRevision == 1      \* the identifier of the shot's revision
Elsewhere == 0   \* and of the other shot's

Graph(key, sound) == [key |-> key, sound |-> sound]

Init ==
  /\ store =
       [EmptyStore EXCEPT !.tenant = TRUE,
          !.projects = [p \in {TheProject} |-> [body |-> "a", version |-> 1]],
          !.shots = [shot \in {TheShot, "s2"} |->
                       [project |-> TheProject, ordinal |-> IF shot = TheShot THEN 1 ELSE 2,
                        status |-> "approved_for_generation", accepted |-> None,
                        pinned |-> None, version |-> 1]],
          !.revisions = [r \in {TheRevision, Elsewhere} |->
                           [project |-> TheProject, shot |-> IF r = TheRevision THEN TheShot ELSE "s2",
                            number |-> 1, parent |-> None,
                            graph |-> Graph(0, TRUE), hash |-> HashOf(Graph(0, TRUE)),
                            validation |-> "validated", errors |-> 0]]]
  /\ command = [c \in Clients |-> None]
  /\ try = [c \in Clients |-> 0]
  /\ running = {}
  /\ seen = [c \in Clients |-> None]
  /\ last = None
  /\ nextId = 2 /\ sent = 0 /\ faults = 0

Fault == faults < MaxFaults /\ faults' = faults + 1

(* What a client may ask for: the draft as it saw it with another graph,   *)
(* a new revision of a graph, or a verdict on a revision.                  *)
Commands(c, key) ==
  [op : {"draft.save"}, key : {key}, graph : {Graph(key, TRUE)},
   base : IF seen[c] = None THEN {None, TheRevision} ELSE {Default, None},
   expected : IF seen[c] = None THEN {None} ELSE {None, seen[c].row.version},
   basis : {seen[c]}]
  \cup [op : {"revision.create"}, key : {key}, graph : {Graph(key, b) : b \in BOOLEAN},
        parent : {TheRevision, Elsewhere}]
  \cup [op : {"revision.validate"}, key : {key}, revision : RevisionsOf(store, TheProject, TheShot)]

Begin(c, n, cmd) ==
  \E up \in BOOLEAN :
    running' = running \cup {[client |-> c, try |-> n, cmd |-> cmd, read |-> Read(store, cmd, up)]}

Send(c) ==
  /\ command[c] = None /\ sent < MaxCommands
  /\ \E cmd \in Commands(c, sent + 1) :
       command' = [command EXCEPT ![c] = cmd] /\ Begin(c, 1, cmd)
  /\ try' = [try EXCEPT ![c] = 1]
  /\ sent' = sent + 1
  /\ UNCHANGED <<store, seen, last, nextId, faults>>

Awaited(t) == command[t.client] = t.cmd /\ try[t.client] = t.try

(* No answer came: the client sends its command again. *)
Resend(c) ==
  /\ command[c] # None
  /\ Begin(c, try[c] + 1, command[c])
  /\ try' = [try EXCEPT ![c] = @ + 1]
  /\ IF \E t \in running : Awaited(t) THEN Fault ELSE UNCHANGED faults
  /\ UNCHANGED <<store, command, seen, last, nextId, sent>>

(* The process of a transaction dies: PostgreSQL rolls it back. *)
Die(t) ==
  /\ Fault
  /\ running' = running \ {t}
  /\ UNCHANGED <<store, command, try, seen, last, nextId, sent>>

GetDraft(c) ==
  /\ command[c] = None /\ seen[c] # CurrentDraft(store)
  /\ seen' = [seen EXCEPT ![c] = CurrentDraft(store)]
  /\ UNCHANGED <<store, command, try, running, last, nextId, sent, faults>>

(* A transaction writes and commits, or throws and is rolled back; its     *)
(* answer reaches the client, unless it is lost or no longer waited for.   *)
Finish(t, lost) ==
  LET result == Written(store, t.cmd, t.read) IN
  /\ store' = IF result.answer = "ok" THEN result.s ELSE Rollback(result.s, store)
  /\ running' = running \ {t}
  /\ last' = [cmd |-> t.cmd, answer |-> result.answer, value |-> result.value]
  /\ nextId' = IF result.s = store THEN nextId ELSE nextId + 3
  /\ IF lost THEN Awaited(t) /\ Fault ELSE UNCHANGED faults
  /\ IF Awaited(t) /\ ~ lost
     THEN /\ command' = [command EXCEPT ![t.client] = None]
          /\ try' = [try EXCEPT ![t.client] = 0]
          /\ seen' = IF t.cmd.op = "draft.save" /\ result.answer = "ok"
                     THEN [seen EXCEPT ![t.client] = CurrentDraft(store')] ELSE seen
     ELSE UNCHANGED <<command, try, seen>>
  /\ UNCHANGED sent

Next ==
  \/ \E c \in Clients : Send(c) \/ Resend(c) \/ GetDraft(c)
  \/ \E t \in running, lost \in BOOLEAN : Finish(t, lost)
  \/ \E t \in running : Die(t)

Spec == Init /\ [][Next]_vars

-----------------------------------------------------------------------------
(* Properties *)

Drafts == TheDraft(store)

(* No edit is lost: a draft is replaced only by the command of a client    *)
(* that was given exactly what it replaces, however stale the read of its  *)
(* transaction was, and its version then grows by one.                     *)
EditsAreSeen ==
  [][\A d \in Drafts : store'.drafts[d] # store.drafts[d] =>
       /\ last'.cmd.basis = CurrentDraft(store)
       /\ store'.drafts[d].version = store.drafts[d].version + 1]_vars

Committed(s, cmd) ==
  /\ cmd.op # "revision.validate"
  /\ Has(s, "keys", ApplicationKey(cmd))

NamesItsFields(cmd) == cmd.op = "draft.save" => cmd.base # Default

(* A command that has committed is answered with what it made, by every    *)
(* transaction that runs it again, whatever was edited, created or found   *)
(* invalid in between.  An update that leaves its base revision out is     *)
(* another request once the draft has another base: it gets a conflict.    *)
CommittedIsAnswered ==
  (last # None /\ Committed(store, last.cmd) /\ NamesItsFields(last.cmd)) =>
    /\ last.answer = "ok"
    /\ last.value = store.keys[ApplicationKey(last.cmd)].resource

-----------------------------------------------------------------------------
(* Why it holds: the inductive invariant of the proofs.  Its parts take the *)
(* tables as an argument.                                                   *)

Fields == Table \cup {"tenant", "nextSequence"}
Graphs == [key : Nat, sound : BOOLEAN]
DraftRow == [project : {TheProject}, shot : {TheShot}, base : {None, TheRevision},
             graph : Graphs, version : Nat]
Draft == [id : Nat, row : DraftRow]
Codes == {"ok", Unique, ForeignKey, Check, "WORKFLOW_PROJECT_NOT_FOUND",
          "WORKFLOW_SHOT_NOT_FOUND", "WORKFLOW_SCOPE_VIOLATION",
          "WORKFLOW_REVISION_NOT_FOUND"}

ASSUME NoneAssumption == None \notin Int \cup Codes \cup Draft

(* The scope is there, the shot has one draft at most, and revisions stay   *)
(* with their shots.  n is the last command that was sent.                  *)
TablesAreSound(s, n) ==
  /\ s = [f \in Fields |-> s[f]]
  /\ ShotInProject(s, TheProject, TheShot)
  /\ \A d \in DOMAIN s.drafts : d \in Nat /\ s.drafts[d] \in DraftRow
  /\ \A d, e \in DOMAIN s.drafts : d = e
  /\ \A r \in DOMAIN s.revisions : r \in Nat /\ {"project", "shot"} \subseteq DOMAIN s.revisions[r]
  /\ TheRevision \in RevisionsOf(s, TheProject, TheShot)
  /\ Elsewhere \in DOMAIN s.revisions \ RevisionsOf(s, TheProject, TheShot)
  /\ \A k \in DOMAIN s.keys : k[1] = "application" => k[2] \in 1 .. n

(* What was once the draft is an older version of it, or the draft itself.  *)
WasDraft(s, d) ==
  d # None =>
    /\ d \in Draft /\ d.id \in TheDraft(s)
    /\ d.row.version <= s.drafts[d.id].version
    /\ d.row.version = s.drafts[d.id].version => d.row = s.drafts[d.id]

(* The key of a command, and what it must say once the command committed.   *)
OperationOf(cmd) ==
  IF cmd.op = "revision.create" THEN "revision.create"
  ELSE IF cmd.expected = None THEN "draft.create" ELSE "draft.update"

RequestOf(cmd) ==
  IF cmd.op = "revision.create" THEN <<cmd.graph, cmd.parent>>
  ELSE IF cmd.expected = None THEN <<cmd.graph, cmd.base>>
  ELSE <<cmd.basis.id, cmd.expected, cmd.graph, cmd.base>>

KeyIsTrue(s, cmd) ==
  Committed(s, cmd) /\ NamesItsFields(cmd) =>
    LET record == s.keys[ApplicationKey(cmd)] IN
    /\ record.operation = OperationOf(cmd)
    /\ record.request = RequestOf(cmd)
    /\ record.resource \in IF cmd.op = "draft.save" THEN TheDraft(s)
                           ELSE RevisionsOf(s, TheProject, TheShot)
    /\ cmd.op = "revision.create" => cmd.parent # Elsewhere

CommandIsSound(s, n, cmd) ==
  /\ cmd.key \in 1 .. n
  /\ cmd.op \in {"draft.save", "revision.create", "revision.validate"}
  /\ cmd.op = "draft.save" =>
       /\ cmd.graph \in Graphs /\ cmd.base \in {Default, None, TheRevision}
       /\ WasDraft(s, cmd.basis)
       /\ cmd.expected # None => cmd.basis # None /\ cmd.expected = cmd.basis.row.version
  /\ cmd.op = "revision.create" => cmd.parent \in {TheRevision, Elsewhere}
  /\ KeyIsTrue(s, cmd)

(* What a transaction read: the draft was not older than the one its client *)
(* was given, and nothing that it checked has changed since.                *)
ReadIsSound(s, cmd, read) ==
  /\ read.refusal # "ok"
  /\ cmd.op = "draft.save" =>
       /\ read.refusal = None
       /\ WasDraft(s, read.draft)
       /\ read.base \in {None, TheRevision}
       /\ cmd.base # Default => read.base = cmd.base
       /\ cmd.basis # None => read.draft # None /\ cmd.basis.row.version <= read.draft.row.version
  /\ cmd.op = "revision.create" => (read.refusal = None <=> cmd.parent # Elsewhere)

UnderWay == ({command[c] : c \in Clients} \ {None}) \cup {t.cmd : t \in running}

(* A key is one command's. *)
KeysAreUnique == \A x, y \in UnderWay : x.key = y.key => x = y

IInv ==
  /\ command = [c \in Clients |-> command[c]] /\ seen = [c \in Clients |-> seen[c]]
  /\ nextId \in Nat /\ sent \in Nat
  /\ TablesAreSound(store, sent)
  /\ \A c \in Clients : WasDraft(store, seen[c])
  /\ \A cmd \in UnderWay : CommandIsSound(store, sent, cmd)
  /\ \A t \in running : ReadIsSound(store, t.cmd, t.read)
  /\ KeysAreUnique
  /\ CommittedIsAnswered

================================================================================
