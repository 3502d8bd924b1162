------------------------------ MODULE Idempotency ------------------------------
(***************************************************************************)
(* Idempotency keys of the HTTP API (app.ts).  A mutating request names a  *)
(* key; the first one to reserve the key is carried out and its response   *)
(* stored, the others are answered from the record.                        *)
(*                                                                         *)
(* executeIdempotent reserves, mutates and completes in one transaction.   *)
(* executeIdempotentDeferred, for the digest and its paid model call, must *)
(* not hold a transaction over the call: it commits the reservation, works,*)
(* and then completes or, if the work throws, releases it.                 *)
(*                                                                         *)
(* Clients send any body under any key, again as often as they like.  An   *)
(* execution is known by its number; its response is that number.          *)
(***************************************************************************)
EXTENDS Naturals

CONSTANTS
  Handler,     \* requests in progress at the same time
  Key,
  Short,       \* requests carried out in one transaction
  Long,        \* digests
  Open,        \* digests whose body leaves out untilIso
  MaxRequests, \* bound
  MaxTime,     \* bound of the clock
  MaxFaults    \* bound: crashes and failures of the database

ASSUME IdempotencyAssumption ==
  /\ Short \cap Long = {} /\ Open \subseteq Long
  /\ MaxRequests \in Nat /\ MaxTime \in Nat /\ MaxFaults \in Nat

VARIABLES
  record,    \* idempotency_records
  handler,   \* each request in progress
  applied,   \* by key: the executions whose effect and response are committed
  calls,     \* by key: calls of the paid model
  told,      \* by key: the bodies and responses clients got
  clock, requests, faults

vars == <<record, handler, applied, calls, told, clock, requests, faults>>
history == <<applied, calls, told>>
bounds == <<clock, requests, faults>>

Body == Short \cup Long
Hash == [body : Body, until : Nat]

NoRecord == [state |-> "none"]
Record ==
  {NoRecord} \cup [state : {"reserved"}, hash : Hash]
             \cup [state : {"done"}, hash : Hash, response : Nat]

NoRequest == [pc |-> "idle"]
Request ==
  [ pc   : {"insert", "select", "mutate", "work", "save", "release", "complete"},
    key  : Key,
    hash : Hash,
    id   : Nat ]                    \* the number of its execution

(* Between the reservation of a key and its completion or release.          *)
Holding == {"mutate", "work", "save", "release", "complete"}

Init ==
  /\ record = [k \in Key |-> NoRecord]
  /\ handler = [h \in Handler |-> NoRequest]
  /\ applied = [k \in Key |-> {}]
  /\ calls = [k \in Key |-> 0]
  /\ told = [k \in Key |-> {}]
  /\ clock = 0 /\ requests = 0 /\ faults = 0

Fault == faults < MaxFaults /\ faults' = faults + 1 /\ UNCHANGED <<clock, requests>>

At(h, pc) == handler[h].pc = pc
KeyOf(h) == handler[h].key
Go(h, pc) == handler' = [handler EXCEPT ![h].pc = pc]
Answer(h) == handler' = [handler EXCEPT ![h] = NoRequest]

(* The route's default of untilIso is the time of the request, and the hash *)
(* is of the window it makes.                                               *)
HashOf(b) == [body |-> b, until |-> IF b \in Open THEN clock ELSE 0]

Tick ==
  /\ clock < MaxTime
  /\ clock' = clock + 1
  /\ UNCHANGED <<record, handler, history, requests, faults>>

Arrive(h) ==
  /\ At(h, "idle")
  /\ requests < MaxRequests
  /\ requests' = requests + 1
  /\ \E k \in Key, b \in Body :
       handler' = [handler EXCEPT ![h] =
         [pc |-> "insert", key |-> k, hash |-> HashOf(b), id |-> requests + 1]]
  /\ UNCHANGED <<record, history, clock, faults>>

(***************************************************************************)
(* reserve: INSERT ... ON CONFLICT DO NOTHING waits for a transaction that *)
(* has inserted the key and not ended; then SELECT ... FOR UPDATE.         *)
(***************************************************************************)
InTransaction(k) == \E g \in Handler : At(g, "mutate") /\ KeyOf(g) = k

(* Mutant of Taken: only a request in progress is kept from being carried   *)
(* out again.                                                               *)
TakenWhileOpen(r) == r.state = "reserved"

Taken(r) == r.state # "none"

Reserve(h) ==
  record' = [record EXCEPT ![KeyOf(h)] =
    [state |-> "reserved", hash |-> handler[h].hash]]

Insert(h) ==
  /\ At(h, "insert")
  /\ ~InTransaction(KeyOf(h))
  /\ \/ /\ Taken(record[KeyOf(h)])
        /\ Go(h, "select")
        /\ UNCHANGED record
     \/ /\ ~Taken(record[KeyOf(h)]) /\ handler[h].hash.body \in Short
        /\ Go(h, "mutate")
        /\ UNCHANGED record
     \/ /\ ~Taken(record[KeyOf(h)]) /\ handler[h].hash.body \in Long
        /\ Go(h, "work")
        /\ Reserve(h)
  /\ UNCHANGED <<history, bounds>>

(* The reservation of a digest commits, but the request fails.              *)
ReservationUnseen(h) ==
  /\ At(h, "insert") /\ handler[h].hash.body \in Long
  /\ ~InTransaction(KeyOf(h)) /\ ~Taken(record[KeyOf(h)])
  /\ Fault
  /\ Reserve(h)
  /\ Answer(h)
  /\ UNCHANGED history

(* Mutant of Matches: whoever has the key is answered.                      *)
MatchesAny(r, h) == TRUE

(* Operation and request hash.                                              *)
Matches(r, h) == r.hash = handler[h].hash

Told(h, response) ==
  told' = [told EXCEPT ![KeyOf(h)] =
    @ \cup {[body |-> handler[h].hash.body, response |-> response]}]

(* "The record disappeared" if it was released since the INSERT; conflict;  *)
(* in progress; or the replay of the stored response.                       *)
Select(h) ==
  LET r == record[KeyOf(h)]
  IN /\ At(h, "select")
     /\ IF r.state = "done" /\ Matches(r, h) THEN Told(h, r.response)
                                              ELSE UNCHANGED told
     /\ Answer(h)
     /\ UNCHANGED <<record, applied, calls, bounds>>

(* Mutant of Completed: the response is not stored with the effect.         *)
NotCompleted(h) == UNCHANGED record

Completed(h) ==
  record' = [record EXCEPT ![KeyOf(h)] =
    [state |-> "done", hash |-> handler[h].hash, response |-> handler[h].id]]

Applied(h) == applied' = [applied EXCEPT ![KeyOf(h)] = @ \cup {handler[h].id}]

(***************************************************************************)
(* executeIdempotent: the mutation and the completion of the key commit as *)
(* one; the answer of the commit may be lost; a refusal rolls both back.   *)
(***************************************************************************)
CommitMutation(h) ==
  /\ At(h, "mutate")
  /\ Completed(h) /\ Applied(h)
  /\ \/ Told(h, handler[h].id) /\ UNCHANGED bounds
     \/ Fault /\ UNCHANGED told
  /\ Answer(h)
  /\ UNCHANGED calls

MutationThrows(h) ==
  /\ At(h, "mutate")
  /\ Answer(h)
  /\ UNCHANGED <<record, history, bounds>>

(***************************************************************************)
(* executeIdempotentDeferred: the digest of a project that exists calls    *)
(* the model, which never throws, and saves its run.                       *)
(***************************************************************************)
(* Mutant of RefuseWork: the reservation is left when the work throws.      *)
RefuseWithoutRelease(h) ==
  /\ At(h, "work")
  /\ Answer(h)
  /\ UNCHANGED <<record, history, bounds>>

RefuseWork(h) ==
  /\ At(h, "work")
  /\ Go(h, "release")
  /\ UNCHANGED <<record, history, bounds>>

CallModel(h) ==
  /\ At(h, "work")
  /\ calls' = [calls EXCEPT ![KeyOf(h)] = @ + 1]
  /\ Go(h, "save")
  /\ UNCHANGED <<record, applied, told, bounds>>

SaveRun(h) ==
  /\ At(h, "save")
  /\ \/ Go(h, "complete") /\ UNCHANGED bounds
     \/ Go(h, "release") /\ Fault
  /\ UNCHANGED <<record, history>>

(* release deletes a record that has no response; its failure is swallowed. *)
Release(h) ==
  /\ At(h, "release")
  /\ \/ /\ record' = [record EXCEPT ![KeyOf(h)] =
            IF @.state = "reserved" THEN NoRecord ELSE @]
        /\ UNCHANGED bounds
     \/ /\ Fault
        /\ UNCHANGED record
  /\ Answer(h)
  /\ UNCHANGED history

(* complete is WHERE response_status IS NULL, and throws if no row is left. *)
Complete(h) ==
  /\ At(h, "complete")
  /\ \/ /\ record[KeyOf(h)].state = "reserved"
        /\ Completed(h) /\ Applied(h)
        /\ \/ Told(h, handler[h].id) /\ UNCHANGED bounds
           \/ Fault /\ UNCHANGED told
     \/ /\ record[KeyOf(h)].state # "reserved"
        /\ UNCHANGED <<record, applied, told, bounds>>
     \/ /\ Fault
        /\ UNCHANGED <<record, applied, told>>
  /\ Answer(h)
  /\ UNCHANGED calls

(* The process dies; a transaction that has not committed is rolled back.   *)
Crash(h) ==
  /\ ~At(h, "idle")
  /\ Fault
  /\ Answer(h)
  /\ UNCHANGED <<record, history>>

Step(h) ==
  \/ Insert(h) \/ Select(h)
  \/ CommitMutation(h) \/ MutationThrows(h)
  \/ RefuseWork(h) \/ CallModel(h) \/ SaveRun(h) \/ Release(h) \/ Complete(h)

Next ==
  \/ Tick
  \/ \E h \in Handler : Arrive(h) \/ Step(h) \/ ReservationUnseen(h) \/ Crash(h)

Spec == Init /\ [][Next]_vars

(* Every await of a request ends: the model has a timeout, the pool too.    *)
Fairness == \A h \in Handler : WF_vars(Step(h))

FairSpec == Spec /\ Fairness

(***************************************************************************)
(* What the key promises its client.                                       *)
(***************************************************************************)
TypeOK ==
  /\ record \in [Key -> Record]
  /\ handler \in [Handler -> {NoRequest} \cup Request]
  /\ applied \in [Key -> SUBSET Nat]
  /\ calls \in [Key -> Nat]
  /\ told \in [Key -> SUBSET [body : Body, response : Nat]]
  /\ clock \in Nat /\ requests \in Nat /\ faults \in Nat

(* One request at a time is carried out under a key, the one the record is  *)
(* reserved for; releasing and completing by key alone, without an owner    *)
(* (db/index.ts:3577), is right only because of it.                         *)
HoldersOwnTheirKey ==
  \A h \in Handler : handler[h].pc \in Holding =>
    /\ \A g \in Handler \ {h} : handler[g].pc \in Holding => KeyOf(g) # KeyOf(h)
    /\ IF At(h, "mutate") THEN record[KeyOf(h)] = NoRecord
       ELSE record[KeyOf(h)] = [state |-> "reserved", hash |-> handler[h].hash]

(* What was applied and what clients were told is what the record says.     *)
RecordIsTrue ==
  \A k \in Key :
    IF record[k].state = "done"
    THEN /\ applied[k] = {record[k].response}
         /\ told[k] \subseteq
              {[body |-> record[k].hash.body, response |-> record[k].response]}
    ELSE applied[k] = {} /\ told[k] = {}

IInv == TypeOK /\ HoldersOwnTheirKey /\ RecordIsTrue

(* However often a request is sent, by whom and whatever gets lost, what it *)
(* asks for takes effect at most once under its key.                        *)
AppliedOnce == \A k \in Key : \A i, j \in applied[k] : i = j

(* CHANGELOG.md:337, "a replay returns the first digest verbatim": whoever  *)
(* gets a response for a key gets the same one, for the same body, and it   *)
(* is the one that took effect.                                             *)
ReplayIsFaithful ==
  \A k \in Key : \A t, u \in told[k] :
    t = u /\ t.response \in applied[k]

(* Nobody pays for the model again once a client has the response.          *)
NoCallAfterAnswer ==
  [][\A k \in Key : told[k] # {} => calls'[k] = calls[k]]_vars

(* app.ts:1447, "so a failure does not wedge the key": without a fault of   *)
(* the database or a crash every reservation ends.                          *)
EveryReservationEnds ==
  \A k \in Key : record[k].state = "reserved" ~>
    record[k].state # "reserved" \/ faults > 0
================================================================================
