-------------------------- MODULE Idempotency_proofs ---------------------------
(***************************************************************************)
(* Proofs about Idempotency, for any number of requests, keys and bodies,  *)
(* overlapping in any way, and any number of faults.                       *)
(***************************************************************************)
EXTENDS Idempotency, TLAPS

USE IdempotencyAssumption

LEMMA Records ==
  /\ NoRecord \in Record /\ NoRecord.state = "none"
  /\ \A hash \in Hash :
       /\ [state |-> "reserved", hash |-> hash] \in Record
       /\ [state |-> "reserved", hash |-> hash].state = "reserved"
       /\ [state |-> "reserved", hash |-> hash].hash = hash
  /\ \A hash \in Hash, i \in Nat :
       [state |-> "done", hash |-> hash, response |-> i] \in Record
  /\ \A r \in Record :
       /\ r.state \in {"none", "reserved", "done"}
       /\ r.state = "none" => r = NoRecord
       /\ r.state # "none" => r.hash \in Hash /\ r.hash.body \in Body
       /\ r.state = "done" => r.response \in Nat
BY DEF Record, NoRecord, Hash

LEMMA Requests ==
  /\ NoRequest.pc = "idle"
  /\ \A r \in {NoRequest} \cup Request :
       /\ r.pc # "idle" => r \in Request
       /\ r.pc \in Holding => r \in Request
  /\ \A r \in Request : /\ r.key \in Key /\ r.hash \in Hash /\ r.hash.body \in Body
                        /\ r.id \in Nat /\ r.pc # "idle"
BY DEF NoRequest, Request, Holding, Hash

LEMMA InitIInv == Init => IInv
BY Records, Requests DEF Init, IInv, TypeOK, HoldersOwnTheirKey, RecordIsTrue, Holding

(* A request that neither holds a key afterwards, nor touches a record,     *)
(* keeps the invariant.                                                     *)
LEMMA LetGo ==
  ASSUME IInv, NEW h \in Handler,
         NEW r \in {NoRequest} \cup Request, r.pc \notin Holding,
         handler' = [handler EXCEPT ![h] = r],
         UNCHANGED <<record, applied, told>>,
         calls' \in [Key -> Nat],
         clock' \in Nat, requests' \in Nat, faults' \in Nat
  PROVE  IInv'
<1>1. /\ handler' \in [Handler -> {NoRequest} \cup Request]
      /\ handler'[h] = r
      /\ \A g \in Handler : g # h => handler'[g] = handler[g]
  BY DEF IInv, TypeOK
<1>2. TypeOK'
  BY <1>1 DEF IInv, TypeOK
<1>3. HoldersOwnTheirKey'
  BY <1>1 DEF IInv, HoldersOwnTheirKey, KeyOf, At
<1>4. RecordIsTrue'
  BY DEF IInv, RecordIsTrue
<1> QED  BY <1>2, <1>3, <1>4 DEF IInv

(* A request that holds its key goes on to another step under it.           *)
LEMMA GoOn ==
  ASSUME IInv, NEW h \in Handler, handler[h].pc \in Holding \ {"mutate"},
         NEW pc \in Holding \ {"mutate"}, Go(h, pc),
         UNCHANGED <<record, applied, told>>,
         calls' \in [Key -> Nat],
         clock' \in Nat, requests' \in Nat, faults' \in Nat
  PROVE  IInv'
<1>1. handler[h] \in Request
  BY Requests DEF IInv, TypeOK, Holding
<1>2. /\ handler' \in [Handler -> {NoRequest} \cup Request]
      /\ handler'[h].pc = pc /\ handler'[h].key = handler[h].key
      /\ handler'[h].hash = handler[h].hash
      /\ \A g \in Handler : g # h => handler'[g] = handler[g]
  BY <1>1 DEF IInv, TypeOK, Go, Request, Holding
<1>3. TypeOK'
  BY <1>2 DEF IInv, TypeOK
<1>4. HoldersOwnTheirKey'
  BY <1>2 DEF IInv, HoldersOwnTheirKey, KeyOf, At
<1>5. RecordIsTrue'
  BY DEF IInv, RecordIsTrue
<1> QED  BY <1>3, <1>4, <1>5 DEF IInv

(* The holder of a key writes its record for the last time.                 *)
LEMMA Finish ==
  ASSUME IInv, NEW h \in Handler, handler[h].pc \in Holding, Answer(h),
         NEW k \in Key, k = KeyOf(h),
         NEW r \in Record, record' = [record EXCEPT ![k] = r],
         NEW A \in SUBSET Nat, applied' = [applied EXCEPT ![k] = A],
         NEW T \in SUBSET [body : Body, response : Nat],
         told' = [told EXCEPT ![k] = T],
         IF r.state = "done"
         THEN A = {r.response} /\ T \subseteq {[body |-> r.hash.body, response |-> r.response]}
         ELSE A = {} /\ T = {},
         UNCHANGED calls,
         clock' \in Nat, requests' \in Nat, faults' \in Nat
  PROVE  IInv'
<1>1. /\ handler' \in [Handler -> {NoRequest} \cup Request]
      /\ handler'[h] = NoRequest
      /\ \A g \in Handler : g # h => handler'[g] = handler[g]
  BY DEF IInv, TypeOK, Answer
<1>2. /\ record'[k] = r /\ applied'[k] = A /\ told'[k] = T
      /\ \A l \in Key : l # k => /\ record'[l] = record[l]
                                 /\ applied'[l] = applied[l] /\ told'[l] = told[l]
  BY DEF IInv, TypeOK
<1>3. TypeOK'
  BY <1>1 DEF IInv, TypeOK
<1>4. HoldersOwnTheirKey'
  <2>1. \A g \in Handler : g # h /\ handler[g].pc \in Holding => KeyOf(g) # k
    BY DEF IInv, HoldersOwnTheirKey
  <2>2. \A g \in Handler : handler[g].pc \in Holding => KeyOf(g) \in Key
    BY Requests DEF IInv, TypeOK, KeyOf
  <2>3. NoRequest.pc \notin Holding
    BY Requests DEF Holding
  <2> QED
    BY <1>1, <1>2, <2>1, <2>2, <2>3 DEF IInv, HoldersOwnTheirKey, KeyOf, At
<1>5. RecordIsTrue'
  BY <1>2 DEF IInv, RecordIsTrue
<1> QED  BY <1>3, <1>4, <1>5 DEF IInv

(* The facts of a holder of a key that its last writes rest on.             *)
LEMMA Holder ==
  ASSUME IInv, NEW h \in Handler, handler[h].pc \in Holding
  PROVE  /\ handler[h] \in Request /\ KeyOf(h) \in Key
         /\ handler[h].hash \in Hash /\ handler[h].hash.body \in Body
         /\ handler[h].id \in Nat
         /\ record[KeyOf(h)].state # "done"
         /\ ~At(h, "mutate") => record[KeyOf(h)].state = "reserved"
         /\ applied[KeyOf(h)] = {} /\ told[KeyOf(h)] = {}
<1>1. /\ handler[h] \in Request /\ KeyOf(h) \in Key
      /\ handler[h].hash \in Hash /\ handler[h].hash.body \in Body
      /\ handler[h].id \in Nat
  BY Requests DEF IInv, TypeOK, KeyOf
<1>2. IF At(h, "mutate") THEN record[KeyOf(h)] = NoRecord
      ELSE record[KeyOf(h)] = [state |-> "reserved", hash |-> handler[h].hash]
  BY DEF IInv, HoldersOwnTheirKey
<1>3. /\ record[KeyOf(h)].state # "done"
      /\ ~At(h, "mutate") => record[KeyOf(h)].state = "reserved"
  <2>1. CASE At(h, "mutate")
    BY <1>2, <2>1, Records
  <2>2. CASE ~At(h, "mutate")
    BY <1>1, <1>2, <2>2, Records
  <2> QED  BY <2>1, <2>2
<1> QED  BY <1>1, <1>3 DEF IInv, RecordIsTrue

(* Complete and the commit of a mutation: told or not.                      *)
LEMMA Completes ==
  ASSUME IInv, NEW h \in Handler, handler[h].pc \in Holding, Answer(h),
         Completed(h), Applied(h),
         \/ Told(h, handler[h].id) /\ UNCHANGED bounds
         \/ Fault /\ UNCHANGED told,
         UNCHANGED calls
  PROVE  IInv'
<1> DEFINE k == KeyOf(h)
           i == handler[h].id
           hash == handler[h].hash
           r == [state |-> "done", hash |-> hash, response |-> i]
<1>1. /\ k \in Key /\ hash \in Hash /\ hash.body \in Body /\ i \in Nat
      /\ applied[k] = {} /\ told[k] = {}
  BY Holder
<1>2. r \in Record /\ r.state = "done" /\ r.response = i /\ r.hash = hash
  BY <1>1, Records
<1>3. record' = [record EXCEPT ![k] = r]
  BY DEF Completed
<1>4. applied' = [applied EXCEPT ![k] = {i}]
  BY <1>1 DEF Applied, IInv, TypeOK
<1>5. clock' \in Nat /\ requests' \in Nat /\ faults' \in Nat
  BY DEF IInv, TypeOK, Fault, bounds
<1>6. PICK T \in {{}, {[body |-> hash.body, response |-> i]}} :
        told' = [told EXCEPT ![k] = T]
  BY <1>1 DEF Told, IInv, TypeOK
<1>7. T \in SUBSET [body : Body, response : Nat]
      /\ T \subseteq {[body |-> r.hash.body, response |-> r.response]}
  BY <1>1, <1>2, <1>6
<1> HIDE DEF r, k, i, hash
<1>8. k = KeyOf(h) /\ {i} \in SUBSET Nat
  BY <1>1 DEF k
<1> QED
  BY <1>1, <1>2, <1>3, <1>4, <1>5, <1>6, <1>7, <1>8, Finish

(* The reservation of a key that has no record.                             *)
LEMMA Reserves ==
  ASSUME IInv, NEW h \in Handler, At(h, "insert"), ~InTransaction(KeyOf(h)),
         ~Taken(record[KeyOf(h)]), Reserve(h),
         NEW r \in {NoRequest} \cup Request,
         handler' = [handler EXCEPT ![h] = r],
         \/ r.pc \notin Holding
         \/ r.pc = "work" /\ r.key = KeyOf(h) /\ r.hash = handler[h].hash,
         UNCHANGED history,
         clock' \in Nat, requests' \in Nat, faults' \in Nat
  PROVE  IInv'
<1> DEFINE k == KeyOf(h)
           x == [state |-> "reserved", hash |-> handler[h].hash]
<1>1. k \in Key /\ handler[h].hash \in Hash
  BY Requests DEF IInv, TypeOK, At, KeyOf
<1>2. /\ x \in Record /\ x.state = "reserved" /\ x.hash = handler[h].hash
      /\ record[k] = NoRecord
  BY <1>1, Records DEF IInv, TypeOK, Taken
<1>3. /\ record'[k] = x
      /\ \A l \in Key : l # k => record'[l] = record[l]
      /\ record' \in [Key -> Record]
  BY <1>1, <1>2 DEF IInv, TypeOK, Reserve
<1>4. /\ handler' \in [Handler -> {NoRequest} \cup Request]
      /\ handler'[h] = r
      /\ \A g \in Handler : g # h => handler'[g] = handler[g]
  BY DEF IInv, TypeOK
<1>5. \A g \in Handler : g # h /\ handler[g].pc \in Holding =>
        KeyOf(g) # k /\ KeyOf(g) \in Key
  <2> SUFFICES ASSUME NEW g \in Handler, g # h, handler[g].pc \in Holding
               PROVE  KeyOf(g) # k /\ KeyOf(g) \in Key
    OBVIOUS
  <2>1. KeyOf(g) \in Key
    BY Holder
  <2>2. CASE At(g, "mutate")
    BY <2>1, <2>2 DEF InTransaction
  <2>3. CASE ~At(g, "mutate")
    BY <1>2, <2>1, <2>3, Holder, Records
  <2> QED  BY <2>1, <2>2, <2>3
<1>6. HoldersOwnTheirKey'
  BY <1>2, <1>3, <1>4, <1>5 DEF IInv, HoldersOwnTheirKey, KeyOf, At
<1>7. RecordIsTrue'
  BY <1>1, <1>2, <1>3, Records DEF IInv, RecordIsTrue, history
<1> QED
  BY <1>3, <1>4, <1>6, <1>7 DEF IInv, TypeOK, history

(* A request goes on or ends without its key.                               *)
LEMMA Leaves ==
  ASSUME IInv, NEW h \in Handler, At(h, "insert") \/ At(h, "work"),
         NEW pc \in {"select", "release"}
  PROVE  /\ handler[h] \in Request
         /\ [handler[h] EXCEPT !.pc = pc] \in Request
         /\ [handler[h] EXCEPT !.pc = pc].pc = pc
BY Requests DEF IInv, TypeOK, At, Request

(* The answer to a request from the record of its key.                      *)
LEMMA SelectIInv ==
  ASSUME IInv, NEW h \in Handler, Select(h)
  PROVE  IInv'
<1> DEFINE k == KeyOf(h)
           r == record[k]
<1>1. /\ handler[h] \in Request /\ k \in Key /\ handler[h].hash \in Hash
      /\ handler[h].hash.body \in Body /\ r \in Record
  BY Requests DEF IInv, TypeOK, At, KeyOf, Select
<1>2. /\ NoRequest \in {NoRequest} \cup Request /\ NoRequest.pc \notin Holding
      /\ handler' = [handler EXCEPT ![h] = NoRequest]
      /\ UNCHANGED <<record, applied, calls, clock, requests, faults>>
      /\ calls' \in [Key -> Nat]
      /\ clock' \in Nat /\ requests' \in Nat /\ faults' \in Nat
  BY Requests DEF Holding, Select, Answer, IInv, TypeOK, bounds
<1>3. CASE UNCHANGED told
  BY <1>2, <1>3, LetGo
<1>5. CASE r.state = "done" /\ Matches(r, h) /\ Told(h, r.response)
  <2>1. r.hash = handler[h].hash /\ r.response \in Nat
    BY <1>1, <1>5, Records DEF Matches
  <2> DEFINE t == [body |-> r.hash.body, response |-> r.response]
  <2>2. /\ told' = [told EXCEPT ![k] = @ \cup {t}]
        /\ t \in [body : Body, response : Nat]
    BY <1>1, <1>5, <2>1 DEF Told
  <2> HIDE DEF t
  <2>3. /\ told' \in [Key -> SUBSET [body : Body, response : Nat]]
        /\ told'[k] = told[k] \cup {t}
        /\ \A l \in Key : l # k => told'[l] = told[l]
    BY <1>1, <2>2 DEF IInv, TypeOK
  <2>4. RecordIsTrue'
    BY <1>1, <1>2, <1>5, <2>3 DEF IInv, RecordIsTrue, t
  <2>5. /\ handler' \in [Handler -> {NoRequest} \cup Request]
        /\ handler'[h] = NoRequest
        /\ \A g \in Handler : g # h => handler'[g] = handler[g]
    BY <1>2 DEF IInv, TypeOK
  <2>6. HoldersOwnTheirKey'
    BY <1>2, <2>5 DEF IInv, HoldersOwnTheirKey, KeyOf, At
  <2>7. TypeOK'
    BY <1>2, <1>5, <2>3, <2>5 DEF IInv, TypeOK
  <2> QED  BY <2>4, <2>6, <2>7 DEF IInv
<1> QED  BY <1>3, <1>5 DEF Select

(* The insertion of a key.                                                  *)
LEMMA InsertIInv ==
  ASSUME IInv, NEW h \in Handler, Insert(h)
  PROVE  IInv'
<1>1. /\ At(h, "insert") /\ ~InTransaction(KeyOf(h))
      /\ UNCHANGED <<applied, calls, told, clock, requests, faults>>
      /\ UNCHANGED history
  BY DEF Insert, history, bounds
<1>2. /\ calls' \in [Key -> Nat]
      /\ clock' \in Nat /\ requests' \in Nat /\ faults' \in Nat
  BY <1>1 DEF IInv, TypeOK
<1>3. handler[h] \in Request /\ handler[h].key \in Key /\ handler[h].pc = "insert"
  BY <1>1, Requests DEF IInv, TypeOK, At
<1>4. CASE Go(h, "select") /\ UNCHANGED record
  <2>1. /\ [handler[h] EXCEPT !.pc = "select"] \in {NoRequest} \cup Request
        /\ [handler[h] EXCEPT !.pc = "select"].pc \notin Holding
        /\ handler' = [handler EXCEPT ![h] = [handler[h] EXCEPT !.pc = "select"]]
    BY <1>1, <1>4, Leaves DEF Go, Holding
  <2> QED  BY <1>1, <1>2, <1>4, <2>1, LetGo
<1>5. CASE ~Taken(record[KeyOf(h)]) /\ Go(h, "mutate") /\ UNCHANGED record
  <2>1. /\ handler' \in [Handler -> {NoRequest} \cup Request]
        /\ handler'[h].pc = "mutate" /\ handler'[h].key = handler[h].key
        /\ \A g \in Handler : g # h => handler'[g] = handler[g]
    BY <1>3, <1>5 DEF IInv, TypeOK, Go, Request
  <2>2. record[KeyOf(h)] = NoRecord
    BY <1>3, <1>5, Records DEF IInv, TypeOK, Taken, KeyOf
  <2>3. \A g \in Handler : handler[g].pc \in Holding => KeyOf(g) # KeyOf(h)
    <3> SUFFICES ASSUME NEW g \in Handler, handler[g].pc \in Holding
                 PROVE  KeyOf(g) # KeyOf(h)
      OBVIOUS
    <3>1. CASE At(g, "mutate")
      BY <1>1, <3>1 DEF InTransaction
    <3>2. CASE ~At(g, "mutate")
      BY <2>2, <3>2, Holder, Records
    <3> QED  BY <3>1, <3>2
  <2>4. HoldersOwnTheirKey'
    BY <1>5, <2>1, <2>2, <2>3 DEF IInv, HoldersOwnTheirKey, KeyOf, At
  <2>5. TypeOK'
    BY <1>1, <1>2, <1>5, <2>1 DEF IInv, TypeOK
  <2>6. RecordIsTrue'
    BY <1>1, <1>5 DEF IInv, RecordIsTrue
  <2> QED  BY <2>4, <2>5, <2>6 DEF IInv
<1>6. CASE ~Taken(record[KeyOf(h)]) /\ Go(h, "work") /\ Reserve(h)
  <2> DEFINE r == [handler[h] EXCEPT !.pc = "work"]
  <2>1. /\ r \in {NoRequest} \cup Request
        /\ r.pc = "work" /\ r.key = KeyOf(h) /\ r.hash = handler[h].hash
        /\ handler' = [handler EXCEPT ![h] = r]
    BY <1>3, <1>6 DEF Go, KeyOf, Request
  <2> HIDE DEF r
  <2> QED  BY <1>1, <1>2, <1>6, <2>1, Reserves
<1> QED  BY <1>4, <1>5, <1>6 DEF Insert

(* Every step keeps the invariant.                                          *)
LEMMA NextIInv == IInv /\ [Next]_vars => IInv'
<1> SUFFICES ASSUME IInv, [Next]_vars PROVE IInv'
  OBVIOUS
<1> USE DEF history, bounds
<1>0. NoRequest \in {NoRequest} \cup Request /\ NoRequest.pc \notin Holding
  BY Requests DEF Holding
<1>1. CASE UNCHANGED vars
  BY <1>1 DEF vars, IInv, TypeOK, HoldersOwnTheirKey, RecordIsTrue, KeyOf, At
<1>2. CASE Tick
  BY <1>2 DEF Tick, IInv, TypeOK, HoldersOwnTheirKey, RecordIsTrue, KeyOf, At
<1> SUFFICES ASSUME NEW h \in Handler,
                    Arrive(h) \/ Step(h) \/ ReservationUnseen(h) \/ Crash(h)
             PROVE  IInv'
  BY <1>1, <1>2 DEF Next
<1>3. CASE Arrive(h)
  <2>1. PICK q \in Key, b \in Body :
          handler' = [handler EXCEPT ![h] =
            [pc |-> "insert", key |-> q, hash |-> HashOf(b), id |-> requests + 1]]
    BY <1>3 DEF Arrive
  <2>2. HashOf(b) \in Hash
    BY DEF HashOf, Hash, IInv, TypeOK
  <2> DEFINE r == [pc |-> "insert", key |-> q, hash |-> HashOf(b), id |-> requests + 1]
  <2>3. r \in {NoRequest} \cup Request /\ r.pc \notin Holding
    BY <2>2 DEF Request, Holding, IInv, TypeOK
  <2>4. /\ UNCHANGED <<record, applied, told>>
        /\ calls' \in [Key -> Nat]
        /\ clock' \in Nat /\ requests' \in Nat /\ faults' \in Nat
    BY <1>3 DEF Arrive, IInv, TypeOK
  <2>5. handler' = [handler EXCEPT ![h] = r]
    BY <2>1
  <2> HIDE DEF r
  <2> QED  BY <2>3, <2>4, <2>5, LetGo
<1>4. CASE Insert(h)
  BY <1>4, InsertIInv
<1>5. CASE ReservationUnseen(h)
  <2>1. /\ At(h, "insert") /\ ~InTransaction(KeyOf(h)) /\ ~Taken(record[KeyOf(h)])
        /\ Reserve(h) /\ UNCHANGED history
        /\ handler' = [handler EXCEPT ![h] = NoRequest]
        /\ clock' \in Nat /\ requests' \in Nat /\ faults' \in Nat
    BY <1>5 DEF ReservationUnseen, Fault, Answer, IInv, TypeOK
  <2> QED  BY <1>0, <2>1, Reserves
<1>6. CASE Select(h)
  BY <1>6, SelectIInv
<1>7. CASE CommitMutation(h)
  BY <1>7, Completes DEF CommitMutation, At, Holding
<1>8. CASE /\ Answer(h) /\ UNCHANGED <<record, history>>
           /\ Fault \/ UNCHANGED bounds
  <2>1. /\ handler' = [handler EXCEPT ![h] = NoRequest]
        /\ UNCHANGED <<record, applied, told>>
        /\ calls' \in [Key -> Nat]
        /\ clock' \in Nat /\ requests' \in Nat /\ faults' \in Nat
    BY <1>8 DEF Answer, Fault, IInv, TypeOK
  <2> QED  BY <1>0, <2>1, LetGo
<1>9. CASE MutationThrows(h) \/ Crash(h)
  BY <1>8, <1>9 DEF MutationThrows, Crash
<1>10. CASE RefuseWork(h) \/ CallModel(h) \/ SaveRun(h)
  <2>1. PICK pc \in Holding \ {"mutate"} : Go(h, pc)
    BY <1>10 DEF RefuseWork, CallModel, SaveRun, Holding
  <2>2. handler[h].pc \in Holding \ {"mutate"}
    BY <1>10 DEF RefuseWork, CallModel, SaveRun, Holding, At
  <2>3. /\ UNCHANGED <<record, applied, told>>
        /\ clock' \in Nat /\ requests' \in Nat /\ faults' \in Nat
    BY <1>10 DEF RefuseWork, CallModel, SaveRun, Fault, IInv, TypeOK
  <2>4. calls' \in [Key -> Nat]
    BY <1>10 DEF RefuseWork, CallModel, SaveRun, IInv, TypeOK
  <2> QED  BY <2>1, <2>2, <2>3, <2>4, GoOn
<1>11. CASE Release(h)
  <2>1. handler[h].pc \in Holding /\ ~At(h, "mutate") /\ Answer(h)
    BY <1>11 DEF Release, At, Holding
  <2>2. CASE UNCHANGED record
    BY <1>8, <1>11, <2>2 DEF Release
  <2>3. CASE /\ record' = [record EXCEPT ![KeyOf(h)] =
                 IF @.state = "reserved" THEN NoRecord ELSE @]
             /\ UNCHANGED bounds
    <3>1. /\ KeyOf(h) \in Key /\ record[KeyOf(h)].state = "reserved"
          /\ applied[KeyOf(h)] = {} /\ told[KeyOf(h)] = {}
      BY <2>1, Holder
    <3>2. /\ record' = [record EXCEPT ![KeyOf(h)] = NoRecord]
          /\ applied' = [applied EXCEPT ![KeyOf(h)] = {}]
          /\ told' = [told EXCEPT ![KeyOf(h)] = {}]
          /\ UNCHANGED calls
          /\ clock' \in Nat /\ requests' \in Nat /\ faults' \in Nat
      BY <1>11, <2>3, <3>1 DEF Release, IInv, TypeOK
    <3>3. NoRecord \in Record /\ NoRecord.state # "done"
      BY Records
    <3> DEFINE k == KeyOf(h)
    <3>4. k \in Key /\ k = KeyOf(h)
      BY <3>1
    <3> HIDE DEF k
    <3>5. /\ record' = [record EXCEPT ![k] = NoRecord]
          /\ applied' = [applied EXCEPT ![k] = {}]
          /\ told' = [told EXCEPT ![k] = {}]
      BY <3>2, <3>4
    <3>6. {} \in SUBSET Nat /\ {} \in SUBSET [body : Body, response : Nat]
      OBVIOUS
    <3> QED  BY <2>1, <3>2, <3>3, <3>4, <3>5, <3>6, Finish
  <2> QED  BY <1>11, <2>2, <2>3 DEF Release
<1>12. CASE Complete(h)
  <2>1. handler[h].pc \in Holding /\ Answer(h) /\ UNCHANGED calls
    BY <1>12 DEF Complete, At, Holding
  <2>2. CASE /\ Completed(h) /\ Applied(h)
             /\ \/ Told(h, handler[h].id) /\ UNCHANGED bounds
                \/ Fault /\ UNCHANGED told
    BY <2>1, <2>2, Completes
  <2>3. CASE UNCHANGED <<record, applied, told>> /\ (Fault \/ UNCHANGED bounds)
    BY <1>8, <2>1, <2>3
  <2> QED  BY <1>12, <2>2, <2>3 DEF Complete
<1> QED
  BY <1>3, <1>4, <1>5, <1>6, <1>7, <1>9, <1>10, <1>11, <1>12 DEF Step

(* One request at a time is carried out under a key, and the record says    *)
(* what was applied under it and told to its clients (db/index.ts:3508).    *)
THEOREM KeyInvariant == Spec => []IInv
BY InitIInv, NextIInv, PTL DEF Spec

(* However often a request is sent and whatever gets lost, it takes effect  *)
(* at most once under its key (app.ts:1356, 1440).                          *)
THEOREM KeyAppliedOnce == Spec => []AppliedOnce
<1>1. IInv => AppliedOnce
  BY DEF IInv, RecordIsTrue, AppliedOnce
<1> QED  BY <1>1, KeyInvariant, PTL

(* Every client of a key gets the one response that took effect, each for   *)
(* the same body (app.ts:1407, CHANGELOG.md:337).                           *)
THEOREM FaithfulReplay == Spec => []ReplayIsFaithful
<1>1. IInv => ReplayIsFaithful
  BY Records DEF IInv, TypeOK, RecordIsTrue, ReplayIsFaithful
<1> QED  BY <1>1, KeyInvariant, PTL

(* Once a client has the response of a key, no request calls the paid model *)
(* under it again (app.ts:1475).                                            *)
THEOREM PaidBeforeAnswer == Spec => NoCallAfterAnswer
<1>1. IInv /\ [Next]_vars => [\A k \in Key : told[k] # {} => calls'[k] = calls[k]]_vars
  <2> SUFFICES ASSUME IInv, Next
               PROVE  \A k \in Key : told[k] # {} => calls'[k] = calls[k]
    BY DEF vars
  <2>1. CASE UNCHANGED calls
    BY <2>1
  <2>2. CASE \E h \in Handler : CallModel(h)
    <3>1. PICK h \in Handler : CallModel(h)
      BY <2>2
    <3>2. handler[h].pc \in Holding
      BY <3>1 DEF CallModel, At, Holding
    <3>3. KeyOf(h) \in Key /\ told[KeyOf(h)] = {}
      BY <3>2, Holder
    <3> QED  BY <3>1, <3>3 DEF CallModel, IInv, TypeOK
  <2>3. UNCHANGED calls \/ \E h \in Handler : CallModel(h)
    BY DEF Next, Step, Tick, Arrive, Insert, ReservationUnseen, Select, CommitMutation,
           MutationThrows, RefuseWork, SaveRun, Release, Complete, Crash, history, bounds
  <2> QED  BY <2>1, <2>2, <2>3
<1> QED  BY <1>1, KeyInvariant, PTL DEF Spec, NoCallAfterAnswer
================================================================================
