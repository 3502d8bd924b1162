---------------------------- MODULE Outbox_proofs -----------------------------
(***************************************************************************)
(* Proofs about Outbox, for any number of workers, triggers and faults and *)
(* whichever provider each process is started with.                        *)
(***************************************************************************)
EXTENDS Outbox, TLAPS

USE OutboxAssumption

(* Messages are what they are made of: a trigger and a kind.                *)
LEMMA Messages ==
  /\ \A m \in Message :
       /\ m[1] \in Trigger
       /\ \/ m[2] = "event" /\ m = EventOf(m[1])
          \/ m[2] = "finding" /\ m = FindingOf(m[1])
  /\ \A e \in Trigger :
       /\ EventOf(e) \in Message /\ EventOf(e)[1] = e /\ EventOf(e)[2] = "event"
       /\ FindingOf(e) \in Message /\ FindingOf(e)[1] = e
       /\ FindingOf(e)[2] = "finding"
  /\ \A e, f \in Trigger : EventOf(e) # FindingOf(f)
  /\ \A e, f \in Trigger : EventOf(e) = EventOf(f) => e = f
  /\ \A e, f \in Trigger : FindingOf(e) = FindingOf(f) => e = f
  /\ NoMessage \notin Message
BY DEF Message, EventOf, FindingOf

LEMMA IdleState ==
  ASSUME NEW pc \in {"off", "poll"}, NEW hosted \in BOOLEAN
  PROVE  /\ Idle(pc, hosted) \in WorkerState
         /\ Idle(pc, hosted).pc = pc
         /\ Idle(pc, hosted).deferred = "done"
BY DEF Idle, WorkerState

LEMMA InitIInv == Init => IInv
<1> SUFFICES ASSUME Init PROVE IInv
  OBVIOUS
<1>1. \A w \in Worker : /\ worker[w] \in WorkerState
                        /\ worker[w].pc = "poll" /\ worker[w].deferred = "done"
  <2> SUFFICES ASSUME NEW w \in Worker
               PROVE  /\ worker[w] \in WorkerState
                      /\ worker[w].pc = "poll" /\ worker[w].deferred = "done"
    OBVIOUS
  <2>1. PICK hosted \in BOOLEAN : worker[w] = Idle("poll", hosted)
    BY DEF Init
  <2> QED  BY <2>1, IdleState
<1>2. TypeOK
  BY <1>1 DEF Init, TypeOK
<1> QED
  BY <1>1, <1>2, Messages DEF Init, IInv, ClaimsAreExclusive, AfterIsOwned,
     NothingBeforeDelivery, FindingIsAnnounced, AtMostOnePaidCall,
     ToldAtMostOnce, LostFindingIsVisible

(* A worker that goes idle, and changes nothing, gives up what it held.     *)
LEMMA GoIdle ==
  ASSUME IInv, NEW w \in Worker, NEW pc \in {"off", "poll"},
         NEW hosted \in BOOLEAN, faults' \in 0..MaxFaults,
         worker' = [worker EXCEPT ![w] = Idle(pc, hosted)],
         UNCHANGED <<rows, world>>
  PROVE  IInv'
<1>1. /\ worker' \in [Worker -> WorkerState]
      /\ worker'[w].pc \in {"off", "poll"} /\ worker'[w].deferred = "done"
      /\ \A v \in Worker : v # w => worker'[v] = worker[v]
  BY IdleState DEF IInv, TypeOK
<1> QED
  BY <1>1 DEF IInv, TypeOK, rows, world, ClaimsAreExclusive, AfterIsOwned,
     NothingBeforeDelivery, FindingIsAnnounced, AtMostOnePaidCall,
     ToldAtMostOnce, LostFindingIsVisible

(* What the transaction of a claim does to the rows: its message is         *)
(* delivered, no other message but the one of a new finding is touched, and *)
(* no trigger but its own.                                                  *)
LEMMA Consumed ==
  ASSUME IInv, NEW w \in Worker, worker[w].pc = "claimed", Consume(w)
  PROVE  /\ outbox' \in [Message -> {"none", "due", "later", "delivered"}]
         /\ run' \in [Trigger -> {"none", "running", "ended"}]
         /\ finding' \in [Trigger -> BOOLEAN]
         /\ worker[w].msg \in Message /\ outbox[worker[w].msg] = "due"
         /\ outbox'[worker[w].msg] = "delivered"
         /\ \A m \in Message : m # worker[w].msg =>
              \/ outbox'[m] = outbox[m]
              \/ outbox[m] = "none" /\ outbox'[m] = "due"
         /\ \A e \in Trigger : EventOf(e) # worker[w].msg =>
              /\ outbox'[EventOf(e)] = outbox[EventOf(e)]
              /\ run'[e] = run[e] /\ finding'[e] = finding[e]
         /\ FindingIsAnnounced' /\ LostFindingIsVisible'
<1> DEFINE m == worker[w].msg
           e == m[1]
<1>1. /\ m \in Message /\ outbox[m] = "due" /\ e \in Trigger
      /\ outbox \in [Message -> {"none", "due", "later", "delivered"}]
      /\ run \in [Trigger -> {"none", "running", "ended"}]
      /\ finding \in [Trigger -> BOOLEAN]
      /\ FindingIsAnnounced /\ LostFindingIsVisible
      /\ \A f \in Trigger : outbox[EventOf(f)] # "delivered" =>
           run[f] = "none" /\ ~finding[f]
  BY Messages DEF IInv, TypeOK, WorkerState, ClaimsAreExclusive,
     NothingBeforeDelivery
<1>2. CASE /\ m[2] = "finding" \/ finding[e] \/ e \in Unresolved
           /\ outbox' = Delivered(outbox, m)
           /\ UNCHANGED <<run, finding>>
  <2>1. m = FindingOf(e) \/ e \in Unresolved
    BY <1>1, <1>2, Messages
  <2> QED
    BY <1>1, <1>2, <2>1, Messages
       DEF Delivered, FindingIsAnnounced, LostFindingIsVisible
<1>3. CASE /\ m[2] = "event" /\ ~finding[e] /\ e \notin Unresolved
           /\ worker[w].hosted
           /\ run' = [run EXCEPT ![e] = Opened(@)]
           /\ outbox' = Delivered(outbox, m)
           /\ UNCHANGED finding
  <2>1. m = EventOf(e) /\ run[e] = "none"
    BY <1>1, <1>3, Messages
  <2>2. /\ run'[e] = "running"
        /\ \A f \in Trigger : f # e => run'[f] = run[f]
    BY <1>1, <1>3, <2>1 DEF Opened
  <2> QED
    BY <1>1, <1>3, <2>1, <2>2, Messages
       DEF Delivered, Opened, FindingIsAnnounced, LostFindingIsVisible
<1>4. CASE /\ m[2] = "event" /\ ~finding[e] /\ e \notin Unresolved
           /\ ~worker[w].hosted
           /\ Persist(Delivered(outbox, m), e)
  <2>1. m = EventOf(e) /\ outbox[FindingOf(e)] = "none"
    BY <1>1, <1>4, Messages DEF FindingIsAnnounced
  <2>2. /\ outbox' = [[outbox EXCEPT ![m] = "delivered"]
                        EXCEPT ![FindingOf(e)] = "due"]
        /\ run' = [run EXCEPT ![e] = "ended"]
        /\ finding' = [finding EXCEPT ![e] = TRUE]
    BY <1>4 DEF Persist, Delivered
  <2>3. /\ outbox'[m] = "delivered" /\ outbox'[FindingOf(e)] = "due"
        /\ \A n \in Message : n # m /\ n # FindingOf(e) => outbox'[n] = outbox[n]
        /\ outbox' \in [Message -> {"none", "due", "later", "delivered"}]
    BY <1>1, <2>1, <2>2, Messages
  <2>4. /\ run'[e] = "ended" /\ finding'[e]
        /\ \A f \in Trigger : f # e => run'[f] = run[f] /\ finding'[f] = finding[f]
        /\ run' \in [Trigger -> {"none", "running", "ended"}]
        /\ finding' \in [Trigger -> BOOLEAN]
    BY <1>1, <2>2
  <2>5. FindingIsAnnounced' /\ LostFindingIsVisible'
    BY <1>1, <2>1, <2>3, <2>4, Messages
       DEF FindingIsAnnounced, LostFindingIsVisible
  <2> QED  BY <1>1, <2>1, <2>3, <2>4, <2>5, Messages
<1> QED  BY <1>2, <1>3, <1>4 DEF Consume

(* The claim commits, whether or not the worker lives to see it.            *)
LEMMA ClaimCommits ==
  ASSUME IInv, NEW w \in Worker, worker[w].pc = "claimed", Consume(w),
         UNCHANGED world, faults' \in 0..MaxFaults,
         NEW r \in WorkerState, worker' = [worker EXCEPT ![w] = r],
         \/ r.pc = "off" /\ r.deferred = "done"
         \/ /\ r.pc = "after" /\ r.msg = worker[w].msg
            /\ r.deferred # "done" => r.msg[2] = "event"
            /\ r.telling => r.msg \in Announced
  PROVE  IInv'
<1> DEFINE m == worker[w].msg
<1>1. /\ worker' \in [Worker -> WorkerState] /\ worker'[w] = r
      /\ \A v \in Worker : v # w => worker'[v] = worker[v]
  BY DEF IInv, TypeOK
<1>2. m \in Message /\ outbox[m] = "due" /\ posts[m] = 0
  BY Consumed DEF IInv, NothingBeforeDelivery
<1>3. TypeOK'
  BY <1>1, Consumed DEF IInv, TypeOK, world
<1>4. ClaimsAreExclusive'
  <2>1. \A v \in Worker \ {w} : worker[v].pc = "claimed" =>
          worker[v].msg \in Message /\ worker[v].msg # m
    BY DEF IInv, TypeOK, WorkerState, ClaimsAreExclusive
  <2>2. \A v \in Worker \ {w} : worker[v].pc = "claimed" =>
          outbox'[worker[v].msg] = "due"
    BY <2>1, Consumed DEF IInv, ClaimsAreExclusive
  <2> QED  BY <1>1, <2>1, <2>2 DEF IInv, ClaimsAreExclusive
<1>5. AfterIsOwned'
  <2>1. \A v \in Worker \ {w} : worker[v].pc = "after" =>
          worker[v].msg \in Message /\ worker[v].msg # m
    BY Consumed DEF IInv, TypeOK, WorkerState, AfterIsOwned
  <2>2. \A v \in Worker \ {w} : worker[v].pc = "after" =>
          outbox'[worker[v].msg] = "delivered"
    BY <2>1, Consumed DEF IInv, AfterIsOwned
  <2> QED
    BY <1>1, <1>2, <2>1, <2>2, Consumed, Messages DEF IInv, AfterIsOwned, world
<1>6. NothingBeforeDelivery'
  <2>1. \A n \in Message : outbox'[n] # "delivered" => posts'[n] = 0
    BY Consumed DEF IInv, NothingBeforeDelivery, world
  <2>2. \A e \in Trigger : outbox'[EventOf(e)] # "delivered" =>
          run'[e] = "none" /\ ~finding'[e] /\ calls'[e] = 0
    BY Consumed DEF IInv, NothingBeforeDelivery, world
  <2>3. m[2] = "event" => m = EventOf(m[1]) /\ m[1] \in Trigger
    BY <1>2, Messages
  <2>4. m[2] = "event" => calls[m[1]] = 0
    BY <2>3, <1>2 DEF IInv, NothingBeforeDelivery
  <2>5. r.deferred # "done" =>
          r.pc = "after" /\ r.msg[2] = "event" /\ calls[r.msg[1]] = 0
    BY <2>4
  <2> QED
    BY <1>1, <2>1, <2>2, <2>5 DEF IInv, NothingBeforeDelivery, world
<1>7. AtMostOnePaidCall'
  BY DEF IInv, AtMostOnePaidCall, world
<1>8. ToldAtMostOnce'
  BY Consumed DEF IInv, ToldAtMostOnce, NothingBeforeDelivery, world, Announced
<1> QED
  BY <1>3, <1>4, <1>5, <1>6, <1>7, <1>8, Consumed DEF IInv

(* The steps after the commit write rows of no message but a finding's.     *)
LEMMA NextIInv == IInv /\ [Next]_vars => IInv'
<1> SUFFICES ASSUME IInv, [Next]_vars PROVE IInv'
  OBVIOUS
<1>0. TypeOK
  BY DEF IInv
<1>1. CASE UNCHANGED vars
  BY <1>1 DEF vars, IInv, TypeOK, ClaimsAreExclusive, AfterIsOwned,
     NothingBeforeDelivery, FindingIsAnnounced, AtMostOnePaidCall,
     ToldAtMostOnce, LostFindingIsVisible
<1>2. ASSUME NEW e \in Trigger, Enqueue(e) PROVE IInv'
  <2>1. /\ EventOf(e) \in Message /\ outbox[EventOf(e)] = "none"
        /\ outbox'[EventOf(e)] = "due"
        /\ \A m \in Message : m # EventOf(e) => outbox'[m] = outbox[m]
        /\ outbox' \in [Message -> {"none", "due", "later", "delivered"}]
    BY <1>0, <1>2, Messages DEF TypeOK, Enqueue
  <2>2. UNCHANGED <<run, finding, calls, posts, worker, faults>>
    BY <1>2 DEF Enqueue, world
  <2>3. /\ ClaimsAreExclusive' /\ AfterIsOwned'
    BY <1>0, <2>1, <2>2 DEF IInv, TypeOK, WorkerState, ClaimsAreExclusive, AfterIsOwned
  <2>4. /\ NothingBeforeDelivery' /\ FindingIsAnnounced' /\ LostFindingIsVisible'
        /\ ToldAtMostOnce'
    BY <2>1, <2>2, Messages DEF IInv, NothingBeforeDelivery, FindingIsAnnounced,
       LostFindingIsVisible, ToldAtMostOnce
  <2> QED
    BY <1>0, <2>1, <2>2, <2>3, <2>4 DEF IInv, TypeOK, AtMostOnePaidCall
<1>3. ASSUME NEW m \in Message, FallDue(m) PROVE IInv'
  <2>1. /\ outbox[m] = "later" /\ outbox'[m] = "due"
        /\ \A n \in Message : n # m => outbox'[n] = outbox[n]
        /\ outbox' \in [Message -> {"none", "due", "later", "delivered"}]
    BY <1>0, <1>3 DEF TypeOK, FallDue
  <2>2. UNCHANGED <<run, finding, calls, posts, worker, faults>>
    BY <1>3 DEF FallDue, world
  <2>3. /\ ClaimsAreExclusive' /\ AfterIsOwned'
    BY <1>0, <2>1, <2>2 DEF IInv, TypeOK, WorkerState, ClaimsAreExclusive, AfterIsOwned
  <2>4. /\ NothingBeforeDelivery' /\ FindingIsAnnounced' /\ LostFindingIsVisible'
        /\ ToldAtMostOnce'
    BY <2>1, <2>2, Messages DEF IInv, NothingBeforeDelivery, FindingIsAnnounced,
       LostFindingIsVisible, ToldAtMostOnce
  <2> QED
    BY <1>0, <2>1, <2>2, <2>3, <2>4 DEF IInv, TypeOK, AtMostOnePaidCall
<1>4. ASSUME NEW w \in Worker, Claim(w) PROVE IInv'
  <2>1. PICK m \in Message :
          /\ Claimable(m)
          /\ worker' = [worker EXCEPT ![w].pc = "claimed", ![w].msg = m]
    BY <1>4 DEF Claim
  <2>2. /\ worker[w].pc = "poll" /\ UNCHANGED <<outbox, run, finding, calls, posts, faults>>
    BY <1>4 DEF Claim, rows, world
  <2>3. /\ worker' \in [Worker -> WorkerState]
        /\ worker'[w].pc = "claimed" /\ worker'[w].msg = m
        /\ worker'[w].deferred = worker[w].deferred
        /\ \A v \in Worker : v # w => worker'[v] = worker[v]
        /\ m # NoMessage
    <3>1. worker[w] \in WorkerState
      BY <1>0 DEF TypeOK
    <3>2. [worker[w] EXCEPT !.pc = "claimed", !.msg = m] \in WorkerState
      BY <3>1 DEF WorkerState
    <3>3. worker'[w] = [worker[w] EXCEPT !.pc = "claimed", !.msg = m]
      BY <1>0, <2>1 DEF TypeOK
    <3> QED
      BY <1>0, <2>1, <3>1, <3>2, <3>3, Messages DEF TypeOK, WorkerState
  <2>4. ClaimsAreExclusive'
    BY <2>1, <2>2, <2>3 DEF IInv, ClaimsAreExclusive, Claimable, Locked
  <2>5. AfterIsOwned' /\ NothingBeforeDelivery'
    BY <2>2, <2>3 DEF IInv, AfterIsOwned, NothingBeforeDelivery
  <2> QED
    BY <1>0, <2>2, <2>3, <2>4, <2>5 DEF IInv, TypeOK, FindingIsAnnounced,
       AtMostOnePaidCall, ToldAtMostOnce, LostFindingIsVisible
<1>5. ASSUME NEW w \in Worker, CommitClaim(w) PROVE IInv'
  <2> DEFINE r == [worker[w] EXCEPT
       !.pc = "after",
       !.deferred = IF worker[w].hosted /\ worker[w].msg[2] = "event"
                    THEN "check" ELSE "done",
       !.telling = worker[w].msg \in Announced]
  <2>1. /\ worker[w].pc = "claimed" /\ Consume(w) /\ UNCHANGED world
        /\ UNCHANGED faults /\ worker' = [worker EXCEPT ![w] = r]
    BY <1>0, <1>5 DEF CommitClaim, TypeOK
  <2>2. /\ r \in WorkerState /\ r.pc = "after" /\ r.msg = worker[w].msg
        /\ r.deferred # "done" => r.msg[2] = "event"
        /\ r.telling => r.msg \in Announced
    <3>1. worker[w] \in WorkerState
      BY <1>0 DEF TypeOK
    <3>2. /\ r.pc = "after" /\ r.msg = worker[w].msg
          /\ r.deferred = IF worker[w].hosted /\ worker[w].msg[2] = "event"
                          THEN "check" ELSE "done"
          /\ r.telling = (worker[w].msg \in Announced)
      BY <3>1 DEF WorkerState
    <3>3. /\ r.telling \in BOOLEAN /\ r.deferred \in {"check", "done"}
          /\ r = [worker[w] EXCEPT !.pc = "after", !.deferred = r.deferred,
                                   !.telling = r.telling]
      BY <3>1, <3>2 DEF WorkerState
    <3> HIDE DEF r
    <3>4. r \in WorkerState
      BY <3>1, <3>3 DEF WorkerState
    <3> QED  BY <3>2, <3>3, <3>4
  <2> HIDE DEF r
  <2> QED  BY <1>0, <2>1, <2>2, ClaimCommits DEF TypeOK
<1>6. ASSUME NEW w \in Worker, CommitUnseen(w) PROVE IInv'
  <2> DEFINE r == Idle("off", worker[w].hosted)
  <2>1. r \in WorkerState /\ r.pc = "off" /\ r.deferred = "done"
    BY <1>0, IdleState DEF TypeOK, WorkerState
  <2>2. /\ worker[w].pc = "claimed" /\ Consume(w) /\ UNCHANGED world
        /\ worker' = [worker EXCEPT ![w] = r] /\ faults' \in 0..MaxFaults
    BY <1>0, <1>6 DEF CommitUnseen, Fault, TypeOK
  <2> HIDE DEF r
  <2> QED  BY <2>1, <2>2, ClaimCommits
<1>7. ASSUME NEW w \in Worker, ConsumeThrows(w) PROVE IInv'
  <2> DEFINE m == worker[w].msg
  <2>1. /\ worker[w].pc = "claimed" /\ m \in Message /\ outbox[m] = "due"
        /\ outbox' = [outbox EXCEPT ![m] = "later"]
        /\ worker' = [worker EXCEPT ![w] = Idle("poll", worker[w].hosted)]
        /\ worker[w].hosted \in BOOLEAN
        /\ UNCHANGED <<run, finding, calls, posts>> /\ faults' \in 0..MaxFaults
    BY <1>0, <1>7 DEF ConsumeThrows, Fault, TypeOK, WorkerState, IInv,
       ClaimsAreExclusive, world
  <2>2. /\ outbox'[m] = "later"
        /\ \A n \in Message : n # m => outbox'[n] = outbox[n]
        /\ outbox' \in [Message -> {"none", "due", "later", "delivered"}]
    BY <1>0, <2>1 DEF TypeOK
  <2>3. /\ worker' \in [Worker -> WorkerState]
        /\ worker'[w].pc = "poll" /\ worker'[w].deferred = "done"
        /\ \A v \in Worker : v # w => worker'[v] = worker[v]
    BY <1>0, <2>1, IdleState DEF TypeOK
  <2>4. ClaimsAreExclusive' /\ AfterIsOwned'
    BY <1>0, <2>1, <2>2, <2>3
       DEF IInv, TypeOK, WorkerState, ClaimsAreExclusive, AfterIsOwned
  <2>5. NothingBeforeDelivery'
    BY <2>1, <2>2, <2>3, Messages DEF IInv, NothingBeforeDelivery
  <2>6. FindingIsAnnounced' /\ LostFindingIsVisible' /\ ToldAtMostOnce'
    BY <2>1, <2>2, Messages
       DEF IInv, FindingIsAnnounced, LostFindingIsVisible, ToldAtMostOnce,
           NothingBeforeDelivery
  <2> QED
    BY <1>0, <2>1, <2>2, <2>3, <2>4, <2>5, <2>6 DEF IInv, TypeOK, AtMostOnePaidCall
<1>8. ASSUME NEW w \in Worker, CheckRun(w) PROVE IInv'
  <2>1. /\ worker[w].pc = "after" /\ worker[w].deferred = "check"
        /\ UNCHANGED <<outbox, run, finding, calls, posts, faults>>
        /\ worker' \in [Worker -> WorkerState]
        /\ \E d \in {"call", "done"} :
             worker' = [worker EXCEPT ![w].deferred = d]
    <3> DEFINE d == IF ~finding[worker[w].msg[1]] /\ run[worker[w].msg[1]] = "running"
                    THEN "call" ELSE "done"
    <3>1. /\ worker[w].pc = "after" /\ worker[w].deferred = "check"
          /\ UNCHANGED <<outbox, run, finding, calls, posts, faults>>
          /\ worker' = [worker EXCEPT ![w].deferred = d]
      BY <1>8 DEF CheckRun, After, rows, world
    <3>2. d \in {"call", "done"}
      OBVIOUS
    <3> HIDE DEF d
    <3>3. worker' \in [Worker -> WorkerState]
      BY <1>0, <3>1, <3>2 DEF TypeOK, WorkerState
    <3> QED  BY <3>1, <3>2, <3>3
  <2> QED
    BY <1>0, <2>1 DEF IInv, TypeOK, WorkerState, ClaimsAreExclusive, AfterIsOwned,
       NothingBeforeDelivery, FindingIsAnnounced, AtMostOnePaidCall,
       ToldAtMostOnce, LostFindingIsVisible
<1>9. ASSUME NEW w \in Worker, CallModel(w) PROVE IInv'
  <2> DEFINE e == worker[w].msg[1]
  <2>1. /\ worker[w].pc = "after" /\ worker[w].deferred = "call"
        /\ worker[w].msg = EventOf(e) /\ e \in Trigger /\ calls[e] = 0
        /\ outbox[EventOf(e)] = "delivered"
    BY <1>0, <1>9, Messages DEF CallModel, After, IInv, TypeOK, WorkerState,
       AfterIsOwned, NothingBeforeDelivery
  <2>2. /\ calls' \in [Trigger -> Nat] /\ calls'[e] = 1
        /\ \A f \in Trigger : f # e => calls'[f] = calls[f]
    BY <1>0, <1>9, <2>1 DEF CallModel, TypeOK
  <2>3. /\ worker' \in [Worker -> WorkerState]
        /\ worker'[w] = [worker[w] EXCEPT !.deferred = "save"]
        /\ \A v \in Worker : v # w => worker'[v] = worker[v]
        /\ UNCHANGED <<outbox, run, finding, posts, faults>>
    BY <1>0, <1>9 DEF CallModel, TypeOK, WorkerState, rows
  <2>4. worker'[w].pc = "after" /\ worker'[w].deferred = "save"
        /\ worker'[w].msg = worker[w].msg /\ worker'[w].telling = worker[w].telling
    BY <1>0, <2>1, <2>3 DEF TypeOK, WorkerState
  <2>5. ClaimsAreExclusive' /\ AfterIsOwned'
    <3>1. /\ ClaimsAreExclusive /\ AfterIsOwned
          /\ UNCHANGED <<outbox, posts>>
          /\ \A v \in Worker : /\ worker'[v].pc = worker[v].pc
                               /\ worker'[v].msg = worker[v].msg
                               /\ worker'[v].telling = worker[v].telling
      BY <2>1, <2>3, <2>4 DEF IInv
    <3> QED  BY <3>1 DEF ClaimsAreExclusive, AfterIsOwned
  <2>6. NothingBeforeDelivery'
    <3>1. \A v \in Worker \ {w} :
            worker[v].deferred # "done" => worker[v].msg[1] # e /\ worker[v].msg[1] \in Trigger
      BY <1>0, <2>1, Messages DEF IInv, TypeOK, WorkerState, AfterIsOwned,
         NothingBeforeDelivery
    <3>2. worker'[w].msg[2] = "event"
      BY <2>1, <2>4, Messages
    <3>3. /\ \A m \in Message : outbox'[m] # "delivered" => posts'[m] = 0
          /\ \A f \in Trigger : outbox'[EventOf(f)] # "delivered" =>
               run'[f] = "none" /\ ~finding'[f] /\ calls'[f] = 0
      BY <2>1, <2>2, <2>3 DEF IInv, NothingBeforeDelivery
    <3>4. ASSUME NEW v \in Worker, worker'[v].deferred # "done"
          PROVE  /\ worker'[v].pc = "after" /\ worker'[v].msg[2] = "event"
                 /\ worker'[v].deferred # "save" => calls'[worker'[v].msg[1]] = 0
      <4>1. CASE v = w
        BY <2>4, <3>2, <4>1
      <4>2. CASE v # w
        BY <2>2, <2>3, <3>1, <3>4, <4>2 DEF IInv, NothingBeforeDelivery
      <4> QED  BY <4>1, <4>2
    <3> QED  BY <3>3, <3>4 DEF NothingBeforeDelivery
  <2>7. AtMostOnePaidCall'
    BY <2>2 DEF IInv, AtMostOnePaidCall
  <2> QED
    BY <1>0, <2>2, <2>3, <2>5, <2>6, <2>7 DEF IInv, TypeOK, FindingIsAnnounced,
       ToldAtMostOnce, LostFindingIsVisible
<1>10. ASSUME NEW w \in Worker, SaveOutcome(w) PROVE IInv'
  <2> DEFINE e == worker[w].msg[1]
  <2>1. /\ worker[w].pc = "after" /\ worker[w].deferred = "save"
        /\ worker[w].msg = EventOf(e) /\ e \in Trigger
        /\ outbox[EventOf(e)] = "delivered"
        /\ UNCHANGED <<calls, posts, faults>>
    BY <1>0, <1>10, Messages DEF SaveOutcome, After, IInv, TypeOK, WorkerState,
       AfterIsOwned, NothingBeforeDelivery, world
  <2>2. /\ worker' \in [Worker -> WorkerState]
        /\ worker'[w].pc = "after" /\ worker'[w].deferred = "done"
        /\ worker'[w].msg = worker[w].msg /\ worker'[w].telling = worker[w].telling
        /\ \A v \in Worker : v # w => worker'[v] = worker[v]
    BY <1>0, <1>10, <2>1 DEF SaveOutcome, TypeOK, WorkerState
  <2>3. CASE run[e] # "running"
    <3>1. UNCHANGED <<outbox, run, finding>>
      BY <1>10, <2>3 DEF SaveOutcome, rows
    <3> QED
      BY <1>0, <2>1, <2>2, <3>1 DEF IInv, TypeOK, ClaimsAreExclusive, AfterIsOwned,
         NothingBeforeDelivery, FindingIsAnnounced, AtMostOnePaidCall,
         ToldAtMostOnce, LostFindingIsVisible
  <2>4. CASE run[e] = "running"
    <3>1. /\ outbox[FindingOf(e)] = "none" /\ FindingOf(e) \in Message
          /\ posts[FindingOf(e)] = 0 /\ FindingOf(e) # EventOf(e)
      BY <2>1, <2>4, Messages DEF IInv, FindingIsAnnounced, NothingBeforeDelivery
    <3>2. /\ outbox' = [outbox EXCEPT ![FindingOf(e)] = "due"]
          /\ run' = [run EXCEPT ![e] = "ended"]
          /\ finding' = [finding EXCEPT ![e] = TRUE]
      BY <1>10, <2>4 DEF SaveOutcome, Persist
    <3>3. /\ outbox' \in [Message -> {"none", "due", "later", "delivered"}]
          /\ outbox'[FindingOf(e)] = "due"
          /\ \A m \in Message : m # FindingOf(e) => outbox'[m] = outbox[m]
      BY <1>0, <3>1, <3>2 DEF TypeOK
    <3>4. /\ run' \in [Trigger -> {"none", "running", "ended"}]
          /\ finding' \in [Trigger -> BOOLEAN]
          /\ run'[e] = "ended" /\ finding'[e]
          /\ \A f \in Trigger : f # e => run'[f] = run[f] /\ finding'[f] = finding[f]
      BY <1>0, <2>1, <3>2 DEF TypeOK
    <3>5. ClaimsAreExclusive'
      BY <1>0, <2>2, <3>1, <3>3 DEF IInv, TypeOK, WorkerState, ClaimsAreExclusive
    <3>6. AfterIsOwned'
      <4>1. ASSUME NEW v \in Worker, worker[v].pc = "after"
            PROVE  /\ worker[v].msg # NoMessage /\ worker[v].msg \in Message
                   /\ outbox'[worker[v].msg] = "delivered"
        BY <1>0, <3>1, <3>3, <4>1 DEF IInv, TypeOK, WorkerState, AfterIsOwned
      <4> QED
        BY <1>0, <2>1, <2>2, <4>1 DEF IInv, TypeOK, AfterIsOwned
    <3>7. NothingBeforeDelivery'
      BY <2>1, <2>2, <3>1, <3>3, <3>4, Messages DEF IInv, NothingBeforeDelivery
    <3>8. FindingIsAnnounced' /\ LostFindingIsVisible' /\ ToldAtMostOnce'
      BY <2>1, <3>1, <3>3, <3>4, Messages DEF IInv, FindingIsAnnounced,
         LostFindingIsVisible, ToldAtMostOnce
    <3> QED
      BY <1>0, <2>1, <2>2, <3>3, <3>4, <3>5, <3>6, <3>7, <3>8
         DEF IInv, TypeOK, AtMostOnePaidCall
  <2> QED  BY <2>3, <2>4
<1>11. ASSUME NEW w \in Worker, DeferredFails(w) PROVE IInv'
  <2>1. /\ worker[w].pc = "after" /\ worker[w].deferred # "done"
        /\ UNCHANGED <<outbox, run, finding, calls, posts>>
        /\ faults' \in 0..MaxFaults
        /\ worker' \in [Worker -> WorkerState]
        /\ worker' = [worker EXCEPT ![w].deferred = "done"]
    BY <1>0, <1>11 DEF DeferredFails, After, Fault, TypeOK, WorkerState, rows, world
  <2> QED
    BY <1>0, <2>1 DEF IInv, TypeOK, WorkerState, ClaimsAreExclusive, AfterIsOwned,
       NothingBeforeDelivery, FindingIsAnnounced, AtMostOnePaidCall,
       ToldAtMostOnce, LostFindingIsVisible
<1>12. ASSUME NEW w \in Worker, Tell(w) PROVE IInv'
  <2> DEFINE m == worker[w].msg
  <2>1. /\ worker[w].pc = "after" /\ m \in Message /\ outbox[m] = "delivered"
        /\ posts[m] = 0 /\ m \in Announced
        /\ UNCHANGED <<outbox, run, finding, calls, faults>>
    BY <1>0, <1>12 DEF Tell, IInv, TypeOK, WorkerState, AfterIsOwned, rows
  <2>2. /\ posts' \in [Message -> Nat] /\ posts'[m] \in {0, 1}
        /\ \A n \in Message : n # m => posts'[n] = posts[n]
    BY <1>0, <1>12, <2>1 DEF Tell, TypeOK
  <2>3. /\ worker' \in [Worker -> WorkerState]
        /\ worker'[w].pc = "after" /\ worker'[w].deferred = worker[w].deferred
        /\ worker'[w].msg = m /\ ~worker'[w].telling
        /\ \A v \in Worker : v # w => worker'[v] = worker[v]
    BY <1>0, <1>12, <2>1 DEF Tell, TypeOK, WorkerState
  <2>4. ClaimsAreExclusive' /\ NothingBeforeDelivery' /\ ToldAtMostOnce'
    BY <2>1, <2>2, <2>3 DEF IInv, ClaimsAreExclusive, NothingBeforeDelivery,
       ToldAtMostOnce
  <2>5. AfterIsOwned'
    BY <1>0, <2>1, <2>2, <2>3 DEF IInv, TypeOK, WorkerState, AfterIsOwned
  <2> QED
    BY <1>0, <2>1, <2>2, <2>3, <2>4, <2>5 DEF IInv, TypeOK, FindingIsAnnounced,
       AtMostOnePaidCall, LostFindingIsVisible
<1>13. ASSUME NEW w \in Worker, EndPoll(w) \/ Crash(w) PROVE IInv'
  <2>1. /\ worker[w].hosted \in BOOLEAN /\ UNCHANGED <<rows, world>>
        /\ faults' \in 0..MaxFaults
        /\ \E pc \in {"off", "poll"} :
             worker' = [worker EXCEPT ![w] = Idle(pc, worker[w].hosted)]
    BY <1>0, <1>13 DEF EndPoll, Crash, Fault, TypeOK, WorkerState
  <2> QED  BY <2>1, GoIdle
<1>14. ASSUME NEW w \in Worker, Restart(w) PROVE IInv'
  <2>1. PICK hosted \in BOOLEAN :
          worker' = [worker EXCEPT ![w] = Idle("poll", hosted)]
    BY <1>14 DEF Restart
  <2>2. UNCHANGED <<rows, world>> /\ faults' \in 0..MaxFaults
    BY <1>0, <1>14 DEF Restart, TypeOK
  <2> QED  BY <2>1, <2>2, GoIdle
<1>15. ASSUME NEW w \in Worker, EmptyPoll(w) PROVE IInv'
  BY <1>1, <1>15 DEF EmptyPoll
<1> QED
  BY <1>1, <1>2, <1>3, <1>4, <1>5, <1>6, <1>7, <1>8, <1>9, <1>10, <1>11, <1>12,
     <1>13, <1>14, <1>15 DEF Next, Step

(* Every claim, commit, failure and restart of the outbox keeps IInv.       *)
THEOREM OutboxInvariant == Spec => []IInv
BY InitIInv, NextIInv, PTL DEF Spec

(* The paid model is called at most once for an event (notify.ts:178).      *)
THEOREM PaidAtMostOnce == Spec => []AtMostOnePaidCall
<1>1. IInv => AtMostOnePaidCall
  BY DEF IInv
<1> QED  BY <1>1, OutboxInvariant, PTL

(* A message is told of at most once, and only when it is durable.          *)
THEOREM ToldOnce == Spec => []ToldAtMostOnce
<1>1. IInv => ToldAtMostOnce
  BY DEF IInv
<1> QED  BY <1>1, OutboxInvariant, PTL

(* A delivered trigger whose resource is there has its finding or a run    *)
(* left visibly running.                                                    *)
THEOREM NoSilentLoss == Spec => []LostFindingIsVisible
<1>1. IInv => LostFindingIsVisible
  BY DEF IInv
<1> QED  BY <1>1, OutboxInvariant, PTL
================================================================================
