-------------------------------- MODULE Outbox ---------------------------------
(***************************************************************************)
(* The transactional outbox and its consumer, the operational agent.       *)
(*                                                                         *)
(* Every domain event is appended together with an outbox message, in the  *)
(* transaction it tells of.  A worker claims one message at a time and     *)
(* consumes it in the transaction of the claim.  For a trigger event the   *)
(* agent must come to one finding: the free "faux" provider finds it at    *)
(* once, in the same transaction; for a hosted provider that transaction   *)
(* only commits a run, and the model is called, and paid for, after the    *)
(* commit.  The finding is a domain event again, with a message of its     *)
(* own, and a webhook is told of some messages, also after the commit.     *)
(*                                                                         *)
(* Nothing catches what pollOnce throws (app.ts drops the promise of       *)
(* run()), so a database error in the claim ends the process.              *)
(***************************************************************************)
EXTENDS Naturals

CONSTANTS
  Worker,      \* processes that run the outbox loop
  Trigger,     \* domain events the agent answers (operator.ts:69)
  Notifiable,  \* those of them the webhook is told of (executor.unavailable)
  Unresolved,  \* those without a project, or whose resource is not to be found
  NoMessage,
  MaxFaults    \* bound: crashes, stops and failures of the database

ASSUME OutboxAssumption ==
  /\ Notifiable \subseteq Trigger
  /\ Unresolved \subseteq Trigger
  /\ NoMessage \notin Trigger \X {"event", "finding"}
  /\ MaxFaults \in Nat

VARIABLES
  outbox,   \* outbox_events: is a message due, due later, or delivered
  run,      \* agent_runs: the run of a trigger, whose id is the event's
  finding,  \* operational_recommendations: has the trigger its finding
  calls,    \* calls of a paid model, by trigger
  posts,    \* webhook calls, by message
  worker,   \* each process: its place in pollOnce and in afterCommit
  faults

vars == <<outbox, run, finding, calls, posts, worker, faults>>

Message == Trigger \X {"event", "finding"}
EventOf(e) == <<e, "event">>
FindingOf(e) == <<e, "finding">>
Announced == {FindingOf(e) : e \in Trigger} \cup {EventOf(e) : e \in Notifiable}

(* "claimed": in the transaction of the claim, which locks the message;     *)
(* "after": in afterCommit, whose two sides run on their own.  deferred:    *)
(* how far completeDeferredRun is; telling: a webhook call is to be made.   *)
WorkerState ==
  [ pc       : {"off", "poll", "claimed", "after"},
    msg      : Message \cup {NoMessage},
    deferred : {"done", "check", "call", "save"},
    telling  : BOOLEAN,
    hosted   : BOOLEAN ]           \* which provider the process is set up with

Idle(pc, hosted) ==
  [ pc |-> pc, msg |-> NoMessage, deferred |-> "done",
    telling |-> FALSE, hosted |-> hosted ]

Init ==
  /\ outbox = [m \in Message |-> "none"]
  /\ run = [e \in Trigger |-> "none"]
  /\ finding = [e \in Trigger |-> FALSE]
  /\ calls = [e \in Trigger |-> 0]
  /\ posts = [m \in Message |-> 0]
  /\ worker \in [Worker -> {Idle("poll", hosted) : hosted \in BOOLEAN}]
  /\ faults = 0

rows == <<outbox, run, finding>>
world == <<calls, posts>>

Fault == faults < MaxFaults /\ faults' = faults + 1

(***************************************************************************)
(* The database: another part of the system enqueues a trigger; a failed   *)
(* message becomes due again after a second.                               *)
(***************************************************************************)
Enqueue(e) ==
  /\ outbox[EventOf(e)] = "none"
  /\ outbox' = [outbox EXCEPT ![EventOf(e)] = "due"]
  /\ UNCHANGED <<run, finding, world, worker, faults>>

FallDue(m) ==
  /\ outbox[m] = "later"
  /\ outbox' = [outbox EXCEPT ![m] = "due"]
  /\ UNCHANGED <<run, finding, world, worker, faults>>

(***************************************************************************)
(* pollOnce: the transaction of the claim.                                 *)
(***************************************************************************)
Locked(m) == \E v \in Worker : worker[v].pc = "claimed" /\ worker[v].msg = m

(* FOR UPDATE SKIP LOCKED.  The order by due time is left open.             *)
Claimable(m) == outbox[m] = "due" /\ ~Locked(m)

EmptyPoll(w) ==
  /\ worker[w].pc = "poll"
  /\ ~\E m \in Message : Claimable(m)
  /\ UNCHANGED vars

Claim(w) ==
  /\ worker[w].pc = "poll"
  /\ \E m \in Message :
       /\ Claimable(m)
       /\ worker' = [worker EXCEPT ![w].pc = "claimed", ![w].msg = m]
  /\ UNCHANGED <<rows, world, faults>>

(* Mutant of Delivered: the delivery is left to the end of afterCommit.     *)
DeliveredLater(box, m) == box

(* markDelivered.                                                           *)
Delivered(box, m) == [box EXCEPT ![m] = "delivered"]

(* Mutant of Opened: the run is only created when the model has answered.   *)
NotOpened(r) == r

(* The agent's run as a hosted provider leaves it for afterCommit.          *)
Opened(r) == IF r = "none" THEN "running" ELSE r

(* Mutant of Persist: a finding without an event.                           *)
PersistQuietly(box, e) ==
  /\ run' = [run EXCEPT ![e] = "ended"]
  /\ finding' = [finding EXCEPT ![e] = TRUE]
  /\ outbox' = box

(* persistOutcome writes run, finding and the finding's event as one.       *)
Persist(box, e) ==
  /\ run' = [run EXCEPT ![e] = "ended"]
  /\ finding' = [finding EXCEPT ![e] = TRUE]
  /\ outbox' = [box EXCEPT ![FindingOf(e)] = "due"]

(* processEventInTransaction and markDelivered: what the claim commits.     *)
(* A finding is no trigger, a trigger that has one is a duplicate, and one  *)
(* without its project or resource is delivered and left at that.           *)
Consume(w) ==
  LET m == worker[w].msg
      e == m[1]
      box == Delivered(outbox, m)
  IN \/ /\ m[2] = "finding" \/ finding[e] \/ e \in Unresolved
        /\ outbox' = box
        /\ UNCHANGED <<run, finding>>
     \/ /\ m[2] = "event" /\ ~finding[e] /\ e \notin Unresolved
        /\ worker[w].hosted
        /\ run' = [run EXCEPT ![e] = Opened(@)]
        /\ outbox' = box
        /\ UNCHANGED finding
     \/ /\ m[2] = "event" /\ ~finding[e] /\ e \notin Unresolved
        /\ ~worker[w].hosted
        /\ Persist(box, e)

CommitClaim(w) ==
  /\ worker[w].pc = "claimed"
  /\ Consume(w)
  /\ worker' = [worker EXCEPT
       ![w].pc = "after",
       ![w].deferred = IF worker[w].hosted /\ worker[w].msg[2] = "event"
                       THEN "check" ELSE "done",
       ![w].telling = worker[w].msg \in Announced]
  /\ UNCHANGED <<world, faults>>

(* The commit arrives but its answer does not: pollOnce throws, and the     *)
(* process ends without afterCommit.                                        *)
CommitUnseen(w) ==
  /\ worker[w].pc = "claimed"
  /\ Fault
  /\ Consume(w)
  /\ worker' = [worker EXCEPT ![w] = Idle("off", worker[w].hosted)]
  /\ UNCHANGED world

(* The consumer throws without an error of the database, which it only can  *)
(* before its first write: markFailed, and the transaction commits.         *)
ConsumeThrows(w) ==
  /\ worker[w].pc = "claimed"
  /\ Fault
  /\ outbox' = [outbox EXCEPT ![worker[w].msg] = "later"]
  /\ worker' = [worker EXCEPT ![w] = Idle("poll", worker[w].hosted)]
  /\ UNCHANGED <<run, finding, world>>

(***************************************************************************)
(* afterCommit: completeDeferredRun and the webhook, side by side.  Both   *)
(* swallow every error.                                                    *)
(***************************************************************************)
After(w, deferred) ==
  /\ worker[w].pc = "after"
  /\ worker[w].deferred = deferred

(* The first transaction of runDeferred: has the trigger its finding, is    *)
(* the run still running?  Its failure ends the deferred run.               *)
CheckRun(w) ==
  LET e == worker[w].msg[1]
  IN /\ After(w, "check")
     /\ worker' = [worker EXCEPT ![w].deferred =
          IF ~finding[e] /\ run[e] = "running" THEN "call" ELSE "done"]
     /\ UNCHANGED <<rows, world, faults>>

(* runModel: whatever comes of it, the call is made and paid for.           *)
CallModel(w) ==
  /\ After(w, "call")
  /\ calls' = [calls EXCEPT ![worker[w].msg[1]] = @ + 1]
  /\ worker' = [worker EXCEPT ![w].deferred = "save"]
  /\ UNCHANGED <<rows, posts, faults>>

(* The second transaction.  agentRuns.update is WHERE version = the one     *)
(* read in the first, and only an end of the run raises it.                 *)
SaveOutcome(w) ==
  LET e == worker[w].msg[1]
  IN /\ After(w, "save")
     /\ IF run[e] = "running" THEN Persist(outbox, e) ELSE UNCHANGED rows
     /\ worker' = [worker EXCEPT ![w].deferred = "done"]
     /\ UNCHANGED <<world, faults>>

(* A transaction of runDeferred fails: no retry, the run stays as it is.    *)
DeferredFails(w) ==
  /\ After(w, "check") \/ After(w, "save")
  /\ Fault
  /\ worker' = [worker EXCEPT ![w].deferred = "done"]
  /\ UNCHANGED <<rows, world>>

(* Mutant of Tell: it tries again while no answer has come.                 *)
TellUntilAnswered(w) ==
  /\ worker[w].pc = "after" /\ worker[w].telling
  /\ posts' = [posts EXCEPT ![worker[w].msg] = @ + 1]
  /\ \E unanswered \in BOOLEAN :
       worker' = [worker EXCEPT ![w].telling = unanswered]
  /\ UNCHANGED <<rows, calls, faults>>

(* One try, which the receiver may see or not.                              *)
Tell(w) ==
  /\ worker[w].pc = "after" /\ worker[w].telling
  /\ \/ posts' = [posts EXCEPT ![worker[w].msg] = @ + 1]
     \/ UNCHANGED posts
  /\ worker' = [worker EXCEPT ![w].telling = FALSE]
  /\ UNCHANGED <<rows, calls, faults>>

EndPoll(w) ==
  /\ After(w, "done") /\ ~worker[w].telling
  /\ worker' = [worker EXCEPT ![w] = Idle("poll", worker[w].hosted)]
  /\ UNCHANGED <<rows, world, faults>>

(***************************************************************************)
(* The process: it dies at any point, a claim that has not committed is    *)
(* rolled back and its message unlocked; a stop waits for the end of the   *)
(* poll.  The next start may bring another provider.                       *)
(***************************************************************************)
Crash(w) ==
  /\ worker[w].pc # "off"
  /\ Fault
  /\ worker' = [worker EXCEPT ![w] = Idle("off", worker[w].hosted)]
  /\ UNCHANGED <<rows, world>>

Restart(w) ==
  /\ worker[w].pc = "off"
  /\ \E hosted \in BOOLEAN :
       worker' = [worker EXCEPT ![w] = Idle("poll", hosted)]
  /\ UNCHANGED <<rows, world, faults>>

Step(w) ==
  \/ EmptyPoll(w) \/ Claim(w) \/ CommitClaim(w)
  \/ CheckRun(w) \/ CallModel(w) \/ SaveOutcome(w)
  \/ Tell(w) \/ EndPoll(w)

Next ==
  \/ \E e \in Trigger : Enqueue(e)
  \/ \E m \in Message : FallDue(m)
  \/ \E w \in Worker :
       \/ Step(w) \/ Restart(w) \/ Crash(w)
       \/ CommitUnseen(w) \/ ConsumeThrows(w) \/ DeferredFails(w)

Spec == Init /\ [][Next]_vars

(* The loop polls for ever, its awaits have timeouts, a second passes, and  *)
(* the process runs under a supervisor.  Nobody must enqueue anything.      *)
Fairness ==
  /\ \A w \in Worker : WF_vars(Step(w)) /\ WF_vars(Restart(w))
  /\ \A m \in Message : WF_vars(FallDue(m))

FairSpec == Spec /\ Fairness

(***************************************************************************)
(* What the dispatcher and the agent are for.                              *)
(***************************************************************************)
TypeOK ==
  /\ outbox \in [Message -> {"none", "due", "later", "delivered"}]
  /\ run \in [Trigger -> {"none", "running", "ended"}]
  /\ finding \in [Trigger -> BOOLEAN]
  /\ calls \in [Trigger -> Nat]
  /\ posts \in [Message -> Nat]
  /\ worker \in [Worker -> WorkerState]
  /\ faults \in 0..MaxFaults

(* A message is in one transaction at a time, and what is delivered is in   *)
(* none: SKIP LOCKED and markDelivered share the claim's transaction.       *)
ClaimsAreExclusive ==
  \A w \in Worker : worker[w].pc = "claimed" =>
    /\ worker[w].msg # NoMessage
    /\ outbox[worker[w].msg] = "due"
    /\ \A v \in Worker \ {w} : worker[v].pc = "claimed" =>
         worker[v].msg # worker[w].msg

(* Who works in afterCommit is the only one to have delivered its message.  *)
AfterIsOwned ==
  \A w \in Worker : worker[w].pc = "after" =>
    /\ worker[w].msg # NoMessage
    /\ outbox[worker[w].msg] = "delivered"
    /\ worker[w].telling =>
         posts[worker[w].msg] = 0 /\ worker[w].msg \in Announced
    /\ \A v \in Worker \ {w} : worker[v].pc = "after" =>
         worker[v].msg # worker[w].msg

(* Before its message is delivered nothing is done for a trigger, and the   *)
(* model is only called once the run is open.                               *)
NothingBeforeDelivery ==
  /\ \A m \in Message : outbox[m] # "delivered" => posts[m] = 0
  /\ \A e \in Trigger : outbox[EventOf(e)] # "delivered" =>
       run[e] = "none" /\ ~finding[e] /\ calls[e] = 0
  /\ \A w \in Worker : worker[w].deferred # "done" =>
       /\ worker[w].pc = "after" /\ worker[w].msg[2] = "event"
       /\ worker[w].deferred # "save" => calls[worker[w].msg[1]] = 0

(* A finding, the end of its run and its announcement come together         *)
(* (operator.ts:1074, "exactly one durable recommendation.created event").  *)
FindingIsAnnounced ==
  \A e \in Trigger :
    /\ finding[e] <=> run[e] = "ended"
    /\ finding[e] <=> outbox[FindingOf(e)] # "none"

(* notify.ts:178: retrying a delivered message would be "a second paid run".*)
(* However workers crash, restart with another provider or lose an answer   *)
(* of the database, the model is paid at most once for an event.            *)
AtMostOnePaidCall == \A e \in Trigger : calls[e] <= 1

(* The webhook tells of a message at most once, and never of one whose      *)
(* transaction was rolled back: a finding is durable before it is told.     *)
ToldAtMostOnce ==
  \A m \in Message :
    /\ posts[m] <= 1
    /\ posts[m] = 1 => outbox[m] = "delivered" /\ m \in Announced

(* operator.ts:659: a failure after the commit "leaves the run visibly      *)
(* 'running' rather than losing it silently".  A delivered trigger has its  *)
(* finding, or a run that says that it has none; one whose resource is not  *)
(* to be found has neither, as the code has it (operator.ts:571).           *)
LostFindingIsVisible ==
  \A e \in Trigger \ Unresolved : outbox[EventOf(e)] = "delivered" =>
    finding[e] \/ run[e] = "running"

IInv ==
  /\ TypeOK /\ ClaimsAreExclusive /\ AfterIsOwned /\ NothingBeforeDelivery
  /\ FindingIsAnnounced /\ AtMostOnePaidCall /\ ToldAtMostOnce
  /\ LostFindingIsVisible

(* Every enqueued trigger is consumed, and its finding announced, or its    *)
(* run is left running by a fault that met a hosted run after its commit.   *)
Abandoned(e) ==
  /\ faults > 0 /\ outbox[EventOf(e)] = "delivered" /\ run[e] = "running"
  /\ \A w \in Worker : worker[w].deferred # "done" => worker[w].msg # EventOf(e)

EveryTriggerIsAnswered ==
  \A e \in Trigger \ Unresolved :
    outbox[EventOf(e)] # "none" ~>
      outbox[FindingOf(e)] = "delivered" \/ Abandoned(e)
================================================================================
