------------------------------ MODULE RunContract ------------------------------
(***************************************************************************)
(* What the control plane promises the submitter of a run, with no worker, *)
(* lease or history in sight: a run waits, is taken up once, is sent to    *)
(* the executor at most once and only after that intent is durable, and    *)
(* ends closed or in the hands of a reviewer; nothing goes backwards.      *)
(***************************************************************************)
EXTENDS Naturals

CONSTANT Run

VARIABLES phase,  \* how far each run has come
          sent    \* how many times its prompt was sent to the executor

Phase == {"absent", "waiting", "inflight", "review", "closed"}

Init ==
  /\ phase = [r \in Run |-> "absent"]
  /\ sent = [r \in Run |-> 0]

Move(r, from, to) ==
  /\ phase[r] = from
  /\ phase' = [phase EXCEPT ![r] = to]
  /\ UNCHANGED sent

Submit(r) == Move(r, "absent", "waiting")

(* The intent to send is recorded before anything is sent. *)
TakeUp(r) == Move(r, "waiting", "inflight")

Send(r) ==
  /\ phase[r] = "inflight" /\ sent[r] = 0
  /\ sent' = [sent EXCEPT ![r] = 1]
  /\ UNCHANGED phase

(* Only a run that was sent has a result to review. *)
Produce(r) == sent[r] = 1 /\ Move(r, "inflight", "review")

Close(r) == \E from \in {"waiting", "inflight", "review"} : Move(r, from, "closed")

Next == \E r \in Run : Submit(r) \/ TakeUp(r) \/ Send(r) \/ Produce(r) \/ Close(r)

Spec == Init /\ [][Next]_<<phase, sent>>
================================================================================
