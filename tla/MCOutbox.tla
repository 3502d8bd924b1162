------------------------------- MODULE MCOutbox --------------------------------
(* Instances of Outbox for TLC. *)
EXTENDS Outbox

CONSTANTS w1, w2, e1, e2, e3

TwoWorkers == {w1, w2}
TheTold == {e1}
Lost == {e3}
ThreeTriggers == {e1, e2, e3}
================================================================================
