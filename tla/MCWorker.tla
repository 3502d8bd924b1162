------------------------------- MODULE MCWorker --------------------------------
(* Instances of GenerationWorker for TLC. *)
EXTENDS GenerationWorker, TLC

CONSTANTS w1, w2, a1, a2, a3, s1, s2

TwoWorkers == {w1, w2}
OneWorker == {w1}
OneAttempt == {a1}
ThreeAttempts == {a1, a2, a3}
OneShot == {s1}
TwoShots == {s1, s2}
None == {}

(* One run; a run, its retry and a template attempt on the same shot,      *)
(* beside which the second shot only has graphs that do not validate.      *)
OneRun == [a \in OneAttempt |-> s1]
SameShot == [a \in ThreeAttempts |-> s1]
ThirdUnmanaged == {a3}
================================================================================
