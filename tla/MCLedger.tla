------------------------------- MODULE MCLedger --------------------------------
(* Instances of ProjectLedger for TLC. *)
EXTENDS ProjectLedger, TLC

CONSTANTS c1, c2

OneClient == {c1}
TwoClients == {c1, c2}
AnyClient == Permutations(Client)
================================================================================
