-------------------------------- MODULE MCStudio --------------------------------
(* An instance of WorkflowStudio for TLC: two clients with equal parts. *)
EXTENDS WorkflowStudio, TLC

Interchangeable == Permutations(Clients)
================================================================================
