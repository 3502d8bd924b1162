----------------------------- MODULE MCIdempotency -----------------------------
(* Instances of Idempotency for TLC. *)
EXTENDS Idempotency

CONSTANTS h1, h2, h3, k1, create, window, session

ThreeHandlers == {h1, h2, h3}
OneKey == {k1}
OneMutation == {create}
TwoDigests == {window, session}
WithoutEnd == {session}
================================================================================
