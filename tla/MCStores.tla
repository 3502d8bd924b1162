-------------------------------- MODULE MCStores --------------------------------
(* Instances of Stores for TLC. *)
EXTENDS Stores

SomeSessions ==
  {<<"projects", 4>>, <<"attempts", 2>>, <<"queue", 3>>, <<"records", 3>>, <<"drafts", 3>>,
   <<"revisions", 3>>, <<"advice", 4>>, <<"keys", 4>>}
================================================================================
