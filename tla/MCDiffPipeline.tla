--------------------------- MODULE MCDiffPipeline ---------------------------
(* Instance of DiffPipeline: two callers, a queue of one, batches of three,  *)
(* room for two completed keys, the fewest the assumption allows; three     *)
(* requests need Git, two of them in one project root, and one resolves     *)
(* directly, so that a batch is published out of its order and a full       *)
(* results channel still has a request waiting for it.                      *)
EXTENDS DiffPipeline

MCRequests ==
    {[key |-> "k1", direct |-> FALSE, root |-> "r"],
     [key |-> "k2", direct |-> TRUE,  root |-> "r"],
     [key |-> "k3", direct |-> FALSE, root |-> "q"],
     [key |-> "k4", direct |-> FALSE, root |-> "r"]}
=============================================================================
