--------------------------- MODULE MCTestingFarm ---------------------------
(* Instances of TestingFarm for TLC. *)
EXTENDS TestingFarm

OneTarget == {1}

\* Bound: while a push is dispatched, only its pipeline can be made.
ShortDispatch ==
    \A p \in sending : p \notin sending' \/ batches'[p.batch].time # batches[p.batch].time

\* Bound: a comment is the last event.
LateComment == \A t \in tasks' : t.kind = "comment" => t.trigger = MaxTriggers

=============================================================================
