----------------------------- MODULE MCCoprBuilds -----------------------------
(* Small instances of CoprBuilds for TLC. *)
EXTENDS CoprBuilds, TLC

CONSTANT MaxQueue   \* bound: messages that wait for a worker

Symmetry == Permutations(Workers) \cup Permutations(Chroots)

ShortQueue == Cardinality(queue) <= MaxQueue
=============================================================================
