----------------------------- MODULE MCQuantRuns -----------------------------
(* Instances of QuantRuns for TLC. *)
EXTENDS QuantRuns, TLC

MCCheckpoints == <<10, 95>>

Symmetry == Permutations(Runs) \cup Permutations(Workers) \cup Permutations(Clients)
=============================================================================
