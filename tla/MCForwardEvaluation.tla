-------------------------- MODULE MCForwardEvaluation --------------------------
(* Instances of ForwardEvaluation for TLC. *)
EXTENDS ForwardEvaluation, TLC

Symmetry == Permutations(Assignments) \cup Permutations(Portfolios)
                \cup Permutations(Workers) \cup Permutations(Requests)
=============================================================================
