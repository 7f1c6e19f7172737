--------------------------- MODULE MCIngestionQueue ---------------------------
(* Instances of IngestionQueue for TLC. *)
EXTENDS IngestionQueue, TLC

Symmetry == Permutations(Requests) \cup Permutations(Users)
                \cup Permutations(Instruments) \cup Permutations(Workers)
=============================================================================
