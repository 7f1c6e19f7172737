------------------------- MODULE MCIngestionAdmission -------------------------
(* Instances of IngestionAdmission for TLC. *)
EXTENDS IngestionAdmission, TLC

Symmetry == Permutations(Rows) \cup Permutations(Users)
                \cup Permutations(Instruments) \cup Permutations(Clients)
=============================================================================
