--------------------------- MODULE MCBriefingPage ---------------------------
(* Instances of BriefingPage for TLC: the numbers are given by the cfg.      *)
EXTENDS BriefingPage
=============================================================================
