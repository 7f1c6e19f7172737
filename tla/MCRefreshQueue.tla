---------------------------- MODULE MCRefreshQueue ----------------------------
(* Instances of RefreshQueue for TLC: the model values are given by the cfg.  *)
EXTENDS RefreshQueue
=============================================================================
