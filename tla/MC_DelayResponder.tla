------------------------- MODULE MC_DelayResponder --------------------------
(***************************************************************************)
(* Instance of DelayResponder for TLC: the constants are in the cfg.       *)
(***************************************************************************)
EXTENDS DelayResponder

=============================================================================
