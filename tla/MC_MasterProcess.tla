-------------------------- MODULE MC_MasterProcess --------------------------
(* TLC instance of MasterProcess: the constant is in the cfg.                *)
EXTENDS MasterProcess

=============================================================================
