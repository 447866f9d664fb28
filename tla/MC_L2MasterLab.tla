--------------------------- MODULE MC_L2MasterLab ---------------------------
(* TLC instance of L2MasterLab: the constants are in the cfg.                *)
EXTENDS L2MasterLab

=============================================================================
