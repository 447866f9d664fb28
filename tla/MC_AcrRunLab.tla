---------------------------- MODULE MC_AcrRunLab ----------------------------
(* TLC instance of AcrRunLab: the constants are in the cfg.                  *)
EXTENDS AcrRunLab

=============================================================================
