-------------------------- MODULE MC_SessionTable ---------------------------
(***************************************************************************)
(* Instances of SessionTable for TLC.  Slaves are interchangeable.         *)
(***************************************************************************)
EXTENDS SessionTable, TLC

SlaveSymmetry == Permutations(Slaves)
=============================================================================
