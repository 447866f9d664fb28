--------------------------- MODULE MC_UnicastSession ---------------------------
(* TLC instances of UnicastSession: every tick of a wait is a tick of the     *)
(* model, the contract lasts a dozen of them.                                 *)
EXTENDS UnicastSession

================================================================================
