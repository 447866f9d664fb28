--------------------------- MODULE MC_SyncPairing ---------------------------
(* TLC instances of SyncPairing: three sequence numbers, beginning with the  *)
(* last of them, so that they wrap within two messages.                      *)
EXTENDS SyncPairing

=============================================================================
