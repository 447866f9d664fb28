----------------------------- MODULE MC_TxLoop ------------------------------
(***************************************************************************)
(* Instances of TxLoop for TLC: a quarter of a second to a tick, so that   *)
(* log intervals -1 and 0 are 2 and 4 ticks, a wait lasts at most 2 and a  *)
(* backoff at least 3.                                                     *)
(***************************************************************************)
EXTENDS TxLoop

\* The defaults of the 1588v2 profile: Announce and Sync every second.
Defaults ==
  [log_announce_interval |-> 0, log_sync_interval |-> 0, two_step |-> TRUE,
   gap |-> 1]

\* What the profile admits of the log intervals that are whole numbers of ticks.
Logs == [announce |-> -2..1, sync |-> -2..1]

BothWays == {-4, 5}

Faster  == [log_sync_interval |-> -1]
OneStep == [two_step |-> FALSE]
Invalid == [log_sync_interval |-> 2, gap |-> -1]

Updates == {Faster, OneStep, Invalid}
=============================================================================
