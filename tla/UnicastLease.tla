---------------------------- MODULE UnicastLease ----------------------------
(***************************************************************************)
(* What a unicast session promises about one service, without requests,   *)
(* retries and threads: a lease.  The grandmaster serves the client for    *)
(* some time; the client relies on it for no longer than that, and lets    *)
(* go before it gives the lease back.  Module UnicastSession implements    *)
(* it as long as nothing is denied.                                        *)
(***************************************************************************)
EXTENDS Integers

CONSTANT Term   \* ticks a lease may last

VARIABLES
  served,   \* ticks the grandmaster still serves the client
  relied    \* ticks the client still relies on it

lease == <<served, relied>>

Down(n) == IF n > 0 THEN n - 1 ELSE n

\* The grandmaster grants a new term, which the client may not know yet.
Extend == served' = Term /\ UNCHANGED relied

\* The client learns of a grant, and counts on what it has been granted at most.
Rely == relied' \in 0..served /\ UNCHANGED served

LetGo == relied' = 0 /\ UNCHANGED served

\* Only a client that relies on nothing gives the lease back.
GiveBack == relied = 0 /\ served' = 0 /\ UNCHANGED relied

Pass == served' = Down(served) /\ relied' = Down(relied)

Init == served = 0 /\ relied = 0

Next == Extend \/ Rely \/ LetGo \/ GiveBack \/ Pass

Spec == Init /\ [][Next]_lease

LeaseTypeOK == served \in 0..Term /\ relied \in 0..Term

\* The client never relies on a service longer than it is served.
NeverOverrelied == relied <= served

=============================================================================
