---------------------------- MODULE SessionTable ----------------------------
(***************************************************************************)
(* The slave session table of the layer-2 master                           *)
(* (ptp/l2master/session.py): a map from port identity to session with a   *)
(* capacity, eviction of the least recently seen session, ageing and a     *)
(* token bucket per session.                                               *)
(*                                                                         *)
(* Time is counted in ticks, TicksPerSec of them to a second.  Tokens are  *)
(* counted in 1/TicksPerSec of a token, so that one tick refills Rate      *)
(* units and one Delay_Req costs TicksPerSec units: the float arithmetic   *)
(* of the bucket becomes exact.                                            *)
(***************************************************************************)
EXTENDS Integers, FiniteSets, Sequences

CONSTANTS
  Slaves,       \* port identities (clock identity and port number)
  Macs,         \* source MAC addresses seen on the wire
  MaxSlaves,    \* max_slaves as configured
  Rate,         \* delay_resp_rate_limit in responses per second, 0 = unlimited
  TicksPerSec,  \* resolution of the clock
  Timeout,      \* session_timeout_sec, in ticks
  MaxTime,      \* bound: last tick of the clock
  MaxRequests   \* bound: requests per slave, and per session

ASSUME SessionAssumption ==
  /\ MaxSlaves \in Int
  /\ Rate \in Nat
  /\ TicksPerSec \in Nat \ {0}
  /\ Timeout \in Nat
  /\ MaxTime \in Nat
  /\ MaxRequests \in Nat

VARIABLES
  sessions,        \* _sessions: port identity -> session
  overflow_count,  \* overflow_count
  verdict,         \* what the last register_or_touch returned
  now,             \* the clock: the monotonic receive stamp of a frame
  grants           \* history: when each slave was allowed a Delay_Resp

vars == <<sessions, overflow_count, verdict, now, grants>>

(***************************************************************************)
(* A session.  "since" is history: the grants its slave had before this    *)
(* session existed.                                                        *)
(***************************************************************************)
Session == [src_mac: Macs, last_seen: Nat,
            delay_req_count: Nat, delay_resp_sent: Nat, delay_resp_dropped: Nat,
            tokens: Nat, token_ts: Nat, since: Nat]

Verdicts == {"idle", "allowed", "limited", "overflow"}

NewSession(k, mac, t) ==
  [src_mac |-> mac, last_seen |-> t,
   delay_req_count |-> 0, delay_resp_sent |-> 0, delay_resp_dropped |-> 0,
   tokens |-> 0, token_ts |-> 0, since |-> Len(grants[k])]

-----------------------------------------------------------------------------
(***************************************************************************)
(* TokenBucket.  A stamp of 0 marks a bucket never used: it is full.       *)
(***************************************************************************)
Capacity == (IF Rate > 1 THEN Rate ELSE 1) * TicksPerSec

\* Mutant of Refill: the bucket overflows.
RefillUncapped(s, t) ==
  IF s.token_ts = 0 THEN Capacity ELSE s.tokens + (t - s.token_ts) * Rate

Refill(s, t) ==
  IF s.token_ts = 0 THEN Capacity
  ELSE LET filled == s.tokens + (t - s.token_ts) * Rate
       IN  IF filled < Capacity THEN filled ELSE Capacity

Allows(s, t) == Rate = 0 \/ Refill(s, t) >= TicksPerSec

\* Mutant of Charge: the bucket is not stamped, so it stays full.
ChargeUnstamped(s, t) ==
  IF Rate > 0 /\ Allows(s, t) THEN [s EXCEPT !.tokens = Refill(s, t) - TicksPerSec] ELSE s

Charge(s, t) ==
  IF Rate = 0 THEN s
  ELSE [s EXCEPT !.tokens   = IF Refill(s, t) >= TicksPerSec
                              THEN Refill(s, t) - TicksPerSec ELSE Refill(s, t),
                 !.token_ts = t]

-----------------------------------------------------------------------------
(***************************************************************************)
(* SessionTable.                                                           *)
(***************************************************************************)
Limit == IF MaxSlaves > 1 THEN MaxSlaves ELSE 1

Aged(tbl, t) == {k \in DOMAIN tbl : t - tbl[k].last_seen > Timeout}

\* Mutant of Oldest: the most recently seen.
Newest(tbl) ==
  {k \in DOMAIN tbl : \A j \in DOMAIN tbl : tbl[k].last_seen >= tbl[j].last_seen}

Oldest(tbl) ==
  {k \in DOMAIN tbl : \A j \in DOMAIN tbl : tbl[k].last_seen <= tbl[j].last_seen}

Without(tbl, gone) == [k \in DOMAIN tbl \ gone |-> tbl[k]]

\* The sets of sessions _evict_oldest may remove: every aged one, or else one
\* of the least recently seen (of two seen at the same instant the code takes
\* the one registered first; here either may go).
Evictions(tbl, t) ==
  IF Aged(tbl, t) # {} THEN {Aged(tbl, t)} ELSE {{k} : k \in Oldest(tbl)}

\* Mutant of Room: one session too many.
RoomForOneMore(tbl, k, t) ==
  IF k \in DOMAIN tbl \/ Cardinality(DOMAIN tbl) <= Limit
  THEN {tbl}
  ELSE {Without(tbl, gone) : gone \in Evictions(tbl, t)}

\* The table register_or_touch works on once it has looked for room for k.
Room(tbl, k, t) ==
  IF k \in DOMAIN tbl \/ Cardinality(DOMAIN tbl) < Limit
  THEN {tbl}
  ELSE {Without(tbl, gone) : gone \in Evictions(tbl, t)}

\* The session of k in tbl, refreshed or new.
Entry(tbl, k, mac, t) ==
  IF k \in DOMAIN tbl
  THEN [tbl[k] EXCEPT !.last_seen = t, !.src_mac = mac]
  ELSE NewSession(k, mac, t)

\* One more request on session s, dropped if the bucket refuses it.
Counted(s, t) ==
  [Charge(s, t) EXCEPT !.delay_req_count = @ + 1,
                       !.delay_resp_dropped = IF Allows(s, t) THEN @ ELSE @ + 1]

Accept(tbl, k, mac, t) ==
  LET s == Entry(tbl, k, mac, t)
  IN  /\ sessions' = [j \in DOMAIN tbl \cup {k} |->
                        IF j = k THEN Counted(s, t) ELSE tbl[j]]
      /\ verdict' = IF Allows(s, t) THEN "allowed" ELSE "limited"
      /\ grants' = IF Allows(s, t) THEN [grants EXCEPT ![k] = Append(@, t)] ELSE grants
      /\ UNCHANGED overflow_count

\* The branch for a table that is still full after the eviction.
Overflow(tbl) ==
  /\ sessions' = tbl
  /\ overflow_count' = overflow_count + 1
  /\ verdict' = "overflow"
  /\ UNCHANGED grants

Bounded(k) ==
  /\ Len(grants[k]) < MaxRequests
  /\ k \in DOMAIN sessions => sessions[k].delay_req_count < MaxRequests

RegisterOrTouch(k, mac) ==
  /\ Bounded(k)
  /\ \E tbl \in Room(sessions, k, now) :
       IF k \notin DOMAIN tbl /\ Cardinality(DOMAIN tbl) >= Limit
       THEN Overflow(tbl)
       ELSE Accept(tbl, k, mac, now)
  /\ UNCHANGED now

\* A response to k went out; the session may be gone by now.
MarkRespSent(k) ==
  /\ sessions' = IF k \in DOMAIN sessions
                 THEN [sessions EXCEPT ![k].delay_resp_sent = @ + 1]
                 ELSE sessions
  /\ k \in DOMAIN sessions => sessions[k].delay_resp_sent < MaxRequests
  /\ UNCHANGED <<overflow_count, verdict, now, grants>>

AgeOut ==
  /\ Aged(sessions, now) # {}
  /\ sessions' = Without(sessions, Aged(sessions, now))
  /\ UNCHANGED <<overflow_count, verdict, now, grants>>

\* Time passes.
Tick ==
  /\ now < MaxTime
  /\ now' = now + 1
  /\ UNCHANGED <<sessions, overflow_count, verdict, grants>>

Init ==
  /\ sessions = << >>
  /\ overflow_count = 0
  /\ verdict = "idle"
  /\ now = 1
  /\ grants = [k \in Slaves |-> << >>]

Next ==
  \/ \E k \in Slaves, mac \in Macs : RegisterOrTouch(k, mac)
  \/ \E k \in Slaves : MarkRespSent(k)
  \/ AgeOut
  \/ Tick

Spec == Init /\ [][Next]_vars

-----------------------------------------------------------------------------
(***************************************************************************)
(* Properties                                                              *)
(***************************************************************************)

\* Every variable has its type, and a bucket never holds more than its
\* capacity nor is stamped in the future.
TypeOK ==
  /\ sessions \in [DOMAIN sessions -> Session]
  /\ DOMAIN sessions \subseteq Slaves
  /\ \A k \in DOMAIN sessions : /\ sessions[k].tokens <= Capacity
                                /\ sessions[k].token_ts <= now
                                /\ sessions[k].last_seen <= now
  /\ overflow_count \in Nat
  /\ verdict \in Verdicts
  /\ now \in Nat \ {0}
  /\ grants \in [Slaves -> Seq(Nat)]

\* The table never outgrows max_slaves (clamped to at least one), whatever
\* order slaves come, age and are evicted in, and since an eviction always
\* frees a place the overflow branch of register_or_touch is never taken.
TableBounded ==
  /\ IsFiniteSet(DOMAIN sessions)
  /\ Cardinality(DOMAIN sessions) <= Limit
  /\ overflow_count = 0

\* A session that is still live leaves the table only when the table is full,
\* no aged session could have gone in its place, and nobody in the table was
\* seen longer ago: the capacity rule of _evict_oldest as its callers see it.
LiveSessionsStay ==
  [][\A k \in DOMAIN sessions \ DOMAIN sessions' :
       k \notin Aged(sessions, now) =>
         /\ Cardinality(DOMAIN sessions) >= Limit
         /\ Aged(sessions, now) = {}
         /\ DOMAIN sessions \ DOMAIN sessions' = {k}
         /\ \A j \in DOMAIN sessions :
              sessions[k].last_seen <= sessions[j].last_seen]_vars

\* Whoever is granted a response within [g[i], g[j]] during one session gets
\* at most a bucketful plus what the bucket refills in that time: the rate
\* limit as an observer of the wire can measure it, over every window.
Window(k, first) ==
  \A j \in DOMAIN grants[k] : \A i \in first..j :
    (j - i + 1) * TicksPerSec <= Capacity + Rate * (grants[k][j] - grants[k][i])

SessionRateBound ==
  Rate > 0 => \A k \in DOMAIN sessions : Window(k, sessions[k].since + 1)
=============================================================================
