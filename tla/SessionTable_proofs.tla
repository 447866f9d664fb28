------------------------- MODULE SessionTable_proofs ------------------------
(***************************************************************************)
(* Theorems about SessionTable, for every set of slaves, every table size, *)
(* rate, resolution and timeout.                                           *)
(***************************************************************************)
EXTENDS SessionTable, FiniteSetTheorems, TLAPS

\* The table always has room for at least one session: max_slaves is clamped.
LEMMA LimitPositive == Limit \in Nat /\ Limit >= 1
  BY SessionAssumption DEF Limit

\* A bucket holds at least the price of one response.
LEMMA CapacityType == Capacity \in Nat /\ Capacity >= TicksPerSec
<1>1. CASE Rate > 1
  <2>1. Capacity = Rate * TicksPerSec
    BY <1>1 DEF Capacity
  <2>2. Rate * TicksPerSec = TicksPerSec + (Rate - 1) * TicksPerSec
    BY SessionAssumption
  <2>3. (Rate - 1) * TicksPerSec \in Nat
    BY <1>1, SessionAssumption
  <2> QED
    BY <2>1, <2>2, <2>3, SessionAssumption
<1>2. CASE ~(Rate > 1)
  BY <1>2, SessionAssumption DEF Capacity
<1> QED
  BY <1>1, <1>2

\* Refilling a bucket keeps it between what it held and its capacity.
LEMMA RefillBounds ==
  ASSUME NEW s \in Session, NEW t \in Nat,
         s.tokens <= Capacity, s.token_ts <= t
  PROVE  /\ Refill(s, t) \in Nat
         /\ Refill(s, t) <= Capacity
<1> DEFINE gain == (t - s.token_ts) * Rate
<1>1. gain \in Nat
  <2>1. t - s.token_ts \in Nat
    BY DEF Session
  <2> QED
    BY <2>1, SessionAssumption
<1>2. s.tokens \in Nat
  BY DEF Session
<1> HIDE DEF gain
<1>3. Refill(s, t) = IF s.token_ts = 0 THEN Capacity
                     ELSE IF s.tokens + gain < Capacity
                          THEN s.tokens + gain ELSE Capacity
  BY DEF Refill, gain
<1> QED
  BY <1>1, <1>2, <1>3, CapacityType

\* Charging a bucket keeps it a bucket of the same session.
LEMMA ChargeType ==
  ASSUME NEW s \in Session, NEW t \in Nat,
         s.tokens <= Capacity, s.token_ts <= t
  PROVE  /\ Charge(s, t) \in Session
         /\ Charge(s, t).tokens <= Capacity
         /\ Charge(s, t).token_ts <= t
         /\ Charge(s, t).last_seen = s.last_seen
         /\ Charge(s, t).since = s.since
         /\ Charge(s, t).delay_req_count = s.delay_req_count
         /\ Charge(s, t).delay_resp_dropped = s.delay_resp_dropped
<1>1. CASE Rate = 0
  BY <1>1 DEF Charge
<1>2. CASE Rate # 0
  <2> DEFINE left == IF Refill(s, t) >= TicksPerSec
                     THEN Refill(s, t) - TicksPerSec ELSE Refill(s, t)
  <2>1. left \in Nat /\ left <= Capacity
    BY RefillBounds, SessionAssumption, CapacityType
  <2> HIDE DEF left
  <2>2. Charge(s, t) = [s EXCEPT !.tokens = left, !.token_ts = t]
    BY <1>2 DEF Charge, left
  <2>3. t \in Nat /\ [s EXCEPT !.tokens = left, !.token_ts = t] \in Session
    BY <2>1 DEF Session
  <2>4. /\ Charge(s, t).tokens = left /\ Charge(s, t).token_ts = t
        /\ Charge(s, t).last_seen = s.last_seen
        /\ Charge(s, t).since = s.since
        /\ Charge(s, t).delay_req_count = s.delay_req_count
        /\ Charge(s, t).delay_resp_dropped = s.delay_resp_dropped
    BY <2>2 DEF Session
  <2> QED
    BY <2>1, <2>2, <2>3, <2>4
<1> QED
  BY <1>1, <1>2

\* One more request leaves a session a session with a valid bucket.
LEMMA CountedType ==
  ASSUME NEW s \in Session, NEW t \in Nat,
         s.tokens <= Capacity, s.token_ts <= t
  PROVE  /\ Counted(s, t) \in Session
         /\ Counted(s, t).tokens <= Capacity
         /\ Counted(s, t).token_ts <= t
         /\ Counted(s, t).last_seen = s.last_seen
         /\ Counted(s, t).since = s.since
         /\ Counted(s, t).delay_req_count = s.delay_req_count + 1
         /\ Counted(s, t).delay_resp_dropped =
              IF Allows(s, t) THEN s.delay_resp_dropped ELSE s.delay_resp_dropped + 1
<1> DEFINE c == Charge(s, t)
           d == IF Allows(s, t) THEN c.delay_resp_dropped ELSE c.delay_resp_dropped + 1
<1>1. /\ c \in Session /\ c.tokens <= Capacity /\ c.token_ts <= t
      /\ c.last_seen = s.last_seen /\ c.since = s.since
      /\ c.delay_req_count = s.delay_req_count
      /\ c.delay_resp_dropped = s.delay_resp_dropped
  BY ChargeType
<1>2. Counted(s, t) = [c EXCEPT !.delay_req_count = c.delay_req_count + 1,
                               !.delay_resp_dropped = d]
  BY <1>1 DEF Counted, Session
<1> HIDE DEF c
<1>3. d \in Nat
  BY <1>1 DEF Session
<1> HIDE DEF d
<1>4. Counted(s, t) \in Session
  <2>1. c.delay_req_count + 1 \in Nat
    BY <1>1 DEF Session
  <2>2. [c EXCEPT !.delay_req_count = c.delay_req_count + 1,
                  !.delay_resp_dropped = d] \in Session
    BY <1>1, <1>3, <2>1 DEF Session
  <2> QED
    BY <1>2, <2>2
<1>5. /\ Counted(s, t).tokens = c.tokens
      /\ Counted(s, t).token_ts = c.token_ts
      /\ Counted(s, t).last_seen = c.last_seen
      /\ Counted(s, t).since = c.since
      /\ Counted(s, t).delay_req_count = c.delay_req_count + 1
      /\ Counted(s, t).delay_resp_dropped = d
  BY <1>1, <1>2, <1>3 DEF Session
<1> QED
  BY <1>1, <1>4, <1>5 DEF d

\* Making room only removes sessions, and removes none that is the caller's.
LEMMA RoomFacts ==
  ASSUME sessions \in [DOMAIN sessions -> Session],
         NEW k \in Slaves, NEW t \in Nat, NEW tbl \in Room(sessions, k, t)
  PROVE  /\ DOMAIN tbl \subseteq DOMAIN sessions
         /\ tbl \in [DOMAIN tbl -> Session]
         /\ \A j \in DOMAIN tbl : tbl[j] = sessions[j]
         /\ k \in DOMAIN tbl <=> k \in DOMAIN sessions
<1>1. CASE tbl = sessions
  BY <1>1
<1>2. ASSUME NEW gone \in Evictions(sessions, t), tbl = Without(sessions, gone),
             k \notin DOMAIN sessions
      PROVE  /\ DOMAIN tbl \subseteq DOMAIN sessions
             /\ tbl \in [DOMAIN tbl -> Session]
             /\ \A j \in DOMAIN tbl : tbl[j] = sessions[j]
             /\ k \in DOMAIN tbl <=> k \in DOMAIN sessions
  BY <1>2 DEF Without
<1> QED
  BY <1>1, <1>2 DEF Room

\* After making room the caller is in the table or there is a free place.
LEMMA RoomIsFree ==
  ASSUME sessions \in [DOMAIN sessions -> Session],
         IsFiniteSet(DOMAIN sessions), Cardinality(DOMAIN sessions) <= Limit,
         NEW k \in Slaves, NEW t \in Nat, NEW tbl \in Room(sessions, k, t)
  PROVE  /\ IsFiniteSet(DOMAIN tbl)
         /\ Cardinality(DOMAIN tbl) <= Limit
         /\ k \in DOMAIN tbl \/ Cardinality(DOMAIN tbl) < Limit
<1>1. CASE k \in DOMAIN sessions \/ Cardinality(DOMAIN sessions) < Limit
  <2>1. tbl = sessions
    BY <1>1 DEF Room
  <2> QED
    BY <2>1, <1>1
<1>2. CASE ~(k \in DOMAIN sessions \/ Cardinality(DOMAIN sessions) < Limit)
  <2>1. PICK gone \in Evictions(sessions, t) : tbl = Without(sessions, gone)
    BY <1>2 DEF Room
  <2>2. Cardinality(DOMAIN sessions) = Limit
    BY <1>2, LimitPositive, FS_CardinalityType
  <2>3. PICK e \in DOMAIN sessions : e \in gone
    BY <2>1 DEF Evictions, Aged, Oldest
  <2>4. DOMAIN tbl = DOMAIN sessions \ gone
    BY <2>1 DEF Without
  <2>5. DOMAIN tbl \in SUBSET DOMAIN sessions /\ DOMAIN tbl # DOMAIN sessions
    BY <2>3, <2>4
  <2>6. /\ IsFiniteSet(DOMAIN tbl)
        /\ Cardinality(DOMAIN tbl) <= Cardinality(DOMAIN sessions)
        /\ Cardinality(DOMAIN tbl) # Cardinality(DOMAIN sessions)
    BY <2>5, FS_Subset
  <2>7. Cardinality(DOMAIN tbl) \in Nat
    BY <2>6, FS_CardinalityType
  <2> QED
    BY <2>2, <2>6, <2>7, LimitPositive
<1> QED
  BY <1>1, <1>2


\* The session a request works on, refreshed or new, is a session with a
\* valid bucket.
LEMMA EntryType ==
  ASSUME TypeOK, NEW k \in Slaves, NEW mac \in Macs,
         NEW tbl \in Room(sessions, k, now)
  PROVE  /\ Entry(tbl, k, mac, now) \in Session
         /\ Entry(tbl, k, mac, now).tokens <= Capacity
         /\ Entry(tbl, k, mac, now).token_ts <= now
         /\ Entry(tbl, k, mac, now).last_seen = now
<1>1. CASE k \in DOMAIN tbl
  <2>1. tbl[k] = sessions[k] /\ k \in DOMAIN sessions /\ tbl[k] \in Session
    BY <1>1, RoomFacts DEF TypeOK
  <2>2. Entry(tbl, k, mac, now) = [tbl[k] EXCEPT !.last_seen = now, !.src_mac = mac]
    BY <1>1 DEF Entry
  <2> QED
    BY <2>1, <2>2 DEF TypeOK, Session
<1>2. CASE k \notin DOMAIN tbl
  <2>1. Entry(tbl, k, mac, now) = NewSession(k, mac, now)
    BY <1>2 DEF Entry
  <2>2. Len(grants[k]) \in Nat
    BY DEF TypeOK
  <2> QED
    BY <2>1, <2>2, CapacityType DEF NewSession, Session, TypeOK
<1> QED
  BY <1>1, <1>2

\* A request that is accepted keeps every variable in its type.
LEMMA AcceptType ==
  ASSUME TypeOK, NEW k \in Slaves, NEW mac \in Macs,
         NEW tbl \in Room(sessions, k, now), Accept(tbl, k, mac, now), UNCHANGED now
  PROVE  TypeOK'
<1> DEFINE s == Entry(tbl, k, mac, now)
           c == Counted(s, now)
<1>1. /\ c \in Session /\ c.tokens <= Capacity
      /\ c.token_ts <= now /\ c.last_seen = now
  BY EntryType, CountedType DEF TypeOK
<1>2. /\ sessions' = [j \in DOMAIN tbl \cup {k} |-> IF j = k THEN c ELSE tbl[j]]
      /\ verdict' \in Verdicts
      /\ grants' = IF Allows(s, now) THEN [grants EXCEPT ![k] = Append(@, now)] ELSE grants
      /\ overflow_count' = overflow_count
  BY DEF Accept, Verdicts
<1> HIDE DEF c, s
<1>3. /\ DOMAIN tbl \subseteq DOMAIN sessions
      /\ \A j \in DOMAIN tbl : tbl[j] = sessions[j] /\ tbl[j] \in Session
  BY RoomFacts DEF TypeOK
<1>4. /\ DOMAIN sessions' = DOMAIN tbl \cup {k}
      /\ \A j \in DOMAIN sessions' : sessions'[j] = IF j = k THEN c ELSE sessions[j]
      /\ sessions' \in [DOMAIN sessions' -> Session]
  BY <1>1, <1>2, <1>3
<1>5. DOMAIN sessions' \subseteq Slaves
  BY <1>3, <1>4 DEF TypeOK
<1>6. \A j \in DOMAIN sessions' : /\ sessions'[j].tokens <= Capacity
                                  /\ sessions'[j].token_ts <= now'
                                  /\ sessions'[j].last_seen <= now'
  BY <1>1, <1>3, <1>4 DEF TypeOK
<1>7. grants' \in [Slaves -> Seq(Nat)]
  BY <1>2 DEF TypeOK
<1> QED
  BY <1>2, <1>4, <1>5, <1>6, <1>7 DEF TypeOK

LEMMA InitTyped == Init => TypeOK
  BY DEF Init, TypeOK, Verdicts

LEMMA TypeStays == TypeOK /\ [Next]_vars => TypeOK'
<1> SUFFICES ASSUME TypeOK, [Next]_vars
             PROVE  TypeOK'
  OBVIOUS
<1>1. ASSUME NEW k \in Slaves, NEW mac \in Macs, RegisterOrTouch(k, mac)
      PROVE  TypeOK'
  <2>1. PICK tbl \in Room(sessions, k, now) :
           Overflow(tbl) \/ Accept(tbl, k, mac, now)
    BY <1>1 DEF RegisterOrTouch
  <2>2. now' = now
    BY <1>1 DEF RegisterOrTouch
  <2>3. CASE Overflow(tbl)
    BY <2>2, <2>3, RoomFacts DEF Overflow, TypeOK, Verdicts
  <2>4. CASE Accept(tbl, k, mac, now)
    BY <2>2, <2>4, AcceptType
  <2> QED
    BY <2>1, <2>3, <2>4
<1>2. ASSUME NEW k \in Slaves, MarkRespSent(k)
      PROVE  TypeOK'
  <2>1. CASE k \in DOMAIN sessions
    <3> DEFINE r == [sessions[k] EXCEPT !.delay_resp_sent = sessions[k].delay_resp_sent + 1]
    <3>1. sessions' = [sessions EXCEPT ![k] = r]
      BY <1>2, <2>1 DEF MarkRespSent
    <3>2. /\ r \in Session /\ r.tokens = sessions[k].tokens
          /\ r.token_ts = sessions[k].token_ts /\ r.last_seen = sessions[k].last_seen
      <4> DEFINE s == sessions[k]
      <4>1. s \in Session
        BY <2>1 DEF TypeOK
      <4> HIDE DEF s
      <4>2. /\ [s EXCEPT !.delay_resp_sent = s.delay_resp_sent + 1] \in Session
            /\ [s EXCEPT !.delay_resp_sent = s.delay_resp_sent + 1].tokens = s.tokens
            /\ [s EXCEPT !.delay_resp_sent = s.delay_resp_sent + 1].token_ts = s.token_ts
            /\ [s EXCEPT !.delay_resp_sent = s.delay_resp_sent + 1].last_seen = s.last_seen
        BY <4>1 DEF Session
      <4> QED
        BY <4>2 DEF s
    <3> HIDE DEF r
    <3>3. /\ DOMAIN sessions' = DOMAIN sessions
          /\ sessions' \in [DOMAIN sessions' -> Session]
      BY <3>1, <3>2 DEF TypeOK
    <3>4. \A j \in DOMAIN sessions : /\ sessions'[j].tokens = sessions[j].tokens
                                     /\ sessions'[j].token_ts = sessions[j].token_ts
                                     /\ sessions'[j].last_seen = sessions[j].last_seen
      BY <3>1, <3>2 DEF TypeOK
    <3> QED
      BY <1>2, <3>3, <3>4 DEF TypeOK, MarkRespSent
  <2>2. CASE k \notin DOMAIN sessions
    BY <1>2, <2>2 DEF TypeOK, MarkRespSent
  <2> QED
    BY <2>1, <2>2
<1>3. CASE AgeOut
  BY <1>3 DEF AgeOut, Without, TypeOK
<1>4. CASE Tick
  BY <1>4 DEF Tick, TypeOK, Session
<1>5. CASE UNCHANGED vars
  BY <1>5 DEF vars, TypeOK
<1> QED
  BY <1>1, <1>2, <1>3, <1>4, <1>5 DEF Next

\* TypeOK is an invariant: in particular no bucket ever overflows its
\* capacity or carries a stamp from the future.
THEOREM TypeCorrect == Spec => []TypeOK
  BY InitTyped, TypeStays, PTL DEF Spec


-----------------------------------------------------------------------------
\* The table never outgrows its limit and its overflow branch is dead code.
\* The invariant is inductive with TypeOK: an eviction always frees a place,
\* because an aged session or a least recently seen one always exists.
THEOREM AlwaysBounded == Spec => []TableBounded
<1>1. Init => TableBounded
  BY FS_EmptySet, LimitPositive DEF Init, TableBounded
<1>2. TypeOK /\ TableBounded /\ [Next]_vars => TableBounded'
  <2> SUFFICES ASSUME TypeOK, TableBounded, [Next]_vars
               PROVE  TableBounded'
    OBVIOUS
  <2>1. ASSUME NEW k \in Slaves, NEW mac \in Macs, RegisterOrTouch(k, mac)
        PROVE  TableBounded'
    <3>1. PICK tbl \in Room(sessions, k, now) :
             IF k \notin DOMAIN tbl /\ Cardinality(DOMAIN tbl) >= Limit
             THEN Overflow(tbl) ELSE Accept(tbl, k, mac, now)
      BY <2>1 DEF RegisterOrTouch
    <3>2. /\ IsFiniteSet(DOMAIN tbl)
          /\ Cardinality(DOMAIN tbl) <= Limit
          /\ k \in DOMAIN tbl \/ Cardinality(DOMAIN tbl) < Limit
      BY RoomIsFree DEF TypeOK, TableBounded
    <3>3. Cardinality(DOMAIN tbl) \in Nat
      BY <3>2, FS_CardinalityType
    <3>4. Accept(tbl, k, mac, now)
      BY <3>1, <3>2, <3>3, LimitPositive
    <3>5. DOMAIN sessions' = DOMAIN tbl \cup {k} /\ overflow_count' = overflow_count
      BY <3>4 DEF Accept
    <3>6. /\ IsFiniteSet(DOMAIN tbl \cup {k})
          /\ Cardinality(DOMAIN tbl \cup {k}) =
               IF k \in DOMAIN tbl THEN Cardinality(DOMAIN tbl)
                                   ELSE Cardinality(DOMAIN tbl) + 1
      BY <3>2, FS_AddElement
    <3> QED
      BY <3>2, <3>3, <3>5, <3>6, LimitPositive DEF TableBounded
  <2>2. ASSUME NEW k \in Slaves, MarkRespSent(k)
        PROVE  TableBounded'
    <3>1. DOMAIN sessions' = DOMAIN sessions /\ overflow_count' = overflow_count
      BY <2>2 DEF MarkRespSent, TypeOK
    <3> QED
      BY <3>1 DEF TableBounded
  <2>3. CASE AgeOut
    <3>1. /\ DOMAIN sessions' \in SUBSET DOMAIN sessions
          /\ overflow_count' = overflow_count
      BY <2>3 DEF AgeOut, Without
    <3>2. /\ IsFiniteSet(DOMAIN sessions')
          /\ Cardinality(DOMAIN sessions') <= Cardinality(DOMAIN sessions)
      BY <3>1, FS_Subset DEF TableBounded
    <3>3. Cardinality(DOMAIN sessions') \in Nat /\ Cardinality(DOMAIN sessions) \in Nat
      BY <3>2, FS_CardinalityType DEF TableBounded
    <3> QED
      BY <3>1, <3>2, <3>3, LimitPositive DEF TableBounded
  <2>4. CASE Tick
    BY <2>4 DEF Tick, TableBounded
  <2>5. CASE UNCHANGED vars
    BY <2>5 DEF vars, TableBounded
  <2> QED
    BY <2>1, <2>2, <2>3, <2>4, <2>5 DEF Next
<1> QED
  BY <1>1, <1>2, TypeCorrect, PTL DEF Spec

\* A live session is evicted only from a full table without aged sessions, and
\* then it is the only one to go and a least recently seen one.
THEOREM LiveSessionsAreKept == Spec => LiveSessionsStay
<1> DEFINE Kept == \A k \in DOMAIN sessions \ DOMAIN sessions' :
                     k \notin Aged(sessions, now) =>
                       /\ Cardinality(DOMAIN sessions) >= Limit
                       /\ Aged(sessions, now) = {}
                       /\ DOMAIN sessions \ DOMAIN sessions' = {k}
                       /\ \A j \in DOMAIN sessions :
                            sessions[k].last_seen <= sessions[j].last_seen
<1>1. TypeOK /\ TableBounded /\ [Next]_vars => [Kept]_vars
  <2> SUFFICES ASSUME TypeOK, TableBounded, Next
               PROVE  Kept
    BY DEF vars
  <2>1. ASSUME NEW k \in Slaves, NEW mac \in Macs, RegisterOrTouch(k, mac)
        PROVE  Kept
    <3>1. PICK tbl \in Room(sessions, k, now) :
             Overflow(tbl) \/ Accept(tbl, k, mac, now)
      BY <2>1 DEF RegisterOrTouch
    <3>2. DOMAIN tbl \subseteq DOMAIN sessions'
      BY <3>1 DEF Overflow, Accept
    <3>3. CASE tbl = sessions
      BY <3>2, <3>3
    <3>4. CASE tbl # sessions
      <4>1. PICK gone \in Evictions(sessions, now) : tbl = Without(sessions, gone)
        BY <3>4 DEF Room
      <4>2. ~(Cardinality(DOMAIN sessions) < Limit)
        BY <3>4 DEF Room
      <4>3. Cardinality(DOMAIN sessions) >= Limit
        BY <4>2, LimitPositive, FS_CardinalityType DEF TableBounded
      <4>4. DOMAIN sessions \ DOMAIN sessions' \subseteq gone
        BY <3>2, <4>1 DEF Without
      <4>5. CASE Aged(sessions, now) # {}
        BY <4>1, <4>4, <4>5 DEF Evictions
      <4>6. CASE Aged(sessions, now) = {}
        BY <4>1, <4>3, <4>4, <4>6 DEF Evictions, Oldest
      <4> QED
        BY <4>5, <4>6
    <3> QED
      BY <3>3, <3>4
  <2>2. ASSUME NEW k \in Slaves, MarkRespSent(k)
        PROVE  Kept
    BY <2>2 DEF MarkRespSent
  <2>3. CASE AgeOut
    BY <2>3 DEF AgeOut, Without
  <2>4. CASE Tick
    BY <2>4 DEF Tick
  <2> QED
    BY <2>1, <2>2, <2>3, <2>4 DEF Next
<1> QED
  BY <1>1, TypeCorrect, AlwaysBounded, PTL DEF Spec, LiveSessionsStay

-----------------------------------------------------------------------------
(***************************************************************************)
(* The rate limit over every window.                                       *)
(***************************************************************************)
\* What a bucket knows of the grants of its session: of those from the i-th on
\* it has been paid, and it holds no more than was in it and has been refilled.
Ledger(s, g) ==
  /\ s.since \in 0..Len(g)
  /\ s.token_ts = 0 => Len(g) = s.since
  /\ \A i \in s.since + 1..Len(g) :
       (Len(g) - i + 1) * TicksPerSec + s.tokens <= Capacity + Rate * (s.token_ts - g[i])

\* Window, of a history of grants.
Windows(g, first) ==
  \A j \in DOMAIN g : \A i \in first..j :
    (j - i + 1) * TicksPerSec <= Capacity + Rate * (g[j] - g[i])

RateInv ==
  Rate > 0 => \A k \in DOMAIN sessions : /\ Ledger(sessions[k], grants[k])
                                         /\ Windows(grants[k], sessions[k].since + 1)

LEMMA Distribute ==
  ASSUME NEW r \in Int, NEW a \in Int, NEW b \in Int, NEW c \in Int
  PROVE  /\ r * (a - b) + (c - a) * r = r * (c - b)
         /\ (a + 1) * r = a * r + r
  OBVIOUS

LEMMA Product ==
  ASSUME NEW a \in Int, NEW b \in Int
  PROVE  a * b \in Int
  OBVIOUS

\* Refilled, a bucket has still been paid for all the grants of its session.
LEMMA RefillPays ==
  ASSUME Rate > 0, NEW s \in Session, NEW g \in Seq(Nat), NEW t \in Nat,
         s.tokens <= Capacity, s.token_ts <= t, Ledger(s, g),
         NEW i \in s.since + 1..Len(g)
  PROVE  (Len(g) - i + 1) * TicksPerSec + Refill(s, t) <= Capacity + Rate * (t - g[i])
<1>1. /\ s.token_ts # 0 /\ i \in DOMAIN g /\ g[i] \in Nat /\ i \in Nat
      /\ s.tokens \in Nat /\ s.token_ts \in Nat /\ Len(g) \in Nat /\ s.since \in Nat
  BY DEF Ledger, Session
<1> DEFINE price == (Len(g) - i + 1) * TicksPerSec
           gain == (t - s.token_ts) * Rate
           till == Rate * (s.token_ts - g[i])
           now2 == Rate * (t - g[i])
<1>2. price + s.tokens <= Capacity + till
  BY DEF Ledger
<1>3. till + gain = now2 /\ price \in Int /\ gain \in Int /\ till \in Int /\ now2 \in Int
  <2>1. /\ Rate \in Int /\ TicksPerSec \in Int /\ s.token_ts \in Int /\ g[i] \in Int
        /\ t \in Int /\ Len(g) - i + 1 \in Int
        /\ t - s.token_ts \in Int /\ s.token_ts - g[i] \in Int /\ t - g[i] \in Int
    BY <1>1, SessionAssumption
  <2>2. price \in Int /\ gain \in Int /\ till \in Int /\ now2 \in Int
    BY <2>1, Product
  <2>3. till + gain = now2
    <3> DEFINE a == s.token_ts
               b == g[i]
    <3>1. Rate \in Int /\ a \in Int /\ b \in Int
      BY <2>1
    <3> HIDE DEF a, b
    <3>2. Rate * (a - b) + (t - a) * Rate = Rate * (t - b)
      BY <3>1, Distribute
    <3> QED
      BY <3>2 DEF a, b
  <2> QED
    BY <2>2, <2>3
<1>4. Refill(s, t) = IF s.tokens + gain < Capacity THEN s.tokens + gain ELSE Capacity
  BY <1>1 DEF Refill
<1> HIDE DEF price, gain, till, now2
<1>5. price + Refill(s, t) <= Capacity + now2
  BY <1>1, <1>2, <1>3, <1>4, CapacityType
<1> QED
  BY <1>5 DEF price, now2

LEMMA ChargePays ==
  ASSUME Rate > 0, NEW s \in Session, NEW g \in Seq(Nat), NEW t \in Nat \ {0},
         s.tokens <= Capacity, s.token_ts <= t,
         Ledger(s, g), Windows(g, s.since + 1),
         NEW c, c.since = s.since, c.tokens = Charge(s, t).tokens, c.token_ts = t,
         NEW h, h = IF Allows(s, t) THEN Append(g, t) ELSE g
  PROVE  Ledger(c, h) /\ Windows(h, c.since + 1)
<1> DEFINE full == Refill(s, t)
<1>1. /\ full \in Nat /\ full <= Capacity /\ Len(g) \in Nat /\ s.since \in 0..Len(g)
      /\ \A i \in DOMAIN g : g[i] \in Nat
      /\ DOMAIN g = 1..Len(g)
  BY RefillBounds DEF Ledger
<1>2. ASSUME NEW i \in s.since + 1..Len(g)
      PROVE  (Len(g) - i + 1) * TicksPerSec + full <= Capacity + Rate * (t - g[i])
  BY RefillPays
<1>3. c.tokens = IF full >= TicksPerSec THEN full - TicksPerSec ELSE full
  BY SessionAssumption DEF Charge, Session
<1>4. Allows(s, t) <=> full >= TicksPerSec
  BY SessionAssumption DEF Allows
<1> HIDE DEF full
<1>5. CASE ~Allows(s, t)
  <2>1. h = g /\ c.tokens = full
    BY <1>3, <1>4, <1>5
  <2>2. Ledger(c, h)
    BY <1>1, <1>2, <2>1 DEF Ledger
  <2> QED
    BY <2>1, <2>2
<1>6. CASE Allows(s, t)
  <2> DEFINE L == Len(g)
  <2>1. h = Append(g, t) /\ c.tokens = full - TicksPerSec /\ full >= TicksPerSec
    BY <1>3, <1>4, <1>6
  <2>2. /\ Len(h) = L + 1 /\ h[L + 1] = t /\ DOMAIN h = 1..L + 1
        /\ \A i \in 1..L : h[i] = g[i]
    BY <1>1, <2>1
  <2>3. ASSUME NEW i \in s.since + 1..L + 1
        PROVE  (L + 1 - i + 1) * TicksPerSec + c.tokens <= Capacity + Rate * (t - h[i])
    <3>1. CASE i = L + 1
      <4>1. Rate * (t - h[i]) = 0 /\ (L + 1 - i + 1) * TicksPerSec = TicksPerSec
        BY <3>1, <1>1, <2>2, SessionAssumption
      <4> QED
        BY <4>1, <1>1, <2>1, CapacityType, SessionAssumption
    <3>2. CASE i # L + 1
      <4>1. i \in s.since + 1..L /\ i \in 1..L /\ i \in Nat
        BY <3>2, <1>1
      <4> DEFINE price == (L - i + 1) * TicksPerSec
                 more == Rate * (t - g[i])
      <4>2. price + full <= Capacity + more
        BY <4>1, <1>2
      <4>3. (L + 1 - i + 1) * TicksPerSec = price + TicksPerSec /\ price \in Int
        <5>1. L + 1 - i + 1 = (L - i + 1) + 1 /\ L - i + 1 \in Int
          BY <4>1, <1>1
        <5> QED
          BY <5>1, SessionAssumption, Distribute
      <4>4. Rate * (t - h[i]) = more /\ more \in Int
        <5>1. t - g[i] \in Int /\ h[i] = g[i] /\ Rate \in Int
          BY <4>1, <1>1, <2>2, SessionAssumption
        <5>2. Rate * (t - g[i]) \in Int
          BY <5>1, Product
        <5> QED
          BY <5>1, <5>2
      <4> HIDE DEF price, more
      <4> QED
        BY <4>2, <4>3, <4>4, <1>1, <2>1, CapacityType, SessionAssumption
    <3> QED
      BY <3>1, <3>2
  <2>4. Ledger(c, h)
    BY <1>1, <2>2, <2>3 DEF Ledger
  <2>5. ASSUME NEW j \in DOMAIN h, NEW i \in s.since + 1..j
        PROVE  (j - i + 1) * TicksPerSec <= Capacity + Rate * (h[j] - h[i])
    <3>1. CASE j = L + 1
      <4>1. c.tokens \in Nat /\ h[j] = t
        BY <3>1, <1>1, <2>1, <2>2, SessionAssumption
      <4> DEFINE price == (j - i + 1) * TicksPerSec
                 more == Rate * (h[j] - h[i])
      <4>2. price + c.tokens <= Capacity + more
        <5>1. i \in s.since + 1..L + 1 /\ t = h[j] /\ L + 1 = j
          BY <3>1, <4>1
        <5>2. (L + 1 - i + 1) * TicksPerSec + c.tokens <= Capacity + Rate * (t - h[i])
          BY <2>3, <5>1
        <5> DEFINE price2 == (L + 1 - i + 1) * TicksPerSec
                   more2 == Rate * (t - h[i])
        <5>3. price2 = price /\ more2 = more
          <6>1. t - h[i] = h[j] - h[i]
            BY <5>1, Zenon
          <6>2. L + 1 - i + 1 = j - i + 1
            BY <3>1, <1>1
          <6> QED
            BY <6>1, <6>2, Zenon
        <5> HIDE DEF price, more, price2, more2
        <5>4. price2 + c.tokens <= Capacity + more2
          BY <5>2 DEF price2, more2
        <5> QED
          BY <5>3, <5>4
      <4>3. price \in Int /\ more \in Int
        <5>1. i \in Nat /\ i \in DOMAIN h /\ h[i] \in Nat
          BY <3>1, <1>1, <2>2
        <5>2. j - i + 1 \in Int /\ h[j] - h[i] \in Int /\ Rate \in Int /\ TicksPerSec \in Int
          BY <5>1, <3>1, <4>1, <1>1, SessionAssumption
        <5> QED
          BY <5>2, Product
      <4> HIDE DEF price, more
      <4>4. price <= Capacity + more
        BY <4>1, <4>2, <4>3, CapacityType
      <4> QED
        BY <4>4 DEF price, more
    <3>2. CASE j # L + 1
      <4>1. j \in DOMAIN g /\ i \in 1..L /\ j \in 1..L
        BY <3>2, <1>1, <2>2
      <4>2. h[j] = g[j] /\ h[i] = g[i]
        BY <4>1, <2>2
      <4> QED
        BY <4>1, <4>2 DEF Windows
    <3> QED
      BY <3>1, <3>2
  <2> QED
    BY <2>4, <2>5 DEF Windows
<1> QED
  BY <1>5, <1>6

\* A session that is new, or refreshed, is as before for the bucket.
LEMMA EntryPays ==
  ASSUME TypeOK, RateInv, Rate > 0, NEW k \in Slaves, NEW mac \in Macs,
         NEW tbl \in Room(sessions, k, now)
  PROVE  LET s == Entry(tbl, k, mac, now) IN
           Ledger(s, grants[k]) /\ Windows(grants[k], s.since + 1)
<1> DEFINE s == Entry(tbl, k, mac, now)
           g == grants[k]
<1>1. g \in Seq(Nat) /\ Len(g) \in Nat /\ DOMAIN g = 1..Len(g)
  BY DEF TypeOK
<1>2. CASE k \in DOMAIN tbl
  <2>1. tbl[k] = sessions[k] /\ k \in DOMAIN sessions /\ tbl[k] \in Session
    BY <1>2, RoomFacts DEF TypeOK
  <2>2. s.since = sessions[k].since /\ s.tokens = sessions[k].tokens
        /\ s.token_ts = sessions[k].token_ts
    BY <1>2, <2>1 DEF Entry, Session
  <2>3. Ledger(sessions[k], g) /\ Windows(g, sessions[k].since + 1)
    BY <2>1 DEF RateInv
  <2> QED
    BY <2>2, <2>3 DEF Ledger
<1>3. CASE k \notin DOMAIN tbl
  <2>1. s.since = Len(g) /\ s.tokens = 0 /\ s.token_ts = 0
    BY <1>3 DEF Entry, NewSession
  <2> QED
    BY <1>1, <2>1 DEF Ledger, Windows
<1> QED
  BY <1>2, <1>3

\* An accepted request keeps the books of its own session and touches no other.
LEMMA AcceptPays ==
  ASSUME TypeOK, RateInv, NEW k \in Slaves, NEW mac \in Macs,
         NEW tbl \in Room(sessions, k, now), Accept(tbl, k, mac, now)
  PROVE  RateInv'
<1> SUFFICES ASSUME Rate > 0
             PROVE  \A j \in DOMAIN sessions' :
                      /\ Ledger(sessions'[j], grants'[j])
                      /\ Windows(grants'[j], sessions'[j].since + 1)
  BY DEF RateInv, Ledger, Windows
<1> DEFINE s == Entry(tbl, k, mac, now)
           c == Counted(s, now)
           h == IF Allows(s, now) THEN Append(grants[k], now) ELSE grants[k]
<1>1. /\ s \in Session /\ s.tokens <= Capacity /\ s.token_ts <= now
      /\ Ledger(s, grants[k]) /\ Windows(grants[k], s.since + 1)
      /\ now \in Nat \ {0} /\ now \in Nat /\ grants[k] \in Seq(Nat)
  BY EntryType, EntryPays DEF TypeOK
<1>2. /\ sessions' = [j \in DOMAIN tbl \cup {k} |-> IF j = k THEN c ELSE tbl[j]]
      /\ grants' = [grants EXCEPT ![k] = h]
  BY DEF Accept, TypeOK
<1> HIDE DEF s
<1>3. c.since = s.since /\ c.tokens = Charge(s, now).tokens /\ c.token_ts = now
  <2>1. Charge(s, now) \in Session /\ Charge(s, now).since = s.since
    BY <1>1, ChargeType
  <2>2. Charge(s, now).token_ts = now
    BY <1>1 DEF Charge, Session
  <2> QED
    BY <2>1, <2>2 DEF Counted, Session
<1>4. Ledger(c, h) /\ Windows(h, c.since + 1)
  <2> HIDE DEF c
  <2> QED
    BY <1>1, <1>3, ChargePays
<1> HIDE DEF c, h
<1>5. ASSUME NEW j \in DOMAIN sessions'
      PROVE  Ledger(sessions'[j], grants'[j]) /\ Windows(grants'[j], sessions'[j].since + 1)
  <2>1. CASE j = k
    <3>1. sessions'[j] = c /\ grants'[j] = h
      BY <1>2, <2>1 DEF TypeOK
    <3> QED
      BY <3>1, <1>4
  <2>2. CASE j # k
    <3>1. j \in DOMAIN tbl /\ j \in DOMAIN sessions /\ tbl[j] = sessions[j]
      BY <1>2, <2>2, RoomFacts DEF TypeOK
    <3>2. sessions'[j] = sessions[j] /\ grants'[j] = grants[j]
      BY <1>2, <2>2, <3>1 DEF TypeOK
    <3> QED
      BY <3>1, <3>2 DEF RateInv
  <2> QED
    BY <2>1, <2>2
<1> QED
  BY <1>5

\* Where the buckets and the grants stay as they are, so do the books.
LEMMA SameBooks ==
  ASSUME RateInv, DOMAIN sessions' \subseteq DOMAIN sessions, grants' = grants,
         \A j \in DOMAIN sessions' : /\ sessions'[j].tokens = sessions[j].tokens
                                      /\ sessions'[j].token_ts = sessions[j].token_ts
                                      /\ sessions'[j].since = sessions[j].since
  PROVE  RateInv'
  BY DEF RateInv, Ledger, Windows

\* The rate limit as an observer of the wire measures it, over every window of
\* every session, for every rate and resolution of the clock: the bucket of
\* TokenBucket.allow() has been paid for each grant since any earlier one.
THEOREM RateAlwaysBounded == Spec => []SessionRateBound
<1>1. Init => RateInv
  BY DEF Init, RateInv
<1>2. TypeOK /\ RateInv /\ [Next]_vars => RateInv'
  <2> SUFFICES ASSUME TypeOK, RateInv, [Next]_vars
               PROVE  RateInv'
    OBVIOUS
  <2>1. ASSUME NEW k \in Slaves, NEW mac \in Macs, RegisterOrTouch(k, mac)
        PROVE  RateInv'
    <3>1. PICK tbl \in Room(sessions, k, now) :
             Overflow(tbl) \/ Accept(tbl, k, mac, now)
      BY <2>1 DEF RegisterOrTouch
    <3>2. CASE Overflow(tbl)
      BY <3>2, RoomFacts, SameBooks DEF Overflow, TypeOK
    <3>3. CASE Accept(tbl, k, mac, now)
      BY <3>3, AcceptPays
    <3> QED
      BY <3>1, <3>2, <3>3
  <2>2. ASSUME NEW k \in Slaves, MarkRespSent(k)
        PROVE  RateInv'
    <3>1. ASSUME NEW j \in DOMAIN sessions
          PROVE  /\ sessions'[j].tokens = sessions[j].tokens
                 /\ sessions'[j].token_ts = sessions[j].token_ts
                 /\ sessions'[j].since = sessions[j].since
      <4> DEFINE s == sessions[j]
      <4>1. s \in Session
        BY DEF TypeOK
      <4>2. sessions'[j] = s \/ sessions'[j] = [s EXCEPT !.delay_resp_sent = @ + 1]
        BY <2>2 DEF MarkRespSent, TypeOK
      <4> HIDE DEF s
      <4>3. /\ sessions'[j].tokens = s.tokens /\ sessions'[j].token_ts = s.token_ts
            /\ sessions'[j].since = s.since
        BY <4>1, <4>2 DEF Session
      <4> QED
        BY <4>3 DEF s
    <3>2. DOMAIN sessions' = DOMAIN sessions /\ grants' = grants
      BY <2>2 DEF MarkRespSent, TypeOK
    <3> QED
      BY <3>1, <3>2, SameBooks
  <2>3. CASE AgeOut
    BY <2>3, SameBooks DEF AgeOut, Without
  <2>4. CASE Tick
    BY <2>4, SameBooks DEF Tick
  <2>5. CASE UNCHANGED vars
    BY <2>5, SameBooks DEF vars
  <2> QED
    BY <2>1, <2>2, <2>3, <2>4, <2>5 DEF Next
<1>3. RateInv => SessionRateBound
  BY DEF RateInv, SessionRateBound, Windows, Window
<1> QED
  BY <1>1, <1>2, <1>3, TypeCorrect, PTL DEF Spec

=============================================================================
