------------------------ MODULE DelayResponder_proofs ------------------------
(***************************************************************************)
(* Theorems about DelayResponder, for any number of slaves, frames and     *)
(* places in the queue.  The books of the threads do not depend on what    *)
(* the session table does; that it keeps within its limits is taken over   *)
(* from the theorems about SessionTable.                                   *)
(***************************************************************************)
EXTENDS DelayResponder, TLAPS

Busy == {"count", "refuse", "put", "full"}

\* Where a sender has a context that no counter shows yet.
Inside == {"send", "sending", "sent", "failed"}

PlacesOf(t) == IF t = "resp" THEN Places.resp ELSE Places.main

AllPlaces == Places.resp \cup Places.main

RxTyped ==
  /\ rx \in [pc: RxPlaces, item: Item \cup {NoItem}]
  /\ rx.pc \in Busy => rx.item \in Item
  /\ frames \in 0..MaxFrames

SendersTyped ==
  /\ sender \in [Threads -> [pc: AllPlaces, item: Item \cup {NoItem}]]
  /\ \A t \in Threads : /\ sender[t].pc \in PlacesOf(t)
                        /\ sender[t].pc \in SendPlaces => sender[t].item \in Item

\* The threads' part of TypeOK, and that nothing runs before start().
Threading ==
  /\ stats \in [Counters -> Nat]
  /\ queue \in Seq(Item)
  /\ abandoned \in Nat
  /\ RxTyped
  /\ SendersTyped
  /\ sender["main"].pc = "init" => rx.pc = "init" /\ sender["resp"].pc = "init"

BooksInv == Threading /\ RequestsAccounted

\* The requests that are settled, queued or abandoned: all but those in hand.
Settled == stats["delay_resp_sent"] + stats["delay_resp_dropped"] + stats["session_overflow"]
             + Len(queue) + abandoned

-----------------------------------------------------------------------------
(***************************************************************************)
(* What the helpers of the model do.                                       *)
(***************************************************************************)
\* A bump adds one to one counter.
LEMMA BumpFacts ==
  ASSUME stats \in [Counters -> Nat], NEW c \in Counters, Bump(c)
  PROVE  /\ stats' \in [Counters -> Nat]
         /\ \A d \in Counters : stats'[d] = IF d = c THEN stats[d] + 1 ELSE stats[d]
  BY DEF Bump

\* RX goes on to another place with the request it has, or drops it.
LEMMA RxGoFacts ==
  ASSUME RxTyped, NEW p \in RxPlaces, p \in Busy => rx.item \in Item, RxGo(p),
         UNCHANGED frames
  PROVE  RxTyped' /\ rx'.pc = p
  BY DEF RxTyped, RxGo

LEMMA RxDoneFacts ==
  ASSUME RxTyped, RxDone, frames' \in 0..MaxFrames
  PROVE  RxTyped' /\ rx'.pc = "top"
  BY DEF RxTyped, RxDone, RxPlaces, Busy

\* What a sender holds, as InHand counts it, when one of them moves.
Hand(t) == One(sender[t].pc \in Inside)

Moved(t, p) ==
  /\ SendersTyped'
  /\ sender'[t].pc = p
  /\ \A u \in Threads \ {t} : sender'[u] = sender[u]

LEMMA SenderGoFacts ==
  ASSUME SendersTyped, NEW t \in Threads, NEW p \in PlacesOf(t),
         p \in SendPlaces => sender[t].item \in Item, SenderGo(t, p)
  PROVE  Moved(t, p)
<1>1. p \in AllPlaces
  BY DEF PlacesOf, AllPlaces
<1>2. sender' = [sender EXCEPT ![t] = [sender[t] EXCEPT !.pc = p]]
  BY DEF SenderGo
<1>3. [sender[t] EXCEPT !.pc = p] \in [pc: AllPlaces, item: Item \cup {NoItem}]
  BY <1>1 DEF SendersTyped
<1>4. sender' \in [Threads -> [pc: AllPlaces, item: Item \cup {NoItem}]]
  BY <1>2, <1>3 DEF SendersTyped
<1>5. sender'[t].pc = p /\ sender'[t].item = sender[t].item
  BY <1>2 DEF SendersTyped
<1>6. \A u \in Threads \ {t} : sender'[u] = sender[u]
  BY <1>2 DEF SendersTyped
<1> QED
  BY <1>4, <1>5, <1>6 DEF SendersTyped, Moved

\* A thread that is given a context, or gives it up.
LEMMA SenderSetFacts ==
  ASSUME SendersTyped, NEW t \in Threads, NEW p \in PlacesOf(t),
         NEW item \in Item \cup {NoItem}, p \in SendPlaces => item \in Item,
         sender' = [sender EXCEPT ![t] = [pc |-> p, item |-> item]]
  PROVE  Moved(t, p)
<1>1. p \in AllPlaces
  BY DEF PlacesOf, AllPlaces
<1>2. [pc |-> p, item |-> item] \in [pc: AllPlaces, item: Item \cup {NoItem}]
  BY <1>1
<1>3. sender' \in [Threads -> [pc: AllPlaces, item: Item \cup {NoItem}]]
  BY <1>2 DEF SendersTyped
<1>4. sender'[t].pc = p /\ sender'[t].item = item
  BY <1>2 DEF SendersTyped
<1>5. \A u \in Threads \ {t} : sender'[u] = sender[u]
  BY DEF SendersTyped
<1> QED
  BY <1>3, <1>4, <1>5 DEF SendersTyped, Moved

LEMMA SenderDoneFacts ==
  ASSUME SendersTyped, NEW t \in Threads, SenderDone(t)
  PROVE  Moved(t, IF t = "resp" THEN "top" ELSE "drain")
<1> DEFINE p == IF t = "resp" THEN "top" ELSE "drain"
<1>1. p \in PlacesOf(t) /\ p \notin SendPlaces
  BY DEF PlacesOf, Places, SendPlaces
<1>2. sender' = [sender EXCEPT ![t] = [pc |-> p, item |-> NoItem]]
  BY DEF SenderDone
<1> HIDE DEF p
<1>3. Moved(t, p)
  BY <1>1, <1>2, SenderSetFacts
<1> QED
  BY <1>3 DEF p

LEMMA TakeFacts ==
  ASSUME SendersTyped, queue \in Seq(Item), NEW t \in Threads, Take(t)
  PROVE  Moved(t, "send") /\ queue' \in Seq(Item) /\ Len(queue') = Len(queue) - 1
<1>1. Head(queue) \in Item /\ queue' \in Seq(Item) /\ Len(queue') = Len(queue) - 1
  BY DEF Take
<1>2. "send" \in PlacesOf(t)
  BY DEF PlacesOf, Places, SendPlaces
<1>3. sender' = [sender EXCEPT ![t] = [pc |-> "send", item |-> Head(queue)]]
  BY DEF Take
<1> QED
  BY <1>1, <1>2, <1>3, SenderSetFacts

\* The books in two sums.
LEMMA Terms ==
  ASSUME Threading
  PROVE  /\ stats["delay_resp_sent"] \in Nat /\ stats["delay_resp_dropped"] \in Nat
         /\ stats["session_overflow"] \in Nat /\ stats["delay_req_recv"] \in Nat
         /\ Len(queue) \in Nat /\ abandoned \in Nat
  BY DEF Threading, Counters

LEMMA Books ==
  ASSUME Threading
  PROVE  /\ Settled \in Nat /\ InHand \in Nat /\ stats["delay_req_recv"] \in Nat
         /\ RequestsAccounted <=> stats["delay_req_recv"] = Settled + InHand
<1>1. /\ stats["delay_resp_sent"] \in Nat /\ stats["delay_resp_dropped"] \in Nat
      /\ stats["session_overflow"] \in Nat /\ stats["delay_req_recv"] \in Nat
      /\ Len(queue) \in Nat /\ abandoned \in Nat
  BY Terms
<1>2. InHand \in Nat
  BY DEF InHand, One
<1>3. Settled \in Nat
  BY <1>1 DEF Settled
<1>4. RequestsAccounted => stats["delay_req_recv"] = Settled + InHand
  BY <1>1, <1>2 DEF Settled, RequestsAccounted
<1>5. stats["delay_req_recv"] = Settled + InHand => RequestsAccounted
  BY <1>1, <1>2 DEF Settled, RequestsAccounted
<1> QED
  BY <1>1, <1>2, <1>3, <1>4, <1>5

\* A step balances if what it adds to the requests received is settled or in hand.
LEMMA Balanced ==
  ASSUME BooksInv, Threading',
         stats'["delay_req_recv"] - stats["delay_req_recv"]
           = (Settled' - Settled) + (InHand' - InHand)
  PROVE  BooksInv'
<1>1. /\ Settled \in Nat /\ InHand \in Nat /\ stats["delay_req_recv"] \in Nat
      /\ stats["delay_req_recv"] = Settled + InHand
  BY Books DEF BooksInv
<1>2. /\ stats'["delay_resp_sent"] \in Nat /\ stats'["delay_resp_dropped"] \in Nat
      /\ stats'["session_overflow"] \in Nat /\ stats'["delay_req_recv"] \in Nat
      /\ Len(queue') \in Nat /\ abandoned' \in Nat
  BY DEF Threading, Counters
<1>3. InHand' \in Nat
  BY DEF InHand, One
<1>4. stats'["delay_req_recv"] = Settled' + InHand' => RequestsAccounted'
  BY <1>2, <1>3 DEF Settled, RequestsAccounted
<1>5. Settled' \in Nat /\ stats'["delay_req_recv"] \in Nat
  BY <1>2 DEF Settled
<1>6. stats'["delay_req_recv"] = Settled' + InHand'
  BY <1>1, <1>3, <1>5
<1> QED
  BY <1>4, <1>6 DEF BooksInv

\* One more in any term of a sum is one more in the sum.
LEMMA AddOne ==
  ASSUME NEW a \in Nat, NEW b \in Nat, NEW d \in Nat
  PROVE  /\ (a + 1) + b + d = (a + b + d) + 1
         /\ a + (b + 1) + d = (a + b + d) + 1
         /\ a + b + (d + 1) = (a + b + d) + 1
  OBVIOUS

\* A bump of a counter that settles a request, and of any other.
LEMMA BumpSettles ==
  ASSUME stats \in [Counters -> Nat], queue \in Seq(Item), abandoned \in Nat,
         NEW c \in Counters, Bump(c), UNCHANGED <<queue, abandoned>>
  PROVE  /\ stats' \in [Counters -> Nat]
         /\ stats'["delay_req_recv"] = IF c = "delay_req_recv"
              THEN stats["delay_req_recv"] + 1 ELSE stats["delay_req_recv"]
         /\ Settled' = IF c \in {"delay_resp_sent", "delay_resp_dropped", "session_overflow"}
                       THEN Settled + 1 ELSE Settled
<1> DEFINE rest == Len(queue) + abandoned
           total(s) == s["delay_resp_sent"] + s["delay_resp_dropped"] + s["session_overflow"]
<1>1. /\ stats' \in [Counters -> Nat]
      /\ \A d \in Counters : stats'[d] = IF d = c THEN stats[d] + 1 ELSE stats[d]
  BY BumpFacts
<1>2. /\ stats["delay_resp_sent"] \in Nat /\ stats["delay_resp_dropped"] \in Nat
      /\ stats["session_overflow"] \in Nat
  BY DEF Counters
<1> DEFINE inc(d) == IF d = c THEN stats[d] + 1 ELSE stats[d]
<1>3. total(stats') = IF c \in {"delay_resp_sent", "delay_resp_dropped", "session_overflow"}
                      THEN total(stats) + 1 ELSE total(stats)
  <2>1. total(stats') = inc("delay_resp_sent") + inc("delay_resp_dropped")
                          + inc("session_overflow")
    BY <1>1 DEF Counters
  <2>2. CASE c = "delay_resp_sent"
    <3>1. /\ stats'["delay_resp_sent"] = stats["delay_resp_sent"] + 1
          /\ stats'["delay_resp_dropped"] = stats["delay_resp_dropped"]
          /\ stats'["session_overflow"] = stats["session_overflow"]
      BY <1>1, <2>2 DEF Counters
    <3> HIDE DEF inc, rest
    <3>2. total(stats') = total(stats) + 1
      BY <1>2, <3>1, AddOne
    <3> QED
      BY <2>2, <3>2
  <2>3. CASE c = "delay_resp_dropped"
    <3>1. /\ stats'["delay_resp_sent"] = stats["delay_resp_sent"]
          /\ stats'["delay_resp_dropped"] = stats["delay_resp_dropped"] + 1
          /\ stats'["session_overflow"] = stats["session_overflow"]
      BY <1>1, <2>3 DEF Counters
    <3> HIDE DEF inc, rest
    <3>2. total(stats') = total(stats) + 1
      BY <1>2, <3>1, AddOne
    <3> QED
      BY <2>3, <3>2
  <2>4. CASE c = "session_overflow"
    <3>1. /\ stats'["delay_resp_sent"] = stats["delay_resp_sent"]
          /\ stats'["delay_resp_dropped"] = stats["delay_resp_dropped"]
          /\ stats'["session_overflow"] = stats["session_overflow"] + 1
      BY <1>1, <2>4 DEF Counters
    <3> HIDE DEF inc, rest
    <3>2. total(stats') = total(stats) + 1
      BY <1>2, <3>1, AddOne
    <3> QED
      BY <2>4, <3>2
  <2>5. CASE c \notin {"delay_resp_sent", "delay_resp_dropped", "session_overflow"}
    BY <1>2, <2>1, <2>5
  <2> QED
    BY <2>2, <2>3, <2>4, <2>5
<1>4. total(stats) \in Nat /\ total(stats') \in Nat /\ Len(queue) \in Nat /\ rest \in Nat
  <2>1. total(stats) \in Nat
    BY <1>2
  <2>2. Len(queue) \in Nat /\ rest \in Nat
    OBVIOUS
  <2> HIDE DEF total
  <2> QED
    BY <1>3, <2>1, <2>2
<1>5. Settled = total(stats) + rest
  BY <1>2, <1>4 DEF Settled
<1>6. Settled' = total(stats') + rest
  <2>1. /\ stats'["delay_resp_sent"] \in Nat /\ stats'["delay_resp_dropped"] \in Nat
        /\ stats'["session_overflow"] \in Nat
    BY <1>1 DEF Counters
  <2> QED
    BY <1>4, <2>1 DEF Settled
<1>7. stats'["delay_req_recv"] = IF c = "delay_req_recv"
        THEN stats["delay_req_recv"] + 1 ELSE stats["delay_req_recv"]
  BY <1>1 DEF Counters
<1> HIDE DEF rest, total
<1> QED
  BY <1>1, <1>3, <1>4, <1>5, <1>6, <1>7

\* The queue grows or shrinks by one, or a request is abandoned.
LEMMA OneMoreSettled ==
  ASSUME stats \in [Counters -> Nat], abandoned \in Nat, queue \in Seq(Item),
         queue' \in Seq(Item), UNCHANGED stats
  PROVE  /\ UNCHANGED abandoned /\ Len(queue') = Len(queue) + 1 => Settled' = Settled + 1
         /\ UNCHANGED abandoned /\ Len(queue') = Len(queue) - 1 => Settled' = Settled - 1
         /\ UNCHANGED queue /\ abandoned' = abandoned + 1 => Settled' = Settled + 1
<1> DEFINE total == stats["delay_resp_sent"] + stats["delay_resp_dropped"]
                      + stats["session_overflow"]
           l == Len(queue)
           l1 == Len(queue')
<1>1. total \in Nat /\ l \in Nat /\ l1 \in Nat
  BY DEF Counters
<1>2. Settled = total + l + abandoned /\ Settled' = total + l1 + abandoned'
  BY DEF Settled
<1>3. queue' = queue => l1 = l
  OBVIOUS
<1> HIDE DEF total, l, l1
<1>4. /\ UNCHANGED abandoned /\ l1 = l + 1 => Settled' = Settled + 1
      /\ UNCHANGED abandoned /\ l1 = l - 1 => Settled' = Settled - 1
      /\ UNCHANGED queue /\ abandoned' = abandoned + 1 => Settled' = Settled + 1
  BY <1>1, <1>2, <1>3
<1> QED
  BY <1>4 DEF l, l1

\* The books when one sender moves and RX does not.
LEMMA HandMoves ==
  ASSUME NEW t \in Threads, NEW p, Moved(t, p), UNCHANGED rx
  PROVE  InHand' = InHand - Hand(t) + (IF p \in Inside THEN 1 ELSE 0)
<1>1. /\ Hand(t)' = IF p \in Inside THEN 1 ELSE 0
      /\ \A u \in Threads \ {t} : Hand(u)' = Hand(u)
  BY DEF Moved, Hand, One
<1> DEFINE r == One(rx.pc \in {"refuse", "put", "full"})
<1>2. InHand = r + Hand("resp") + Hand("main") /\ InHand' = r + Hand("resp")' + Hand("main")'
  BY DEF InHand, Hand, Inside, One
<1>3. /\ r \in Nat
      /\ \A u \in Threads : Hand(u) \in Nat
  BY DEF One, Hand
<1> HIDE DEF r
<1> QED
  BY <1>1, <1>2, <1>3 DEF Threads

-----------------------------------------------------------------------------
(***************************************************************************)
(* The steps.                                                              *)
(***************************************************************************)
LEMMA InitBooks == Init => BooksInv
<1> SUFFICES ASSUME Init PROVE BooksInv
  OBVIOUS
<1>1. stats \in [Counters -> Nat] /\ queue \in Seq(Item) /\ abandoned \in Nat
  BY DEF Init
<1>2. RxTyped
  BY ResponderAssumption DEF Init, RxTyped, RxPlaces, Busy
<1>3. SendersTyped
  BY DEF Init, SendersTyped, PlacesOf, AllPlaces, Places, SendPlaces, Threads
<1>4. RequestsAccounted
  <2>1. Len(queue) = 0 /\ abandoned = 0 /\ \A c \in Counters : stats[c] = 0
    BY DEF Init
  <2>2. InHand = 0
    BY DEF Init, InHand, One, Threads
  <2> QED
    BY <2>1, <2>2 DEF RequestsAccounted, Counters
<1> QED
  BY <1>1, <1>2, <1>3, <1>4 DEF BooksInv, Threading, Init, Threads

\* The RX thread takes a request in, refuses it, queues it or drops it.
LEMMA RxKeepsBooks == BooksInv /\ RxNext => BooksInv'
<1> SUFFICES ASSUME BooksInv, RxNext PROVE BooksInv'
  OBVIOUS
<1>1. /\ Threading /\ RxTyped /\ SendersTyped /\ queue \in Seq(Item) /\ abandoned \in Nat
      /\ stats \in [Counters -> Nat] /\ Len(queue) \in Nat
      /\ Settled \in Int /\ stats["delay_req_recv"] \in Int
  BY Books DEF BooksInv, Threading
<1>2. ASSUME UNCHANGED <<sender, abandoned>>, rx.pc # "init", RxTyped',
             stats' \in [Counters -> Nat], queue' \in Seq(Item)
      PROVE  Threading'
  BY <1>1, <1>2 DEF Threading, SendersTyped
<1>3. ASSUME UNCHANGED sender
      PROVE  InHand' = InHand - (IF rx.pc \in {"refuse", "put", "full"} THEN 1 ELSE 0)
                              + (IF rx'.pc \in {"refuse", "put", "full"} THEN 1 ELSE 0)
  BY <1>3 DEF InHand, One
<1>4. InHand \in Int
  BY DEF One, InHand
<1>5. CASE RxTop \/ RxTimeout
  <2>1. PICK p \in {"top", "recv", "exit"} : RxGo(p)
    BY <1>5 DEF RxTop, RxTimeout
  <2>2. UNCHANGED <<sender, abandoned, stats, queue, frames>> /\ rx.pc \in {"top", "recv"}
    BY <1>5 DEF RxTop, RxTimeout
  <2>3. RxTyped' /\ rx'.pc = p
    BY <1>1, <2>1, <2>2, RxGoFacts DEF RxPlaces, Busy
  <2>4. InHand' = InHand /\ Settled' = Settled
    BY <1>3, <1>4, <2>2, <2>3 DEF Settled
  <2> QED
    BY <1>1, <1>2, <1>4, <2>2, <2>3, <2>4, Balanced
<1>6. ASSUME NEW c \in Discards, RxDiscard(c) PROVE BooksInv'
  <2>1. /\ UNCHANGED <<sender, abandoned, queue>> /\ rx.pc = "recv" /\ RxDone
        /\ frames' \in 0..MaxFrames
    BY <1>1, <1>6, ResponderAssumption DEF RxDiscard, RxTyped
  <2>2. RxTyped' /\ rx'.pc = "top"
    BY <1>1, <2>1, RxDoneFacts
  <2>3. /\ stats' \in [Counters -> Nat] /\ Settled' = Settled
        /\ stats'["delay_req_recv"] = stats["delay_req_recv"]
    <3>1. CASE c = "none"
      BY <1>1, <1>6, <2>1, <3>1 DEF RxDiscard, Settled
    <3>2. CASE c # "none"
      <4>1. c \in Counters /\ Bump(c)
        BY <1>6, <3>2, ResponderAssumption DEF RxDiscard, Counters
      <4>2. c \notin {"delay_req_recv", "delay_resp_sent", "delay_resp_dropped",
                      "session_overflow"}
        BY <3>2, ResponderAssumption
      <4> QED
        BY <1>1, <2>1, <4>1, <4>2, BumpSettles
    <3> QED
      BY <3>1, <3>2
  <2>4. InHand' = InHand
    BY <1>3, <1>4, <2>1, <2>2
  <2> QED
    BY <1>1, <1>2, <1>4, <2>1, <2>2, <2>3, <2>4, Balanced
<1>7. ASSUME NEW k \in Slaves, NEW mac \in Macs, RxRegister(k, mac) PROVE BooksInv'
  <2>1. /\ UNCHANGED <<sender, abandoned, queue, stats>> /\ rx.pc = "recv"
        /\ frames' = frames + 1 /\ frames < MaxFrames
        /\ rx' = [pc |-> "count", item |-> [id |-> frames + 1, slave |-> k]]
    BY <1>7 DEF RxRegister
  <2>2. frames + 1 \in 1..MaxFrames
    BY <1>1, <2>1, ResponderAssumption DEF RxTyped
  <2>3. [id |-> frames + 1, slave |-> k] \in Item
    BY <2>2 DEF Item
  <2>4. RxTyped' /\ rx'.pc = "count"
    BY <2>1, <2>2, <2>3, ResponderAssumption DEF RxTyped, RxPlaces
  <2>5. InHand' = InHand /\ Settled' = Settled
    BY <1>3, <1>4, <2>1, <2>4 DEF Settled
  <2> QED
    BY <1>1, <1>2, <1>4, <2>1, <2>4, <2>5, Balanced
<1>8. CASE RxCount
  <2>1. /\ UNCHANGED <<sender, abandoned, queue, frames>> /\ rx.pc = "count"
        /\ Bump("delay_req_recv")
    BY <1>8 DEF RxCount
  <2>2. PICK p \in {"put", "refuse"} : RxGo(p)
    BY <1>8 DEF RxCount
  <2>3. RxTyped' /\ rx'.pc = p
    BY <1>1, <2>1, <2>2, RxGoFacts DEF RxTyped, RxPlaces, Busy
  <2>4. InHand' = InHand + 1
    BY <1>3, <1>4, <2>1, <2>3
  <2>5. /\ stats' \in [Counters -> Nat] /\ Settled' = Settled
        /\ stats'["delay_req_recv"] = stats["delay_req_recv"] + 1
    BY <1>1, <2>1, BumpSettles DEF Counters
  <2> QED
    BY <1>1, <1>2, <1>4, <2>1, <2>3, <2>4, <2>5, Balanced
<1>9. CASE RxRefuse
  <2> DEFINE c == IF verdict = "overflow" THEN "session_overflow" ELSE "delay_resp_dropped"
  <2>1. /\ UNCHANGED <<sender, abandoned, queue, frames>> /\ rx.pc = "refuse"
        /\ Bump(c) /\ RxDone
    BY <1>9 DEF RxRefuse
  <2>2. c \in {"session_overflow", "delay_resp_dropped"}
    OBVIOUS
  <2> HIDE DEF c
  <2>3. RxTyped' /\ rx'.pc = "top"
    BY <1>1, <2>1, RxDoneFacts DEF RxTyped
  <2>4. InHand' = InHand - 1
    BY <1>3, <1>4, <2>1, <2>3
  <2>5. /\ stats' \in [Counters -> Nat] /\ Settled' = Settled + 1
        /\ stats'["delay_req_recv"] = stats["delay_req_recv"]
    BY <1>1, <2>1, <2>2, BumpSettles DEF Counters
  <2> QED
    BY <1>1, <1>2, <1>4, <2>1, <2>3, <2>4, <2>5, Balanced
<1>10. CASE RxPut
  <2>1. /\ UNCHANGED <<sender, abandoned, stats, frames>> /\ rx.pc = "put" /\ RxDone
        /\ queue' = Append(queue, rx.item)
    BY <1>10 DEF RxPut
  <2>2. RxTyped' /\ rx'.pc = "top"
    BY <1>1, <2>1, RxDoneFacts DEF RxTyped
  <2>3. InHand' = InHand - 1
    BY <1>3, <1>4, <2>1, <2>2
  <2>4. rx.item \in Item
    BY <1>1, <2>1 DEF RxTyped, Busy
  <2>5. queue' \in Seq(Item) /\ Len(queue') = Len(queue) + 1
    BY <1>1, <2>1, <2>4
  <2>6. Settled' = Settled + 1
    BY <1>1, <2>1, <2>5, OneMoreSettled
  <2> QED
    BY <1>1, <1>2, <1>4, <2>1, <2>2, <2>3, <2>5, <2>6, Balanced
<1>11. CASE RxPutFull
  <2>1. /\ UNCHANGED <<sender, abandoned, queue, frames>> /\ rx.pc = "put"
        /\ Bump("resp_queue_full") /\ RxGo("full")
    BY <1>11 DEF RxPutFull
  <2>2. RxTyped' /\ rx'.pc = "full"
    BY <1>1, <2>1, RxGoFacts DEF RxTyped, RxPlaces, Busy
  <2>3. InHand' = InHand
    BY <1>3, <1>4, <2>1, <2>2
  <2>4. /\ stats' \in [Counters -> Nat] /\ Settled' = Settled
        /\ stats'["delay_req_recv"] = stats["delay_req_recv"]
    BY <1>1, <2>1, BumpSettles DEF Counters
  <2> QED
    BY <1>1, <1>2, <1>4, <2>1, <2>2, <2>3, <2>4, Balanced
<1>12. CASE RxDropFull
  <2>1. /\ UNCHANGED <<sender, abandoned, queue, frames>> /\ rx.pc = "full"
        /\ Bump("delay_resp_dropped") /\ RxDone
    BY <1>12 DEF RxDropFull
  <2>2. RxTyped' /\ rx'.pc = "top"
    BY <1>1, <2>1, RxDoneFacts DEF RxTyped
  <2>3. InHand' = InHand - 1
    BY <1>3, <1>4, <2>1, <2>2
  <2>4. /\ stats' \in [Counters -> Nat] /\ Settled' = Settled + 1
        /\ stats'["delay_req_recv"] = stats["delay_req_recv"]
    BY <1>1, <2>1, BumpSettles DEF Counters
  <2> QED
    BY <1>1, <1>2, <1>4, <2>1, <2>2, <2>3, <2>4, Balanced
<1> QED
  BY <1>5, <1>6, <1>7, <1>8, <1>9, <1>10, <1>11, <1>12 DEF RxNext, RxHandle

\* A sender that moves on: a request that leaves its hand is settled, one that
\* comes into it was queued.
LEMMA SenderKeepsBooks ==
  ASSUME BooksInv, NEW t \in Threads, NEW p, Moved(t, p), p # "init",
         UNCHANGED <<rx, frames>>, sender[t].pc # "init",
         stats' \in [Counters -> Nat], queue' \in Seq(Item), abandoned' \in Nat,
         stats'["delay_req_recv"] = stats["delay_req_recv"],
         Settled' + (IF p \in Inside THEN 1 ELSE 0) = Settled + Hand(t)
  PROVE  BooksInv'
<1>1. InHand' = InHand - Hand(t) + (IF p \in Inside THEN 1 ELSE 0)
  BY HandMoves
<1>2. /\ InHand \in Int /\ Hand(t) \in Int /\ Settled \in Int
      /\ stats["delay_req_recv"] \in Int
  BY Books DEF BooksInv, Hand, One
<1>3. Settled' \in Int
  <2>1. /\ stats'["delay_resp_sent"] \in Nat /\ stats'["delay_resp_dropped"] \in Nat
        /\ stats'["session_overflow"] \in Nat /\ Len(queue') \in Nat
    BY DEF Counters
  <2> QED
    BY <2>1 DEF Settled
<1>4. RxTyped'
  BY DEF BooksInv, Threading, RxTyped
<1>5. SendersTyped' /\ sender'["main"].pc # "init"
  BY DEF Moved, Threads, BooksInv, Threading
<1>6. Threading'
  BY <1>4, <1>5 DEF Threading
<1>7. Settled' - Settled = -(InHand' - InHand)
  BY <1>1, <1>2, <1>3
<1>8. InHand' \in Int
  BY DEF InHand, One
<1>9. stats'["delay_req_recv"] - stats["delay_req_recv"]
        = (Settled' - Settled) + (InHand' - InHand)
  BY <1>2, <1>3, <1>7, <1>8
<1> QED
  BY <1>6, <1>9, Balanced

\* _send_delay_resp, in either thread.
LEMMA SendKeepsBooks ==
  ASSUME BooksInv, NEW t \in Threads, SendNext(t)
  PROVE  BooksInv'
<1>1. /\ SendersTyped /\ queue \in Seq(Item) /\ abandoned \in Nat
      /\ stats \in [Counters -> Nat] /\ Settled \in Int
  BY Books DEF BooksInv, Threading
<1>2. sender[t].pc \in SendPlaces
  BY DEF SendNext, SendBegin, SendOk, SendFails, SendDropped, SendCounted, SendMarked,
         SendPlaces
<1>3. sender[t].pc # "init" /\ sender[t].item \in Item
  BY <1>1, <1>2 DEF SendPlaces, SendersTyped
<1>4. \A p \in SendPlaces : p \in PlacesOf(t) /\ p # "init"
  BY DEF PlacesOf, Places, SendPlaces
<1>5. ASSUME NEW p \in SendPlaces, SenderGo(t, p) PROVE Moved(t, p) /\ p # "init"
  BY <1>1, <1>3, <1>4, <1>5, SenderGoFacts
<1> DEFINE back == IF t = "resp" THEN "top" ELSE "drain"
<1>6. back \notin Inside /\ back # "init"
  BY DEF Inside
<1>7. ASSUME SenderDone(t) PROVE Moved(t, back)
  BY <1>1, <1>7, SenderDoneFacts
<1> HIDE DEF back
<1>8. CASE SendBegin(t) /\ transport = "none"
  <2>1. /\ SenderDone(t) /\ abandoned' = abandoned + 1
        /\ UNCHANGED <<rx, stats, queue, frames>> /\ sender[t].pc = "send"
    BY <1>8 DEF SendBegin
  <2>2. Hand(t) = 1
    BY <2>1 DEF Hand, One, Inside
  <2>3. Settled' = Settled + 1 /\ abandoned' \in Nat
    BY <1>1, <2>1, OneMoreSettled
  <2> QED
    BY <1>1, <1>3, <1>6, <1>7, <2>1, <2>2, <2>3, SenderKeepsBooks
<1>9. ASSUME NEW p \in {"sending", "sent"}, SenderGo(t, p), sender[t].pc \in {"send", "sending"},
             UNCHANGED <<rx, stats, queue, frames, abandoned>>
      PROVE  BooksInv'
  <2>1. Hand(t) = 1 /\ p \in Inside
    BY <1>9 DEF Hand, One, Inside
  <2>2. Moved(t, p) /\ p # "init"
    BY <1>5, <1>9 DEF SendPlaces
  <2>3. Settled' = Settled
    BY <1>9 DEF Settled
  <2> QED
    BY <1>1, <1>3, <1>9, <2>1, <2>2, <2>3, SenderKeepsBooks
<1>10. CASE SendBegin(t) /\ transport # "none"
  BY <1>9, <1>10 DEF SendBegin
<1>11. CASE SendOk(t)
  BY <1>9, <1>11 DEF SendOk
<1>12. CASE SendFails(t)
  <2>1. /\ SenderGo(t, "failed") /\ UNCHANGED <<rx, queue, frames, abandoned>>
        /\ sender[t].pc = "sending" /\ Bump("tx_errors")
    BY <1>12 DEF SendFails
  <2>2. Hand(t) = 1 /\ "failed" \in Inside
    BY <2>1 DEF Hand, One, Inside
  <2>3. Moved(t, "failed")
    BY <1>5, <2>1 DEF SendPlaces
  <2>4. /\ stats' \in [Counters -> Nat] /\ Settled' = Settled
        /\ stats'["delay_req_recv"] = stats["delay_req_recv"]
    BY <1>1, <2>1, BumpSettles DEF Counters
  <2> QED
    BY <1>1, <1>3, <2>1, <2>2, <2>3, <2>4, SenderKeepsBooks
<1>13. CASE SendDropped(t)
  <2>1. /\ SenderDone(t) /\ UNCHANGED <<rx, queue, frames, abandoned>>
        /\ sender[t].pc = "failed" /\ Bump("delay_resp_dropped")
    BY <1>13 DEF SendDropped
  <2>2. Hand(t) = 1
    BY <2>1 DEF Hand, One, Inside
  <2>3. /\ stats' \in [Counters -> Nat] /\ Settled' = Settled + 1
        /\ stats'["delay_req_recv"] = stats["delay_req_recv"]
    BY <1>1, <2>1, BumpSettles DEF Counters
  <2> QED
    BY <1>1, <1>3, <1>6, <1>7, <2>1, <2>2, <2>3, SenderKeepsBooks
<1>14. CASE SendCounted(t)
  <2>1. /\ SenderGo(t, "mark") /\ UNCHANGED <<rx, queue, frames, abandoned>>
        /\ sender[t].pc = "sent" /\ Bump("delay_resp_sent")
    BY <1>14 DEF SendCounted
  <2>2. Hand(t) = 1 /\ "mark" \notin Inside
    BY <2>1 DEF Hand, One, Inside
  <2>3. Moved(t, "mark") /\ "mark" # "init"
    BY <1>5, <2>1 DEF SendPlaces
  <2>4. /\ stats' \in [Counters -> Nat] /\ Settled' = Settled + 1
        /\ stats'["delay_req_recv"] = stats["delay_req_recv"]
    BY <1>1, <2>1, BumpSettles DEF Counters
  <2> QED
    BY <1>1, <1>3, <2>1, <2>2, <2>3, <2>4, SenderKeepsBooks
<1>15. CASE SendMarked(t)
  <2>1. /\ SenderDone(t) /\ UNCHANGED <<rx, stats, queue, frames, abandoned>>
        /\ sender[t].pc = "mark"
    BY <1>15 DEF SendMarked
  <2>2. Hand(t) = 0 /\ Settled' = Settled
    BY <2>1 DEF Hand, One, Inside, Settled
  <2> QED
    BY <1>1, <1>3, <1>6, <1>7, <2>1, <2>2, SenderKeepsBooks
<1> QED
  BY <1>8, <1>10, <1>11, <1>12, <1>13, <1>14, <1>15 DEF SendNext

\* The loops around it: the RESP thread's, and the drain and joins of stop().
LEMMA LoopsKeepBooks ==
  ASSUME BooksInv, NEW t \in Threads, NEW p \in PlacesOf(t), p \notin SendPlaces,
         p # "init", SenderGo(t, p), sender[t].pc \notin SendPlaces, sender[t].pc # "init",
         UNCHANGED <<stats, queue, rx, frames, abandoned>>
  PROVE  BooksInv'
<1>1. /\ SendersTyped /\ stats \in [Counters -> Nat] /\ queue \in Seq(Item)
      /\ abandoned \in Nat /\ Settled \in Int
  BY Books DEF BooksInv, Threading
<1>2. Moved(t, p)
  BY <1>1, SenderGoFacts
<1>3. Hand(t) = 0 /\ p \notin Inside /\ Settled' = Settled
  BY DEF Hand, One, Inside, SendPlaces, Settled
<1> QED
  BY <1>1, <1>2, <1>3, SenderKeepsBooks

LEMMA TakingKeepsBooks ==
  ASSUME BooksInv, NEW t \in Threads, Take(t), sender[t].pc \notin SendPlaces,
         sender[t].pc # "init", UNCHANGED <<stats, rx, frames, abandoned>>
  PROVE  BooksInv'
<1>1. /\ SendersTyped /\ stats \in [Counters -> Nat] /\ queue \in Seq(Item)
      /\ abandoned \in Nat /\ Len(queue) \in Nat /\ Settled \in Int
  BY Books DEF BooksInv, Threading
<1>2. Moved(t, "send") /\ queue' \in Seq(Item) /\ Len(queue') = Len(queue) - 1
  BY <1>1, TakeFacts
<1>3. Hand(t) = 0 /\ "send" \in Inside
  BY DEF Hand, One, Inside, SendPlaces
<1>4. Settled' = Settled - 1
  BY <1>1, <1>2, OneMoreSettled
<1> QED
  BY <1>1, <1>2, <1>3, <1>4, SenderKeepsBooks

\* start() finds both threads not yet begun, so nothing in their hands is lost.
LEMMA StartKeepsBooks == BooksInv /\ Start => BooksInv'
<1> SUFFICES ASSUME BooksInv, Start PROVE BooksInv'
  OBVIOUS
<1>1. /\ rx.pc = "init" /\ sender["resp"].pc = "init" /\ sender["main"].pc = "init"
      /\ RxTyped /\ SendersTyped
      /\ UNCHANGED <<stats, queue, frames, abandoned>>
      /\ rx' = [rx EXCEPT !.pc = "top"]
      /\ sender' = [sender EXCEPT !["main"].pc = "running", !["resp"].pc = "top"]
  BY DEF BooksInv, Threading, Start
<1>2. RxTyped' /\ rx'.pc = "top"
  BY <1>1 DEF RxTyped, RxPlaces, Busy
<1>3. /\ sender'["main"].pc = "running" /\ sender'["resp"].pc = "top"
      /\ sender'["main"].item = sender["main"].item
      /\ sender'["resp"].item = sender["resp"].item
  BY <1>1 DEF SendersTyped, Threads
<1>4. sender' \in [Threads -> [pc: AllPlaces, item: Item \cup {NoItem}]]
  BY <1>1 DEF SendersTyped, Threads, AllPlaces, Places
<1>5. SendersTyped'
  BY <1>3, <1>4 DEF SendersTyped, Threads, PlacesOf, Places, SendPlaces
<1>6. InHand' = InHand
  BY <1>1, <1>2, <1>3 DEF InHand, One
<1> QED
  BY <1>1, <1>2, <1>3, <1>5, <1>6 DEF BooksInv, Threading, RequestsAccounted

\* Every step keeps the books.
LEMMA NextKeepsBooks == BooksInv /\ [Next]_vars => BooksInv'
<1> SUFFICES ASSUME BooksInv, [Next]_vars PROVE BooksInv'
  OBVIOUS
<1>1. CASE Start
  BY <1>1, StartKeepsBooks
<1>2. CASE Stop
  BY <1>2, LoopsKeepBooks DEF Stop, Threads, PlacesOf, Places, SendPlaces
<1>3. CASE RxNext
  BY <1>3, RxKeepsBooks
<1>4. CASE RespTop
  BY <1>4, LoopsKeepBooks DEF RespTop, Threads, PlacesOf, Places, SendPlaces
<1>5. CASE RespGet
  BY <1>5, TakingKeepsBooks DEF RespGet, Threads, SendPlaces
<1>6. CASE RespEmpty
  BY <1>6, LoopsKeepBooks DEF RespEmpty, Threads, PlacesOf, Places, SendPlaces
<1>7. CASE SendNext("resp") \/ SendNext("main")
  BY <1>7, SendKeepsBooks DEF Threads
<1>8. CASE DrainGet
  BY <1>8, TakingKeepsBooks DEF DrainGet, Threads, SendPlaces
<1>9. CASE DrainEnd
  BY <1>9, LoopsKeepBooks DEF DrainEnd, Threads, PlacesOf, Places, SendPlaces
<1>10. CASE JoinRx
  BY <1>10, LoopsKeepBooks DEF JoinRx, Threads, PlacesOf, Places, SendPlaces
<1>11. CASE JoinResp
  BY <1>11, LoopsKeepBooks DEF JoinResp, Threads, PlacesOf, Places, SendPlaces
<1>12. CASE Tick \/ UNCHANGED vars
  BY <1>12 DEF Tick, vars, BooksInv, Threading, RxTyped, SendersTyped, RequestsAccounted,
               InHand
<1> QED
  BY <1>1, <1>2, <1>3, <1>4, <1>5, <1>6, <1>7, <1>8, <1>9, <1>10, <1>11, <1>12
  DEF Next, RespNext, StopNext

\* No request is lost from the books, whatever the RX thread, the RESP thread
\* and a draining stop() do between any two of each other's counter bumps.
THEOREM AlwaysAccounted == Spec => []RequestsAccounted
<1>1. Init => BooksInv
  BY InitBooks
<1>2. BooksInv /\ [Next]_vars => BooksInv'
  BY NextKeepsBooks
<1>3. BooksInv => RequestsAccounted
  BY DEF BooksInv
<1> QED
  BY <1>1, <1>2, <1>3, PTL DEF Spec

-----------------------------------------------------------------------------
(***************************************************************************)
(* One place for each context, and the order of the answers.               *)
(***************************************************************************)
Ascending(seq) == \A i, j \in DOMAIN seq : i < j => seq[i].id < seq[j].id

\* No frame later than this one is queued, in a sender's hand or on the wire.
Latest == IF rx.pc \in Busy THEN rx.item.id - 1 ELSE frames

\* What the RX thread may add comes after all there is.
RxAhead ==
  /\ rx.pc \in Busy => rx.item.id <= frames
  /\ \A n \in Ids(queue) \cup Ids(wire) : n <= Latest
  /\ \A t \in Held : sender[t].item.id <= Latest

\* What has left the queue came before what is still in it.
QueueInOrder ==
  /\ Ascending(queue)
  /\ \A n \in Ids(queue) : /\ \A t \in Held : sender[t].item.id < n
                           /\ \A m \in Ids(wire) : m < n

OnWireOnce ==
  /\ Distinct(wire)
  /\ \A t \in Held : sender[t].item.id \notin Ids(wire)
  /\ Held = Threads => sender["resp"].item.id # sender["main"].item.id

\* Until stop() only the RESP thread sends.
OneSender ==
  /\ ~stop_event <=> sender["main"].pc \in {"init", "running"}
  /\ ~stop_event => /\ Ascending(wire)
                    /\ "resp" \in Held => \A n \in Ids(wire) : n < sender["resp"].item.id

OnceInv ==
  /\ wire \in Seq(Item)
  /\ RxAhead /\ QueueInOrder /\ OnWireOnce /\ OneSender

LEMMA IdIsNumber == \A item \in Item : item.id \in Nat
  BY ResponderAssumption DEF Item

LEMMA IdsAreNumbers ==
  ASSUME NEW seq \in Seq(Item)
  PROVE  Ids(seq) \subseteq Nat
<1>1. \A i \in DOMAIN seq : seq[i] \in Item
  OBVIOUS
<1> QED
  BY <1>1, IdIsNumber DEF Ids

\* A later context at the end of a sequence.
LEMMA AtTheEnd ==
  ASSUME NEW seq \in Seq(Item), NEW item \in Item
  PROVE  /\ Append(seq, item) \in Seq(Item)
         /\ Ids(Append(seq, item)) = Ids(seq) \cup {item.id}
         /\ Distinct(seq) /\ item.id \notin Ids(seq) => Distinct(Append(seq, item))
         /\ Ascending(seq) /\ (\A n \in Ids(seq) : n < item.id)
              => Ascending(Append(seq, item))
<1> DEFINE longer == Append(seq, item)
<1>1. /\ longer \in Seq(Item) /\ Len(seq) \in Nat /\ DOMAIN seq = 1..Len(seq)
      /\ DOMAIN longer = 1..(Len(seq) + 1)
      /\ longer[Len(seq) + 1] = item /\ \A i \in DOMAIN seq : longer[i] = seq[i]
  OBVIOUS
<1>2. \A i \in DOMAIN longer : i \in DOMAIN seq \/ i = Len(seq) + 1
  BY <1>1
<1>3. \A i \in DOMAIN seq : seq[i].id \in Ids(seq) /\ i < Len(seq) + 1 /\ i \in DOMAIN longer
  BY <1>1 DEF Ids
<1> HIDE DEF longer
<1>4. Ids(longer) = Ids(seq) \cup {item.id}
  <2>1. Ids(longer) \subseteq Ids(seq) \cup {item.id}
    BY <1>1, <1>2 DEF Ids
  <2>2. Ids(seq) \cup {item.id} \subseteq Ids(longer)
    <3>1. \A i \in DOMAIN seq : seq[i].id \in Ids(longer)
      BY <1>1, <1>3 DEF Ids
    <3>2. item.id \in Ids(longer)
      BY <1>1 DEF Ids
    <3> QED
      BY <3>1, <3>2 DEF Ids
  <2> QED
    BY <2>1, <2>2
<1>5. Distinct(seq) /\ item.id \notin Ids(seq) => Distinct(longer)
  BY <1>1, <1>2, <1>3 DEF Distinct
<1>6. Ascending(seq) /\ (\A n \in Ids(seq) : n < item.id) => Ascending(longer)
  BY <1>1, <1>2, <1>3 DEF Ascending
<1> QED
  BY <1>1, <1>4, <1>5, <1>6 DEF longer

\* The head of an ascending sequence comes before the rest.
LEMMA FromTheHead ==
  ASSUME NEW seq \in Seq(Item), seq # << >>, Ascending(seq)
  PROVE  /\ Head(seq) \in Item /\ Head(seq).id \in Ids(seq)
         /\ Tail(seq) \in Seq(Item) /\ Ascending(Tail(seq))
         /\ Ids(Tail(seq)) \subseteq Ids(seq)
         /\ \A n \in Ids(Tail(seq)) : Head(seq).id < n
<1> DEFINE rest == Tail(seq)
<1>1. /\ Head(seq) = seq[1] /\ 1 \in DOMAIN seq /\ seq[1] \in Item
      /\ rest \in Seq(Item) /\ DOMAIN rest \subseteq Nat
      /\ \A i \in DOMAIN rest : i + 1 \in DOMAIN seq /\ rest[i] = seq[i + 1] /\ 1 < i + 1
  OBVIOUS
<1> HIDE DEF rest
<1>2. Ascending(rest)
  <2>1. \A i, j \in DOMAIN rest : i < j => i + 1 < j + 1
    BY <1>1
  <2> QED
    BY <1>1, <2>1 DEF Ascending
<1>3. /\ Ids(rest) \subseteq Ids(seq) /\ seq[1].id \in Ids(seq)
      /\ \A n \in Ids(rest) : seq[1].id < n
  BY <1>1 DEF Ids, Ascending
<1> QED
  BY <1>1, <1>2, <1>3 DEF rest

\* What a sender holds is a context.
LEMMA HeldAreItems ==
  ASSUME SendersTyped
  PROVE  /\ Held \subseteq Threads
         /\ \A t \in Held : sender[t].item \in Item /\ sender[t].item.id \in Nat
<1>1. \A t \in Held : t \in Threads /\ sender[t].item \in Item
  BY DEF Held, SendersTyped, SendPlaces
<1> QED
  BY <1>1, IdIsNumber

LEMMA LatestIsNumber ==
  ASSUME RxTyped
  PROVE  Latest \in Int
<1>1. CASE rx.pc \in Busy
  <2>1. rx.item.id \in Nat
    BY <1>1, IdIsNumber DEF RxTyped
  <2> QED
    BY <1>1, <2>1 DEF Latest
<1>2. CASE rx.pc \notin Busy
  BY <1>2, ResponderAssumption DEF Latest, RxTyped
<1> QED
  BY <1>1, <1>2

LEMMA InitOnce == Init => OnceInv
<1> SUFFICES ASSUME Init PROVE OnceInv
  OBVIOUS
<1>1. wire = << >> /\ queue = << >> /\ rx.pc = "init" /\ stop_event = FALSE /\ Held = {}
  BY DEF Init, Held, Threads
<1>2. Ids(queue) = {} /\ Ids(wire) = {}
  BY <1>1 DEF Ids
<1>3. RxAhead
  BY <1>1, <1>2 DEF RxAhead, Busy
<1>4. QueueInOrder /\ OnWireOnce /\ OneSender
  BY <1>1, <1>2 DEF Init, QueueInOrder, OnWireOnce, OneSender, Ascending, Distinct, Threads
<1> QED
  BY <1>1, <1>3, <1>4 DEF OnceInv

\* RX numbers its frames, and queues the last one.
LEMMA RxKeepsOnce ==
  ASSUME Threading, Threading', OnceInv, RxNext
  PROVE  OnceInv'
<1>1. UNCHANGED <<sender, wire, stop_event>>
  BY DEF RxNext, RxHandle, RxTop, RxTimeout, RxDiscard, RxRegister, RxCount, RxRefuse, RxPut,
         RxPutFull, RxDropFull
<1>2. Held' = Held
  BY <1>1 DEF Held
<1>3. RxTyped /\ frames \in Nat /\ queue \in Seq(Item) /\ Latest \in Int
  BY ResponderAssumption, LatestIsNumber DEF Threading, RxTyped
<1>4. ASSUME rx.pc \in Busy
      PROVE  rx.item \in Item /\ rx.item.id \in Nat /\ rx.item.id <= frames
             /\ Latest = rx.item.id - 1
  BY <1>3, <1>4, IdIsNumber DEF OnceInv, RxAhead, RxTyped, Latest
<1>5. /\ rx'.pc \in Busy => rx'.item.id <= frames'
      /\ Latest' \in Int /\ Latest <= Latest'
  <2>1. CASE RxTop \/ RxTimeout
    BY <1>3, <2>1 DEF RxTop, RxTimeout, RxGo, RxTyped, Latest, Busy
  <2>2. ASSUME NEW c \in Discards, RxDiscard(c)
        PROVE  rx'.pc \notin Busy /\ Latest' = Latest + 1
    BY <1>3, <2>2 DEF RxDiscard, RxDone, Latest, Busy
  <2>3. ASSUME NEW k \in Slaves, NEW mac \in Macs, RxRegister(k, mac)
        PROVE  rx'.item.id <= frames' /\ Latest' = Latest
    BY <1>3, <2>3 DEF RxRegister, Latest, Busy
  <2>4. CASE RxCount \/ RxPutFull
    BY <1>3, <1>4, <2>4 DEF RxCount, RxPutFull, RxGo, RxTyped, Latest, Busy
  <2>5. CASE RxRefuse \/ RxPut \/ RxDropFull
    BY <1>3, <1>4, <2>5 DEF RxRefuse, RxPut, RxDropFull, RxDone, Latest, Busy
  <2> QED
    BY <1>3, <2>1, <2>2, <2>3, <2>4, <2>5 DEF RxNext, RxHandle
<1>6. Ids(queue) \subseteq Nat /\ Ids(wire) \subseteq Nat
      /\ \A t \in Held : sender[t].item.id \in Nat
  BY <1>3, IdsAreNumbers, HeldAreItems DEF OnceInv, Threading
<1>7. /\ \A n \in Ids(queue) \cup Ids(wire) : n <= Latest'
      /\ \A t \in Held : sender[t].item.id <= Latest'
  BY <1>3, <1>5, <1>6 DEF OnceInv, RxAhead
<1>8. OnWireOnce' /\ OneSender' /\ wire' \in Seq(Item)
  BY <1>1, <1>2 DEF OnceInv, OnWireOnce, OneSender
<1>9. CASE UNCHANGED queue
  <2>1. RxAhead'
    BY <1>1, <1>2, <1>5, <1>7, <1>9 DEF RxAhead
  <2>2. QueueInOrder'
    BY <1>1, <1>2, <1>9 DEF OnceInv, QueueInOrder
  <2> QED
    BY <1>8, <2>1, <2>2 DEF OnceInv
<1>10. CASE RxPut
  <2>1. rx.pc = "put" /\ queue' = Append(queue, rx.item) /\ frames' = frames
        /\ rx'.pc = "top"
    BY <1>10 DEF RxPut, RxDone
  <2>2. rx.item \in Item /\ rx.item.id \in Nat /\ rx.item.id <= frames
        /\ Latest = rx.item.id - 1 /\ Latest' = frames
    BY <1>4, <2>1 DEF Busy, Latest
  <2>3. Ascending(queue) /\ \A n \in Ids(queue) : n < rx.item.id
    BY <1>6, <2>2 DEF OnceInv, QueueInOrder, RxAhead
  <2>4. Ids(queue') = Ids(queue) \cup {rx.item.id} /\ Ascending(queue')
    BY <1>3, <2>1, <2>2, <2>3, AtTheEnd
  <2>5. RxAhead'
    BY <1>1, <1>2, <1>5, <1>7, <2>2, <2>4 DEF RxAhead
  <2>6. /\ \A t \in Held : sender[t].item.id < rx.item.id
        /\ \A m \in Ids(wire) : m < rx.item.id
    BY <1>6, <2>2 DEF OnceInv, RxAhead
  <2>7. QueueInOrder'
    BY <1>1, <1>2, <2>4, <2>6 DEF OnceInv, QueueInOrder
  <2> QED
    BY <1>8, <2>5, <2>7 DEF OnceInv
<1>11. UNCHANGED queue \/ RxPut
  BY DEF RxNext, RxHandle, RxTop, RxTimeout, RxDiscard, RxRegister, RxCount, RxRefuse,
         RxPutFull, RxDropFull
<1> QED
  BY <1>9, <1>10, <1>11

\* A sender that takes no context and sends none, but may be done with its own.
LEMMA LettingGo ==
  ASSUME Threading, OnceInv, NEW t \in Threads, NEW p, Moved(t, p),
         p \in {"send", "sending"} =>
           sender[t].pc \in {"send", "sending"} /\ sender'[t].item = sender[t].item,
         t = "main" => sender["main"].pc \notin {"init", "running"} /\ p \notin {"init", "running"},
         UNCHANGED <<queue, wire, rx, frames, stop_event>>
  PROVE  OnceInv'
<1>1. /\ sender'[t].pc = p
      /\ \A u \in Threads \ {t} : sender'[u] = sender[u]
  BY DEF Moved
<1>2. Held' \subseteq Held /\ \A u \in Held' : sender'[u].item = sender[u].item
  BY <1>1 DEF Held
<1>3. sender'["main"].pc \in {"init", "running"} <=> sender["main"].pc \in {"init", "running"}
  BY <1>1 DEF Threads
<1>4. Latest' = Latest
  BY DEF Latest
<1>5. RxAhead' /\ QueueInOrder'
  BY <1>2, <1>4 DEF OnceInv, RxAhead, QueueInOrder
<1>6. OnWireOnce'
  <2>1. Held' = Threads => Held = Threads /\ \A u \in Threads : sender'[u].item = sender[u].item
    <3>1. Held \subseteq Threads
      BY DEF Held
    <3> QED
      BY <1>2, <3>1
  <2>2. Distinct(wire)' /\ \A u \in Held' : sender'[u].item.id \notin Ids(wire')
    BY <1>2 DEF OnceInv, OnWireOnce
  <2>3. Held' = Threads => sender'["resp"].item.id # sender'["main"].item.id
    BY <2>1 DEF OnceInv, OnWireOnce, Threads
  <2> QED
    BY <2>2, <2>3 DEF OnWireOnce
<1>7. OneSender'
  BY <1>2, <1>3 DEF OnceInv, OneSender
<1> QED
  BY <1>5, <1>6, <1>7 DEF OnceInv

\* The head of the queue comes after all that was taken before.
LEMMA TakingKeepsOnce ==
  ASSUME Threading, OnceInv, NEW t \in Threads, Take(t), sender[t].pc \notin SendPlaces,
         t = "main" => sender["main"].pc \notin {"init", "running"},
         UNCHANGED <<wire, rx, frames, stop_event>>
  PROVE  OnceInv'
<1> DEFINE item == Head(queue)
<1>1. /\ queue # << >> /\ queue \in Seq(Item) /\ Ascending(queue) /\ SendersTyped
      /\ queue' = Tail(queue)
      /\ sender' = [sender EXCEPT ![t] = [pc |-> "send", item |-> item]]
  BY DEF Take, Threading, OnceInv, QueueInOrder
<1>2. /\ item \in Item /\ item.id \in Ids(queue) /\ Ascending(queue')
      /\ Ids(queue') \subseteq Ids(queue) /\ \A n \in Ids(queue') : item.id < n
  BY <1>1, FromTheHead
<1> HIDE DEF item
<1>3. /\ sender'[t] = [pc |-> "send", item |-> item]
      /\ \A u \in Threads \ {t} : sender'[u] = sender[u]
  BY <1>1 DEF SendersTyped
<1>4. t \notin Held /\ Held' = Held \cup {t} /\ \A u \in Held : sender'[u] = sender[u]
  BY <1>3 DEF Held, SendPlaces
<1>5. Latest' = Latest
  BY DEF Latest
<1>6. RxAhead'
  BY <1>2, <1>3, <1>4, <1>5 DEF OnceInv, RxAhead
<1>7. /\ item.id \in Nat
      /\ \A n \in Ids(wire) : n \in Nat /\ n < item.id
      /\ \A u \in Held : sender[u].item.id \in Nat /\ sender[u].item.id < item.id
  <2>1. Ids(wire) \subseteq Nat /\ item.id \in Nat
    BY <1>2, IdIsNumber, IdsAreNumbers DEF OnceInv
  <2> QED
    BY <1>1, <1>2, <2>1, HeldAreItems DEF OnceInv, QueueInOrder
<1>8. QueueInOrder'
  BY <1>2, <1>3, <1>4 DEF OnceInv, QueueInOrder
<1>9. OnWireOnce'
  <2>1. \A u \in Held' : sender'[u].item.id \notin Ids(wire)
    BY <1>3, <1>4, <1>7 DEF OnceInv, OnWireOnce
  <2>2. Held' = Threads => sender'["resp"].item.id # sender'["main"].item.id
    <3>1. \A u \in Held : sender'[u].item.id < item.id /\ sender'[u].item.id \in Nat
      BY <1>4, <1>7
    <3>2. sender'[t].item.id = item.id
      BY <1>3
    <3>3. ASSUME Held' = Threads PROVE \A u \in Threads \ {t} : u \in Held
      BY <1>4, <3>3
    <3> QED
      BY <1>7, <3>1, <3>2, <3>3 DEF Threads
  <2> QED
    BY <2>1, <2>2 DEF OnceInv, OnWireOnce
<1>10. OneSender'
  <2>1. sender'["main"].pc \in {"init", "running"} <=> sender["main"].pc \in {"init", "running"}
    BY <1>3 DEF Threads
  <2>2. ASSUME ~stop_event, "resp" \in Held'
        PROVE  \A n \in Ids(wire) : n < sender'["resp"].item.id
    BY <1>3, <1>4, <1>7, <2>2 DEF OnceInv, OneSender
  <2> QED
    BY <2>1, <2>2 DEF OnceInv, OneSender
<1>11. wire' \in Seq(Item)
  BY DEF OnceInv
<1> QED
  BY <1>6, <1>8, <1>9, <1>10, <1>11 DEF OnceInv

\* What is sent has not been sent before, and before a stop it is the latest.
LEMMA SendingKeepsOnce ==
  ASSUME Threading, OnceInv, NEW t \in Threads, SendOk(t)
  PROVE  OnceInv'
<1> DEFINE item == sender[t].item
<1>1. /\ sender[t].pc = "sending" /\ SendersTyped /\ wire \in Seq(Item)
      /\ wire' = Append(wire, item)
      /\ sender' = [sender EXCEPT ![t].pc = "sent"]
      /\ UNCHANGED <<queue, rx, frames, stop_event>>
  BY DEF SendOk, SenderGo, Threading, OnceInv
<1>2. t \in Held /\ item \in Item /\ item.id \in Nat /\ item.id \notin Ids(wire)
  BY <1>1, HeldAreItems DEF Held, OnceInv, OnWireOnce
<1>3. /\ sender'[t].pc = "sent"
      /\ \A u \in Threads \ {t} : sender'[u] = sender[u]
  BY <1>1 DEF SendersTyped
<1>4. Held' = Held \ {t} /\ \A u \in Held' : u \in Held /\ sender'[u] = sender[u]
  BY <1>3 DEF Held
<1>5. wire' \in Seq(Item) /\ Ids(wire') = Ids(wire) \cup {item.id}
  BY <1>1, <1>2, AtTheEnd
<1>6. Latest' = Latest
  BY <1>1 DEF Latest
<1>7. RxAhead'
  BY <1>1, <1>2, <1>4, <1>5, <1>6 DEF OnceInv, RxAhead
<1>8. QueueInOrder'
  BY <1>1, <1>2, <1>4, <1>5 DEF OnceInv, QueueInOrder
<1>9. OnWireOnce'
  <2>1. Distinct(wire')
    BY <1>1, <1>2, AtTheEnd DEF OnceInv, OnWireOnce
  <2>2. \A u \in Held' : Held = Threads /\ sender'[u].item.id # item.id
    BY <1>2, <1>4, HeldAreItems, <1>1 DEF OnceInv, OnWireOnce, Threads
  <2>3. \A u \in Held' : sender'[u].item.id \notin Ids(wire')
    BY <1>4, <1>5, <2>2 DEF OnceInv, OnWireOnce
  <2> QED
    BY <1>4, <2>1, <2>3 DEF OnWireOnce
<1>10. OneSender'
  <2>1. sender'["main"].pc \in {"init", "running"} <=> sender["main"].pc \in {"init", "running"}
    BY <1>1, <1>3 DEF Threads
  <2>2. ASSUME ~stop_event PROVE t = "resp" /\ \A n \in Ids(wire) : n < item.id
    BY <1>1, <1>2, <2>2 DEF OnceInv, OneSender, Threads
  <2>3. ASSUME ~stop_event PROVE Ascending(wire') /\ "resp" \notin Held'
    BY <1>1, <1>2, <1>4, <2>2, <2>3, AtTheEnd DEF OnceInv, OneSender
  <2> QED
    BY <1>1, <2>1, <2>3 DEF OnceInv, OneSender
<1> QED
  BY <1>5, <1>7, <1>8, <1>9, <1>10 DEF OnceInv

\* _send_delay_resp, in either thread.
LEMMA SendKeepsOnce ==
  ASSUME Threading, OnceInv, NEW t \in Threads, SendNext(t)
  PROVE  OnceInv'
<1>1. SendersTyped /\ sender[t].pc \in SendPlaces /\ sender[t].item \in Item
  BY DEF Threading, SendersTyped, SendNext, SendBegin, SendOk, SendFails, SendDropped,
         SendCounted, SendMarked, SendPlaces
<1>2. t = "main" => sender["main"].pc \notin {"init", "running"}
  BY <1>1 DEF SendPlaces
<1>3. ASSUME NEW p \in {"sending", "failed", "mark"}, SenderGo(t, p),
             p = "sending" => sender[t].pc = "send",
             UNCHANGED <<queue, wire, rx, frames, stop_event>>
      PROVE  OnceInv'
  <2>1. p \in PlacesOf(t) /\ p \in SendPlaces
    BY DEF PlacesOf, Places, SendPlaces
  <2>2. Moved(t, p)
    BY <1>1, <1>3, <2>1, SenderGoFacts
  <2>3. sender'[t].item = sender[t].item
    BY <1>1, <1>3 DEF SenderGo, SendersTyped
  <2> QED
    BY <1>2, <1>3, <2>2, <2>3, LettingGo
<1>4. ASSUME SenderDone(t), UNCHANGED <<queue, wire, rx, frames, stop_event>>
      PROVE  OnceInv'
  BY <1>1, <1>2, <1>4, SenderDoneFacts, LettingGo
<1>5. CASE SendBegin(t)
  BY <1>3, <1>4, <1>5 DEF SendBegin
<1>6. CASE SendOk(t)
  BY <1>6, SendingKeepsOnce
<1>7. CASE SendFails(t)
  BY <1>3, <1>7 DEF SendFails
<1>8. CASE SendDropped(t)
  BY <1>4, <1>8 DEF SendDropped
<1>9. CASE SendCounted(t)
  BY <1>3, <1>9 DEF SendCounted
<1>10. CASE SendMarked(t)
  BY <1>4, <1>10 DEF SendMarked
<1> QED
  BY <1>5, <1>6, <1>7, <1>8, <1>9, <1>10 DEF SendNext

LEMMA LoopsKeepOnce ==
  ASSUME Threading, OnceInv, NEW t \in Threads, NEW p \in PlacesOf(t), p \notin SendPlaces,
         SenderGo(t, p),
         t = "main" => sender["main"].pc \notin {"init", "running"} /\ p \notin {"init", "running"},
         UNCHANGED <<queue, wire, rx, frames, stop_event>>
  PROVE  OnceInv'
<1>1. Moved(t, p)
  BY SenderGoFacts DEF Threading
<1> QED
  BY <1>1, LettingGo DEF SendPlaces

\* start() and stop() move neither a context nor the wire.
LEMMA LifecycleKeepsOnce ==
  ASSUME Threading, OnceInv, Start \/ Stop
  PROVE  OnceInv'
<1>1. SendersTyped /\ UNCHANGED <<queue, wire, frames>>
  BY DEF Threading, Start, Stop
<1>2. CASE Start
  <2>1. /\ sender["main"].pc = "init" /\ sender["resp"].pc = "init" /\ rx.pc = "init"
        /\ sender' = [sender EXCEPT !["main"].pc = "running", !["resp"].pc = "top"]
        /\ rx' = [rx EXCEPT !.pc = "top"] /\ stop_event' = FALSE
    BY <1>2 DEF Start, Threading
  <2>2. sender'["main"].pc = "running" /\ sender'["resp"].pc = "top"
    BY <1>1, <2>1 DEF SendersTyped, Threads
  <2>3. Held = {} /\ Held' = {} /\ rx'.pc = "top"
    BY <2>1, <2>2 DEF Held, Threads, Threading, RxTyped
  <2>4. Latest' = Latest /\ rx'.pc \notin Busy
    BY <1>1, <2>1, <2>3 DEF Latest, Busy
  <2>5. ~stop_event
    BY <2>1 DEF OnceInv, OneSender
  <2> QED
    BY <1>1, <2>1, <2>2, <2>3, <2>4, <2>5
    DEF OnceInv, RxAhead, QueueInOrder, OnWireOnce, OneSender, Threads
<1>3. CASE Stop
  <2>1. /\ sender["main"].pc = "running" /\ stop_event' = TRUE /\ rx' = rx
        /\ sender' = [sender EXCEPT !["main"].pc = "drain"]
    BY <1>3 DEF Stop, SenderGo
  <2>2. sender'["main"].pc = "drain" /\ sender'["resp"] = sender["resp"]
    BY <1>1, <2>1 DEF SendersTyped, Threads
  <2>3. Held' = Held /\ \A t \in Held : sender'[t] = sender[t]
    BY <2>1, <2>2 DEF Held, Threads
  <2>4. Latest' = Latest
    BY <1>1, <2>1 DEF Latest
  <2>5. OneSender'
    BY <2>1, <2>2 DEF OneSender
  <2> QED
    BY <1>1, <2>1, <2>3, <2>4, <2>5 DEF OnceInv, RxAhead, QueueInOrder, OnWireOnce, Threads
<1> QED
  BY <1>2, <1>3

LEMMA NextKeepsOnce ==
  ASSUME BooksInv, OnceInv, [Next]_vars
  PROVE  BooksInv' /\ OnceInv'
<1>1. BooksInv' /\ Threading /\ Threading'
  BY NextKeepsBooks DEF BooksInv
<1>2. CASE Start \/ Stop
  BY <1>1, <1>2, LifecycleKeepsOnce
<1>3. CASE RxNext
  BY <1>1, <1>3, RxKeepsOnce
<1>4. CASE RespTop \/ RespEmpty
  BY <1>1, <1>4, LoopsKeepOnce
  DEF RespTop, RespEmpty, Threads, PlacesOf, Places, SendPlaces
<1>5. CASE RespGet
  BY <1>1, <1>5, TakingKeepsOnce DEF RespGet, Threads, SendPlaces
<1>6. CASE SendNext("resp") \/ SendNext("main")
  BY <1>1, <1>6, SendKeepsOnce DEF Threads
<1>7. CASE DrainGet
  BY <1>1, <1>7, TakingKeepsOnce DEF DrainGet, Threads, SendPlaces
<1>8. CASE DrainEnd \/ JoinRx \/ JoinResp
  BY <1>1, <1>8, LoopsKeepOnce
  DEF DrainEnd, JoinRx, JoinResp, Threads, PlacesOf, Places, SendPlaces
<1>9. CASE Tick \/ UNCHANGED vars
  <2>1. UNCHANGED <<queue, wire, rx, frames, stop_event, sender>>
    BY <1>9 DEF Tick, vars
  <2>2. Held' = Held /\ Latest' = Latest
    BY <2>1 DEF Held, Latest
  <2> QED
    BY <1>1, <2>1, <2>2 DEF OnceInv, RxAhead, QueueInOrder, OnWireOnce, OneSender
<1> QED
  BY <1>1, <1>2, <1>3, <1>4, <1>5, <1>6, <1>7, <1>8, <1>9 DEF Next, RespNext, StopNext

\* No context is in two places, so none is answered twice, although RESP and
\* stop() take from the same queue; and until stop() the answers leave in the
\* order in which the requests came.
THEOREM AlwaysOnceInOrder == Spec => []AnsweredOnceInOrder
<1> DEFINE Both == BooksInv /\ OnceInv
<1>1. Init => Both
  BY InitBooks, InitOnce
<1>2. Both /\ [Next]_vars => Both'
  BY NextKeepsOnce
<1>3. Both => AnsweredOnceInOrder
  <2> SUFFICES ASSUME BooksInv, OnceInv PROVE AnsweredOnceInOrder
    OBVIOUS
  <2>1. queue \in Seq(Item) /\ SendersTyped /\ wire \in Seq(Item)
    BY DEF BooksInv, Threading, OnceInv
  <2>2. /\ Ids(queue) \subseteq Nat /\ Ids(wire) \subseteq Nat
        /\ \A t \in Held : sender[t].item.id \in Nat
    BY <2>1, IdsAreNumbers, HeldAreItems
  <2>3. Distinct(queue)
    <3>1. \A i \in DOMAIN queue : i \in Nat /\ queue[i].id \in Ids(queue)
      BY <2>1 DEF Ids
    <3> QED
      BY <2>2, <3>1 DEF OnceInv, QueueInOrder, Ascending, Distinct
  <2>4. Ids(wire) \cap Ids(queue) = {} /\ \A t \in Held : sender[t].item.id \notin Ids(queue)
    BY <2>2 DEF OnceInv, QueueInOrder
  <2> QED
    BY <2>3, <2>4 DEF AnsweredOnceInOrder, OnceInv, OnWireOnce, OneSender, Ascending
<1> QED
  BY <1>1, <1>2, <1>3, PTL DEF Spec

-----------------------------------------------------------------------------
(***************************************************************************)
(* The session table within the responder: RX registers, whoever sends     *)
(* marks, and nobody else touches it.  So what is proved of the table by   *)
(* itself holds of it here.                                                *)
(***************************************************************************)
Alone == INSTANCE SessionTable_proofs

TableNext == [Table!Next]_(Table!vars)

\* Whatever the threads do, the table takes a step of its own or none.
LEMMA TableSteps == Threading /\ [Next]_vars => TableNext
<1> SUFFICES ASSUME Threading, [Next]_vars PROVE TableNext
  OBVIOUS
<1> USE DEF TableNext
<1>1. CASE UNCHANGED tableVars
  BY <1>1 DEF tableVars, Table!vars
<1>2. ASSUME NEW k \in Slaves, NEW mac \in Macs, RxRegister(k, mac) PROVE TableNext
  BY <1>2 DEF RxRegister, Table!Next
<1>3. ASSUME NEW t \in Threads, SendMarked(t) PROVE TableNext
  <2>1. sender[t].item.slave \in Slaves
    BY <1>3 DEF SendMarked, Threading, SendersTyped, SendPlaces, Item
  <2> QED
    BY <1>3, <2>1 DEF SendMarked, Table!Next
<1>4. CASE Tick
  BY <1>4 DEF Tick, Table!Next
<1>5. ASSUME NEW t \in Threads, SendNext(t) PROVE TableNext
  BY <1>1, <1>3, <1>5 DEF SendNext, SendBegin, SendOk, SendFails, SendDropped, SendCounted
<1>6. CASE RxNext
  BY <1>1, <1>2, <1>6 DEF RxNext, RxHandle, RxTop, RxTimeout, RxDiscard, RxCount, RxRefuse,
     RxPut, RxPutFull, RxDropFull
<1>7. CASE RespNext
  BY <1>1, <1>5, <1>7 DEF RespNext, RespTop, RespGet, RespEmpty, Threads
<1>8. CASE StopNext
  BY <1>1, <1>5, <1>8 DEF StopNext, DrainGet, DrainEnd, JoinRx, JoinResp, Threads
<1>9. CASE Start \/ Stop
  BY <1>1, <1>9 DEF Start, Stop
<1>10. CASE UNCHANGED vars
  BY <1>1, <1>10 DEF vars, tableVars
<1> QED
  BY <1>4, <1>6, <1>7, <1>8, <1>9, <1>10 DEF Next

\* The responder uses the session table (register_or_touch, mark_resp_sent) as module
\* SessionTable describes it, whatever RX, RESP and stop() do in between.
THEOREM TableUsedAsSpecified == Spec => Table!Spec
<1>1. Init => Table!Init
  BY DEF Init
<1>2. BooksInv /\ [Next]_vars => [Table!Next]_(Table!vars)
  BY TableSteps DEF BooksInv, TableNext
<1> QED
  BY <1>1, <1>2, InitBooks, NextKeepsBooks, PTL DEF Spec, Table!Spec

LEMMA SameCardinality == \A S : Table!Cardinality(S) = Alone!Cardinality(S)
  BY DEF Table!Cardinality, Alone!Cardinality

\* The module is instanced by DelayResponder and by its proofs: both mean the same.
LEMMA SameRegister ==
  ASSUME NEW k \in Slaves, NEW mac \in Macs, Table!RegisterOrTouch(k, mac)
  PROVE  Alone!RegisterOrTouch(k, mac)
<1>1. Table!Limit = Alone!Limit /\ Table!Capacity = Alone!Capacity
  BY DEF Table!Limit, Alone!Limit, Table!Capacity, Alone!Capacity
<1>2. Table!Aged(sessions, now) = Alone!Aged(sessions, now)
  BY DEF Table!Aged, Alone!Aged
<1>3. Table!Oldest(sessions) = Alone!Oldest(sessions)
  BY DEF Table!Oldest, Alone!Oldest
<1>4. \A gone : Table!Without(sessions, gone) = Alone!Without(sessions, gone)
  BY DEF Table!Without, Alone!Without
<1>5. Table!Evictions(sessions, now) = Alone!Evictions(sessions, now)
  BY <1>2, <1>3 DEF Table!Evictions, Alone!Evictions
<1>6. Table!Room(sessions, k, now) = Alone!Room(sessions, k, now)
  <2>1. {Table!Without(sessions, gone) : gone \in Table!Evictions(sessions, now)}
          = {Alone!Without(sessions, gone) : gone \in Alone!Evictions(sessions, now)}
    BY <1>4, <1>5
  <2> QED
    BY <1>1, <2>1, SameCardinality, Zenon DEF Table!Room, Alone!Room
<1>7. ASSUME NEW s
      PROVE  /\ Table!Refill(s, now) = Alone!Refill(s, now)
             /\ Table!Allows(s, now) <=> Alone!Allows(s, now)
             /\ Table!Charge(s, now) = Alone!Charge(s, now)
             /\ Table!Counted(s, now) = Alone!Counted(s, now)
  <2>1. Table!Refill(s, now) = Alone!Refill(s, now)
    BY <1>1 DEF Table!Refill, Alone!Refill
  <2>2. Table!Allows(s, now) <=> Alone!Allows(s, now)
    BY <2>1 DEF Table!Allows, Alone!Allows
  <2>3. Table!Charge(s, now) = Alone!Charge(s, now)
    BY <2>1 DEF Table!Charge, Alone!Charge
  <2>4. Table!Counted(s, now) = Alone!Counted(s, now)
    BY <2>2, <2>3, Zenon DEF Table!Counted, Alone!Counted
  <2> QED
    BY <2>1, <2>2, <2>3, <2>4
<1>8. ASSUME NEW tbl
      PROVE  Table!Entry(tbl, k, mac, now) = Alone!Entry(tbl, k, mac, now)
  BY Zenon DEF Table!Entry, Alone!Entry, Table!NewSession, Alone!NewSession
<1>9. ASSUME NEW tbl, Table!Accept(tbl, k, mac, now)
      PROVE  Alone!Accept(tbl, k, mac, now)
  BY <1>7, <1>8, <1>9, Zenon DEF Table!Accept, Alone!Accept
<1>10. ASSUME NEW tbl, Table!Overflow(tbl)
      PROVE  Alone!Overflow(tbl)
  BY <1>10 DEF Table!Overflow, Alone!Overflow
<1>11. PICK tbl \in Table!Room(sessions, k, now) :
         IF k \notin DOMAIN tbl /\ Table!Cardinality(DOMAIN tbl) >= Table!Limit
         THEN Table!Overflow(tbl) ELSE Table!Accept(tbl, k, mac, now)
  BY Zenon DEF Table!RegisterOrTouch
<1>12. IF k \notin DOMAIN tbl /\ Alone!Cardinality(DOMAIN tbl) >= Alone!Limit
       THEN Alone!Overflow(tbl) ELSE Alone!Accept(tbl, k, mac, now)
  BY <1>1, <1>9, <1>10, <1>11, SameCardinality, Zenon
<1>13. Alone!Bounded(k) /\ now' = now
  BY DEF Table!RegisterOrTouch, Table!Bounded, Alone!Bounded
<1> QED
  BY <1>6, <1>11, <1>12, <1>13, Zenon DEF Alone!RegisterOrTouch

LEMMA SameNext == TableNext => [Alone!Next]_(Alone!vars)
<1> SUFFICES ASSUME TableNext PROVE [Alone!Next]_(Alone!vars)
  OBVIOUS
<1>1. CASE UNCHANGED Table!vars
  BY <1>1 DEF Table!vars, Alone!vars
<1>2. ASSUME NEW k \in Slaves, NEW mac \in Macs, Table!RegisterOrTouch(k, mac)
      PROVE  Alone!Next
  BY <1>2, SameRegister DEF Alone!Next
<1>3. ASSUME NEW k \in Slaves, Table!MarkRespSent(k) PROVE Alone!Next
  <2>1. Alone!MarkRespSent(k)
    BY <1>3 DEF Table!MarkRespSent, Alone!MarkRespSent
  <2> QED
    BY <2>1 DEF Alone!Next
<1>4. ASSUME Table!AgeOut PROVE Alone!Next
  <2>1. Alone!AgeOut
    BY <1>4 DEF Table!AgeOut, Alone!AgeOut, Table!Aged, Alone!Aged, Table!Without, Alone!Without
  <2> QED
    BY <2>1 DEF Alone!Next
<1>5. ASSUME Table!Tick PROVE Alone!Next
  BY <1>5 DEF Table!Tick, Alone!Tick, Alone!Next
<1> QED
  BY <1>1, <1>2, <1>3, <1>4, <1>5 DEF TableNext, Table!Next

LEMMA TableAlone == Table!Spec => Alone!Spec
<1>1. Table!Init => Alone!Init
  BY DEF Table!Init, Alone!Init
<1>2. [Table!Next]_(Table!vars) => [Alone!Next]_(Alone!vars)
  BY SameNext DEF TableNext
<1> QED
  BY <1>1, <1>2, PTL DEF Table!Spec, Alone!Spec

LEMMA AssumptionsMet == Alone!SessionAssumption
  BY ResponderAssumption DEF Alone!SessionAssumption

\* The limits that module SessionTable proves of the table hold in the running master:
\* never more sessions than max_slaves, and over every window no session is granted more
\* Delay_Resps than a bucketful and the refill, while three threads use it.
THEOREM TableLimitsKept == Spec => [](Table!TableBounded /\ Table!SessionRateBound)
<1>1. Alone!TableBounded => Table!TableBounded
  BY SameCardinality DEF Alone!TableBounded, Table!TableBounded, Alone!Limit, Table!Limit,
     Alone!IsFiniteSet, Table!IsFiniteSet
<1>2. Alone!SessionRateBound => Table!SessionRateBound
  BY DEF Alone!SessionRateBound, Table!SessionRateBound, Alone!Window, Table!Window,
     Alone!Capacity, Table!Capacity
<1>3. Alone!Spec => []Alone!TableBounded
  BY AssumptionsMet, Alone!AlwaysBounded
<1>4. Alone!Spec => []Alone!SessionRateBound
  BY AssumptionsMet, Alone!RateAlwaysBounded
<1> QED
  BY <1>1, <1>2, <1>3, <1>4, TableAlone, TableUsedAsSpecified, PTL

-----------------------------------------------------------------------------
(***************************************************************************)
(* Types.                                                                  *)
(***************************************************************************)
\* What TypeOK says beyond the threads, the table and the wire.
Confined ==
  /\ Len(queue) <= QueueSize
  /\ stop_event \in BOOLEAN /\ transport \in {"none", "open"}

LEMMA ConfinedStays ==
  ASSUME Threading, Confined, [Next]_vars
  PROVE  Confined'
<1>0. Len(queue) \in Nat /\ QueueSize \in Nat
  BY ResponderAssumption DEF Threading
<1>1. CASE UNCHANGED <<queue, stop_event, transport>>
  BY <1>1 DEF Confined
<1>2. ASSUME NEW t \in Threads, Take(t), UNCHANGED <<stop_event, transport>>
      PROVE  Confined'
  <2>1. Len(queue') = Len(queue) - 1
    BY <1>2, TakeFacts DEF Threading
  <2> QED
    BY <1>0, <1>2, <2>1 DEF Confined
<1>3. CASE RxPut
  <2>1. rx.item \in Item
    BY <1>3 DEF RxPut, Threading, RxTyped, Busy
  <2>2. Len(queue') = Len(queue) + 1
    BY <1>3, <2>1 DEF RxPut, Threading
  <2> QED
    BY <1>0, <1>3, <2>2 DEF RxPut, Confined
<1>4. CASE Start \/ Stop \/ JoinResp
  BY <1>4 DEF Start, Stop, JoinResp, Confined
<1>5. ASSUME NEW t \in Threads, SendNext(t) PROVE Confined'
  BY <1>1, <1>5 DEF SendNext, SendBegin, SendOk, SendFails, SendDropped, SendCounted,
     SendMarked
<1>6. CASE RxNext
  BY <1>1, <1>3, <1>6 DEF RxNext, RxHandle, RxTop, RxTimeout, RxDiscard, RxRegister, RxCount,
     RxRefuse, RxPutFull, RxDropFull
<1>7. CASE RespNext
  BY <1>1, <1>2, <1>5, <1>7 DEF RespNext, RespTop, RespGet, RespEmpty, Threads
<1>8. CASE StopNext
  BY <1>1, <1>2, <1>4, <1>5, <1>8 DEF StopNext, DrainGet, DrainEnd, JoinRx, Threads
<1>9. CASE Tick \/ UNCHANGED vars
  BY <1>1, <1>9 DEF Tick, vars
<1> QED
  BY <1>4, <1>6, <1>7, <1>8, <1>9 DEF Next

LEMMA PartsOfType ==
  Table!TypeOK /\ Threading /\ Confined /\ wire \in Seq(Item) => TypeOK
<1> SUFFICES ASSUME Table!TypeOK, Threading, Confined, wire \in Seq(Item) PROVE TypeOK
  OBVIOUS
<1>1. /\ \A t \in Threads : PlacesOf(t) = Places[t]
      /\ AllPlaces = UNION {Places[t] : t \in Threads}
  <2>1. Threads = {"resp", "main"} /\ Places["resp"] = Places.resp /\ Places["main"] = Places.main
    BY DEF Threads, Places
  <2>2. PlacesOf("resp") = Places.resp /\ PlacesOf("main") = Places.main
    BY DEF PlacesOf
  <2> HIDE DEF Places
  <2> QED
    BY <2>1, <2>2 DEF AllPlaces
<1>2. sender \in [Threads -> [pc: UNION {Places[t] : t \in Threads}, item: Item \cup {NoItem}]]
  BY <1>1 DEF Threading, SendersTyped
<1>3. \A t \in Threads : /\ sender[t].pc \in Places[t]
                         /\ sender[t].pc \in SendPlaces => sender[t].item \in Item
  BY <1>1 DEF Threading, SendersTyped
<1> QED
  BY <1>2, <1>3 DEF TypeOK, Threading, RxTyped, Confined, Busy

\* Every variable keeps its type: the queue its bound (put_nowait, queue.Full), and a
\* thread that sends, RESP or the caller of stop(), a context in its hands.
THEOREM TypeCorrect == Spec => []TypeOK
<1> DEFINE All == BooksInv /\ OnceInv /\ Confined
<1>1. Init => All
  <2>1. Init => Confined
    <3> SUFFICES ASSUME Init PROVE Confined
      OBVIOUS
    <3>1. queue = << >> /\ stop_event = FALSE /\ transport = "none"
      BY DEF Init
    <3>2. QueueSize \in Nat
      BY ResponderAssumption
    <3>3. Len(queue) <= QueueSize
      BY <3>1, <3>2
    <3> QED
      BY <3>1, <3>3 DEF Confined
  <2> QED
    BY <2>1, InitBooks, InitOnce
<1>2. All /\ [Next]_vars => All'
  BY NextKeepsBooks, NextKeepsOnce, ConfinedStays DEF BooksInv
<1>3. Spec => []Table!TypeOK
  <2>1. Alone!Spec => []Alone!TypeOK
    BY AssumptionsMet, Alone!TypeCorrect
  <2>2. Alone!TypeOK => Table!TypeOK
    BY DEF Alone!TypeOK, Table!TypeOK, Alone!Session, Table!Session, Alone!Capacity,
       Table!Capacity, Alone!Verdicts, Table!Verdicts
  <2> QED
    BY <2>1, <2>2, TableAlone, TableUsedAsSpecified, PTL
<1>4. Table!TypeOK /\ All => TypeOK
  BY PartsOfType DEF BooksInv, OnceInv
<1> QED
  BY <1>1, <1>2, <1>3, <1>4, PTL DEF Spec

=============================================================================
