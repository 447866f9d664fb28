--------------------------- MODULE DelayResponder ---------------------------
(***************************************************************************)
(* The Delay_Req -> Delay_Resp path of the layer-2 master                  *)
(* (ptp/l2master/master.py): the RX thread filters and registers requests  *)
(* and puts them on a bounded queue, the RESP thread answers them, and     *)
(* stop() drains the queue from the caller's thread while both may still   *)
(* be running.  The counters of MasterStats are bumped one at a time under *)
(* their own lock, so the three threads interleave between any two bumps.  *)
(***************************************************************************)
EXTENDS Integers, Sequences, FiniteSets

CONSTANTS
  Slaves, Macs, MaxSlaves, Rate, TicksPerSec, Timeout, MaxTime, MaxRequests,
  QueueSize,   \* capacity of _resp_queue (1024 in the code)
  Discards,    \* counters a filtered frame may bump, or "none"
  MaxFrames    \* bound: frames the RX thread receives, calls of recv() that fail
               \* counted

ASSUME ResponderAssumption ==
  /\ MaxSlaves \in Int
  /\ TicksPerSec \in Nat \ {0}
  /\ {Rate, Timeout, MaxTime, MaxRequests} \subseteq Nat
  /\ QueueSize \in Nat \ {0}
  /\ MaxFrames \in Nat
  /\ Discards \subseteq
       {"rx_parse_errors", "rx_bad_version", "rx_other_domain", "rx_other_type", "none"}

VARIABLES
  \* the session table (module SessionTable)
  sessions, overflow_count, verdict, now, grants,
  stats,       \* MasterStats: the counters of the receive path
  queue,       \* _resp_queue: contexts waiting for a Delay_Resp
  rx,          \* the RX thread: where it is and the request it holds
  sender,      \* the threads that send: "resp" and, in stop(), "main"
  stop_event,  \* _stop_event
  transport,   \* self._transport: "none" or "open"
  frames,      \* frames received so far
  wire,        \* history: Delay_Resp handed to the transport
  abandoned    \* history: contexts dropped because the transport was gone

tableVars == <<sessions, overflow_count, verdict, now, grants>>
vars == <<sessions, overflow_count, verdict, now, grants, stats, queue, rx, sender,
          stop_event, transport, frames, wire, abandoned>>

Table == INSTANCE SessionTable

Counters == {"rx_parse_errors", "rx_bad_version", "rx_other_domain", "rx_other_type",
             "delay_req_recv", "delay_resp_sent", "delay_resp_dropped",
             "session_overflow", "resp_queue_full", "tx_errors"}

Threads == {"resp", "main"}

\* A context handed from RX to the sender: the frame it came with stands for
\* the sequence number, the receive stamp and the MAC it carries.
Item == [id: 1..MaxFrames, slave: Slaves]
NoItem == [id |-> 0]

Bump(counter) == stats' = [stats EXCEPT ![counter] = @ + 1]

-----------------------------------------------------------------------------
(***************************************************************************)
(* start(): open the transport, clear the event, start RX and RESP.        *)
(***************************************************************************)
Start ==
  /\ sender["main"].pc = "init"
  /\ transport' = "open"
  /\ stop_event' = FALSE
  /\ rx' = [rx EXCEPT !.pc = "top"]
  /\ sender' = [sender EXCEPT !["main"].pc = "running", !["resp"].pc = "top"]
  /\ UNCHANGED <<tableVars, stats, queue, frames, wire, abandoned>>

-----------------------------------------------------------------------------
(***************************************************************************)
(* RX thread: _rx_loop and _handle_frame.                                  *)
(***************************************************************************)
RxGo(pc) == rx' = [rx EXCEPT !.pc = pc]

RxDone == rx' = [pc |-> "top", item |-> NoItem]

\* Mutant of RxTop: stop_event is not looked at.
RxTopForever ==
  /\ rx.pc = "top"
  /\ RxGo("recv")
  /\ UNCHANGED <<tableVars, stats, queue, sender, stop_event, transport, frames, wire, abandoned>>

RxTop ==
  /\ rx.pc = "top"
  /\ RxGo(IF stop_event THEN "exit" ELSE "recv")
  /\ UNCHANGED <<tableVars, stats, queue, sender, stop_event, transport, frames, wire, abandoned>>

\* recv() gave no PTP frame within its timeout.
RxTimeout ==
  /\ rx.pc = "recv"
  /\ RxGo("top")
  /\ UNCHANGED <<tableVars, stats, queue, sender, stop_event, transport, frames, wire, abandoned>>

\* A frame that a filter refuses: too short, other version, domain or type,
\* our own, a foreign Announce.  The last two bump no counter.  A recv() that fails
\* is one too many of the first kind: it bumps rx_parse_errors, and the wait that
\* follows ends, as RxTop does, with a look at stop_event.
RxDiscard(counter) ==
  /\ rx.pc = "recv"
  /\ frames < MaxFrames
  /\ frames' = frames + 1
  /\ IF counter = "none" THEN UNCHANGED stats ELSE Bump(counter)
  /\ RxDone
  /\ UNCHANGED <<tableVars, queue, sender, stop_event, transport, wire, abandoned>>

\* A Delay_Req: register its sender.
RxRegister(k, mac) ==
  /\ rx.pc = "recv"
  /\ frames < MaxFrames
  /\ frames' = frames + 1
  /\ Table!RegisterOrTouch(k, mac)
  /\ rx' = [pc |-> "count", item |-> [id |-> frames + 1, slave |-> k]]
  /\ UNCHANGED <<stats, queue, sender, stop_event, transport, wire, abandoned>>

RxCount ==
  /\ rx.pc = "count"
  /\ Bump("delay_req_recv")
  /\ RxGo(IF verdict = "allowed" THEN "put" ELSE "refuse")
  /\ UNCHANGED <<tableVars, queue, sender, stop_event, transport, frames, wire, abandoned>>

\* No session, or its bucket is empty.
RxRefuse ==
  /\ rx.pc = "refuse"
  /\ Bump(IF verdict = "overflow" THEN "session_overflow" ELSE "delay_resp_dropped")
  /\ RxDone
  /\ UNCHANGED <<tableVars, queue, sender, stop_event, transport, frames, wire, abandoned>>

\* Mutants of RxPut: one place too many; a stack instead of a queue.
RxPutOneMore ==
  /\ rx.pc = "put"
  /\ queue' = Append(queue, rx.item)
  /\ RxDone
  /\ UNCHANGED <<tableVars, stats, sender, stop_event, transport, frames, wire, abandoned>>

RxPutFirst ==
  /\ rx.pc = "put"
  /\ Len(queue) < QueueSize
  /\ queue' = <<rx.item>> \o queue
  /\ RxDone
  /\ UNCHANGED <<tableVars, stats, sender, stop_event, transport, frames, wire, abandoned>>

RxPut ==
  /\ rx.pc = "put"
  /\ Len(queue) < QueueSize
  /\ queue' = Append(queue, rx.item)
  /\ RxDone
  /\ UNCHANGED <<tableVars, stats, sender, stop_event, transport, frames, wire, abandoned>>

\* Mutant of RxPutFull: the request is not counted as dropped.
RxPutFullUncounted ==
  /\ rx.pc = "put"
  /\ Len(queue) >= QueueSize
  /\ Bump("resp_queue_full")
  /\ RxDone
  /\ UNCHANGED <<tableVars, queue, sender, stop_event, transport, frames, wire, abandoned>>

\* put_nowait raised Full: two counters, one after the other.
RxPutFull ==
  /\ rx.pc = "put"
  /\ Len(queue) >= QueueSize
  /\ Bump("resp_queue_full")
  /\ RxGo("full")
  /\ UNCHANGED <<tableVars, queue, sender, stop_event, transport, frames, wire, abandoned>>

RxDropFull ==
  /\ rx.pc = "full"
  /\ Bump("delay_resp_dropped")
  /\ RxDone
  /\ UNCHANGED <<tableVars, queue, sender, stop_event, transport, frames, wire, abandoned>>

-----------------------------------------------------------------------------
(***************************************************************************)
(* RESP thread: _resp_loop.                                                *)
(***************************************************************************)
SenderGo(t, pc) == sender' = [sender EXCEPT ![t].pc = pc]

\* Back to the loop that called _send_delay_resp.
SenderDone(t) ==
  sender' = [sender EXCEPT ![t] = [pc |-> IF t = "resp" THEN "top" ELSE "drain",
                                   item |-> NoItem]]

\* Mutant of Take: the head stays.
Peek(t) ==
  /\ queue # << >>
  /\ UNCHANGED queue
  /\ sender' = [sender EXCEPT ![t] = [pc |-> "send", item |-> Head(queue)]]

\* Thread t takes the head of the queue.
Take(t) ==
  /\ queue # << >>
  /\ queue' = Tail(queue)
  /\ sender' = [sender EXCEPT ![t] = [pc |-> "send", item |-> Head(queue)]]

RespTop ==
  /\ sender["resp"].pc = "top"
  /\ SenderGo("resp", IF stop_event THEN "exit" ELSE "get")
  /\ UNCHANGED <<tableVars, stats, queue, rx, stop_event, transport, frames, wire, abandoned>>

RespGet ==
  /\ sender["resp"].pc = "get"
  /\ Take("resp")
  /\ UNCHANGED <<tableVars, stats, rx, stop_event, transport, frames, wire, abandoned>>

\* Mutant of RespEmpty: an empty queue ends the thread.
RespEmptyExits ==
  /\ sender["resp"].pc = "get"
  /\ queue = << >>
  /\ SenderGo("resp", "exit")
  /\ UNCHANGED <<tableVars, stats, queue, rx, stop_event, transport, frames, wire, abandoned>>

RespEmpty ==
  /\ sender["resp"].pc = "get"
  /\ queue = << >>
  /\ SenderGo("resp", "top")
  /\ UNCHANGED <<tableVars, stats, queue, rx, stop_event, transport, frames, wire, abandoned>>

-----------------------------------------------------------------------------
(***************************************************************************)
(* _send_delay_resp, run by the RESP thread and, in stop(), by the caller. *)
(***************************************************************************)
\* The transport is read once, at the start of the call.
SendBegin(t) ==
  /\ sender[t].pc = "send"
  /\ IF transport = "none"
     THEN abandoned' = abandoned + 1 /\ SenderDone(t)
     ELSE UNCHANGED abandoned /\ SenderGo(t, "sending")
  /\ UNCHANGED <<tableVars, stats, queue, rx, stop_event, transport, frames, wire>>

SendOk(t) ==
  /\ sender[t].pc = "sending"
  /\ transport = "open"
  /\ wire' = Append(wire, sender[t].item)
  /\ SenderGo(t, "sent")
  /\ UNCHANGED <<tableVars, stats, queue, rx, stop_event, transport, frames, abandoned>>

\* send() raised OSError, as it does on a closed socket; no retry.
SendFails(t) ==
  /\ sender[t].pc = "sending"
  /\ Bump("tx_errors")
  /\ SenderGo(t, "failed")
  /\ UNCHANGED <<tableVars, queue, rx, stop_event, transport, frames, wire, abandoned>>

SendDropped(t) ==
  /\ sender[t].pc = "failed"
  /\ Bump("delay_resp_dropped")
  /\ SenderDone(t)
  /\ UNCHANGED <<tableVars, queue, rx, stop_event, transport, frames, wire, abandoned>>

SendCounted(t) ==
  /\ sender[t].pc = "sent"
  /\ Bump("delay_resp_sent")
  /\ SenderGo(t, "mark")
  /\ UNCHANGED <<tableVars, queue, rx, stop_event, transport, frames, wire, abandoned>>

SendMarked(t) ==
  /\ sender[t].pc = "mark"
  /\ Table!MarkRespSent(sender[t].item.slave)
  /\ SenderDone(t)
  /\ UNCHANGED <<stats, queue, rx, stop_event, transport, frames, wire, abandoned>>

-----------------------------------------------------------------------------
(***************************************************************************)
(* stop(): set the event, drain, join the threads, close the transport.    *)
(***************************************************************************)
Stop ==
  /\ sender["main"].pc = "running"
  /\ stop_event' = TRUE
  /\ SenderGo("main", "drain")
  /\ UNCHANGED <<tableVars, stats, queue, rx, transport, frames, wire, abandoned>>

DrainGet ==
  /\ sender["main"].pc = "drain"
  /\ Take("main")
  /\ UNCHANGED <<tableVars, stats, rx, stop_event, transport, frames, wire, abandoned>>

\* The queue is empty, or the 0.1 s allowed for draining have passed.
DrainEnd ==
  /\ sender["main"].pc = "drain"
  /\ SenderGo("main", "join_rx")
  /\ UNCHANGED <<tableVars, stats, queue, rx, stop_event, transport, frames, wire, abandoned>>

\* join(timeout=2.0) returns when the thread has ended or the time is up.
JoinRx ==
  /\ sender["main"].pc = "join_rx"
  /\ SenderGo("main", "join_resp")
  /\ UNCHANGED <<tableVars, stats, queue, rx, stop_event, transport, frames, wire, abandoned>>

JoinResp ==
  /\ sender["main"].pc = "join_resp"
  /\ SenderGo("main", "stopped")
  /\ transport' = "none"
  /\ UNCHANGED <<tableVars, stats, queue, rx, stop_event, frames, wire, abandoned>>

\* Time passes.
Tick ==
  /\ Table!Tick
  /\ UNCHANGED <<stats, queue, rx, sender, stop_event, transport, frames, wire, abandoned>>

-----------------------------------------------------------------------------
Init ==
  /\ Table!Init
  /\ stats = [c \in Counters |-> 0]
  /\ queue = << >>
  /\ rx = [pc |-> "init", item |-> NoItem]
  /\ sender = [t \in Threads |-> [pc |-> "init", item |-> NoItem]]
  /\ stop_event = FALSE
  /\ transport = "none"
  /\ frames = 0
  /\ wire = << >>
  /\ abandoned = 0

RxHandle == RxCount \/ RxRefuse \/ RxPut \/ RxPutFull \/ RxDropFull

RxNext ==
  \/ RxTop
  \/ RxTimeout
  \/ \E c \in Discards : RxDiscard(c)
  \/ \E k \in Slaves, mac \in Macs : RxRegister(k, mac)
  \/ RxHandle

SendNext(t) ==
  \/ SendBegin(t)
  \/ SendOk(t)
  \/ SendFails(t)
  \/ SendDropped(t)
  \/ SendCounted(t)
  \/ SendMarked(t)

RespNext == RespTop \/ RespGet \/ RespEmpty \/ SendNext("resp")

StopNext == DrainGet \/ DrainEnd \/ JoinRx \/ JoinResp \/ SendNext("main")

Next ==
  \/ Start
  \/ Stop
  \/ RxNext
  \/ RespNext
  \/ StopNext
  \/ Tick

Spec == Init /\ [][Next]_vars

\* Every started thread keeps running, stop() once called is carried on, and
\* time passes.  start(), stop() and the frames on the wire are up to others.
FairSpec ==
  /\ Spec
  /\ WF_vars(RxTop) /\ WF_vars(RxTimeout) /\ WF_vars(RxHandle)
  /\ WF_vars(RespNext)
  /\ WF_vars(StopNext)
  /\ WF_vars(Tick)

-----------------------------------------------------------------------------
(***************************************************************************)
(* Properties                                                              *)
(***************************************************************************)
RxPlaces == {"init", "top", "recv", "count", "refuse", "put", "full", "exit"}
SendPlaces == {"send", "sending", "sent", "failed", "mark"}
Places == [resp |-> {"init", "top", "get", "exit"} \cup SendPlaces,
           main |-> {"init", "running", "drain", "join_rx", "join_resp", "stopped"}
                      \cup SendPlaces]

\* Every variable has its type; a thread that is sending holds a context.
TypeOK ==
  /\ Table!TypeOK
  /\ stats \in [Counters -> Nat]
  /\ queue \in Seq(Item) /\ Len(queue) <= QueueSize
  /\ rx \in [pc: RxPlaces, item: Item \cup {NoItem}]
  /\ rx.pc \in {"count", "refuse", "put", "full"} => rx.item \in Item
  /\ sender \in [Threads -> [pc: UNION {Places[t] : t \in Threads},
                             item: Item \cup {NoItem}]]
  /\ \A t \in Threads : /\ sender[t].pc \in Places[t]
                        /\ sender[t].pc \in SendPlaces => sender[t].item \in Item
  /\ stop_event \in BOOLEAN
  /\ transport \in {"none", "open"}
  /\ frames \in 0..MaxFrames
  /\ wire \in Seq(Item)
  /\ abandoned \in Nat

One(b) == IF b THEN 1 ELSE 0

\* Contexts in a thread's hand, already counted as received and not yet
\* counted as sent or dropped.
InHand ==
  One(rx.pc \in {"refuse", "put", "full"})
    + One(sender["resp"].pc \in {"send", "sending", "sent", "failed"})
    + One(sender["main"].pc \in {"send", "sending", "sent", "failed"})

\* The books balance at every instant: each Delay_Req counted as received has
\* been answered, counted as dropped, refused for want of a session, is queued
\* or in the hand of one of the three threads, or was abandoned because the
\* transport had been closed.  Two threads take from the queue while a third
\* fills it, and no step may count a request twice or forget it.
RequestsAccounted ==
  stats["delay_req_recv"] =
    stats["delay_resp_sent"] + stats["delay_resp_dropped"] + stats["session_overflow"]
      + Len(queue) + InHand + abandoned

\* A context is in one place only, so no Delay_Req is answered twice although
\* the RESP thread and stop() both take from the queue and both send; and while
\* the master runs, responses leave in the order in which the requests came in.
\* (During stop() the two senders may overtake one another.)
Ids(seq) == {seq[i].id : i \in DOMAIN seq}

Distinct(seq) == \A i, j \in DOMAIN seq : i # j => seq[i].id # seq[j].id

Held == {t \in Threads : sender[t].pc \in {"send", "sending"}}

AnsweredOnceInOrder ==
  /\ Distinct(wire)
  /\ Distinct(queue)
  /\ Ids(wire) \cap Ids(queue) = {}
  /\ \A t \in Held : sender[t].item.id \notin Ids(wire) \cup Ids(queue)
  /\ Held = Threads => sender["resp"].item.id # sender["main"].item.id
  /\ ~stop_event => \A i, j \in DOMAIN wire : i < j => wire[i].id < wire[j].id

\* A context taken on is settled: it does not stay queued or in hand forever,
\* unless the master is stopped.
Outstanding(n) ==
  \/ n \in Ids(queue)
  \/ rx.pc \in {"count", "refuse", "put", "full"} /\ rx.item.id = n
  \/ \E t \in Threads : sender[t].pc \in SendPlaces /\ sender[t].item.id = n

EveryRequestSettles ==
  \A n \in 1..MaxFrames : Outstanding(n) ~> (~Outstanding(n) \/ stop_event)

\* stop() returns and both threads end, whatever they were doing.
StopCompletes ==
  stop_event ~> (sender["main"].pc = "stopped" /\ sender["resp"].pc = "exit"
                   /\ rx.pc = "exit")

=============================================================================
