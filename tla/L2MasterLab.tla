----------------------------- MODULE L2MasterLab ----------------------------
(***************************************************************************)
(* The web lab of the L2 master (web/l2_master_lab.py): the one master of  *)
(* the server, started, replaced and stopped from several HTTP threads;    *)
(* the collector to which the threads of a master hand their frames; and   *)
(* the two ways to read them, an SSE stream with a bounded queue and a     *)
(* poll by index.                                                          *)
(*                                                                         *)
(* Every run of the lab has a master and a collector of its own, so what   *)
(* the code keeps in the run object is a function on run numbers here.     *)
(***************************************************************************)
EXTENDS Integers, FiniteSets, SequencesExt

CONSTANTS
  Threads,     \* HTTP worker threads
  Sources,     \* threads of a master that send or receive frames
  Streams,     \* SSE connections
  MaxRecords,  \* _MAX_FRAME_RECORDS (5000 in the code)
  Chunk,       \* records dropped at a time, _MAX_FRAME_RECORDS // 10
  QueueMax,    \* maxsize of a subscriber's queue (512 in the code)
  MaxRuns,     \* bound: masters started
  MaxFrames,   \* bound: frames of all runs together
  MaxRequests, \* bound: start and stop requests
  MaxPolls     \* bound: polls

Nobody == "nobody"

ASSUME LabAssumption ==
  /\ Nobody \notin Threads
  /\ {MaxRecords, Chunk, QueueMax} \subseteq Nat \ {0} /\ Chunk <= MaxRecords
  /\ {MaxRuns, MaxFrames, MaxRequests, MaxPolls} \subseteq Nat

VARIABLES
  lock,      \* _LOCK: the thread that holds it, or Nobody
  run,       \* _RUN: the number of the run, or 0
  master,    \* of each run: "new", "open" or "stopped"
  http,      \* of each HTTP thread: where it is, and the run in its hands
  requests,  \* requests so far
  records,   \* of each run: the collector's records
  subs,      \* of each run: the collector's subscribers
  emitter,   \* of each run and source: where it is in on_frame
  emitted,   \* of each run: frames so far
  queue,     \* of each stream: its queue
  stream,    \* of each stream: where it is, and its run
  seen,      \* history: the frames each stream has delivered
  poller,    \* a client that polls: where it is, its run, its next index
  polls,     \* polls so far
  polled     \* history: the frames the polls have delivered

registry == <<lock, run, master, http, requests>>
collector == <<records, subs, emitter, emitted>>
streaming == <<stream, seen>>
polling == <<poller, polls, polled>>
vars == <<registry, collector, queue, streaming, polling>>

Runs == 1..MaxRuns

\* The n-th frame of a run, handed over by one of the master's threads.
Frame == [run: Runs, source: Sources, n: Nat \ {0}]
NoFrame == [run |-> 0]

-----------------------------------------------------------------------------
(***************************************************************************)
(* start_l2_master_lab() and stop_l2_master_lab().                         *)
(***************************************************************************)
\* Mutant of Acquire: nobody keeps others out.
AcquireNothing(t) == UNCHANGED lock

Acquire(t) == lock = Nobody /\ lock' = t

Release(t) == lock' = Nobody

At(t, place, r) == http' = [http EXCEPT ![t] = [pc |-> place, id |-> r]]

\* The threads of the pool are interchangeable: any idle one will do.
Request(op) ==
  /\ requests < MaxRequests
  /\ requests' = requests + 1
  /\ \E t \in Threads : http[t].pc = "idle"
  /\ At(CHOOSE t \in Threads : http[t].pc = "idle", op, 0)
  /\ UNCHANGED <<lock, run, master, collector, queue, streaming, polling>>

\* PtpL2Master.stop() has joined the threads of the master and closed its transport.
MasterStops(r) ==
  /\ master[r] = "open"
  /\ \A s \in Sources : emitter[r][s].pc = "idle"
  /\ master' = [master EXCEPT ![r] = "stopped"]

\* The lock is held until the new run has taken the place of the old one.
StartLocks(t) ==
  /\ http[t].pc = "start"
  /\ Acquire(t)
  /\ At(t, IF run = 0 THEN "open" ELSE "stop_old", run)
  /\ UNCHANGED <<run, master, requests, collector, queue, streaming, polling>>

OldStops(t) ==
  /\ http[t].pc = "stop_old"
  /\ MasterStops(http[t].id)
  /\ run' = 0
  /\ At(t, "open", 0)
  /\ UNCHANGED <<lock, requests, collector, queue, streaming, polling>>

\* From here on the threads of the new master send.
Opens(t) ==
  /\ http[t].pc = "open"
  /\ \E r \in Runs :
       /\ master[r] = "new" /\ \A q \in 1..r - 1 : master[q] # "new"
       /\ master' = [master EXCEPT ![r] = "open"]
       /\ At(t, "publish", r)
  /\ UNCHANGED <<lock, run, requests, collector, queue, streaming, polling>>

OpenFails(t) ==
  /\ http[t].pc = "open"
  /\ Release(t)
  /\ At(t, "idle", 0)
  /\ UNCHANGED <<run, master, requests, collector, queue, streaming, polling>>

Publishes(t) ==
  /\ http[t].pc = "publish"
  /\ run' = http[t].id
  /\ Release(t)
  /\ At(t, "idle", 0)
  /\ UNCHANGED <<master, requests, collector, queue, streaming, polling>>

\* stop() takes the run under the lock and stops its master without it.
StopTakes(t) ==
  /\ http[t].pc = "stop"
  /\ lock = Nobody
  /\ run' = 0
  /\ IF run = 0 THEN At(t, "idle", 0) ELSE At(t, "stop_taken", run)
  /\ UNCHANGED <<lock, master, requests, collector, queue, streaming, polling>>

StopEnds(t) ==
  /\ http[t].pc = "stop_taken"
  /\ MasterStops(http[t].id)
  /\ At(t, "idle", 0)
  /\ UNCHANGED <<lock, run, requests, collector, queue, streaming, polling>>

-----------------------------------------------------------------------------
(***************************************************************************)
(* The collector: on_frame(), called from the threads of a master.         *)
(***************************************************************************)
Idle == [pc |-> "idle", frame |-> NoFrame, todo |-> {}, at |-> Nobody]

Emitter(r, s, e) == emitter' = [emitter EXCEPT ![r][s] = e]

\* Beyond the bound the oldest records go, in chunks.  (TrimmedLate: mutant,
\* an off-by-one.)
TrimmedLate(recs) ==
  IF Len(recs) > MaxRecords + 1 THEN SubSeq(recs, Chunk + 1, Len(recs)) ELSE recs

Trimmed(recs) ==
  IF Len(recs) > MaxRecords THEN SubSeq(recs, Chunk + 1, Len(recs)) ELSE recs

OnFrame(r, s) ==
  /\ master[r] = "open" /\ emitter[r][s].pc = "idle"
  /\ FoldFunction(+, 0, emitted) < MaxFrames
  /\ LET frame == [run |-> r, source |-> s, n |-> emitted[r] + 1] IN
       /\ records' = [records EXCEPT ![r] = Trimmed(Append(@, frame))]
       /\ Emitter(r, s, [emitter[r][s] EXCEPT !.pc = "notify", !.frame = frame])
  /\ emitted' = [emitted EXCEPT ![r] = @ + 1]
  /\ UNCHANGED <<registry, subs, queue, streaming, polling>>

\* On to the next subscriber, or out of on_frame.
ServeNext(r, s, todo) ==
  Emitter(r, s, IF todo = {} THEN Idle
                ELSE [emitter[r][s] EXCEPT !.pc = "put", !.todo = todo, !.at = Nobody])

\* _notify works on a copy of the list of subscribers.
Notify(r, s) ==
  /\ emitter[r][s].pc = "notify"
  /\ ServeNext(r, s, subs[r])
  /\ UNCHANGED <<registry, records, subs, emitted, queue, streaming, polling>>

Room(q) == Len(queue[q]) < QueueMax
Enqueue(r, s, q) == queue' = [queue EXCEPT ![q] = Append(@, emitter[r][s].frame)]

Served(r, s, q) == ServeNext(r, s, emitter[r][s].todo \ {q})

Put(r, s, q) ==
  /\ emitter[r][s].pc = "put" /\ q \in emitter[r][s].todo
  /\ IF Room(q)
     THEN Enqueue(r, s, q) /\ Served(r, s, q)
     ELSE Emitter(r, s, [emitter[r][s] EXCEPT !.pc = "full", !.at = q]) /\ UNCHANGED queue
  /\ UNCHANGED <<registry, records, subs, emitted, streaming, polling>>

\* A full queue loses its oldest frame; if it has been emptied meanwhile, the
\* new frame is given up (queue.Empty is passed over).
DropOldest(r, s) ==
  /\ emitter[r][s].pc = "full"
  /\ LET q == emitter[r][s].at IN
       IF queue[q] = <<>>
       THEN Served(r, s, q) /\ UNCHANGED queue
       ELSE /\ queue' = [queue EXCEPT ![q] = Tail(@)]
            /\ Emitter(r, s, [emitter[r][s] EXCEPT !.pc = "again"])
  /\ UNCHANGED <<registry, records, subs, emitted, streaming, polling>>

\* If another source has filled the place, queue.Full leaves on_frame (and is
\* caught by the master): the subscribers still to come miss the frame.
PutAgain(r, s) ==
  /\ emitter[r][s].pc = "again"
  /\ LET q == emitter[r][s].at IN
       IF Room(q)
       THEN Enqueue(r, s, q) /\ Served(r, s, q)
       ELSE Emitter(r, s, Idle) /\ UNCHANGED queue
  /\ UNCHANGED <<registry, records, subs, emitted, streaming, polling>>

-----------------------------------------------------------------------------
(***************************************************************************)
(* stream_l2_master_events(), one connection of the browser.               *)
(***************************************************************************)
StreamAt(q, place, r) == stream' = [stream EXCEPT ![q] = [pc |-> place, id |-> r]]

Connect(q) ==
  /\ stream[q].pc = "off"
  /\ StreamAt(q, IF run = 0 THEN "closed" ELSE "subscribe", run)
  /\ UNCHANGED <<registry, collector, queue, seen, polling>>

\* Mutant of Subscribe: what has been recorded so far is put in the queue.
SubscribeWithBacklog(q) ==
  /\ stream[q].pc = "subscribe"
  /\ subs' = [subs EXCEPT ![stream[q].id] = @ \cup {q}]
  /\ LET recs == records[stream[q].id] IN
       queue' = [queue EXCEPT ![q] = SubSeq(recs, Max({1, Len(recs) - QueueMax + 1}), Len(recs))]
  /\ StreamAt(q, "loop", stream[q].id)
  /\ UNCHANGED <<registry, records, emitter, emitted, seen, polling>>

Subscribe(q) ==
  /\ stream[q].pc = "subscribe"
  /\ subs' = [subs EXCEPT ![stream[q].id] = @ \cup {q}]
  /\ StreamAt(q, "loop", stream[q].id)
  /\ UNCHANGED <<registry, records, emitter, emitted, queue, seen, polling>>

\* Mutant of StreamLoop: it goes on while there is a run, whichever it is.
StreamLoopAny(q) ==
  /\ stream[q].pc = "loop"
  /\ StreamAt(q, IF run # 0 THEN "drain" ELSE "finish", stream[q].id)
  /\ UNCHANGED <<registry, collector, queue, seen, polling>>

StreamLoop(q) ==
  /\ stream[q].pc = "loop"
  /\ StreamAt(q, IF run = stream[q].id THEN "drain" ELSE "finish", stream[q].id)
  /\ UNCHANGED <<registry, collector, queue, seen, polling>>

\* While it drains it takes frame after frame; when it waits, one.
Deliver(q) ==
  /\ stream[q].pc \in {"drain", "wait"} /\ queue[q] # <<>>
  /\ seen' = [seen EXCEPT ![q] = Append(@, Head(queue[q]))]
  /\ queue' = [queue EXCEPT ![q] = Tail(@)]
  /\ StreamAt(q, IF stream[q].pc = "drain" THEN "drain" ELSE "loop", stream[q].id)
  /\ UNCHANGED <<registry, collector, polling>>

Drained(q) ==
  /\ stream[q].pc = "drain" /\ queue[q] = <<>>
  /\ StreamAt(q, "wait", stream[q].id)
  /\ UNCHANGED <<registry, collector, queue, seen, polling>>

WaitTimesOut(q) ==
  /\ stream[q].pc = "wait" /\ queue[q] = <<>>
  /\ StreamAt(q, "loop", stream[q].id)
  /\ UNCHANGED <<registry, collector, queue, seen, polling>>

\* The browser goes away: the generator is closed where it has yielded, or cancelled
\* where it waits.
Disconnect(q) ==
  /\ stream[q].pc \in {"drain", "loop", "wait"}
  /\ StreamAt(q, "finish", stream[q].id)
  /\ UNCHANGED <<registry, collector, queue, seen, polling>>

StreamEnds(q) ==
  /\ stream[q].pc = "finish"
  /\ subs' = [subs EXCEPT ![stream[q].id] = @ \ {q}]
  /\ StreamAt(q, "closed", stream[q].id)
  /\ UNCHANGED <<registry, records, emitter, emitted, queue, seen, polling>>

-----------------------------------------------------------------------------
(***************************************************************************)
(* poll_l2_master_lab(), called by a client that passes next_index on.     *)
(***************************************************************************)
PollBegins ==
  /\ poller.pc = "idle" /\ polls < MaxPolls
  /\ polls' = polls + 1
  /\ poller' = IF run = 0 THEN [pc |-> "idle", id |-> 0, since |-> 0]
                          ELSE [poller EXCEPT !.pc = "read", !.id = run]
  /\ UNCHANGED <<registry, collector, queue, streaming, polled>>

\* records_since() and total() take the lock of the collector one after the other.
RecordsSince ==
  /\ poller.pc = "read"
  /\ polled' = polled \o SubSeq(records[poller.id], poller.since + 1, Len(records[poller.id]))
  /\ poller' = [poller EXCEPT !.pc = "total"]
  /\ UNCHANGED <<registry, collector, queue, streaming, polls>>

\* Mutant of Total: the index of the last record instead of the one after it.
TotalLessOne ==
  /\ poller.pc = "total"
  /\ poller' = [poller EXCEPT !.pc = "idle", !.since = Max({0, Len(records[poller.id]) - 1})]
  /\ UNCHANGED <<registry, collector, queue, streaming, polls, polled>>

Total ==
  /\ poller.pc = "total"
  /\ poller' = [poller EXCEPT !.pc = "idle", !.since = Len(records[poller.id])]
  /\ UNCHANGED <<registry, collector, queue, streaming, polls, polled>>

-----------------------------------------------------------------------------
\* Streams and polls do not notice one another: a behaviour has the one or the other.
Init ==
  /\ lock = Nobody /\ run = 0
  /\ master = [r \in Runs |-> "new"]
  /\ http = [t \in Threads |-> [pc |-> "idle", id |-> 0]]
  /\ requests = 0
  /\ records = [r \in Runs |-> <<>>]
  /\ subs = [r \in Runs |-> {}]
  /\ emitter = [r \in Runs |-> [s \in Sources |-> Idle]]
  /\ emitted = [r \in Runs |-> 0]
  /\ queue = [q \in Streams |-> <<>>]
  /\ \E readers \in {"streams", "polls"} :
       /\ stream = [q \in Streams |->
            [pc |-> IF readers = "streams" THEN "off" ELSE "closed", id |-> 0]]
       /\ polls = IF readers = "polls" THEN 0 ELSE MaxPolls
  /\ seen = [q \in Streams |-> <<>>]
  /\ poller = [pc |-> "idle", id |-> 0, since |-> 0]
  /\ polled = <<>>

Handles(t) ==
  \/ StartLocks(t) \/ OldStops(t) \/ Opens(t) \/ OpenFails(t) \/ Publishes(t)
  \/ StopTakes(t) \/ StopEnds(t)

Emits(r, s) ==
  \/ Notify(r, s) \/ DropOldest(r, s) \/ PutAgain(r, s)
  \/ \E q \in Streams : Put(r, s, q)

Streaming(q) ==
  \/ Subscribe(q) \/ StreamLoop(q) \/ Deliver(q) \/ Drained(q) \/ WaitTimesOut(q)
  \/ StreamEnds(q)

Next ==
  \/ \E op \in {"start", "stop"} : Request(op)
  \/ \E t \in Threads : Handles(t)
  \/ \E r \in Runs, s \in Sources : OnFrame(r, s) \/ Emits(r, s)
  \/ \E q \in Streams : Connect(q) \/ Streaming(q) \/ Disconnect(q)
  \/ PollBegins \/ RecordsSince \/ Total

Spec == Init /\ [][Next]_vars

\* The server keeps serving its streams; no other fairness is needed.
FairSpec ==
  /\ Spec
  /\ \A q \in Streams : WF_vars(Streaming(q))

-----------------------------------------------------------------------------
(***************************************************************************)
(* Properties.                                                             *)
(***************************************************************************)
\* Every variable has its type, and queues and records keep within their bounds.
TypeOK ==
  /\ lock \in Threads \cup {Nobody} /\ run \in 0..MaxRuns
  /\ master \in [Runs -> {"new", "open", "stopped"}]
  /\ http \in [Threads -> [pc: {"idle", "start", "stop_old", "open", "publish", "stop",
                                "stop_taken"}, id: 0..MaxRuns]]
  /\ requests \in 0..MaxRequests
  /\ records \in [Runs -> Seq(Frame)]
  /\ \A r \in Runs : Len(records[r]) <= MaxRecords
  /\ subs \in [Runs -> SUBSET Streams]
  /\ emitter \in [Runs -> [Sources ->
       [pc: {"idle", "notify", "put", "full", "again"}, frame: Frame \cup {NoFrame},
        todo: SUBSET Streams, at: Streams \cup {Nobody}]]]
  /\ emitted \in [Runs -> Nat]
  /\ queue \in [Streams -> Seq(Frame)] /\ \A q \in Streams : Len(queue[q]) <= QueueMax
  /\ stream \in [Streams -> [pc: {"off", "subscribe", "loop", "drain", "wait", "finish",
                                  "closed"}, id: 0..MaxRuns]]
  /\ seen \in [Streams -> Seq(Frame)]
  /\ poller \in [pc: {"idle", "read", "total"}, id: 0..MaxRuns, since: 0..MaxRecords]
  /\ polls \in 0..MaxPolls /\ polled \in Seq(Frame)

\* No master is lost sight of: one that is running is the run of the server or
\* in the hands of a request that will publish or stop it.  So the raw NIC
\* cannot stay taken by a master that nothing stops.
NoOrphan ==
  \A r \in Runs : master[r] = "open" =>
    \/ run = r
    \/ \E t \in Threads : http[t].id = r /\ http[t].pc \in {"publish", "stop_old", "stop_taken"}

\* No reader is shown a frame twice or out of order: not a stream, from whose queue two
\* sources push frames out while it reads, and which shows the frames of one source in
\* the order in which they were sent; nor a poll, whose next index is read after the
\* records, which may have been trimmed or belong to another run by then.
InOrder(frames) == \A i, j \in DOMAIN frames :
  i < j /\ frames[i].run = frames[j].run /\ frames[i].source = frames[j].source
    => frames[i].n < frames[j].n

ReadersInOrder ==
  /\ \A q \in Streams : InOrder(seen[q]) /\ \A f \in ToSet(seen[q]) : f.run = stream[q].id
  /\ \A i, j \in DOMAIN polled :
       i < j => \/ polled[i].run < polled[j].run
                \/ polled[i].run = polled[j].run /\ polled[i].n < polled[j].n

\* The lock is held by a start that is under way and by nobody else, so no path
\* through it, also one that fails, keeps the next request waiting for ever.
LockHeld == lock # Nobody => http[lock].pc \in {"stop_old", "open", "publish"}

\* A stream ends once its run is not the server's any more.
StreamsEnd ==
  \A q \in Streams :
    (stream[q].pc \notin {"off", "closed"} /\ stream[q].id # run) ~> stream[q].pc = "closed"

=============================================================================
