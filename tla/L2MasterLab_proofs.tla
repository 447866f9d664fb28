------------------------- MODULE L2MasterLab_proofs -------------------------
(***************************************************************************)
(* For any number of HTTP threads, of sources, of streams and of runs: no  *)
(* master is lost sight of, the lock is held by a start under way only,    *)
(* and no reader is shown a frame twice or out of order.                   *)
(*                                                                         *)
(* The first two rest on what the lock protects: while a start holds it,   *)
(* the run of the server is the one it is about to stop, or there is none. *)
(* A stream rests on what each source still has to do with the frame in    *)
(* its hands, a poll on the numbers of the frames that the ring keeps and  *)
(* on the order in which runs follow one another.                          *)
(***************************************************************************)
EXTENDS L2MasterLab, SequenceTheorems, TLAPS

Holding == {"stop_old", "open", "publish"}
Hands == {"publish", "stop_old", "stop_taken"}
Places == {"idle", "start", "stop"} \cup Holding \cup Hands

RegistryTypes ==
  /\ lock \in Threads \cup {Nobody}
  /\ run \in 0..MaxRuns
  /\ master \in [Runs -> {"new", "open", "stopped"}]
  /\ http \in [Threads -> [pc: Places, id: 0..MaxRuns]]

\* What a thread in the critical section of start() knows.
Protected ==
  \A t \in Threads : http[t].pc \in Holding =>
    /\ lock = t
    /\ http[t].pc = "stop_old" => http[t].id = run
    /\ http[t].pc \in {"open", "publish"} => run = 0

RegistryInv == RegistryTypes /\ Protected /\ LockHeld /\ NoOrphan

\* A step that changes the place of one thread and no more changes http thus.
LEMMA OneThread ==
  ASSUME RegistryTypes, NEW t \in Threads, NEW place \in Places, NEW r \in 0..MaxRuns,
         At(t, place, r)
  PROVE  /\ http' \in [Threads -> [pc: Places, id: 0..MaxRuns]]
         /\ http'[t].pc = place /\ http'[t].id = r
         /\ \A u \in Threads \ {t} : http'[u] = http[u]
BY DEF RegistryTypes, At

\* If a step moves one thread, it is enough to account for the masters that
\* were the run of the server or in the hands of that thread.
InHand(t, r) == http[t].id = r /\ http[t].pc \in Hands

LEMMA SightKept ==
  ASSUME NoOrphan, NEW t \in Threads, \A u \in Threads \ {t} : http'[u] = http[u],
         \A r \in Runs : master'[r] = "open" =>
           \/ run' = r \/ InHand(t, r)'
           \/ master[r] = "open" /\ run # r /\ ~InHand(t, r)
  PROVE  NoOrphan'
<1> SUFFICES ASSUME NEW r \in Runs, master'[r] = "open", run' # r, ~InHand(t, r)'
             PROVE  \E u \in Threads : http'[u].id = r /\ http'[u].pc \in Hands
  BY DEF NoOrphan, InHand, Hands
<1>1. master[r] = "open" /\ run # r /\ ~InHand(t, r)
  OBVIOUS
<1>2. PICK u \in Threads : http[u].id = r /\ http[u].pc \in Hands
  BY <1>1 DEF NoOrphan, Hands
<1>3. u # t
  BY <1>1, <1>2 DEF InHand
<1>4. http'[u] = http[u]
  BY <1>3
<1> QED BY <1>2, <1>4

LEMMA StartsInvariant == Init => RegistryInv
<1> SUFFICES ASSUME Init PROVE RegistryInv
  OBVIOUS
<1>1. RegistryTypes
  BY LabAssumption DEF Init, RegistryTypes, Places
<1>2. Protected /\ LockHeld /\ NoOrphan
  BY DEF Init, Protected, LockHeld, NoOrphan, Holding
<1> QED BY <1>1, <1>2 DEF RegistryInv

\* A new request is in nobody's critical section and holds nothing.
LEMMA RequestKeeps ==
  ASSUME RegistryInv, NEW op \in {"start", "stop"}, Request(op)
  PROVE  RegistryInv'
<1> DEFINE t == CHOOSE u \in Threads : http[u].pc = "idle"
<1>1. t \in Threads /\ http[t].pc = "idle" /\ At(t, op, 0)
  BY DEF Request
<1>2. op \in Places /\ 0 \in 0..MaxRuns
  BY LabAssumption DEF Places
<1> HIDE DEF t
<1>3. /\ http' \in [Threads -> [pc: Places, id: 0..MaxRuns]]
      /\ http'[t].pc = op /\ http'[t].id = 0
      /\ \A u \in Threads \ {t} : http'[u] = http[u]
  BY <1>1, <1>2, OneThread DEF RegistryInv
<1>4. UNCHANGED <<lock, run, master>>
  BY DEF Request
<1>5. RegistryTypes' /\ Protected' /\ LockHeld'
  BY <1>1, <1>3, <1>4, LabAssumption DEF RegistryInv, RegistryTypes, Protected, LockHeld, Holding
<1>6. NoOrphan'
  BY <1>1, <1>3, <1>4 DEF RegistryInv, RegistryTypes, NoOrphan
<1> QED BY <1>5, <1>6 DEF RegistryInv

\* Each step of a request keeps the invariant.
LEMMA HandlesKeeps ==
  ASSUME RegistryInv, NEW t \in Threads, Handles(t)
  PROVE  RegistryInv'
<1> USE LabAssumption DEF Runs
<1>0. 0 \in 0..MaxRuns /\ run \in 0..MaxRuns /\ http[t].id \in 0..MaxRuns
  BY DEF RegistryInv, RegistryTypes
<1> DEFINE Moved(place, r) ==
      /\ http' \in [Threads -> [pc: Places, id: 0..MaxRuns]]
      /\ http'[t].pc = place /\ http'[t].id = r
      /\ \A u \in Threads \ {t} : http'[u] = http[u]
<1>a. ASSUME NEW place \in Places, NEW r \in 0..MaxRuns, At(t, place, r)
      PROVE  Moved(place, r)
  BY <1>a, OneThread DEF RegistryInv
<1> HIDE DEF Moved
<1>1. CASE StartLocks(t)
  <2>1. CASE run = 0
    <3>1. Moved("open", 0)
      BY <1>1, <2>1, <1>0, <1>a DEF StartLocks, Places, Holding
    <3>2. RegistryTypes' /\ Protected' /\ LockHeld'
      BY <1>1, <2>1, <3>1 DEF StartLocks, Acquire, RegistryInv, RegistryTypes, Protected, LockHeld, Holding, Moved
    <3>3. NoOrphan'
      BY <1>1, <2>1, <3>1, SightKept DEF StartLocks, RegistryInv, RegistryTypes, InHand, Hands, Moved
    <3> QED BY <3>2, <3>3 DEF RegistryInv
  <2>2. CASE run # 0
    <3>1. Moved("stop_old", run)
      BY <1>1, <2>2, <1>0, <1>a DEF StartLocks, Places, Holding
    <3>2. RegistryTypes' /\ Protected' /\ LockHeld'
      BY <1>1, <2>2, <3>1 DEF StartLocks, Acquire, RegistryInv, RegistryTypes, Protected, LockHeld, Holding, Moved
    <3>3. NoOrphan'
      BY <1>1, <2>2, <3>1, SightKept DEF StartLocks, RegistryInv, RegistryTypes, InHand, Hands, Moved
    <3> QED BY <3>2, <3>3 DEF RegistryInv
  <2> QED BY <2>1, <2>2
<1>2. CASE OldStops(t)
  <2>1. Moved("open", 0)
    BY <1>2, <1>0, <1>a DEF OldStops, Places, Holding
  <2>2. RegistryTypes' /\ Protected' /\ LockHeld'
    BY <1>2, <2>1 DEF OldStops, MasterStops, RegistryInv, RegistryTypes, Protected, LockHeld, Holding, Moved
  <2>3. NoOrphan'
    BY <1>2, <2>1, SightKept DEF OldStops, MasterStops, RegistryInv, RegistryTypes, Protected, Holding, InHand, Hands, Moved
  <2> QED BY <2>2, <2>3 DEF RegistryInv
<1>3. CASE Opens(t)
  <2>1. PICK r \in Runs : /\ master[r] = "new"
                          /\ master' = [master EXCEPT ![r] = "open"]
                          /\ At(t, "publish", r)
    BY <1>3 DEF Opens
  <2>2. Moved("publish", r)
    BY <2>1, <1>a DEF Places, Holding
  <2>3. RegistryTypes' /\ Protected' /\ LockHeld'
    BY <1>3, <2>1, <2>2 DEF Opens, RegistryInv, RegistryTypes, Protected, LockHeld, Holding, Moved
  <2>4. NoOrphan'
    BY <1>3, <2>1, <2>2, SightKept DEF Opens, RegistryInv, RegistryTypes, InHand, Hands, Moved
  <2> QED BY <2>3, <2>4 DEF RegistryInv
<1>4. CASE OpenFails(t)
  <2>1. Moved("idle", 0)
    BY <1>4, <1>0, <1>a DEF OpenFails, Places
  <2>2. RegistryTypes' /\ Protected' /\ LockHeld'
    BY <1>4, <2>1 DEF OpenFails, Release, RegistryInv, RegistryTypes, Protected, LockHeld, Holding, Moved
  <2>3. NoOrphan'
    BY <1>4, <2>1, SightKept DEF OpenFails, RegistryInv, RegistryTypes, InHand, Hands, Moved
  <2> QED BY <2>2, <2>3 DEF RegistryInv
<1>5. CASE Publishes(t)
  <2>1. Moved("idle", 0)
    BY <1>5, <1>0, <1>a DEF Publishes, Places
  <2>2. RegistryTypes' /\ Protected' /\ LockHeld'
    BY <1>5, <1>0, <2>1 DEF Publishes, Release, RegistryInv, RegistryTypes, Protected, LockHeld, Holding, Moved
  <2>3. NoOrphan'
    BY <1>5, <2>1, SightKept DEF Publishes, RegistryInv, RegistryTypes, Protected, Holding, InHand, Hands, Moved
  <2> QED BY <2>2, <2>3 DEF RegistryInv
<1>6. CASE StopTakes(t)
  <2>1. CASE run = 0
    <3>1. Moved("idle", 0)
      BY <1>6, <2>1, <1>0, <1>a DEF StopTakes, Places
    <3>2. RegistryTypes' /\ Protected' /\ LockHeld'
      BY <1>6, <2>1, <3>1 DEF StopTakes, RegistryInv, RegistryTypes, Protected, LockHeld, Holding, Moved
    <3>3. NoOrphan'
      BY <1>6, <2>1, <3>1, SightKept DEF StopTakes, RegistryInv, RegistryTypes, InHand, Hands, Moved
    <3> QED BY <3>2, <3>3 DEF RegistryInv
  <2>2. CASE run # 0
    <3>1. Moved("stop_taken", run)
      BY <1>6, <2>2, <1>0, <1>a DEF StopTakes, Places, Hands
    <3>2. RegistryTypes' /\ Protected' /\ LockHeld'
      BY <1>6, <2>2, <3>1 DEF StopTakes, RegistryInv, RegistryTypes, Protected, LockHeld, Holding, Moved
    <3>3. NoOrphan'
      BY <1>6, <2>2, <3>1, SightKept DEF StopTakes, RegistryInv, RegistryTypes, InHand, Hands, Moved
    <3> QED BY <3>2, <3>3 DEF RegistryInv
  <2> QED BY <2>1, <2>2
<1>7. CASE StopEnds(t)
  <2>1. Moved("idle", 0)
    BY <1>7, <1>0, <1>a DEF StopEnds, Places
  <2>2. RegistryTypes' /\ Protected' /\ LockHeld'
    BY <1>7, <2>1 DEF StopEnds, MasterStops, RegistryInv, RegistryTypes, Protected, LockHeld, Holding, Moved
  <2>3. NoOrphan'
    BY <1>7, <2>1, SightKept DEF StopEnds, MasterStops, RegistryInv, RegistryTypes, InHand, Hands, Moved
  <2> QED BY <2>2, <2>3 DEF RegistryInv
<1> QED BY <1>1, <1>2, <1>3, <1>4, <1>5, <1>6, <1>7 DEF Handles

\* Everybody else leaves the registry alone.
LEMMA OthersKeep ==
  ASSUME RegistryInv, UNCHANGED registry
  PROVE  RegistryInv'
BY DEF registry, RegistryInv, RegistryTypes, Protected, LockHeld, NoOrphan

LEMMA StepKeeps == RegistryInv /\ [Next]_vars => RegistryInv'
<1> SUFFICES ASSUME RegistryInv, [Next]_vars PROVE RegistryInv'
  OBVIOUS
<1>1. CASE \E op \in {"start", "stop"} : Request(op)
  BY <1>1, RequestKeeps
<1>2. CASE \E t \in Threads : Handles(t)
  BY <1>2, HandlesKeeps
<1>3. CASE \E r \in Runs, s \in Sources : OnFrame(r, s) \/ Emits(r, s)
  <2>1. UNCHANGED registry
    BY <1>3 DEF OnFrame, Emits, Notify, Put, DropOldest, PutAgain
  <2> QED BY <2>1, OthersKeep
<1>4. CASE \E q \in Streams : Connect(q) \/ Streaming(q) \/ Disconnect(q)
  <2>1. UNCHANGED registry
    BY <1>4 DEF Connect, Streaming, Disconnect, Subscribe, StreamLoop, Deliver, Drained,
                WaitTimesOut, StreamEnds
  <2> QED BY <2>1, OthersKeep
<1>5. CASE PollBegins \/ RecordsSince \/ Total
  <2>1. UNCHANGED registry
    BY <1>5 DEF PollBegins, RecordsSince, Total
  <2> QED BY <2>1, OthersKeep
<1>6. CASE UNCHANGED vars
  <2>1. UNCHANGED registry
    BY <1>6 DEF vars
  <2> QED BY <2>1, OthersKeep
<1> QED BY <1>1, <1>2, <1>3, <1>4, <1>5, <1>6 DEF Next

\* A master that runs is the run of the server or in the hands of a request
\* that will publish or stop it (start_l2_master_lab, stop_l2_master_lab), for
\* any number of threads, runs and requests.
THEOREM NeverAnOrphan == Spec => []NoOrphan
<1>1. RegistryInv => NoOrphan
  BY DEF RegistryInv
<1> QED BY <1>1, StartsInvariant, StepKeeps, PTL DEF Spec

\* The lock of the registry is held by a start under way only: no path through
\* start_l2_master_lab keeps it.
THEOREM LockNeverKept == Spec => []LockHeld
<1>1. RegistryInv => LockHeld
  BY DEF RegistryInv
<1> QED BY <1>1, StartsInvariant, StepKeeps, PTL DEF Spec
-----------------------------------------------------------------------------
(***************************************************************************)
(* The frames of a run, from the threads of its master to the streams.     *)
(***************************************************************************)
Emission ==
  [pc: {"idle", "notify", "put", "full", "again"}, frame: Frame \cup {NoFrame},
   todo: SUBSET Streams, at: Streams \cup {Nobody}]

StreamPlaces == {"off", "subscribe", "loop", "drain", "wait", "finish", "closed"}

CollectorTypes ==
  /\ records \in [Runs -> Seq(Frame)]
  /\ \A r \in Runs : Len(records[r]) <= MaxRecords
  /\ subs \in [Runs -> SUBSET Streams]
  /\ emitter \in [Runs -> [Sources -> Emission]]
  /\ emitted \in [Runs -> Nat]

StreamTypes ==
  /\ queue \in [Streams -> Seq(Frame)] /\ \A q \in Streams : Len(queue[q]) <= QueueMax
  /\ stream \in [Streams -> [pc: StreamPlaces, id: 0..MaxRuns]]
  /\ seen \in [Streams -> Seq(Frame)]

\* A source in on_frame holds the last frame of its own, and hands it to streams
\* of its own run.
Hand(r, s, e) ==
  /\ e.pc # "idle" =>
       e.frame \in Frame /\ e.frame.run = r /\ e.frame.source = s /\ e.frame.n <= emitted[r]
  /\ e.pc \in {"idle", "notify"} => e.todo = {}
  /\ e.pc \in {"full", "again"} => e.at \in e.todo
  /\ \A q \in e.todo : stream[q].id = r

InHands == \A r \in Runs, s \in Sources : Hand(r, s, emitter[r][s])

\* The collector keeps the last frames of a run, and those alone.
Base(r) == emitted[r] - Len(records[r])

Ring ==
  \A r \in Runs :
    /\ Len(records[r]) <= emitted[r]
    /\ \A i \in 1..Len(records[r]) : records[r][i].run = r /\ records[r][i].n = Base(r) + i

Subscribed ==
  /\ \A r \in Runs : \A q \in subs[r] : stream[q].id = r
  /\ \A q \in Streams : stream[q].pc = "off" => stream[q].id = 0

\* What a stream has delivered, and what it is about to.
Shown(q) == ToSet(seen[q]) \cup ToSet(queue[q])

Precedes(f, g) == f.run = g.run /\ f.source = g.source => f.n < g.n

Ordered(done, next) ==
  /\ \A i, j \in DOMAIN done : i < j => Precedes(done[i], done[j])
  /\ \A i, j \in DOMAIN next : i < j => Precedes(next[i], next[j])
  /\ \A i \in DOMAIN done, j \in DOMAIN next : Precedes(done[i], next[j])

\* The frame that a source holds may still be put in the queue of a stream ...
StillDue(e, q) == e.pc = "notify" \/ q \in e.todo

\* ... and then it is later than what is there.
Cleared(f, e, q) == f.n <= emitted[f.run] /\ (StillDue(e, q) => f.n < e.frame.n)

Lines ==
  \A q \in Streams :
    /\ Ordered(seen[q], queue[q])
    /\ \A f \in Shown(q) : f.run = stream[q].id /\ Cleared(f, emitter[f.run][f.source], q)

StreamInv == CollectorTypes /\ StreamTypes /\ InHands /\ Ring /\ Subscribed /\ Lines

\* The head of the queue is delivered, or pushed out.
LEMMA Popped ==
  ASSUME NEW S, NEW done \in Seq(S), NEW next \in Seq(S), next # <<>>, Ordered(done, next)
  PROVE  /\ Tail(next) \in Seq(S) /\ Len(Tail(next)) = Len(next) - 1
         /\ Append(done, Head(next)) \in Seq(S)
         /\ Ordered(done, Tail(next))
         /\ Ordered(Append(done, Head(next)), Tail(next))
         /\ ToSet(Tail(next)) \subseteq ToSet(next)
         /\ ToSet(Append(done, Head(next))) \subseteq ToSet(done) \cup ToSet(next)
<1> DEFINE head == Head(next)
           tail == Tail(next)
           more == Append(done, head)
<1>1. /\ Len(next) \in Nat \ {0} /\ DOMAIN next = 1..Len(next)
      /\ Len(done) \in Nat /\ DOMAIN done = 1..Len(done)
  BY LenProperties, EmptySeq
<1>2. /\ head \in S /\ tail \in Seq(S) /\ Len(tail) = Len(next) - 1
      /\ \A i \in 1..Len(tail) : tail[i] = next[i + 1]
      /\ DOMAIN tail = 1..Len(tail) /\ head = next[1]
  BY <1>1, HeadTailProperties, LenProperties
<1> HIDE DEF head, tail
<1>3. /\ more \in Seq(S) /\ Len(more) = Len(done) + 1
      /\ \A i \in 1..Len(done) : more[i] = done[i]
      /\ more[Len(done) + 1] = head /\ DOMAIN more = 1..Len(done) + 1
  BY <1>1, <1>2, AppendProperties, LenProperties
<1> HIDE DEF more
<1>4. \A i, j \in DOMAIN tail : i < j => Precedes(tail[i], tail[j])
  <2> SUFFICES ASSUME NEW i \in DOMAIN tail, NEW j \in DOMAIN tail, i < j
               PROVE  Precedes(tail[i], tail[j])
    OBVIOUS
  <2>1. /\ i + 1 \in DOMAIN next /\ j + 1 \in DOMAIN next /\ i + 1 < j + 1
        /\ tail[i] = next[i + 1] /\ tail[j] = next[j + 1]
    BY <1>1, <1>2
  <2>2. Precedes(next[i + 1], next[j + 1])
    BY <2>1 DEF Ordered
  <2> QED
    BY <2>1, <2>2
<1>5. \A i \in DOMAIN done, j \in DOMAIN tail : Precedes(done[i], tail[j])
  <2> SUFFICES ASSUME NEW i \in DOMAIN done, NEW j \in DOMAIN tail
               PROVE  Precedes(done[i], tail[j])
    OBVIOUS
  <2>1. j + 1 \in DOMAIN next /\ tail[j] = next[j + 1]
    BY <1>1, <1>2
  <2>2. Precedes(done[i], next[j + 1])
    BY <2>1 DEF Ordered
  <2> QED
    BY <2>1, <2>2
<1>6. \A j \in DOMAIN tail : Precedes(head, tail[j])
  <2> SUFFICES ASSUME NEW j \in DOMAIN tail PROVE Precedes(head, tail[j])
    OBVIOUS
  <2>1. 1 \in DOMAIN next /\ j + 1 \in DOMAIN next /\ 1 < j + 1 /\ tail[j] = next[j + 1]
    BY <1>1, <1>2
  <2>2. Precedes(next[1], next[j + 1])
    BY <2>1 DEF Ordered
  <2> QED
    BY <1>2, <2>1, <2>2
<1>7. \A i, j \in DOMAIN more : i < j => Precedes(more[i], more[j])
  <2> SUFFICES ASSUME NEW i \in DOMAIN more, NEW j \in DOMAIN more, i < j
               PROVE  Precedes(more[i], more[j])
    OBVIOUS
  <2>1. i \in DOMAIN done /\ more[i] = done[i]
    BY <1>1, <1>3
  <2>2. CASE j \in DOMAIN done
    BY <1>1, <1>3, <2>1, <2>2 DEF Ordered
  <2>3. CASE j = Len(done) + 1
    <3>1. 1 \in DOMAIN next
      BY <1>1
    <3>2. Precedes(done[i], next[1])
      BY <2>1, <3>1 DEF Ordered
    <3> QED
      BY <1>2, <1>3, <2>1, <2>3, <3>2
  <2> QED
    BY <1>1, <1>3, <2>2, <2>3
<1>8. \A i \in DOMAIN more, j \in DOMAIN tail : Precedes(more[i], tail[j])
  <2> SUFFICES ASSUME NEW i \in DOMAIN more, NEW j \in DOMAIN tail
               PROVE  Precedes(more[i], tail[j])
    OBVIOUS
  <2>1. CASE i \in DOMAIN done
    BY <1>1, <1>3, <1>5, <2>1
  <2>2. CASE i = Len(done) + 1
    BY <1>3, <1>6, <2>2
  <2> QED
    BY <1>1, <1>3, <2>1, <2>2
<1>9. Ordered(done, tail) /\ Ordered(more, tail)
  <2>1. \A i, j \in DOMAIN done : i < j => Precedes(done[i], done[j])
    BY DEF Ordered
  <2>2. Ordered(done, tail)
    BY <1>4, <1>5, <2>1, Zenon DEF Ordered
  <2>3. Ordered(more, tail)
    BY <1>4, <1>7, <1>8, Zenon DEF Ordered
  <2> QED
    BY <2>2, <2>3
<1>10. ToSet(tail) \subseteq ToSet(next)
  <2> SUFFICES ASSUME NEW j \in DOMAIN tail PROVE tail[j] \in ToSet(next)
    BY DEF ToSet
  <2>1. j + 1 \in DOMAIN next /\ tail[j] = next[j + 1]
    BY <1>1, <1>2
  <2> QED
    BY <2>1 DEF ToSet
<1>11. ToSet(more) \subseteq ToSet(done) \cup ToSet(next)
  <2> SUFFICES ASSUME NEW i \in DOMAIN more PROVE more[i] \in ToSet(done) \cup ToSet(next)
    BY DEF ToSet
  <2>1. CASE i \in DOMAIN done
    BY <1>1, <1>3, <2>1 DEF ToSet
  <2>2. CASE i = Len(done) + 1
    BY <1>1, <1>2, <1>3, <2>2 DEF ToSet
  <2> QED
    BY <1>1, <1>3, <2>1, <2>2
<1> QED
  BY <1>2, <1>3, <1>9, <1>10, <1>11 DEF head, tail, more

\* A frame is put in the queue.
LEMMA Pushed ==
  ASSUME NEW S, NEW done \in Seq(S), NEW next \in Seq(S), NEW g \in S, Ordered(done, next),
         \A f \in ToSet(done) \cup ToSet(next) : Precedes(f, g)
  PROVE  /\ Append(next, g) \in Seq(S) /\ Len(Append(next, g)) = Len(next) + 1
         /\ Ordered(done, Append(next, g))
         /\ ToSet(Append(next, g)) \subseteq ToSet(next) \cup {g}
<1> DEFINE more == Append(next, g)
<1>1. /\ Len(next) \in Nat /\ DOMAIN next = 1..Len(next)
      /\ more \in Seq(S) /\ Len(more) = Len(next) + 1
      /\ \A i \in 1..Len(next) : more[i] = next[i]
      /\ more[Len(next) + 1] = g /\ DOMAIN more = 1..Len(next) + 1
  BY AppendProperties, LenProperties
<1> HIDE DEF more
<1>2. \A i \in DOMAIN next : next[i] \in ToSet(next)
  BY DEF ToSet
<1>3. \A i \in DOMAIN done : done[i] \in ToSet(done)
  BY DEF ToSet
<1>4. \A i, j \in DOMAIN more : i < j => Precedes(more[i], more[j])
  <2> SUFFICES ASSUME NEW i \in DOMAIN more, NEW j \in DOMAIN more, i < j
               PROVE  Precedes(more[i], more[j])
    OBVIOUS
  <2>1. i \in DOMAIN next /\ more[i] = next[i]
    BY <1>1
  <2>2. CASE j \in DOMAIN next
    BY <1>1, <2>1, <2>2 DEF Ordered
  <2>3. CASE j = Len(next) + 1
    BY <1>1, <1>2, <2>1, <2>3
  <2> QED
    BY <1>1, <2>2, <2>3
<1>5. \A i \in DOMAIN done, j \in DOMAIN more : Precedes(done[i], more[j])
  <2> SUFFICES ASSUME NEW i \in DOMAIN done, NEW j \in DOMAIN more
               PROVE  Precedes(done[i], more[j])
    OBVIOUS
  <2>1. CASE j \in DOMAIN next
    BY <1>1, <2>1 DEF Ordered
  <2>2. CASE j = Len(next) + 1
    BY <1>1, <1>3, <2>2
  <2> QED
    BY <1>1, <2>1, <2>2
<1>6. Ordered(done, more)
  BY <1>4, <1>5 DEF Ordered
<1>7. ToSet(more) \subseteq ToSet(next) \cup {g}
  <2> SUFFICES ASSUME NEW i \in DOMAIN more PROVE more[i] \in ToSet(next) \cup {g}
    BY DEF ToSet
  <2>1. CASE i \in DOMAIN next
    BY <1>1, <1>2, <2>1
  <2>2. CASE i = Len(next) + 1
    BY <1>1, <2>2
  <2> QED
    BY <1>1, <2>1, <2>2
<1> QED
  BY <1>1, <1>6, <1>7 DEF more

LEMMA StreamsStart == Init => StreamInv
<1> SUFFICES ASSUME Init PROVE StreamInv
  OBVIOUS
<1>1. Idle \in Emission
  BY DEF Idle, Emission
<1>2. <<>> \in Seq(Frame) /\ Len(<<>>) = 0 /\ ToSet(<<>>) = {}
  BY DEF ToSet
<1>3. CollectorTypes
  BY <1>1, <1>2, LabAssumption DEF Init, CollectorTypes
<1>4. StreamTypes
  BY <1>2, LabAssumption DEF Init, StreamTypes, StreamPlaces
<1>5. InHands
  BY DEF Init, InHands, Hand, Idle
<1>6. Ring
  BY <1>2 DEF Init, Ring
<1>7. Subscribed
  BY <1>4 DEF Init, Subscribed
<1>8. Lines
  BY <1>2 DEF Init, Lines, Ordered, Shown
<1> QED
  BY <1>3, <1>4, <1>5, <1>6, <1>7, <1>8 DEF StreamInv

\* A step that leaves the collector and the streams alone.
LEMMA StreamsRest ==
  ASSUME StreamInv, UNCHANGED <<collector, queue, streaming>>
  PROVE  StreamInv'
<1>1. UNCHANGED <<records, subs, emitter, emitted, queue, stream, seen>>
  BY DEF collector, streaming
<1>2. (CollectorTypes /\ StreamTypes /\ Subscribed)'
  BY <1>1 DEF StreamInv, CollectorTypes, StreamTypes, Subscribed
<1>3. InHands'
  BY <1>1 DEF StreamInv, InHands, Hand
<1>4. Ring'
  BY <1>1 DEF StreamInv, Ring, Base
<1>5. Lines'
  BY <1>1 DEF StreamInv, Lines, Shown, Cleared
<1> QED
  BY <1>2, <1>3, <1>4, <1>5 DEF StreamInv

\* One source goes on.
LEMMA OneEmitter ==
  ASSUME CollectorTypes, NEW r \in Runs, NEW s \in Sources, NEW e \in Emission,
         Emitter(r, s, e)
  PROVE  /\ emitter' \in [Runs -> [Sources -> Emission]]
         /\ emitter'[r][s] = e
         /\ \A p \in Runs, c \in Sources :
              (p # r \/ c # s) => emitter'[p][c] = emitter[p][c]
BY DEF CollectorTypes, Emitter
\* A frame is recorded, and the ring trimmed: what remains are the last frames.
LEMMA Recorded ==
  ASSUME CollectorTypes, Ring, NEW r \in Runs, NEW frame \in Frame,
         frame.run = r, frame.n = emitted[r] + 1
  PROVE  LET ring == Trimmed(Append(records[r], frame)) IN
         /\ ring \in Seq(Frame) /\ Len(ring) <= MaxRecords /\ Len(ring) <= emitted[r] + 1
         /\ \A i \in 1..Len(ring) :
              ring[i].run = r /\ ring[i].n = emitted[r] + 1 - Len(ring) + i
         /\ Base(r) <= emitted[r] + 1 - Len(ring)
<1> DEFINE old == records[r]
           all == Append(old, frame)
           ring == Trimmed(all)
<1>1. /\ MaxRecords \in Nat \ {0} /\ Chunk \in Nat \ {0} /\ Chunk <= MaxRecords
      /\ emitted[r] \in Nat /\ old \in Seq(Frame) /\ Len(old) \in Nat
      /\ Len(old) <= MaxRecords /\ Len(old) <= emitted[r]
      /\ Base(r) = emitted[r] - Len(old)
      /\ \A i \in 1..Len(old) : old[i].run = r /\ old[i].n = Base(r) + i
  BY LabAssumption, LenProperties DEF CollectorTypes, Ring, Base
<1>2. /\ all \in Seq(Frame) /\ Len(all) = Len(old) + 1
      /\ \A i \in 1..Len(old) : all[i] = old[i]
      /\ all[Len(old) + 1] = frame
  BY <1>1, AppendProperties
<1> HIDE DEF all, old
<1>3. \A i \in 1..Len(all) : all[i] \in Frame /\ all[i].run = r /\ all[i].n = Base(r) + i
  <2> SUFFICES ASSUME NEW i \in 1..Len(all)
               PROVE  all[i] \in Frame /\ all[i].run = r /\ all[i].n = Base(r) + i
    OBVIOUS
  <2>1. all[i] \in Frame
    BY <1>2, ElementOfSeq
  <2>2. CASE i \in 1..Len(old)
    BY <1>1, <1>2, <2>1, <2>2
  <2>3. CASE i = Len(old) + 1
    <3>1. all[i] = frame
      BY <1>2, <2>3
    <3>2. frame.n = Base(r) + i
      BY <1>1, <2>3
    <3> QED
      BY <2>1, <3>1, <3>2
  <2> QED
    BY <1>1, <1>2, <2>2, <2>3
<1>4. CASE Len(all) > MaxRecords
  <2> DEFINE tail == SubSeq(all, Chunk + 1, Len(all))
  <2>1. /\ Chunk + 1 \in Int /\ Len(all) \in Int
        /\ \A i \in Chunk + 1..Len(all) : all[i] \in Frame
    BY <1>1, <1>2, <1>3
  <2>2. /\ tail \in Seq(Frame)
        /\ Len(tail) = IF Chunk + 1 <= Len(all) THEN Len(all) - (Chunk + 1) + 1 ELSE 0
        /\ \A i \in 1..Len(all) - (Chunk + 1) + 1 : tail[i] = all[Chunk + 1 + i - 1]
    BY <2>1, SubSeqProperties
  <2>3. ring = tail
    BY <1>4 DEF Trimmed
  <2> HIDE DEF ring, tail
  <2>4. Len(tail) = Len(all) - Chunk
    BY <1>1, <1>2, <1>4, <2>2
  <2>5. \A i \in 1..Len(tail) : i + Chunk \in 1..Len(all) /\ tail[i] = all[i + Chunk]
    BY <1>1, <1>2, <2>2, <2>4
  <2>6. \A i \in 1..Len(ring) :
          ring[i].run = r /\ ring[i].n = emitted[r] + 1 - Len(ring) + i
    BY <1>1, <1>2, <1>3, <2>3, <2>4, <2>5
  <2>7. /\ Len(ring) <= MaxRecords /\ Len(ring) <= emitted[r] + 1
        /\ Base(r) <= emitted[r] + 1 - Len(ring)
    BY <1>1, <1>2, <2>3, <2>4
  <2> QED
    BY <2>2, <2>3, <2>6, <2>7 DEF ring, all, old
<1>5. CASE ~(Len(all) > MaxRecords)
  <2>1. ring = all
    BY <1>5 DEF Trimmed
  <2> HIDE DEF ring
  <2>2. \A i \in 1..Len(ring) :
          ring[i].run = r /\ ring[i].n = emitted[r] + 1 - Len(ring) + i
    BY <1>1, <1>2, <1>3, <2>1
  <2>3. /\ Len(ring) <= MaxRecords /\ Len(ring) <= emitted[r] + 1
        /\ Base(r) <= emitted[r] + 1 - Len(ring)
    BY <1>1, <1>2, <1>5, <2>1
  <2> QED
    BY <1>2, <2>1, <2>2, <2>3 DEF ring, all, old
<1> QED
  BY <1>4, <1>5

\* A frame enters on_frame: it is later than all that the streams have of its source.
LEMMA OnFrameKeeps ==
  ASSUME StreamInv, NEW r \in Runs, NEW s \in Sources, OnFrame(r, s)
  PROVE  /\ StreamInv'
         /\ \A p \in Runs : Base(p) <= Base(p)' /\ emitted[p] <= emitted'[p]
<1> DEFINE n == emitted[r] + 1
           frame == [run |-> r, source |-> s, n |-> n]
           e == [emitter[r][s] EXCEPT !.pc = "notify", !.frame = frame]
           ring == Trimmed(Append(records[r], frame))
<1>1. /\ emitter[r][s].pc = "idle" /\ Emitter(r, s, e)
      /\ records' = [records EXCEPT ![r] = ring]
      /\ emitted' = [emitted EXCEPT ![r] = n]
      /\ UNCHANGED <<subs, queue, stream, seen>>
  BY DEF OnFrame, streaming
<1>2. /\ emitted \in [Runs -> Nat] /\ emitter[r][s] \in Emission
      /\ CollectorTypes /\ Ring /\ InHands /\ Lines
  BY DEF StreamInv, CollectorTypes
<1>3. frame \in Frame /\ frame.run = r /\ frame.source = s /\ frame.n = n
  BY <1>2 DEF Frame
<1>4. /\ ring \in Seq(Frame) /\ Len(ring) <= MaxRecords /\ Len(ring) <= n
      /\ \A i \in 1..Len(ring) : ring[i].run = r /\ ring[i].n = n - Len(ring) + i
      /\ Base(r) <= n - Len(ring)
  <2> HIDE DEF frame
  <2> QED
    BY <1>2, <1>3, Recorded
<1> HIDE DEF frame, ring
<1>5. /\ e \in Emission /\ e.pc = "notify" /\ e.frame = frame /\ e.todo = emitter[r][s].todo
  BY <1>2, <1>3 DEF Emission
<1> HIDE DEF e
<1>6. /\ emitter' \in [Runs -> [Sources -> Emission]]
      /\ emitter'[r][s] = e
      /\ \A p \in Runs, c \in Sources : (p # r \/ c # s) => emitter'[p][c] = emitter[p][c]
  BY <1>1, <1>2, <1>5, OneEmitter
<1>7. /\ emitted'[r] = n /\ \A p \in Runs \ {r} : emitted'[p] = emitted[p]
      /\ \A p \in Runs : emitted[p] \in Nat /\ emitted[p] <= emitted'[p]
  BY <1>1, <1>2
<1>8. /\ records' \in [Runs -> Seq(Frame)] /\ records'[r] = ring
      /\ \A p \in Runs \ {r} : records'[p] = records[p]
  BY <1>1, <1>2, <1>4 DEF CollectorTypes
<1>9. CollectorTypes' /\ StreamTypes'
  BY <1>1, <1>2, <1>4, <1>6, <1>7, <1>8 DEF StreamInv, CollectorTypes, StreamTypes
<1>10. InHands'
  <2> SUFFICES ASSUME NEW p \in Runs, NEW c \in Sources PROVE Hand(p, c, emitter[p][c])'
    BY DEF InHands
  <2>1. Hand(p, c, emitter[p][c])
    BY <1>2 DEF InHands
  <2>2. CASE p = r /\ c = s
    BY <1>1, <1>3, <1>5, <1>6, <1>7, <2>1, <2>2 DEF Hand
  <2>3. CASE p # r \/ c # s
    <3>1. emitter'[p][c] = emitter[p][c] /\ emitter[p][c] \in Emission
      BY <1>2, <1>6, <2>3 DEF CollectorTypes
    <3>2. ASSUME emitter[p][c].pc # "idle" PROVE emitter[p][c].frame.n <= emitted'[p]
      <4>1. emitter[p][c].frame \in Frame /\ emitter[p][c].frame.n <= emitted[p]
        BY <2>1, <3>2 DEF Hand
      <4> QED
        BY <1>7, <4>1 DEF Frame
    <3> QED
      BY <1>1, <2>1, <3>1, <3>2 DEF Hand
  <2> QED
    BY <2>2, <2>3
<1>11. Ring' /\ \A p \in Runs : Base(p) <= Base(p)'
  <2>1. Base(r)' = n - Len(ring) /\ \A p \in Runs \ {r} : Base(p)' = Base(p)
    BY <1>7, <1>8 DEF Base
  <2>2. ASSUME NEW p \in Runs \ {r}
        PROVE  /\ Len(records[p])' <= emitted'[p] /\ Base(p) <= Base(p)'
               /\ \A i \in 1..Len(records'[p]) :
                    records'[p][i].run = p /\ records'[p][i].n = Base(p)' + i
    <3>1. Len(records[p]) \in Nat
      BY <1>2, LenProperties DEF CollectorTypes
    <3>2. Base(p) \in Int
      BY <1>7, <3>1 DEF Base
    <3> QED
      BY <1>2, <1>7, <1>8, <2>1, <3>2 DEF Ring
  <2> QED
    BY <1>4, <1>7, <1>8, <2>1, <2>2 DEF Ring
<1>12. Subscribed'
  BY <1>1 DEF StreamInv, Subscribed
<1>13. Lines'
  <2> SUFFICES ASSUME NEW q \in Streams, NEW f \in Shown(q)
               PROVE  Cleared(f, emitter[f.run][f.source], q)'
    BY <1>1, <1>2 DEF Lines, Shown
  <2>1. Cleared(f, emitter[f.run][f.source], q)
    BY <1>2 DEF Lines
  <2>2. f \in Frame
    BY DEF StreamInv, StreamTypes, Shown, ToSet
  <2>3. f.run \in Runs /\ f.source \in Sources /\ f.n \in Nat
    BY <2>2 DEF Frame
  <2>4. f.n <= emitted[f.run] /\ f.n <= emitted'[f.run]
    BY <1>7, <2>1, <2>3 DEF Cleared
  <2>5. CASE f.run = r /\ f.source = s
    <3>1. f.n < n
      BY <1>7, <2>3, <2>4, <2>5
    <3> QED
      BY <1>3, <1>5, <1>6, <2>4, <2>5, <3>1 DEF Cleared
  <2>6. CASE f.run # r \/ f.source # s
    <3>1. emitter'[f.run][f.source] = emitter[f.run][f.source]
      BY <1>6, <2>3, <2>6
    <3> QED
      BY <2>1, <2>4, <3>1 DEF Cleared
  <2> QED
    BY <2>5, <2>6
<1> QED
  BY <1>7, <1>9, <1>10, <1>11, <1>12, <1>13 DEF StreamInv

\* A source goes on with the frame in its hands, or is done with it: of the streams
\* that it was due to, some remain, and the others have it or will never.
GoesOn(r, s, e) ==
  LET old == emitter[r][s] IN
  /\ old.pc # "idle" /\ e.pc # "notify"
  /\ e.pc # "idle" => e.frame = old.frame
  /\ \A q \in e.todo : StillDue(old, q) /\ e.frame = old.frame

LEMMA HandedOn ==
  ASSUME StreamInv, NEW r \in Runs, NEW s \in Sources, NEW e \in Emission,
         Emitter(r, s, e), Hand(r, s, e), GoesOn(r, s, e),
         UNCHANGED <<records, subs, emitted, streaming>>,
         \/ UNCHANGED queue
         \/ \E q \in Streams : queue[q] # <<>> /\ queue' = [queue EXCEPT ![q] = Tail(@)]
         \/ \E q \in emitter[r][s].todo : Room(q) /\ Enqueue(r, s, q) /\ q \notin e.todo
  PROVE  StreamInv'
<1> DEFINE old == emitter[r][s]
           g == old.frame
<1>1. /\ UNCHANGED <<records, subs, emitted, stream, seen>>
      /\ CollectorTypes /\ StreamTypes /\ InHands /\ Ring /\ Subscribed /\ Lines
  BY DEF StreamInv, streaming
<1>2. /\ emitter' \in [Runs -> [Sources -> Emission]]
      /\ emitter'[r][s] = e
      /\ \A p \in Runs, c \in Sources : (p # r \/ c # s) => emitter'[p][c] = emitter[p][c]
  BY <1>1, OneEmitter
<1>3. /\ g \in Frame /\ g.run = r /\ g.source = s /\ g.n <= emitted[r]
      /\ old.pc # "idle" /\ e.pc # "notify" /\ old.todo \subseteq Streams
  <2>1. old.pc # "idle" /\ e.pc # "notify"
    BY DEF GoesOn
  <2>2. old \in Emission /\ Hand(r, s, old)
    BY <1>1 DEF InHands, CollectorTypes
  <2> HIDE DEF old
  <2> QED
    BY <2>1, <2>2 DEF Hand, Emission
<1>4. CollectorTypes' /\ Ring' /\ Subscribed'
  BY <1>1, <1>2 DEF CollectorTypes, Ring, Base, Subscribed
<1>5. InHands'
  <2> SUFFICES ASSUME NEW p \in Runs, NEW c \in Sources PROVE Hand(p, c, emitter[p][c])'
    BY DEF InHands
  <2>1. CASE p = r /\ c = s
    BY <1>1, <1>2, <2>1 DEF Hand
  <2>2. CASE p # r \/ c # s
    BY <1>1, <1>2, <2>2 DEF Hand, InHands
  <2> QED
    BY <2>1, <2>2
<1>6. ASSUME NEW q \in Streams, NEW f \in Frame, f.run = stream[q].id,
             Cleared(f, emitter[f.run][f.source], q)
      PROVE  Cleared(f, emitter[f.run][f.source], q)'
  <2>1. f.run \in Runs /\ f.source \in Sources
    BY DEF Frame
  <2>2. CASE f.run = r /\ f.source = s
    <3>1. StillDue(e, q) => StillDue(old, q) /\ e.frame = g
      BY <1>3 DEF StillDue, GoesOn
    <3> QED
      BY <1>1, <1>2, <1>6, <2>2, <3>1 DEF Cleared
  <2>3. CASE f.run # r \/ f.source # s
    BY <1>1, <1>2, <1>6, <2>1, <2>3 DEF Cleared
  <2> QED
    BY <2>2, <2>3
<1>7. ASSUME NEW q \in Streams
      PROVE  /\ seen[q] \in Seq(Frame) /\ queue[q] \in Seq(Frame)
             /\ Len(queue[q]) \in Nat /\ Len(queue[q]) <= QueueMax /\ QueueMax \in Nat
             /\ Ordered(seen[q], queue[q])
             /\ \A f \in Shown(q) : /\ f \in Frame /\ f.run = stream[q].id
                                    /\ Cleared(f, emitter[f.run][f.source], q)
  <2>1. seen[q] \in Seq(Frame) /\ queue[q] \in Seq(Frame) /\ Len(queue[q]) <= QueueMax
    BY <1>1 DEF StreamTypes
  <2>2. Len(queue[q]) \in Nat /\ QueueMax \in Nat
    BY <2>1, LenProperties, LabAssumption
  <2>3. \A f \in Shown(q) : f \in Frame
    BY <2>1 DEF Shown, ToSet
  <2> QED
    BY <1>1, <2>1, <2>2, <2>3 DEF Lines
\* What becomes of a stream's line.
<1> DEFINE Kept(q) == /\ queue'[q] \in Seq(Frame) /\ Len(queue'[q]) <= QueueMax
                      /\ Ordered(seen[q], queue'[q])
                      /\ \A f \in Shown(q)' : f.run = stream[q].id
                           /\ Cleared(f, emitter[f.run][f.source], q)'
<1>8. ASSUME NEW q \in Streams, queue'[q] = queue[q] PROVE Kept(q)
  <2>1. Shown(q)' = Shown(q)
    BY <1>1, <1>8 DEF Shown
  <2>2. \A f \in Shown(q) : f.run = stream[q].id /\ Cleared(f, emitter[f.run][f.source], q)'
    BY <1>6, <1>7
  <2> HIDE DEF old, g
  <2> QED
    BY <1>7, <1>8, <2>1, <2>2
<1>9. ASSUME NEW q \in Streams, queue[q] # <<>>, queue'[q] = Tail(queue[q]) PROVE Kept(q)
  <2>1. /\ Tail(queue[q]) \in Seq(Frame) /\ Len(Tail(queue[q])) = Len(queue[q]) - 1
        /\ Ordered(seen[q], Tail(queue[q]))
        /\ ToSet(Tail(queue[q])) \subseteq ToSet(queue[q])
    BY <1>7, <1>9, Popped
  <2>2. Shown(q)' \subseteq Shown(q)
    BY <1>1, <1>9, <2>1 DEF Shown
  <2>3. \A f \in Shown(q) : f.run = stream[q].id /\ Cleared(f, emitter[f.run][f.source], q)'
    BY <1>6, <1>7
  <2>4. Len(queue'[q]) <= QueueMax
    BY <1>7, <1>9, <2>1
  <2> QED
    BY <1>9, <2>1, <2>2, <2>3, <2>4
<1>10. ASSUME NEW q \in old.todo, Room(q), queue'[q] = Append(queue[q], g), q \notin e.todo
       PROVE  Kept(q)
  <2>1. q \in Streams /\ stream[q].id = r
    BY <1>1, <1>3 DEF InHands, Hand
  <2>2. ASSUME NEW f \in Shown(q) PROVE Precedes(f, g)
    <3>1. f.run = r /\ Cleared(f, emitter[f.run][f.source], q)
      BY <1>7, <2>1, <2>2
    <3> QED
      BY <1>3, <1>10, <3>1 DEF Precedes, Cleared, StillDue
  <2>3. /\ Append(queue[q], g) \in Seq(Frame)
        /\ Len(Append(queue[q], g)) = Len(queue[q]) + 1
        /\ Ordered(seen[q], Append(queue[q], g))
        /\ ToSet(Append(queue[q], g)) \subseteq ToSet(queue[q]) \cup {g}
    <3>1. \A f \in ToSet(seen[q]) \cup ToSet(queue[q]) : Precedes(f, g)
      BY <2>2 DEF Shown
    <3>2. seen[q] \in Seq(Frame) /\ queue[q] \in Seq(Frame) /\ Ordered(seen[q], queue[q])
      BY <1>7, <2>1
    <3> HIDE DEF g
    <3> QED
      BY <1>3, <3>1, <3>2, Pushed
  <2>4. Shown(q)' \subseteq Shown(q) \cup {g}
    BY <1>1, <1>10, <2>3 DEF Shown
  <2>5. \A f \in Shown(q) : f.run = stream[q].id /\ Cleared(f, emitter[f.run][f.source], q)'
    BY <1>6, <1>7, <2>1
  <2>6. \A f : f = g => f.run = stream[q].id /\ Cleared(f, emitter[f.run][f.source], q)'
    BY <1>1, <1>2, <1>3, <1>10, <2>1 DEF Cleared, StillDue
  <2>7. Len(queue'[q]) <= QueueMax
    BY <1>7, <1>10, <2>1, <2>3 DEF Room
  <2> HIDE DEF old, g
  <2> QED
    BY <1>10, <2>3, <2>4, <2>5, <2>6, <2>7
<1>11. DOMAIN queue' = Streams /\ \A q \in Streams : Kept(q)
  <2>1. queue \in [Streams -> Seq(Frame)]
    BY <1>1 DEF StreamTypes
  <2>2. CASE UNCHANGED queue
    BY <1>8, <2>1, <2>2
  <2>3. ASSUME NEW q \in Streams, queue[q] # <<>>, queue' = [queue EXCEPT ![q] = Tail(@)]
        PROVE  DOMAIN queue' = Streams /\ \A p \in Streams : Kept(p)
    <3>1. /\ DOMAIN queue' = Streams /\ queue'[q] = Tail(queue[q])
          /\ \A p \in Streams \ {q} : queue'[p] = queue[p]
      BY <2>1, <2>3
    <3>2. Kept(q) /\ \A p \in Streams \ {q} : Kept(p)
      BY <1>8, <1>9, <2>3, <3>1
    <3> HIDE DEF Kept
    <3> QED
      BY <3>1, <3>2
  <2>4. ASSUME NEW q \in old.todo, Room(q), Enqueue(r, s, q), q \notin e.todo
        PROVE  DOMAIN queue' = Streams /\ \A p \in Streams : Kept(p)
    <3>1. /\ DOMAIN queue' = Streams /\ queue'[q] = Append(queue[q], g) /\ q \in Streams
          /\ \A p \in Streams \ {q} : queue'[p] = queue[p]
      BY <1>3, <2>1, <2>4 DEF Enqueue
    <3>2. Kept(q) /\ \A p \in Streams \ {q} : Kept(p)
      BY <1>8, <1>10, <2>4, <3>1
    <3> HIDE DEF Kept
    <3> QED
      BY <3>1, <3>2
  <2> HIDE DEF Kept
  <2> QED
    BY <2>2, <2>3, <2>4
<1>12. StreamTypes'
  <2>1. queue' \in [DOMAIN queue' -> {queue'[q] : q \in DOMAIN queue'}]
    BY <1>1 DEF StreamTypes, Enqueue
  <2>2. queue' \in [Streams -> Seq(Frame)]
    BY <1>11, <2>1
  <2> QED
    BY <1>1, <1>11, <2>2 DEF StreamTypes
<1>13. Lines'
  BY <1>1, <1>11 DEF Lines
<1> QED
  BY <1>4, <1>5, <1>12, <1>13 DEF StreamInv
\* The next subscriber, or none: ServeNext for a set of streams of the run that
\* are due.
LEMMA ServesNext ==
  ASSUME StreamInv, NEW r \in Runs, NEW s \in Sources, NEW todo \in SUBSET Streams,
         emitter[r][s].pc # "idle",
         \A q \in todo : StillDue(emitter[r][s], q) /\ stream[q].id = r,
         ServeNext(r, s, todo)
  PROVE  \E e \in Emission : Emitter(r, s, e) /\ Hand(r, s, e) /\ GoesOn(r, s, e) /\ e.todo = todo
<1> DEFINE old == emitter[r][s]
           on == [old EXCEPT !.pc = "put", !.todo = todo, !.at = Nobody]
<1>1. old \in Emission /\ Hand(r, s, old)
  BY DEF StreamInv, CollectorTypes, InHands
<1>2. CASE todo = {}
  <2>1. Emitter(r, s, Idle)
    BY <1>2 DEF ServeNext
  <2>2. Idle \in Emission /\ Idle.pc = "idle" /\ Idle.todo = {}
    BY DEF Idle, Emission
  <2>3. Hand(r, s, Idle) /\ GoesOn(r, s, Idle)
    BY <2>2 DEF Hand, GoesOn
  <2> QED
    BY <1>2, <2>1, <2>2, <2>3
<1>3. CASE todo # {}
  <2>1. Emitter(r, s, on)
    BY <1>3 DEF ServeNext
  <2>2. /\ on \in Emission /\ on.pc = "put" /\ on.todo = todo /\ on.frame = old.frame
    <3> HIDE DEF old
    <3> QED
      BY <1>1 DEF Emission
  <2> HIDE DEF on
  <2>3. Hand(r, s, on)
    BY <1>1, <2>2 DEF Hand
  <2>4. GoesOn(r, s, on)
    BY <2>2 DEF GoesOn
  <2> QED
    BY <2>1, <2>2, <2>3, <2>4
<1> QED
  BY <1>2, <1>3

LEMMA EmitsKeeps ==
  ASSUME StreamInv, NEW r \in Runs, NEW s \in Sources, Emits(r, s)
  PROVE  StreamInv'
<1> DEFINE old == emitter[r][s]
<1>1. /\ old \in Emission /\ Hand(r, s, old) /\ subs[r] \subseteq Streams
      /\ \A q \in subs[r] : stream[q].id = r
  BY DEF StreamInv, CollectorTypes, InHands, Subscribed
<1>2. old.todo \subseteq Streams /\ \A q \in old.todo : stream[q].id = r
  BY <1>1 DEF Emission, Hand
<1>3. CASE Notify(r, s)
  <2>1. /\ old.pc = "notify" /\ ServeNext(r, s, subs[r])
        /\ UNCHANGED <<records, subs, emitted, queue, streaming>>
    BY <1>3 DEF Notify
  <2>2. PICK e \in Emission : Emitter(r, s, e) /\ Hand(r, s, e) /\ GoesOn(r, s, e)
    <3>1. \A q \in subs[r] : StillDue(old, q) /\ stream[q].id = r
      BY <1>1, <2>1 DEF StillDue
    <3> QED
      BY <1>1, <2>1, <3>1, ServesNext
  <2> QED
    BY <2>1, <2>2, HandedOn
\* The frame goes to q, or is given up there, and on to the next.
<1>4. ASSUME NEW q \in old.todo, old.pc # "idle", Served(r, s, q),
             UNCHANGED <<records, subs, emitted, streaming>>,
             UNCHANGED queue \/ (Room(q) /\ Enqueue(r, s, q))
      PROVE  StreamInv'
  <2>1. PICK e \in Emission : /\ Emitter(r, s, e) /\ Hand(r, s, e) /\ GoesOn(r, s, e)
                              /\ e.todo = old.todo \ {q}
    <3>1. \A p \in old.todo \ {q} : StillDue(old, p) /\ stream[p].id = r
      BY <1>2 DEF StillDue
    <3>2. old.todo \ {q} \in SUBSET Streams
      BY <1>2
    <3> QED
      BY <1>4, <3>1, <3>2, ServesNext DEF Served
  <2> QED
    BY <1>4, <2>1, HandedOn
\* The source stays with q.
<1>5. ASSUME NEW q \in old.todo, NEW place \in {"full", "again"}, old.pc # "idle",
             NEW e, e = [old EXCEPT !.pc = place, !.at = q], Emitter(r, s, e),
             UNCHANGED <<records, subs, emitted, streaming>>,
             \/ UNCHANGED queue
             \/ queue[q] # <<>> /\ queue' = [queue EXCEPT ![q] = Tail(@)]
      PROVE  StreamInv'
  <2>1. /\ e \in Emission /\ e.pc = place /\ e.todo = old.todo /\ e.frame = old.frame /\ e.at = q
    <3> HIDE DEF old
    <3> QED
      BY <1>1, <1>2, <1>5 DEF Emission
  <2>2. Hand(r, s, e)
    BY <1>1, <1>5, <2>1 DEF Hand
  <2>3. GoesOn(r, s, e)
    BY <1>5, <2>1 DEF GoesOn, StillDue
  <2> QED
    BY <1>2, <1>5, <2>1, <2>2, <2>3, HandedOn
<1>6. CASE \E q \in Streams : Put(r, s, q)
  <2>1. PICK q \in Streams : Put(r, s, q)
    BY <1>6
  <2>2. /\ q \in old.todo /\ old.pc = "put"
        /\ UNCHANGED <<records, subs, emitted, streaming>>
        /\ IF Room(q)
             THEN Enqueue(r, s, q) /\ Served(r, s, q)
             ELSE Emitter(r, s, [old EXCEPT !.pc = "full", !.at = q]) /\ UNCHANGED queue
    BY <2>1 DEF Put
  <2>3. CASE Room(q)
    BY <1>4, <2>2, <2>3
  <2>4. CASE ~Room(q)
    BY <1>5, <2>2, <2>4
  <2> QED
    BY <2>3, <2>4
<1>7. CASE DropOldest(r, s)
  <2> DEFINE q == old.at
  <2>1. /\ old.pc = "full" /\ UNCHANGED <<records, subs, emitted, streaming>>
        /\ IF queue[q] = <<>>
             THEN Served(r, s, q) /\ UNCHANGED queue
             ELSE /\ queue' = [queue EXCEPT ![q] = Tail(@)]
                  /\ Emitter(r, s, [old EXCEPT !.pc = "again"])
    BY <1>7 DEF DropOldest
  <2>2. q \in old.todo
    BY <1>1, <2>1 DEF Hand
  <2>3. CASE queue[q] = <<>>
    BY <1>4, <2>1, <2>2, <2>3
  <2>4. CASE queue[q] # <<>>
    <3>1. [old EXCEPT !.pc = "again"] = [old EXCEPT !.pc = "again", !.at = q]
      <4> HIDE DEF old
      <4> QED
        BY <1>1 DEF Emission
    <3> QED
      BY <1>5, <2>1, <2>2, <2>4, <3>1
  <2> QED
    BY <2>3, <2>4
<1>8. CASE PutAgain(r, s)
  <2> DEFINE q == old.at
  <2>1. /\ old.pc = "again" /\ UNCHANGED <<records, subs, emitted, streaming>>
        /\ IF Room(q)
             THEN Enqueue(r, s, q) /\ Served(r, s, q)
             ELSE Emitter(r, s, Idle) /\ UNCHANGED queue
    BY <1>8 DEF PutAgain
  <2>2. q \in old.todo
    BY <1>1, <2>1 DEF Hand
  <2>3. CASE Room(q)
    BY <1>4, <2>1, <2>2, <2>3
  <2>4. CASE ~Room(q)
    <3>1. Idle \in Emission /\ Idle.pc = "idle" /\ Idle.todo = {}
      BY DEF Idle, Emission
    <3>2. Hand(r, s, Idle) /\ GoesOn(r, s, Idle)
      BY <2>1, <3>1 DEF Hand, GoesOn
    <3> QED
      BY <2>1, <2>4, <3>1, <3>2, HandedOn
  <2> QED
    BY <2>3, <2>4
<1> QED
  BY <1>3, <1>6, <1>7, <1>8 DEF Emits

\* A stream moves on: it may subscribe or leave, but it delivers nothing.
LEMMA StreamMoves ==
  ASSUME StreamInv, NEW q \in Streams, NEW place \in StreamPlaces \ {"off"},
         StreamAt(q, place, stream[q].id),
         UNCHANGED <<records, emitter, emitted, queue, seen>>,
         \/ UNCHANGED subs
         \/ subs' = [subs EXCEPT ![stream[q].id] = @ \cup {q}]
         \/ subs' = [subs EXCEPT ![stream[q].id] = @ \ {q}]
  PROVE  StreamInv'
<1>1. CollectorTypes /\ StreamTypes /\ InHands /\ Ring /\ Subscribed /\ Lines
  BY DEF StreamInv
<1>2. /\ stream' \in [Streams -> [pc: StreamPlaces, id: 0..MaxRuns]]
      /\ stream'[q].pc = place
      /\ \A p \in Streams \ {q} : stream'[p] = stream[p]
      /\ \A p \in Streams : stream'[p].id = stream[p].id
  BY <1>1 DEF StreamTypes, StreamAt
<1>3. /\ subs' \in [Runs -> SUBSET Streams]
      /\ \A r \in Runs : \A p \in subs'[r] : p \in subs[r] \/ (p = q /\ r = stream[q].id)
  <2> DEFINE id == stream[q].id
  <2>1. subs \in [Runs -> SUBSET Streams]
    BY <1>1 DEF CollectorTypes
  <2> HIDE DEF id
  <2>2. CASE UNCHANGED subs
    BY <2>1, <2>2
  <2>3. CASE subs' = [subs EXCEPT ![id] = @ \cup {q}]
    <3>1. \A r \in Runs : subs'[r] = IF r = id THEN subs[r] \cup {q} ELSE subs[r]
      BY <2>1, <2>3
    <3>2. subs' \in [Runs -> SUBSET Streams]
      BY <2>1, <2>3
    <3> QED
      BY <3>1, <3>2 DEF id
  <2>4. CASE subs' = [subs EXCEPT ![id] = @ \ {q}]
    <3>1. \A r \in Runs : subs'[r] = IF r = id THEN subs[r] \ {q} ELSE subs[r]
      BY <2>1, <2>4
    <3>2. subs' \in [Runs -> SUBSET Streams]
      BY <2>1, <2>4
    <3> QED
      BY <3>1, <3>2 DEF id
  <2> QED
    BY <2>2, <2>3, <2>4 DEF id
<1>4. CollectorTypes' /\ StreamTypes' /\ Ring'
  BY <1>1, <1>2, <1>3 DEF CollectorTypes, StreamTypes, Ring, Base
<1>5. Subscribed'
  BY <1>1, <1>2, <1>3 DEF Subscribed, CollectorTypes
<1>6. InHands'
  <2> SUFFICES ASSUME NEW r \in Runs, NEW s \in Sources PROVE Hand(r, s, emitter[r][s])'
    BY DEF InHands
  <2>1. Hand(r, s, emitter[r][s]) /\ emitter[r][s].todo \subseteq Streams
    BY <1>1 DEF InHands, CollectorTypes, Emission
  <2> QED
    BY <1>2, <2>1 DEF Hand
<1>7. Lines'
  BY <1>1, <1>2 DEF Lines, Shown, Cleared
<1> QED
  BY <1>4, <1>5, <1>6, <1>7 DEF StreamInv

\* A connection is made: nothing was ever put in its queue.
LEMMA ConnectKeeps ==
  ASSUME StreamInv, run \in 0..MaxRuns, NEW q \in Streams, Connect(q)
  PROVE  StreamInv'
<1>1. CollectorTypes /\ StreamTypes /\ InHands /\ Ring /\ Subscribed /\ Lines
  BY DEF StreamInv
<1>2. /\ stream[q].pc = "off" /\ UNCHANGED <<records, subs, emitter, emitted, queue, seen>>
      /\ StreamAt(q, IF run = 0 THEN "closed" ELSE "subscribe", run)
  BY DEF Connect, collector
<1>3. stream[q].id = 0 /\ 0 \notin Runs
  BY <1>1, <1>2 DEF Subscribed, Runs
<1>4. /\ stream' \in [Streams -> [pc: StreamPlaces, id: 0..MaxRuns]]
      /\ stream'[q].pc # "off"
      /\ \A p \in Streams \ {q} : stream'[p] = stream[p]
  BY <1>1, <1>2 DEF StreamTypes, StreamPlaces, StreamAt
<1>5. CollectorTypes' /\ StreamTypes' /\ Ring'
  BY <1>1, <1>2, <1>4 DEF CollectorTypes, StreamTypes, Ring, Base
<1>6. Subscribed'
  <2>1. \A r \in Runs : subs[r] \subseteq Streams /\ q \notin subs[r]
    BY <1>1, <1>3 DEF Subscribed, CollectorTypes
  <2> QED
    BY <1>1, <1>2, <1>4, <2>1 DEF Subscribed
<1>7. InHands'
  <2> SUFFICES ASSUME NEW r \in Runs, NEW s \in Sources PROVE Hand(r, s, emitter[r][s])'
    BY DEF InHands
  <2>1. Hand(r, s, emitter[r][s]) /\ emitter[r][s].todo \subseteq Streams
    BY <1>1 DEF InHands, CollectorTypes, Emission
  <2>2. q \notin emitter[r][s].todo
    BY <1>3, <2>1 DEF Hand
  <2> QED
    BY <1>2, <1>4, <2>1, <2>2 DEF Hand
<1>8. Lines'
  <2> SUFFICES ASSUME NEW p \in Streams
               PROVE  /\ Ordered(seen[p], queue[p])'
                      /\ \A f \in Shown(p)' : /\ f.run = stream'[p].id
                                              /\ Cleared(f, emitter[f.run][f.source], p)'
    BY DEF Lines
  <2>1. /\ Ordered(seen[p], queue[p])
        /\ \A f \in Shown(p) : f.run = stream[p].id /\ Cleared(f, emitter[f.run][f.source], p)
    BY <1>1 DEF Lines
  <2>2. Shown(p)' = Shown(p) /\ Shown(p) \subseteq Frame
    BY <1>1, <1>2 DEF Shown, ToSet, StreamTypes
  <2>3. ASSUME NEW f \in Shown(p) PROVE p # q /\ stream'[p].id = stream[p].id
    <3>1. f.run \in Runs
      BY <2>2, <2>3 DEF Frame
    <3>2. f.run = stream[p].id
      BY <2>1, <2>3
    <3> QED
      BY <1>3, <1>4, <3>1, <3>2
  <2> QED
    BY <1>2, <2>1, <2>2, <2>3 DEF Cleared
<1> QED
  BY <1>5, <1>6, <1>7, <1>8 DEF StreamInv

LEMMA DeliverKeeps ==
  ASSUME StreamInv, NEW q \in Streams, Deliver(q)
  PROVE  StreamInv'
<1> DEFINE done == seen[q]
           next == queue[q]
<1>1. CollectorTypes /\ StreamTypes /\ InHands /\ Ring /\ Subscribed /\ Lines
  BY DEF StreamInv
<1>2. /\ stream[q].pc \in {"drain", "wait"} /\ next # <<>>
      /\ seen' = [seen EXCEPT ![q] = Append(@, Head(next))]
      /\ queue' = [queue EXCEPT ![q] = Tail(@)]
      /\ UNCHANGED <<records, subs, emitter, emitted>>
      /\ StreamAt(q, IF stream[q].pc = "drain" THEN "drain" ELSE "loop", stream[q].id)
  BY DEF Deliver, collector
<1>3. /\ stream' \in [Streams -> [pc: StreamPlaces, id: 0..MaxRuns]]
      /\ stream'[q].pc # "off"
      /\ \A p \in Streams \ {q} : stream'[p] = stream[p]
      /\ \A p \in Streams : stream'[p].id = stream[p].id
  BY <1>1, <1>2 DEF StreamTypes, StreamPlaces, StreamAt
<1>4. /\ done \in Seq(Frame) /\ next \in Seq(Frame) /\ Ordered(done, next)
      /\ Len(next) \in Nat /\ Len(next) <= QueueMax /\ QueueMax \in Nat
  BY <1>1, LenProperties, LabAssumption DEF StreamTypes, Lines
<1>5. /\ seen' \in [Streams -> Seq(Frame)] /\ queue' \in [Streams -> Seq(Frame)]
      /\ seen'[q] = Append(done, Head(next)) /\ queue'[q] = Tail(next)
      /\ \A p \in Streams \ {q} : seen'[p] = seen[p] /\ queue'[p] = queue[p]
      /\ Len(queue'[q]) <= QueueMax
      /\ Ordered(seen'[q], queue'[q])
      /\ ToSet(queue'[q]) \subseteq ToSet(next)
      /\ ToSet(seen'[q]) \subseteq ToSet(done) \cup ToSet(next)
  <2>1. /\ Tail(next) \in Seq(Frame) /\ Len(Tail(next)) = Len(next) - 1
        /\ Append(done, Head(next)) \in Seq(Frame)
        /\ Ordered(Append(done, Head(next)), Tail(next))
        /\ ToSet(Tail(next)) \subseteq ToSet(next)
        /\ ToSet(Append(done, Head(next))) \subseteq ToSet(done) \cup ToSet(next)
    BY <1>2, <1>4, Popped
  <2>2. /\ seen' \in [Streams -> Seq(Frame)] /\ queue' \in [Streams -> Seq(Frame)]
        /\ seen'[q] = Append(done, Head(next)) /\ queue'[q] = Tail(next)
        /\ \A p \in Streams \ {q} : seen'[p] = seen[p] /\ queue'[p] = queue[p]
    BY <1>1, <1>2, <2>1 DEF StreamTypes
  <2> QED
    BY <1>4, <2>1, <2>2
<1>6. CollectorTypes' /\ StreamTypes' /\ Ring'
  BY <1>1, <1>2, <1>3, <1>5 DEF CollectorTypes, StreamTypes, Ring, Base
<1>7. Subscribed'
  BY <1>1, <1>2, <1>3 DEF Subscribed, CollectorTypes
<1>8. InHands'
  <2> SUFFICES ASSUME NEW r \in Runs, NEW s \in Sources PROVE Hand(r, s, emitter[r][s])'
    BY DEF InHands
  <2>1. Hand(r, s, emitter[r][s]) /\ emitter[r][s].todo \subseteq Streams
    BY <1>1 DEF InHands, CollectorTypes, Emission
  <2> QED
    BY <1>2, <1>3, <2>1 DEF Hand
<1>9. Lines'
  <2> SUFFICES ASSUME NEW p \in Streams
               PROVE  /\ Ordered(seen[p], queue[p])'
                      /\ \A f \in Shown(p)' : /\ f.run = stream'[p].id
                                              /\ Cleared(f, emitter[f.run][f.source], p)'
    BY DEF Lines
  <2>1. /\ Ordered(seen[p], queue[p])
        /\ \A f \in Shown(p) : f.run = stream[p].id /\ Cleared(f, emitter[f.run][f.source], p)
    BY <1>1 DEF Lines
  <2>2. Ordered(seen[p], queue[p])'
    BY <1>5, <2>1
  <2>3. Shown(p)' \subseteq Shown(p)
    <3>1. CASE p = q
      BY <1>5, <3>1 DEF Shown
    <3>2. CASE p # q
      BY <1>5, <3>2 DEF Shown
    <3> QED
      BY <3>1, <3>2
  <2> QED
    BY <1>2, <1>3, <2>1, <2>2, <2>3 DEF Cleared
<1> QED
  BY <1>6, <1>7, <1>8, <1>9 DEF StreamInv

LEMMA StreamingKeeps ==
  ASSUME StreamInv, run \in 0..MaxRuns, NEW q \in Streams,
         Connect(q) \/ Streaming(q) \/ Disconnect(q)
  PROVE  StreamInv'
<1>1. CASE Subscribe(q)
  <2>1. /\ StreamAt(q, "loop", stream[q].id) /\ UNCHANGED <<records, emitter, emitted, queue, seen>>
        /\ subs' = [subs EXCEPT ![stream[q].id] = @ \cup {q}]
    BY <1>1 DEF Subscribe
  <2> QED
    BY <2>1, StreamMoves DEF StreamPlaces
<1>2. CASE StreamEnds(q)
  <2>1. /\ StreamAt(q, "closed", stream[q].id) /\ UNCHANGED <<records, emitter, emitted, queue, seen>>
        /\ subs' = [subs EXCEPT ![stream[q].id] = @ \ {q}]
    BY <1>2 DEF StreamEnds
  <2> QED
    BY <2>1, StreamMoves DEF StreamPlaces
<1>3. CASE StreamLoop(q) \/ Drained(q) \/ WaitTimesOut(q) \/ Disconnect(q)
  <2>1. PICK place \in {"drain", "finish", "wait", "loop"} :
          /\ StreamAt(q, place, stream[q].id)
          /\ UNCHANGED <<records, subs, emitter, emitted, queue, seen>>
    BY <1>3 DEF StreamLoop, Drained, WaitTimesOut, Disconnect, collector
  <2> QED
    BY <2>1, StreamMoves DEF StreamPlaces
<1> QED
  BY <1>1, <1>2, <1>3, ConnectKeeps, DeliverKeeps DEF Streaming
-----------------------------------------------------------------------------
(***************************************************************************)
(* The polls, over one run after the other.                                *)
(***************************************************************************)
Newest(r) == \A p \in Runs : p > r => master[p] = "new"

\* A run that was the server's and will not be again.
Over(p) ==
  /\ master[p] # "new" /\ run # p
  /\ \A t \in Threads : ~(http[t].pc = "publish" /\ http[t].id = p)

\* Runs follow one another: what is published is the last that was opened.
InTurn ==
  /\ run # 0 => Newest(run) /\ master[run] # "new"
  /\ \A t \in Threads : http[t].pc = "publish" =>
       http[t].id \in Runs /\ Newest(http[t].id) /\ master[http[t].id] # "new"
  /\ \A p \in Runs : master[p] # "new" => \A r \in 1..p : master[r] # "new"

PollTypes ==
  /\ requests \in 0..MaxRequests
  /\ poller \in [pc: {"idle", "read", "total"}, id: 0..MaxRuns, since: 0..MaxRecords]
  /\ polls \in 0..MaxPolls /\ polled \in Seq(Frame)

Earlier(f, g) == f.run < g.run \/ (f.run = g.run /\ f.n < g.n)

\* The client has been shown no frame beyond its index, which may point before the
\* last of them by now but never after the first it has not been shown ... of the
\* run that it reads; it will not come back to another.
Read(f) ==
  /\ f.run # poller.id => Over(f.run)
  /\ poller.id # 0 => f.run <= poller.id
  /\ f.run = poller.id =>
       /\ f.n <= emitted[f.run]
       /\ poller.pc # "total" => f.n <= Base(f.run) + poller.since

Polled ==
  /\ poller.pc # "idle" => poller.id # 0
  /\ poller.id # 0 => poller.id = run \/ Over(poller.id)
  /\ \A f \in ToSet(polled) : Read(f)
  /\ \A i, j \in DOMAIN polled : i < j => Earlier(polled[i], polled[j])

LabInv == RegistryInv /\ InTurn /\ StreamInv /\ PollTypes /\ Polled

LEMMA TypesAgree == RegistryTypes /\ CollectorTypes /\ StreamTypes /\ PollTypes <=> TypeOK
<1>1. Places = {"idle", "start", "stop_old", "open", "publish", "stop", "stop_taken"}
  BY DEF Places, Holding, Hands
<1> QED
  BY <1>1 DEF RegistryTypes, CollectorTypes, StreamTypes, StreamPlaces, Emission, PollTypes, TypeOK

LEMMA LabStarts == Init => LabInv
<1> SUFFICES ASSUME Init PROVE LabInv
  OBVIOUS
<1>1. InTurn
  BY DEF Init, InTurn
<1>2. /\ MaxRuns \in Nat /\ MaxRequests \in Nat /\ MaxPolls \in Nat /\ MaxRecords \in Nat
      /\ polled = <<>> /\ <<>> \in Seq(Frame) /\ DOMAIN <<>> = {}
  BY LabAssumption DEF Init
<1>3. PollTypes
  BY <1>2 DEF Init, PollTypes
<1>4. Polled
  BY <1>2 DEF Init, Polled, ToSet
<1> QED
  BY <1>1, <1>3, <1>4, StartsInvariant, StreamsStart DEF LabInv

\* While there is a run, no request is about to publish another.
LEMMA NobodyPublishes ==
  ASSUME RegistryInv, run # 0
  PROVE  \A t \in Threads : http[t].pc \notin {"open", "publish"}
BY DEF RegistryInv, Protected, Holding

\* What a request does to the runs: they are opened in turn, and one that is over
\* stays so.
LEMMA RunsInTurn ==
  ASSUME RegistryInv, RegistryInv', InTurn,
         UNCHANGED registry \/ (\E op \in {"start", "stop"} : Request(op))
           \/ (\E t \in Threads : Handles(t))
  PROVE  /\ InTurn'
         /\ \A p \in Runs : Over(p) => Over(p)'
         /\ \A p \in Runs : run = p => run' = p \/ Over(p)'
         /\ UNCHANGED <<collector, queue, streaming, polling>> \/ UNCHANGED registry
<1>1. CASE UNCHANGED registry
  BY <1>1 DEF registry, InTurn, Newest, Over
<1> DEFINE Goal == /\ InTurn'
                   /\ \A p \in Runs : Over(p) => Over(p)'
                   /\ \A p \in Runs : run = p => run' = p \/ Over(p)'
<1>2. /\ RegistryTypes /\ RegistryTypes' /\ Protected /\ Protected'
  BY DEF RegistryInv
<1>3. run # 0 => \A t \in Threads : http[t].pc # "publish"
  BY NobodyPublishes
\* The masters stay as they were, or one stops; nobody new is about to publish.
<1>4. ASSUME \A p \in Runs : master'[p] = "new" <=> master[p] = "new",
             \A t \in Threads : http'[t].pc = "publish" => http'[t] = http[t],
             run' \in {0, run}
      PROVE  Goal
  <2>1. \A r \in Runs : Newest(r) => Newest(r)'
    BY <1>4 DEF Newest
  <2>2. ASSUME NEW p \in Runs, run' = p PROVE Newest(p)' /\ master'[p] # "new"
    <3>1. run = p /\ p # 0
      BY <1>4, <2>2 DEF Runs
    <3>2. Newest(p) /\ master[p] # "new"
      BY <3>1 DEF InTurn
    <3> QED
      BY <1>4, <2>1, <3>2
  <2>3. ASSUME NEW t \in Threads, http'[t].pc = "publish", NEW p, p = http'[t].id
        PROVE  p \in Runs /\ Newest(p)' /\ master'[p] # "new"
    <3>1. http[t].pc = "publish" /\ p = http[t].id
      BY <1>4, <2>3
    <3>2. p \in Runs /\ Newest(p) /\ master[p] # "new"
      BY <3>1 DEF InTurn
    <3> QED
      BY <1>4, <2>1, <3>2
  <2>4. \A p \in Runs : master'[p] # "new" => \A r \in 1..p : master'[r] # "new"
    <3>1. \A p \in Runs : \A r \in 1..p : r \in Runs
      BY LabAssumption DEF Runs
    <3> QED
      BY <1>4, <3>1 DEF InTurn
  <2>5. run' \in Runs \cup {0}
    BY <1>2 DEF RegistryTypes, Runs
  <2>6. InTurn'
    BY <2>2, <2>3, <2>4, <2>5 DEF InTurn
  <2>7. \A p \in Runs : Over(p) => Over(p)'
    BY <1>4 DEF Over, Runs
  <2>8. ASSUME NEW p \in Runs, run = p, run' # p PROVE Over(p)'
    <3>1. p # 0 /\ run # 0
      BY <2>8 DEF Runs
    <3>2. master'[p] # "new"
      BY <1>4, <2>8, <3>1 DEF InTurn
    <3>3. \A t \in Threads : http'[t].pc # "publish"
      BY <1>3, <1>4, <3>1
    <3> QED
      BY <2>8, <3>2, <3>3 DEF Over
  <2> QED
    BY <2>6, <2>7, <2>8
\* The next run is opened.
<1>5. ASSUME NEW t \in Threads, Opens(t) PROVE Goal
  <2>1. PICK r \in Runs :
          /\ http[t].pc = "open" /\ master[r] = "new" /\ \A q \in 1..r - 1 : master[q] # "new"
          /\ master' = [master EXCEPT ![r] = "open"] /\ At(t, "publish", r)
          /\ run' = run
    BY <1>5 DEF Opens
  <2>2. r \in 0..MaxRuns /\ "publish" \in Places
    BY DEF Runs, Places, Holding
  <2>3. /\ http'[t].pc = "publish" /\ http'[t].id = r
        /\ \A u \in Threads \ {t} : http'[u] = http[u]
    BY <1>2, <2>1, <2>2, OneThread
  <2>4. run = 0 /\ lock = t
    BY <1>2, <2>1 DEF Protected, Holding
  <2>5. \A u \in Threads \ {t} : http[u].pc \notin Holding
    BY <1>2, <2>4 DEF Protected
  <2>6. /\ master \in [Runs -> {"new", "open", "stopped"}]
        /\ master'[r] = "open" /\ \A p \in Runs \ {r} : master'[p] = master[p]
    BY <1>2, <2>1 DEF RegistryTypes
  <2>7. \A p \in Runs : p > r => master[p] = "new"
    <3> SUFFICES ASSUME NEW p \in Runs, p > r, master[p] # "new" PROVE FALSE
      OBVIOUS
    <3>1. r \in 1..p
      BY LabAssumption DEF Runs
    <3> QED
      BY <2>1, <3>1 DEF InTurn
  <2>8. Newest(r)'
    BY <2>6, <2>7, LabAssumption DEF Newest, Runs
  <2>9. \A u \in Threads : http'[u].pc = "publish" => u = t
    BY <2>3, <2>5 DEF Holding
  <2>10. \A p \in Runs : master'[p] # "new" => \A q \in 1..p : master'[q] # "new"
    <3> SUFFICES ASSUME NEW p \in Runs, master'[p] # "new", NEW q \in 1..p
                 PROVE  master'[q] # "new"
      OBVIOUS
    <3>1. q \in Runs
      BY LabAssumption DEF Runs
    <3>2. CASE q = r
      BY <2>6, <3>2
    <3>3. CASE q # r /\ p = r
      <4>1. q \in 1..r - 1
        BY <3>3 DEF Runs
      <4> QED
        BY <2>1, <2>6, <3>1, <3>3, <4>1
    <3>4. CASE q # r /\ p # r
      BY <2>6, <3>1, <3>4 DEF InTurn
    <3> QED
      BY <3>2, <3>3, <3>4
  <2>11. InTurn'
    <3>1. run' = 0
      BY <2>1, <2>4
    <3>2. \A u \in Threads : http'[u].pc = "publish" => http'[u].id = r
      BY <2>3, <2>9
    <3> QED
      BY <2>6, <2>8, <2>10, <3>1, <3>2 DEF InTurn
  <2>12. \A p \in Runs : Over(p) => Over(p)'
    <3> SUFFICES ASSUME NEW p \in Runs, Over(p) PROVE Over(p)'
      OBVIOUS
    <3>1. p # r
      BY <2>1 DEF Over
    <3> QED
      BY <2>1, <2>3, <2>6, <2>9, <3>1 DEF Over
  <2> QED
    BY <2>1, <2>11, <2>12
\* And published.
<1>6. ASSUME NEW t \in Threads, Publishes(t) PROVE Goal
  <2>1. /\ http[t].pc = "publish" /\ run' = http[t].id /\ At(t, "idle", 0)
        /\ master' = master
    BY <1>6 DEF Publishes
  <2>2. 0 \in 0..MaxRuns /\ "idle" \in Places
    BY LabAssumption DEF Places
  <2>3. /\ http'[t].pc = "idle"
        /\ \A u \in Threads \ {t} : http'[u] = http[u]
    BY <1>2, <2>1, <2>2, OneThread
  <2>4. run = 0 /\ lock = t
    BY <1>2, <2>1 DEF Protected, Holding
  <2>5. \A u \in Threads : http'[u].pc # "publish"
    BY <1>2, <2>3, <2>4 DEF Protected, Holding
  <2>6. run' \in Runs /\ Newest(run') /\ master[run'] # "new"
    BY <2>1 DEF InTurn
  <2>7. InTurn'
    BY <2>1, <2>5, <2>6 DEF InTurn, Newest
  <2>8. \A p \in Runs : Over(p) => Over(p)'
    BY <2>1, <2>5 DEF Over
  <2> QED
    BY <2>4, <2>7, <2>8 DEF Runs
<1>7. ASSUME NEW op \in {"start", "stop"}, Request(op) PROVE Goal
  <2> DEFINE t == CHOOSE u \in Threads : http[u].pc = "idle"
  <2>1. t \in Threads /\ At(t, op, 0) /\ master' = master /\ run' = run
    BY <1>7 DEF Request
  <2>2. 0 \in 0..MaxRuns /\ op \in Places
    BY LabAssumption DEF Places
  <2> HIDE DEF t
  <2>3. http'[t].pc = op /\ \A u \in Threads \ {t} : http'[u] = http[u]
    BY <1>2, <2>1, <2>2, OneThread
  <2> QED
    BY <1>4, <2>1, <2>3
<1>8. ASSUME NEW t \in Threads,
             StartLocks(t) \/ OldStops(t) \/ OpenFails(t) \/ StopTakes(t) \/ StopEnds(t)
      PROVE  Goal
  <2>1. PICK place \in Places \ {"publish"}, id \in 0..MaxRuns : At(t, place, id)
    <3>1. 0 \in 0..MaxRuns /\ run \in 0..MaxRuns
      BY <1>2, LabAssumption DEF RegistryTypes
    <3>2. {"open", "stop_old", "stop_taken", "idle"} \subseteq Places \ {"publish"}
      BY DEF Places, Holding, Hands
    <3> QED
      BY <1>8, <3>1, <3>2 DEF StartLocks, OldStops, OpenFails, StopTakes, StopEnds
  <2>2. http'[t].pc = place /\ \A u \in Threads \ {t} : http'[u] = http[u]
    BY <1>2, <2>1, OneThread
  <2>3. \A p \in Runs : master'[p] = "new" <=> master[p] = "new"
    BY <1>2, <1>8 DEF StartLocks, OldStops, OpenFails, StopTakes, StopEnds, MasterStops, RegistryTypes
  <2>4. run' \in {0, run}
    BY <1>8 DEF StartLocks, OldStops, OpenFails, StopTakes, StopEnds
  <2> QED
    BY <1>4, <2>1, <2>2, <2>3, <2>4
<1>9. UNCHANGED <<collector, queue, streaming, polling>> \/ UNCHANGED registry
  BY DEF Request, Handles, StartLocks, OldStops, Opens, OpenFails, Publishes, StopTakes, StopEnds
<1> HIDE DEF Goal
<1>10. Goal
  BY <1>1, <1>5, <1>6, <1>7, <1>8 DEF Handles, Goal
<1> QED
  BY <1>9, <1>10 DEF Goal

\* What a client has been shown remains so while it rests, however its run and the
\* ring move on.
LEMMA ReadersRest ==
  ASSUME PollTypes, Polled, UNCHANGED polling,
         \A p \in Runs : Over(p) => Over(p)',
         \A p \in Runs : run = p => run' = p \/ Over(p)',
         \A p \in Runs : emitted[p] \in Nat /\ emitted'[p] \in Nat /\ Base(p) \in Int
           /\ Base(p)' \in Int /\ Base(p) <= Base(p)' /\ emitted[p] <= emitted'[p]
  PROVE  Polled'
<1>1. UNCHANGED <<poller, polls, polled>>
  BY DEF polling
<1>2. poller.id \in Runs \cup {0} /\ poller.since \in Nat
  BY LabAssumption DEF PollTypes, Runs
<1>3. \A f \in ToSet(polled) : f.run \in Runs /\ f.n \in Nat
  <2>1. \A f \in ToSet(polled) : f \in Frame
    BY DEF PollTypes, ToSet
  <2> QED
    BY <2>1 DEF Frame
<1>4. ASSUME poller.id # 0 PROVE poller.id = run' \/ Over(poller.id)'
  <2>1. PICK p \in Runs : p = poller.id
    BY <1>2, <1>4
  <2>2. p = run' \/ Over(p)'
    BY <1>4, <2>1 DEF Polled
  <2> QED
    BY <1>1, <2>1, <2>2 DEF Over
<1>5. ASSUME NEW f \in ToSet(polled) PROVE Read(f)'
  <2>1. Read(f) /\ f.run \in Runs /\ f.n \in Nat
    BY <1>3, <1>5 DEF Polled
  <2>2. f.run # poller.id => Over(f.run)'
    BY <2>1 DEF Read
  <2>3. ASSUME f.run = poller.id
        PROVE  /\ f.n <= emitted'[f.run]
               /\ poller.pc # "total" => f.n <= Base(f.run)' + poller.since
    BY <1>2, <2>1, <2>3 DEF Read
  <2> QED
    BY <1>1, <2>1, <2>2, <2>3 DEF Read
<1> QED
  BY <1>1, <1>4, <1>5 DEF Polled

LEMMA PollKeeps ==
  ASSUME RegistryTypes, InTurn, StreamInv, PollTypes, Polled, PollBegins \/ RecordsSince \/ Total
  PROVE  PollTypes' /\ Polled' /\ UNCHANGED <<registry, collector, queue, streaming>>
<1>1. UNCHANGED <<registry, collector, queue, streaming>>
  BY DEF PollBegins, RecordsSince, Total
<1>2. UNCHANGED <<run, master, http, requests, records, emitted>>
  BY <1>1 DEF registry, collector
<1>3. /\ run \in Runs \cup {0} /\ poller.id \in Runs \cup {0} /\ poller.since \in Nat
      /\ 0 \notin Runs /\ Runs \subseteq Nat
  BY LabAssumption DEF RegistryTypes, PollTypes, Runs
<1>4. /\ polled \in Seq(Frame) /\ Len(polled) \in Nat /\ DOMAIN polled = 1..Len(polled)
      /\ \A f \in ToSet(polled) : f.run \in Runs /\ f.n \in Nat /\ Read(f)
  <2>1. polled \in Seq(Frame)
    BY DEF PollTypes
  <2>2. \A f \in ToSet(polled) : f \in Frame
    BY <2>1 DEF ToSet
  <2> QED
    BY <2>1, <2>2, LenProperties DEF Frame, Polled
<1>5. \A p : (Over(p)' <=> Over(p)) /\ Base(p)' = Base(p)
  BY <1>2 DEF Over, Base
<1>6. \A p \in Runs : /\ records[p] \in Seq(Frame) /\ Len(records[p]) \in 0..MaxRecords
                      /\ emitted[p] \in Nat /\ Base(p) = emitted[p] - Len(records[p])
  BY LenProperties, LabAssumption DEF StreamInv, CollectorTypes, Base
<1>7. CASE PollBegins
  <2>1. /\ poller.pc = "idle" /\ polls < MaxPolls /\ polls' = polls + 1 /\ polled' = polled
        /\ poller' = IF run = 0 THEN [pc |-> "idle", id |-> 0, since |-> 0]
                                ELSE [poller EXCEPT !.pc = "read", !.id = run]
    BY <1>7 DEF PollBegins
  <2>2. PollTypes'
    <3>1. /\ polls' \in 0..MaxPolls /\ run \in 0..MaxRuns /\ 0 \in 0..MaxRuns /\ 0 \in 0..MaxRecords
      <4>1. MaxPolls \in Nat /\ MaxRuns \in Nat /\ MaxRecords \in Nat
        BY LabAssumption
      <4> QED
        BY <2>1, <4>1 DEF PollTypes, RegistryTypes
    <3>2. poller' \in [pc: {"idle", "read", "total"}, id: 0..MaxRuns, since: 0..MaxRecords]
      BY <2>1, <3>1 DEF PollTypes
    <3> QED
      BY <1>2, <2>1, <3>1, <3>2 DEF PollTypes
  <2>3. CASE run = 0
    <3>1. poller'.pc = "idle" /\ poller'.id = 0
      BY <2>1, <2>3
    <3>2. \A f \in ToSet(polled) : Over(f.run)
      <4> SUFFICES ASSUME NEW f \in ToSet(polled) PROVE Over(f.run)
        OBVIOUS
      <4>1. Read(f) /\ f.run # 0
        BY <1>3, <1>4
      <4>2. CASE f.run # poller.id
        BY <4>1, <4>2 DEF Read
      <4>3. CASE f.run = poller.id
        BY <2>3, <4>1, <4>3 DEF Polled
      <4> QED
        BY <4>2, <4>3
    <3>3. \A f \in ToSet(polled) : Read(f)'
      BY <1>3, <1>4, <1>5, <3>1, <3>2 DEF Read
    <3> QED
      BY <1>1, <2>1, <2>2, <3>1, <3>3 DEF Polled
  <2>4. CASE run # 0
    <3>1. poller'.pc = "read" /\ poller'.id = run /\ poller'.since = poller.since
      BY <2>1, <2>4 DEF PollTypes
    <3>2. Newest(run) /\ run \in Runs
      BY <1>3, <2>4 DEF InTurn
    <3>3. ASSUME NEW f \in ToSet(polled) PROVE Read(f)'
      <4>1. Read(f) /\ f.run \in Runs
        BY <1>4, <3>3
      <4>2. CASE f.run = run
        <5>1. ~Over(f.run)
          BY <4>2 DEF Over
        <5>2. f.run = poller.id
          BY <4>1, <5>1 DEF Read
        <5>3. /\ f.n <= emitted[f.run] /\ f.n <= Base(f.run) + poller.since
          BY <2>1, <4>1, <5>2 DEF Read
        <5> QED
          BY <1>2, <1>3, <1>5, <3>1, <4>2, <5>3 DEF Read
      <4>3. CASE f.run # run
        <5>1. Over(f.run)
          <6>1. CASE f.run # poller.id
            BY <4>1, <6>1 DEF Read
          <6>2. CASE f.run = poller.id
            BY <1>3, <4>1, <4>3, <6>2 DEF Polled
          <6> QED
            BY <6>1, <6>2
        <5>2. f.run <= run
          <6>1. f.run \in Nat /\ run \in Nat
            BY <1>3, <3>2, <4>1
          <6>2. ~(f.run > run)
            BY <3>2, <4>1, <5>1 DEF Over, Newest
          <6> QED
            BY <6>1, <6>2
        <5> QED
          BY <1>5, <3>1, <4>3, <5>1, <5>2 DEF Read
      <4> QED
        BY <4>2, <4>3
    <3>4. poller'.id = run'
      BY <1>2, <3>1
    <3> QED
      BY <1>1, <2>1, <2>2, <2>4, <3>1, <3>3, <3>4 DEF Polled
  <2> QED
    BY <2>3, <2>4
<1>8. CASE RecordsSince
  <2> DEFINE id == poller.id
             recs == records[id]
             news == SubSeq(recs, poller.since + 1, Len(recs))
  <2>1. /\ poller.pc = "read" /\ polled' = polled \o news
        /\ poller' = [poller EXCEPT !.pc = "total"] /\ polls' = polls
    BY <1>8 DEF RecordsSince
  <2>2. id \in Runs
    BY <1>3, <2>1 DEF Polled
  <2>3. /\ recs \in Seq(Frame) /\ Len(recs) \in Nat /\ emitted[id] \in Nat
        /\ Base(id) = emitted[id] - Len(recs)
    BY <1>6, <2>2
  <2>4. \A i \in 1..Len(recs) : recs[i] \in Frame /\ recs[i].run = id /\ recs[i].n = Base(id) + i
    BY <2>2, <2>3, ElementOfSeq DEF StreamInv, Ring
  <2>5. poller'.pc = "total" /\ poller'.id = id /\ poller'.since = poller.since
    BY <2>1 DEF PollTypes
  <2> HIDE DEF recs
  <2>6. /\ news \in Seq(Frame)
        /\ Len(news) = IF poller.since + 1 <= Len(recs) THEN Len(recs) - (poller.since + 1) + 1 ELSE 0
        /\ \A i \in 1..Len(recs) - (poller.since + 1) + 1 : news[i] = recs[poller.since + 1 + i - 1]
    <3>1. /\ poller.since + 1 \in Int /\ Len(recs) \in Int
          /\ \A i \in poller.since + 1..Len(recs) : recs[i] \in Frame
      BY <1>3, <2>3, <2>4
    <3> QED
      BY <3>1, SubSeqProperties
  <2> HIDE DEF news
  <2>7. /\ Len(news) \in Nat
        /\ \A i \in 1..Len(news) :
             /\ news[i].run = id /\ news[i].n = Base(id) + poller.since + i
             /\ news[i].n <= emitted[id] /\ news[i].n \in Int
    <3>1. Len(news) \in Nat
      BY <2>6, LenProperties
    <3>2. ASSUME NEW i \in 1..Len(news)
          PROVE  poller.since + i \in 1..Len(recs) /\ news[i] = recs[poller.since + i]
      <4>1. Len(news) = Len(recs) - poller.since /\ poller.since \in Nat
        BY <1>3, <2>3, <2>6, <3>1, <3>2
      <4>2. i \in 1..Len(recs) - (poller.since + 1) + 1 /\ i \in Nat
        BY <2>3, <4>1
      <4>3. news[i] = recs[poller.since + 1 + i - 1]
        BY <2>6, <4>2
      <4>4. poller.since + 1 + i - 1 = poller.since + i
        BY <4>1, <4>2
      <4>5. poller.since + i \in 1..Len(recs)
        BY <2>3, <4>1, <4>2
      <4> QED
        BY <4>3, <4>4, <4>5
    <3>3. ASSUME NEW i \in 1..Len(news)
          PROVE  /\ news[i].run = id /\ news[i].n = Base(id) + poller.since + i
                 /\ news[i].n <= emitted[id] /\ news[i].n \in Int
      <4>1. /\ poller.since + i \in 1..Len(recs) /\ news[i] = recs[poller.since + i]
        BY <3>2
      <4>2. news[i].run = id /\ news[i].n = Base(id) + (poller.since + i)
        BY <2>4, <4>1
      <4>3. /\ i \in Int /\ poller.since \in Int /\ Base(id) \in Int
            /\ poller.since + i <= Len(recs) /\ Len(recs) \in Int
            /\ Base(id) = emitted[id] - Len(recs) /\ emitted[id] \in Int
        BY <1>3, <2>3, <4>1
      <4>4. /\ Base(id) + (poller.since + i) = Base(id) + poller.since + i
            /\ Base(id) + (poller.since + i) <= emitted[id]
            /\ Base(id) + (poller.since + i) \in Int
        BY <4>3
      <4> QED
        BY <4>2, <4>4
    <3> QED
      BY <3>1, <3>3
  <2> DEFINE more == polled \o news
  <2>8. /\ more \in Seq(Frame) /\ Len(more) = Len(polled) + Len(news)
        /\ DOMAIN more = 1..Len(polled) + Len(news)
        /\ \A i \in DOMAIN more : more[i] = IF i <= Len(polled) THEN polled[i] ELSE news[i - Len(polled)]
    BY <1>4, <2>6, ConcatProperties, LenProperties
  <2> HIDE DEF more
  <2>9. \A i \in 1..Len(polled) : more[i] = polled[i] /\ more[i] \in ToSet(polled)
    BY <1>4, <2>7, <2>8 DEF ToSet
  <2>10. \A i \in DOMAIN more : i \notin 1..Len(polled) =>
           /\ i - Len(polled) \in 1..Len(news) /\ more[i] = news[i - Len(polled)]
    BY <1>4, <2>7, <2>8
  <2>11. PollTypes'
    BY <1>2, <2>1, <2>8 DEF PollTypes, more
  <2>12. ASSUME NEW i \in DOMAIN more, NEW f, f = more[i] PROVE Read(f)'
    <3>1. CASE i \in 1..Len(polled)
      <4>1. Read(f)
        BY <1>4, <2>9, <2>12, <3>1
      <4> QED
        BY <1>2, <1>5, <2>5, <4>1 DEF Read
    <3>2. CASE i \notin 1..Len(polled)
      <4>1. f.run = id /\ f.n <= emitted[id]
        BY <2>7, <2>10, <2>12, <3>2
      <4>2. id \in Nat /\ id <= id
        BY <2>2, LabAssumption DEF Runs
      <4> QED
        BY <1>2, <2>5, <4>1, <4>2 DEF Read
    <3> QED
      BY <3>1, <3>2
  <2>13. ASSUME NEW i \in DOMAIN more, NEW j \in DOMAIN more, i < j
         PROVE  Earlier(more[i], more[j])
    <3>1. CASE j \in 1..Len(polled)
      <4>1. i \in 1..Len(polled)
        BY <2>8, <2>13, <3>1
      <4>2. Earlier(polled[i], polled[j])
        BY <1>4, <2>13, <3>1, <4>1 DEF Polled
      <4> QED
        BY <2>9, <3>1, <4>1, <4>2
    <3>2. CASE i \in 1..Len(polled) /\ j \notin 1..Len(polled)
      <4>1. /\ Read(more[i]) /\ more[i].run \in Runs /\ more[i].n \in Nat
        BY <1>4, <2>9, <3>2
      <4>2. /\ more[j].run = id /\ more[j].n \in Int /\ id \in Nat /\ more[i].run \in Nat
            /\ Base(id) \in Int /\ Base(id) + poller.since < more[j].n
        <5>1. j - Len(polled) \in 1..Len(news) /\ more[j] = news[j - Len(polled)]
          BY <2>10, <2>13, <3>2
        <5>2. Base(id) \in Int /\ poller.since \in Nat
          BY <1>3, <2>3
        <5>3. id \in Nat /\ more[i].run \in Nat
          BY <2>2, <4>1, LabAssumption DEF Runs
        <5> QED
          BY <2>7, <5>1, <5>2, <5>3
      <4>3. more[i].run <= id
        BY <1>3, <2>2, <4>1 DEF Read
      <4>4. more[i].run = id => more[i].n <= Base(id) + poller.since
        BY <2>1, <4>1 DEF Read
      <4>5. more[i].run = id => more[i].n < more[j].n
        BY <1>3, <4>1, <4>2, <4>4
      <4>6. more[i].run # id => more[i].run < id
        BY <4>2, <4>3
      <4> QED
        BY <4>2, <4>5, <4>6 DEF Earlier
    <3>3. CASE i \notin 1..Len(polled)
      <4>1. j \notin 1..Len(polled)
        BY <1>4, <2>7, <2>8, <2>13, <3>3
      <4>2. /\ i - Len(polled) \in 1..Len(news) /\ more[i] = news[i - Len(polled)]
            /\ j - Len(polled) \in 1..Len(news) /\ more[j] = news[j - Len(polled)]
        BY <2>10, <2>13, <3>3, <4>1
      <4>3. /\ more[i].run = id /\ more[i].n = Base(id) + poller.since + (i - Len(polled))
            /\ more[j].run = id /\ more[j].n = Base(id) + poller.since + (j - Len(polled))
        BY <2>7, <4>2
      <4>4. i \in Int /\ j \in Int /\ Base(id) \in Int /\ poller.since \in Int /\ Len(polled) \in Int
        BY <1>3, <1>4, <2>3, <2>7, <2>8
      <4>5. more[i].n < more[j].n
        BY <2>13, <4>3, <4>4
      <4> QED
        BY <4>3, <4>5 DEF Earlier
    <3> QED
      BY <3>1, <3>2, <3>3
  <2>14. polled' = more /\ run' = run
    BY <1>2, <2>1 DEF more
  <2>15. \A f \in ToSet(polled') : Read(f)'
    BY <2>12, <2>14 DEF ToSet
  <2>16. poller'.id # 0 => poller'.id = run' \/ Over(poller.id)'
    BY <1>2, <2>5 DEF Over, Polled
  <2>17. \A i, j \in DOMAIN polled' : i < j => Earlier(polled'[i], polled'[j])
    BY <2>13, <2>14
  <2>18. poller'.id # 0
    BY <1>3, <2>2, <2>5
  <2> QED
    BY <1>1, <2>11, <2>15, <2>16, <2>17, <2>18 DEF Polled, ToSet
<1>9. CASE Total
  <2> DEFINE id == poller.id
  <2>1. /\ poller.pc = "total" /\ polls' = polls /\ polled' = polled
        /\ poller' = [poller EXCEPT !.pc = "idle", !.since = Len(records[id])]
    BY <1>9 DEF Total
  <2>2. id \in Runs /\ id # 0
    BY <1>3, <2>1 DEF Polled
  <2>3. /\ Len(records[id]) \in 0..MaxRecords /\ Len(records[id]) \in Int /\ emitted[id] \in Nat
        /\ Base(id) = emitted[id] - Len(records[id])
    BY <1>6, <2>2
  <2>4. poller'.pc = "idle" /\ poller'.id = id /\ poller'.since = Len(records[id])
    BY <2>1 DEF PollTypes
  <2>5. PollTypes'
    BY <1>2, <2>1, <2>3 DEF PollTypes
  <2>6. ASSUME NEW f \in ToSet(polled) PROVE Read(f)'
    <3>1. Read(f) /\ f.run \in Runs /\ f.n \in Nat
      BY <1>4, <2>6
    <3>2. f.run = id => f.n <= emitted[id] /\ f.n <= Base(id) + Len(records[id])
      BY <2>3, <3>1 DEF Read
    <3> QED
      BY <1>2, <1>5, <2>4, <3>1, <3>2 DEF Read
  <2>7. poller'.id # 0 => poller'.id = run' \/ Over(poller.id)'
    BY <1>2, <2>4 DEF Over, Polled
  <2> QED
    BY <1>1, <2>1, <2>4, <2>5, <2>6, <2>7 DEF Polled
<1> QED
  BY <1>1, <1>7, <1>8, <1>9

LEMMA Counts ==
  /\ StreamInv => \A p \in Runs : emitted[p] \in Nat /\ Base(p) \in Int
  /\ StreamInv' => \A p \in Runs : emitted'[p] \in Nat /\ Base(p)' \in Int
<1>1. ASSUME NEW number, NEW ring, number \in [Runs -> Nat], ring \in [Runs -> Seq(Frame)]
      PROVE  \A p \in Runs : number[p] \in Nat /\ number[p] - Len(ring[p]) \in Int
  BY <1>1, LenProperties
<1> QED
  BY <1>1 DEF StreamInv, CollectorTypes, Base

LEMMA LabStep == LabInv /\ [Next]_vars => LabInv'
<1> SUFFICES ASSUME LabInv, [Next]_vars PROVE LabInv'
  OBVIOUS
<1>1. RegistryInv /\ InTurn /\ StreamInv /\ PollTypes /\ Polled /\ RegistryInv'
  BY StepKeeps DEF LabInv
<1>2. RegistryTypes /\ run \in 0..MaxRuns
  BY <1>1 DEF RegistryInv, RegistryTypes
<1>3. ASSUME \/ UNCHANGED registry
             \/ \E op \in {"start", "stop"} : Request(op)
             \/ \E t \in Threads : Handles(t)
      PROVE  /\ InTurn'
             /\ \A p \in Runs : Over(p) => Over(p)'
             /\ \A p \in Runs : run = p => run' = p \/ Over(p)'
             /\ UNCHANGED <<collector, queue, streaming, polling>> \/ UNCHANGED registry
  BY <1>1, <1>3, RunsInTurn
\* The streams' half of the lab moves: the polls rest.
<1>4. ASSUME StreamInv', UNCHANGED polling, UNCHANGED registry,
             \A p \in Runs : Base(p) <= Base(p)' /\ emitted[p] <= emitted'[p]
      PROVE  LabInv'
  <2>1. \A p \in Runs : emitted[p] \in Nat /\ emitted'[p] \in Nat /\ Base(p) \in Int
          /\ Base(p)' \in Int /\ Base(p) <= Base(p)' /\ emitted[p] <= emitted'[p]
    BY <1>1, <1>4, Counts
  <2>2. Polled'
    BY <1>1, <1>3, <1>4, <2>1, ReadersRest
  <2>3. PollTypes'
    BY <1>1, <1>4 DEF PollTypes, polling, registry
  <2> QED
    BY <1>1, <1>3, <1>4, <2>2, <2>3 DEF LabInv
<1>5. ASSUME UNCHANGED <<records, emitted>>
      PROVE  \A p \in Runs : Base(p) <= Base(p)' /\ emitted[p] <= emitted'[p]
  <2>1. \A p \in Runs : Base(p)' = Base(p) /\ emitted'[p] = emitted[p]
    BY <1>5 DEF Base
  <2>2. \A p \in Runs : emitted[p] \in Nat /\ Base(p) \in Int
    BY <1>1, Counts
  <2> QED
    BY <2>1, <2>2
<1>6. CASE (\E op \in {"start", "stop"} : Request(op)) \/ (\E t \in Threads : Handles(t))
  <2>1. UNCHANGED <<collector, queue, streaming, polling>> /\ requests' \in 0..MaxRequests
    <3>1. UNCHANGED <<collector, queue, streaming, polling>>
      BY <1>6 DEF Request, Handles, StartLocks, OldStops, Opens, OpenFails, Publishes,
                  StopTakes, StopEnds
    <3>2. requests' = requests \/ (requests < MaxRequests /\ requests' = requests + 1)
      BY <1>6 DEF Request, Handles, StartLocks, OldStops, Opens, OpenFails, Publishes,
                  StopTakes, StopEnds
    <3>3. requests \in 0..MaxRequests /\ MaxRequests \in Nat
      BY <1>1, LabAssumption DEF PollTypes
    <3> QED
      BY <3>1, <3>2, <3>3
  <2>2. StreamInv'
    BY <1>1, <2>1, StreamsRest
  <2>3. \A p \in Runs : emitted[p] \in Nat /\ emitted'[p] \in Nat /\ Base(p) \in Int
          /\ Base(p)' \in Int /\ Base(p) <= Base(p)' /\ emitted[p] <= emitted'[p]
    <3>1. UNCHANGED <<records, emitted>>
      BY <2>1 DEF collector
    <3> QED
      BY <1>1, <1>5, <2>2, <3>1, Counts
  <2>4. Polled'
    BY <1>1, <1>3, <1>6, <2>1, <2>3, ReadersRest
  <2>5. PollTypes'
    BY <1>1, <2>1 DEF PollTypes, polling
  <2> QED
    BY <1>1, <1>3, <1>6, <2>2, <2>4, <2>5 DEF LabInv
<1>7. CASE \E r \in Runs, s \in Sources : OnFrame(r, s) \/ Emits(r, s)
  <2>1. UNCHANGED registry /\ UNCHANGED polling
    BY <1>7 DEF OnFrame, Emits, Notify, Put, DropOldest, PutAgain
  <2>2. PICK r \in Runs, s \in Sources : OnFrame(r, s) \/ Emits(r, s)
    BY <1>7
  <2>3. CASE OnFrame(r, s)
    BY <1>1, <1>4, <2>1, <2>3, OnFrameKeeps
  <2>4. CASE Emits(r, s)
    <3>1. UNCHANGED <<records, emitted>>
      BY <2>4 DEF Emits, Notify, Put, DropOldest, PutAgain
    <3>2. StreamInv'
      BY <1>1, <2>4, EmitsKeeps
    <3> QED
      BY <1>4, <1>5, <2>1, <3>1, <3>2
  <2> QED
    BY <2>2, <2>3, <2>4
<1>8. CASE \E q \in Streams : Connect(q) \/ Streaming(q) \/ Disconnect(q)
  <2>1. UNCHANGED registry /\ UNCHANGED polling /\ UNCHANGED <<records, emitted>>
    BY <1>8 DEF Connect, Streaming, Disconnect, Subscribe, StreamLoop, Deliver, Drained,
                WaitTimesOut, StreamEnds, collector
  <2>2. StreamInv'
    BY <1>1, <1>2, <1>8, StreamingKeeps
  <2> QED
    BY <1>4, <1>5, <2>1, <2>2
<1>9. CASE PollBegins \/ RecordsSince \/ Total
  <2>1. PollTypes' /\ Polled' /\ UNCHANGED <<registry, collector, queue, streaming>>
    BY <1>1, <1>2, <1>9, PollKeeps
  <2>2. StreamInv'
    BY <1>1, <2>1, StreamsRest
  <2> QED
    BY <1>1, <1>3, <2>1, <2>2 DEF LabInv
<1>10. CASE UNCHANGED vars
  <2>1. UNCHANGED registry /\ UNCHANGED polling /\ UNCHANGED <<collector, queue, streaming>>
    BY <1>10 DEF vars
  <2>2. StreamInv' /\ UNCHANGED <<records, emitted>>
    BY <1>1, <2>1, StreamsRest DEF collector
  <2> QED
    BY <1>4, <1>5, <2>1, <2>2
<1> QED
  BY <1>6, <1>7, <1>8, <1>9, <1>10 DEF Next

\* Every variable keeps its type, the queue of a stream and the ring of a run their
\* bounds, however many sources push frames in while streams come and go.
THEOREM TypeCorrect == Spec => []TypeOK
<1>1. LabInv => TypeOK
  BY TypesAgree DEF LabInv, RegistryInv, StreamInv
<1> QED
  BY <1>1, LabStarts, LabStep, PTL DEF Spec

\* No reader is shown a frame twice or out of order: neither a stream, whose queue
\* several sources fill and push the oldest out of (FrameCollector.on_frame), nor a
\* client that polls with the index of before, of a ring that is trimmed and a run
\* that is replaced (poll_l2_master_lab).
THEOREM ReadersAlwaysInOrder == Spec => []ReadersInOrder
<1>1. LabInv => ReadersInOrder
  <2> SUFFICES ASSUME LabInv PROVE ReadersInOrder
    OBVIOUS
  <2>1. ASSUME NEW q \in Streams
        PROVE  InOrder(seen[q]) /\ \A f \in ToSet(seen[q]) : f.run = stream[q].id
    <3>1. Ordered(seen[q], queue[q]) /\ \A f \in Shown(q) : f.run = stream[q].id
      BY DEF LabInv, StreamInv, Lines
    <3>2. InOrder(seen[q])
      BY <3>1 DEF Ordered, Precedes, InOrder
    <3> QED
      BY <3>1, <3>2 DEF Shown
  <2>2. \A i, j \in DOMAIN polled : i < j => Earlier(polled[i], polled[j])
    BY DEF LabInv, Polled
  <2> QED
    BY <2>1, <2>2 DEF ReadersInOrder, Earlier
<1> QED
  BY <1>1, LabStarts, LabStep, PTL DEF Spec
=============================================================================
