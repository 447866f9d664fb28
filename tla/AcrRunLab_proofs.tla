-------------------------- MODULE AcrRunLab_proofs --------------------------
(***************************************************************************)
(* For any number of runs and of packets: the ports are never bound to a   *)
(* run that nobody can find, a start that client.start() failed excepted;  *)
(* a run that is over has left nothing running; and what the last reply    *)
(* says of it is how it ended.                                             *)
(*                                                                         *)
(* A run is in one phase at a time, which is written out in RunInv; it     *)
(* says what the call and the worker have done to the sockets, and hence   *)
(* that nobody is left who could write to a run that has finished.  The    *)
(* reply of a page that has read "finished" is then made of final values.  *)
(***************************************************************************)
EXTENDS AcrRunLab, TLAPS

Listening(r) == ports = r /\ ~clientStop[r] /\ receiver[r] \in {"select", "got"}
Closing(r) == ports # r /\ clientStop[r] /\ receiver[r] \in {"select", "got", "gone"}
Closed(r) == ports # r /\ receiver[r] \in {"none", "gone"}

\* No receiver yet, or ever.
Silent(r) == receiver[r] = "none" /\ ~clientStop[r]

CallInv(r) ==
  /\ call[r] # "answered" => worker[r] = "none"
  /\ call[r] = "answered" => worker[r] # "none"
  /\ call[r] = "idle" => ports # r /\ Silent(r)
  /\ call[r] = "resolving" => ports = r /\ Silent(r)
  /\ call[r] = "failed" => Silent(r)
  /\ call[r] \in {"opened", "close", "bound", "registered"} => Listening(r)
  /\ call[r] = "join" => Closing(r)
  /\ call[r] = "refused" => Closed(r)
  /\ call[r] = "registered" => r \in registry
  /\ r \in registry => call[r] \in {"registered", "answered"}

WorkerInv(r) ==
  /\ worker[r] \in {"start", "watch", "send", "cancel", "close"} => Listening(r)
  /\ worker[r] = "join" => Closing(r)
  /\ worker[r] \in {"finish", "done"} =>
       ports # r /\ receiver[r] = "gone" /\ pcap[r] = packets[r]
  /\ worker[r] \notin {"none", "done"} => r \in registry
  /\ finished[r] => worker[r] = "done"
  /\ worker[r] = "done" => finished[r]
  /\ manager[r] # "none" => worker[r] \in {"watch", "cancel"}
  /\ manager[r] = "running" => worker[r] = "watch"

RunInv == \A r \in Runs : CallInv(r) /\ WorkerInv(r)

\* What a page knows of its run.
PageInv ==
  /\ page \notin {"idle", "left"} => watched \in Runs /\ call[watched] = "answered"
  /\ page \in {"asked", "error", "cancel_sent", "messages", "answered", "done"} /\ reply.finished =>
       finished[watched]
  /\ page \in {"error", "cancel_sent", "messages", "answered", "done"} /\ reply.finished =>
       reply.error = error[watched]
  /\ page \in {"cancel_sent", "messages", "answered", "done"} /\ reply.finished =>
       reply.cancelSent = cancelSent[watched]
  /\ page \in {"messages", "answered", "done"} /\ reply.finished => reply.to = packets[watched]
  /\ page \in {"answered", "done"} /\ reply.finished =>
       reply.next = packets[watched] /\ reply.pcap = packets[watched]
  /\ page = "done" => reply.finished /\ since = packets[watched]
  /\ page = "messages" => reply.to <= packets[watched]
  /\ page = "answered" => reply.to <= reply.next

LabInv == TypeOK /\ RunInv /\ PageInv

-----------------------------------------------------------------------------
\* What is in no place of a run but its own.
Same(q) ==
  /\ clientStop'[q] = clientStop[q] /\ receiver'[q] = receiver[q]
  /\ manager'[q] = manager[q] /\ worker'[q] = worker[q] /\ call'[q] = call[q]
  /\ packets'[q] = packets[q] /\ error'[q] = error[q] /\ cancelSent'[q] = cancelSent[q]
  /\ pcap'[q] = pcap[q] /\ finished'[q] = finished[q]
  /\ ports' = q <=> ports = q

LEMMA OthersKept ==
  ASSUME NEW q \in Runs, CallInv(q), WorkerInv(q), Same(q), q \in registry' <=> q \in registry
  PROVE  CallInv(q)' /\ WorkerInv(q)'
BY DEF CallInv, WorkerInv, Same, Listening, Closing, Closed, Silent

\* Dropping a finished run from the registry breaks no phase.
LEMMA CollectionKept ==
  ASSUME NEW q \in Runs, CallInv(q), WorkerInv(q), Same(q), NEW old,
         registry' = Collects(old), registry \subseteq Runs
  PROVE  CallInv(q)' /\ WorkerInv(q)'
<1>1. q \in registry' => q \in registry
  BY DEF Collects
<1>2. q \in registry /\ q \notin registry' => finished[q]
  BY DEF Collects
<1> QED BY <1>1, <1>2 DEF CallInv, WorkerInv, Same, Listening, Closing, Closed, Silent

LEMMA StartsInvariant == Init => LabInv
<1> SUFFICES ASSUME Init PROVE LabInv
  OBVIOUS
<1>1. TypeOK
  BY AcrRunAssumption DEF Init, TypeOK, NoReply, Replies, NoPcap, Polling
<1>2. RunInv
  BY AcrRunAssumption DEF Init, RunInv, CallInv, WorkerInv, Listening, Closing, Closed, Silent
<1>3. PageInv
  BY DEF Init, PageInv, Polling
<1> QED BY <1>1, <1>2, <1>3 DEF LabInv

LEMMA CallTypes ==
  ASSUME TypeOK, NEW r \in Runs, Call(r)
  PROVE  TypeOK'
<1> USE DEF TypeOK, Set, Polling, client, outcome, session, lab, browser
<1>1. CASE CallOpens(r)
  BY <1>1 DEF CallOpens, CallBegins, Collects
<1>2. CASE CallRefuses(r)
  BY <1>2 DEF CallRefuses, CallBegins, Collects
<1>8. CASE CallResolves(r)
  BY <1>8 DEF CallResolves, ClientStarts, ClientFails
<1>9. CASE SocketsCollected(r)
  BY <1>9 DEF SocketsCollected
<1>3. CASE CallBinds(r)
  BY <1>3 DEF CallBinds, EndpointsFail
<1>4. CASE CallCloses(r)
  BY <1>4 DEF CallCloses, CloseSockets
<1>5. CASE CallJoins(r)
  BY <1>5 DEF CallJoins
<1>6. CASE CallRegisters(r)
  BY <1>6 DEF CallRegisters
<1>7. CASE CallAnswers(r)
  <2>1. worker' \in [Runs -> {"none", "start", "watch", "send", "cancel", "close",
                              "join", "finish", "done"}]
        /\ call' \in [Runs -> {"idle", "resolving", "opened", "close", "join", "bound",
                               "registered", "answered", "refused", "failed"}]
    BY <1>7 DEF CallAnswers
  <2>0. NoReply \in Replies
    BY DEF NoReply, Replies, NoPcap
  <2>2. /\ page' \in {"idle", "done", "left"} \cup Polling
        /\ watched' \in Runs \cup {0} /\ since' \in Nat /\ reply' \in Replies
    <3>1. CASE page \in Polling
      BY <1>7, <3>1 DEF CallAnswers
    <3>2. CASE page \notin Polling
      BY <1>7, <2>0, <3>2 DEF CallAnswers
    <3> QED BY <3>1, <3>2
  <2> QED BY <1>7, <2>1, <2>2 DEF CallAnswers
<1> QED BY <1>1, <1>2, <1>3, <1>4, <1>5, <1>6, <1>7, <1>8, <1>9 DEF Call

LEMMA SetTypes ==
  ASSUME NEW S, NEW f \in [Runs -> S], NEW r \in Runs, NEW v \in S
  PROVE  Set(f, r, v) \in [Runs -> S]
BY DEF Set

Receivers == {"none", "select", "got", "gone"}
Managers == {"none", "running", "ok", "failed", "stopped"}
Workers == {"none", "start", "watch", "send", "cancel", "close", "join", "finish", "done"}

\* What the threads of a run write.
ThreadTypesOK ==
  /\ ports \in Runs \cup {Free}
  /\ receiver \in [Runs -> Receivers]
  /\ manager \in [Runs -> Managers]
  /\ worker \in [Runs -> Workers]
  /\ clientStop \in [Runs -> BOOLEAN] /\ stopRequested \in [Runs -> BOOLEAN]
  /\ error \in [Runs -> BOOLEAN] /\ cancelSent \in [Runs -> BOOLEAN]
  /\ finished \in [Runs -> BOOLEAN]
  /\ packets \in [Runs -> Nat]
  /\ pcap \in [Runs -> Nat \cup {NoPcap}]

LEMMA ThreadsTyped ==
  ASSUME TypeOK PROVE ThreadTypesOK
BY DEF TypeOK, ThreadTypesOK, Receivers, Managers, Workers

LEMMA ThreadTypes ==
  ASSUME TypeOK, NEW r \in Runs, Receiver(r) \/ Manager(r) \/ Worker(r)
  PROVE  TypeOK'
<1>1. ThreadTypesOK
  BY ThreadsTyped
<1>2. UNCHANGED <<lab, browser, stopEvent>>
  BY DEF Receiver, ReceiverTakes, ReceiverIngests, ReceiverLeaves, Manager, ManagerSends,
         ManagerEnds, Worker, WorkerStarts, WorkerPassesStop, WorkerCollects, WorkerCancels,
         WorkerSends, WorkerFails, WorkerIsStopped, WorkerCloses, WorkerCaptures, WorkerFinishes
<1>3. packets[r] \in Nat /\ packets[r] + 1 \in Nat
  BY <1>1 DEF ThreadTypesOK
<1>4. ThreadTypesOK'
  <2> USE <1>1, <1>3, SetTypes
      DEF ThreadTypesOK, Receivers, Managers, Workers, Collect, client, outcome, session
  <2>1. CASE Receiver(r)
    <3>1. CASE ReceiverTakes(r)
      BY <3>1 DEF ReceiverTakes
    <3>2. CASE ReceiverIngests(r)
      BY <3>2 DEF ReceiverIngests
    <3>3. CASE ReceiverLeaves(r)
      BY <3>3 DEF ReceiverLeaves
    <3> QED BY <2>1, <3>1, <3>2, <3>3 DEF Receiver
  <2>2. CASE Manager(r)
    <3>1. CASE ManagerSends(r)
      BY <3>1 DEF ManagerSends
    <3>2. CASE ManagerEnds(r)
      <4>1. PICK end \in Managers : manager' = Set(manager, r, end)
        BY <3>2 DEF ManagerEnds
      <4> QED BY <3>2, <4>1 DEF ManagerEnds
    <3> QED BY <2>2, <3>1, <3>2 DEF Manager
  <2>3. CASE WorkerStarts(r)
    BY <2>3 DEF WorkerStarts
  <2>4. CASE WorkerPassesStop(r)
    BY <2>4 DEF WorkerPassesStop, RequestStop
  <2>5. CASE WorkerCollects(r)
    <3>1. /\ error' = Set(error, r, error'[r]) /\ error'[r] \in BOOLEAN
      BY <2>5 DEF WorkerCollects, Set
    <3> QED BY <2>5, <3>1 DEF WorkerCollects
  <2>6. CASE WorkerCancels(r)
    <3>1. PICK sent \in BOOLEAN : cancelSent' = Set(cancelSent, r, sent)
      BY <2>6 DEF WorkerCancels
    <3>2. cancelSent' \in [Runs -> BOOLEAN] /\ stopRequested' \in [Runs -> BOOLEAN]
      BY <2>6, <3>1 DEF WorkerCancels
    <3>3. packets' \in [Runs -> Nat]
      BY <2>6 DEF WorkerCancels
    <3> QED BY <2>6, <3>2, <3>3 DEF WorkerCancels
  <2>7. CASE WorkerSends(r)
    <3>1. packets' \in [Runs -> Nat]
      BY <2>7 DEF WorkerSends
    <3>2. CASE UNCHANGED <<error, worker>>
      BY <2>7, <3>1, <3>2 DEF WorkerSends
    <3>3. CASE error' = Set(error, r, TRUE) /\ worker' = Set(worker, r, "close")
      BY <2>7, <3>1, <3>3 DEF WorkerSends
    <3> QED BY <2>7, <3>2, <3>3 DEF WorkerSends
  <2>12. CASE WorkerFails(r)
    BY <2>12 DEF WorkerFails
  <2>8. CASE WorkerIsStopped(r)
    BY <2>8 DEF WorkerIsStopped
  <2>9. CASE WorkerCloses(r)
    BY <2>9 DEF WorkerCloses, CloseSockets
  <2>10. CASE WorkerCaptures(r)
    BY <2>10 DEF WorkerCaptures
  <2>11. CASE WorkerFinishes(r)
    BY <2>11 DEF WorkerFinishes
  <2> QED BY <2>1, <2>2, <2>3, <2>4, <2>5, <2>6, <2>7, <2>8, <2>9, <2>10, <2>11, <2>12 DEF Worker
<1> QED BY <1>2, <1>4 DEF TypeOK, ThreadTypesOK, Receivers, Managers, Workers, lab, browser

LEMMA PageTypes ==
  ASSUME TypeOK, PageInv, Page
  PROVE  TypeOK'
<1> USE DEF Polling
<1>1. page \notin {"idle", "left"} => watched \in Runs
  BY DEF PageInv
<1>2. NoReply \in Replies
  BY DEF NoReply, Replies, NoPcap
<1>3. UNCHANGED <<client, outcome, session, lab, worker, packets>>
  BY DEF Page, PollBegins, PollFindsNone, PageForgets, PollError, PollCancelSent, PollMessages,
         PollTotal, PollShows, PollIsLost, PageCloses, PressStop, Reply
<1>4. stopEvent' \in [Runs -> BOOLEAN]
  <2>0. stopEvent \in [Runs -> BOOLEAN]
    BY DEF TypeOK
  <2>1. CASE PressStop
    <3>1. watched \in Runs
      BY <1>1, <2>1 DEF PressStop
    <3> QED BY <2>0, <2>1, <3>1, SetTypes DEF PressStop
  <2>2. CASE ~PressStop
    BY <2>0, <2>2 DEF Page, PollBegins, PollFindsNone, PageForgets, PollError, PollCancelSent,
                      PollMessages, PollTotal, PollShows,
                      PollIsLost, PageCloses, Reply
  <2> QED BY <2>1, <2>2
<1>5. /\ page' \in {"idle", "done", "left"} \cup Polling
      /\ watched' \in Runs \cup {0} /\ since' \in Nat /\ reply' \in Replies
  <2>1. CASE PollBegins
    BY <1>1, <1>2, <2>1 DEF PollBegins, Reply, TypeOK, Replies
  <2>2. CASE PollFindsNone \/ PollIsLost \/ PageCloses
    BY <1>2, <2>2 DEF PollFindsNone, PollIsLost, PageCloses, PageForgets, Reply, TypeOK
  <2>3. CASE PollMessages
    BY <1>1, <2>3 DEF PollMessages, Reply, TypeOK, Replies
  <2>7. CASE PollError \/ PollCancelSent
    BY <1>1, <2>7 DEF PollError, PollCancelSent, Reply, TypeOK, Replies
  <2>4. CASE PollTotal
    BY <1>1, <2>4 DEF PollTotal, Reply, Total, TypeOK, Replies
  <2>5. CASE PollShows
    <3>1. reply.next \in Nat
      BY DEF TypeOK, Replies
    <3> QED BY <1>2, <2>5, <3>1 DEF PollShows, TypeOK
  <2>6. CASE PressStop
    BY <2>6 DEF PressStop, TypeOK, browser
  <2> QED BY <2>1, <2>2, <2>3, <2>4, <2>5, <2>6, <2>7 DEF Page
<1> QED BY <1>3, <1>4, <1>5 DEF TypeOK, client, outcome, session, lab

-----------------------------------------------------------------------------
\* The start of a run.
LEMMA CallKeeps ==
  ASSUME TypeOK, RunInv, NEW r \in Runs, Call(r)
  PROVE  RunInv'
<1> SUFFICES ASSUME NEW q \in Runs PROVE CallInv(q)' /\ WorkerInv(q)'
  BY DEF RunInv
<1> USE AcrRunAssumption DEF TypeOK, Set, client, outcome, session, lab
<1>0. CallInv(q) /\ WorkerInv(q) /\ CallInv(r) /\ WorkerInv(r)
  BY DEF RunInv
<1>1. CASE CallOpens(r)
  <2>1. CASE q = r
    BY <1>0, <1>1, <2>1 DEF CallOpens, CallBegins, Collects, CallInv, WorkerInv, Silent
  <2>2. CASE q # r
    <3>1. Same(q)
      BY <1>1, <2>2 DEF CallOpens, Same
    <3> QED BY <1>0, <1>1, <3>1, CollectionKept DEF CallOpens, CallBegins
  <2> QED BY <2>1, <2>2
<1>2. CASE CallRefuses(r)
  <2>1. CASE q = r
    BY <1>0, <1>2, <2>1 DEF CallRefuses, CallBegins, Collects, CallInv, WorkerInv, Closed, Silent
  <2>2. CASE q # r
    <3>1. Same(q)
      BY <1>2, <2>2 DEF CallRefuses, Same
    <3> QED BY <1>0, <1>2, <3>1, CollectionKept DEF CallRefuses, CallBegins
  <2> QED BY <2>1, <2>2
<1>8. CASE CallResolves(r)
  <2>1. CASE q = r
    BY <1>0, <1>8, <2>1
       DEF CallResolves, ClientStarts, ClientFails, CallInv, WorkerInv, Listening, Silent
  <2>2. CASE q # r
    BY <1>0, <1>8, <2>2, OthersKept DEF CallResolves, ClientStarts, ClientFails, Same
  <2> QED BY <2>1, <2>2
<1>9. CASE SocketsCollected(r)
  <2>1. CASE q = r
    BY <1>0, <1>9, <2>1 DEF SocketsCollected, CallInv, WorkerInv, Silent
  <2>2. CASE q # r
    BY <1>0, <1>9, <2>2, OthersKept DEF SocketsCollected, Same
  <2> QED BY <2>1, <2>2
<1>3. CASE CallBinds(r)
  <2>1. CASE q = r
    BY <1>0, <1>3, <2>1 DEF CallBinds, EndpointsFail, CallInv, WorkerInv, Listening
  <2>2. CASE q # r
    BY <1>0, <1>3, <2>2, OthersKept DEF CallBinds, EndpointsFail, Same
  <2> QED BY <2>1, <2>2
<1>4. CASE CallCloses(r)
  <2>1. CASE q = r
    BY <1>0, <1>4, <2>1 DEF CallCloses, CloseSockets, CallInv, WorkerInv, Listening, Closing
  <2>2. CASE q # r
    BY <1>0, <1>4, <2>2, OthersKept DEF CallCloses, CloseSockets, Same
  <2> QED BY <2>1, <2>2
<1>5. CASE CallJoins(r)
  <2>1. CASE q = r
    BY <1>0, <1>5, <2>1 DEF CallJoins, Joined, CallInv, WorkerInv, Closing, Closed
  <2>2. CASE q # r
    BY <1>0, <1>5, <2>2, OthersKept DEF CallJoins, Same
  <2> QED BY <2>1, <2>2
<1>6. CASE CallRegisters(r)
  <2>1. CASE q = r
    BY <1>0, <1>6, <2>1 DEF CallRegisters, CallInv, WorkerInv, Listening
  <2>2. CASE q # r
    BY <1>0, <1>6, <2>2, OthersKept DEF CallRegisters, Same
  <2> QED BY <2>1, <2>2
<1>7. CASE CallAnswers(r)
  <2>1. CASE q = r
    BY <1>0, <1>7, <2>1 DEF CallAnswers, CallInv, WorkerInv, Listening
  <2>2. CASE q # r
    BY <1>0, <1>7, <2>2, OthersKept DEF CallAnswers, Same
  <2> QED BY <2>1, <2>2
<1> QED BY <1>1, <1>2, <1>3, <1>4, <1>5, <1>6, <1>7, <1>8, <1>9 DEF Call

\* A run that listens, and one that closes, may receive; one that is over may not.
LEMMA ReceiverKeeps ==
  ASSUME TypeOK, RunInv, NEW r \in Runs, Receiver(r)
  PROVE  RunInv'
<1> SUFFICES ASSUME NEW q \in Runs PROVE CallInv(q)' /\ WorkerInv(q)'
  BY DEF RunInv
<1> USE DEF TypeOK, Set, Collect, client, outcome, session, lab
<1>0. CallInv(q) /\ WorkerInv(q)
  BY DEF RunInv
<1>1. UNCHANGED <<ports, clientStop, registry, call, worker, manager, error, cancelSent, pcap, finished>>
  BY DEF Receiver, ReceiverTakes, ReceiverIngests, ReceiverLeaves
<1>2. CASE q = r
  <2>1. /\ receiver[q] \in {"select", "got"}
        /\ receiver'[q] \in {"select", "got"} \/ (receiver'[q] = "gone" /\ clientStop[q])
    BY <1>2 DEF Receiver, ReceiverTakes, ReceiverIngests, ReceiverLeaves
  <2>2. /\ worker[q] \notin {"finish", "done"}
        /\ call[q] \notin {"idle", "resolving", "refused", "failed"}
    BY <1>0, <2>1 DEF CallInv, WorkerInv, Closed, Silent
  <2> QED BY <1>0, <1>1, <2>1, <2>2 DEF CallInv, WorkerInv, Listening, Closing, Closed, Silent
<1>3. CASE q # r
  <2>1. Same(q)
    BY <1>1, <1>3 DEF Same, Receiver, ReceiverTakes, ReceiverIngests, ReceiverLeaves
  <2> QED BY <1>0, <1>1, <2>1, OthersKept
<1> QED BY <1>2, <1>3

LEMMA ManagerKeeps ==
  ASSUME TypeOK, RunInv, NEW r \in Runs, Manager(r)
  PROVE  RunInv'
<1> SUFFICES ASSUME NEW q \in Runs PROVE CallInv(q)' /\ WorkerInv(q)'
  BY DEF RunInv
<1> USE DEF TypeOK, Set, Collect, client, outcome, session, lab
<1>0. CallInv(q) /\ WorkerInv(q)
  BY DEF RunInv
<1>1. UNCHANGED <<ports, clientStop, receiver, registry, call, worker, error, cancelSent, pcap, finished>>
  BY DEF Manager, ManagerSends, ManagerEnds
<1>2. CASE q = r
  <2>1. worker[q] = "watch"
    BY <1>0, <1>2 DEF WorkerInv, Manager, ManagerSends, ManagerEnds
  <2> QED BY <1>0, <1>1, <2>1 DEF CallInv, WorkerInv, Listening, Closing, Closed, Silent
<1>3. CASE q # r
  <2>1. Same(q)
    BY <1>1, <1>3 DEF Same, Manager, ManagerSends, ManagerEnds
  <2> QED BY <1>0, <1>1, <2>1, OthersKept
<1> QED BY <1>2, <1>3

\* The worker, and its teardown in the order of its finally block.
LEMMA WorkerKeeps ==
  ASSUME TypeOK, RunInv, NEW r \in Runs, Worker(r)
  PROVE  RunInv'
<1> SUFFICES ASSUME NEW q \in Runs PROVE CallInv(q)' /\ WorkerInv(q)'
  BY DEF RunInv
<1> USE AcrRunAssumption DEF TypeOK, Set, Collect, client, outcome, session, lab
<1>0. CallInv(q) /\ WorkerInv(q)
  BY DEF RunInv
<1>a. UNCHANGED <<registry, call, receiver>>
  BY DEF Worker, WorkerStarts, WorkerPassesStop, WorkerCollects, WorkerCancels, WorkerSends,
         WorkerFails, WorkerIsStopped, WorkerCloses, WorkerCaptures, WorkerFinishes
<1>1. CASE q # r
  <2>1. Same(q)
    <3>1. CASE WorkerCloses(r)
      BY <1>1, <3>1 DEF WorkerCloses, CloseSockets, Same
    <3>2. CASE ~WorkerCloses(r)
      BY <1>1, <3>2 DEF Worker, WorkerStarts, WorkerPassesStop, WorkerCollects, WorkerCancels,
                        WorkerSends, WorkerFails, WorkerIsStopped, WorkerCaptures, WorkerFinishes,
                        Same, RequestStop
    <3> QED BY <3>1, <3>2
  <2> QED BY <1>0, <1>a, <2>1, OthersKept
<1>2. CASE q = r
  <2> USE DEF CallInv, WorkerInv
  <2>1. CASE WorkerStarts(r) \/ WorkerPassesStop(r)
    BY <1>0, <1>a, <1>2, <2>1 DEF WorkerStarts, WorkerPassesStop, Listening
  <2>2. CASE WorkerCollects(r)
    BY <1>0, <1>a, <1>2, <2>2 DEF WorkerCollects, Listening
  <2>3. CASE WorkerCancels(r)
    BY <1>0, <1>a, <1>2, <2>3 DEF WorkerCancels, Listening
  <2>4. CASE WorkerSends(r) \/ WorkerFails(r) \/ WorkerIsStopped(r)
    BY <1>0, <1>a, <1>2, <2>4 DEF WorkerSends, WorkerFails, WorkerIsStopped, Listening
  <2>5. CASE WorkerCloses(r)
    BY <1>0, <1>a, <1>2, <2>5 DEF WorkerCloses, CloseSockets, Listening, Closing
  <2>6. CASE WorkerCaptures(r)
    BY <1>0, <1>a, <1>2, <2>6 DEF WorkerCaptures, Joined, Closing
  <2>7. CASE WorkerFinishes(r)
    BY <1>0, <1>a, <1>2, <2>7 DEF WorkerFinishes
  <2> QED BY <2>1, <2>2, <2>3, <2>4, <2>5, <2>6, <2>7 DEF Worker
<1> QED BY <1>1, <1>2

-----------------------------------------------------------------------------
\* A page touches nothing of a run but its stop event.
LEMMA PageKeepsRuns ==
  ASSUME RunInv, Page
  PROVE  RunInv'
<1>1. UNCHANGED <<client, outcome, session, lab, worker, packets>>
  BY DEF Page, PollBegins, PollFindsNone, PageForgets, PollError, PollCancelSent, PollMessages,
         PollTotal, PollShows, PollIsLost, PageCloses, PressStop, Reply
<1> QED BY <1>1 DEF RunInv, CallInv, WorkerInv, Listening, Closing, Closed, Silent,
                    client, outcome, session, lab

\* What a poll has read of a finished run is final.
LEMMA PageKeeps ==
  ASSUME TypeOK, RunInv, PageInv, Page
  PROVE  PageInv'
<1>0. UNCHANGED <<client, outcome, session, lab, worker, packets>>
  BY DEF Page, PollBegins, PollFindsNone, PageForgets, PollError, PollCancelSent, PollMessages,
         PollTotal, PollShows, PollIsLost, PageCloses, PressStop, Reply
<1> USE <1>0 DEF PageInv, Polling, client, outcome, session, lab
<1>1. CASE PollBegins
  BY <1>1 DEF PollBegins, Reply, NoReply, TypeOK
<1>2. CASE PollFindsNone \/ PageCloses
  BY <1>2 DEF PollFindsNone, PageCloses, PageForgets, NoReply
<1>3. CASE PollMessages
  <2>1. watched \in Runs /\ packets[watched] \in Nat
    BY <1>3 DEF PollMessages, TypeOK
  <2>2. /\ reply'.finished = reply.finished /\ reply'.error = reply.error
        /\ reply'.cancelSent = reply.cancelSent /\ reply'.to = packets[watched]
    BY <1>3 DEF PollMessages, Reply, TypeOK, Replies
  <2> QED BY <1>3, <2>1, <2>2 DEF PollMessages, Reply
<1>7. CASE PollError
  <2>1. reply'.finished = reply.finished /\ reply'.error = error[watched]
    BY <1>7 DEF PollError, Reply, TypeOK, Replies
  <2> QED BY <1>7, <2>1 DEF PollError, Reply
<1>9. CASE PollCancelSent
  <2>1. /\ reply'.finished = reply.finished /\ reply'.error = reply.error
        /\ reply'.cancelSent = cancelSent[watched]
    BY <1>9 DEF PollCancelSent, Reply, TypeOK, Replies
  <2> QED BY <1>9, <2>1 DEF PollCancelSent, Reply
<1>4. CASE PollTotal
  <2>1. watched \in Runs
    BY <1>4 DEF PollTotal
  <2>2. /\ reply'.finished = reply.finished /\ reply'.error = reply.error
        /\ reply'.cancelSent = reply.cancelSent /\ reply'.to = reply.to
        /\ reply'.next = packets[watched]
        /\ reply.finished => reply'.pcap = pcap[watched]
    BY <1>4 DEF PollTotal, Reply, Total, TypeOK, Replies
  <2>3. reply.finished => pcap[watched] = packets[watched]
    BY <1>4, <2>1 DEF PollTotal, RunInv, WorkerInv
  <2> QED BY <1>4, <2>1, <2>2, <2>3 DEF PollTotal, Reply
<1>5. CASE PollShows
  BY <1>5 DEF PollShows, NoReply
<1>6. CASE PollIsLost
  BY <1>6 DEF PollIsLost, Reply, NoReply
<1>8. CASE PressStop
  BY <1>8 DEF PressStop, browser
<1> QED BY <1>1, <1>2, <1>3, <1>4, <1>5, <1>6, <1>7, <1>8, <1>9 DEF Page

\* What the threads may still do to a run that a page has found: nothing when it
\* has finished, add packets when it has not.
Onward(q) ==
  /\ call'[q] = "answered"
  /\ packets'[q] >= packets[q]
  /\ finished[q] => /\ finished'[q]
                    /\ packets'[q] = packets[q] /\ pcap'[q] = pcap[q]
                    /\ error'[q] = error[q] /\ cancelSent'[q] = cancelSent[q]

LEMMA RunsGoOn ==
  ASSUME TypeOK, RunInv, NEW r \in Runs, Call(r) \/ Receiver(r) \/ Manager(r) \/ Worker(r),
         NEW q \in Runs, call[q] = "answered"
  PROVE  Onward(q)
<1> USE DEF Onward, TypeOK, Set, client, outcome, session, lab
<1>0. CallInv(q) /\ WorkerInv(q) /\ packets[q] \in Nat
  BY DEF RunInv
<1>1. CASE Call(r)
  BY <1>0, <1>1 DEF Call, CallOpens, CallBegins, CallRefuses, CallResolves, ClientStarts, ClientFails,
                    SocketsCollected, CallBinds, EndpointsFail, CallCloses, CallJoins,
                    CallRegisters, CallAnswers
<1>2. CASE Receiver(r)
  <2>1. finished[q] => receiver[q] = "gone"
    BY <1>0 DEF WorkerInv
  <2> QED BY <1>0, <1>2, <2>1 DEF Receiver, ReceiverTakes, ReceiverIngests, ReceiverLeaves, Collect
<1>3. CASE Manager(r)
  <2>1. finished[q] => manager[q] # "running"
    BY <1>0 DEF WorkerInv
  <2> QED BY <1>0, <1>3, <2>1 DEF Manager, ManagerSends, ManagerEnds, Collect
<1>4. CASE Worker(r)
  <2>1. finished[q] => worker[q] = "done"
    BY <1>0 DEF WorkerInv
  <2>2. CASE q # r
    BY <1>0, <1>4, <2>2 DEF Worker, WorkerStarts, WorkerPassesStop, WorkerCollects, WorkerCancels,
         WorkerSends, WorkerFails, WorkerIsStopped, WorkerCloses, WorkerCaptures, WorkerFinishes, Collect
  <2>3. CASE q = r
    <3>1. ~finished[q]
      BY <1>4, <2>1, <2>3 DEF Worker, WorkerStarts, WorkerPassesStop, WorkerCollects, WorkerCancels,
         WorkerSends, WorkerFails, WorkerIsStopped, WorkerCloses, WorkerCaptures, WorkerFinishes
    <3>2. packets' = packets \/ packets' = Set(packets, r, packets[r] + 1)
      BY <1>4 DEF Worker, WorkerStarts, WorkerPassesStop, WorkerCollects, WorkerCancels,
         WorkerSends, WorkerFails, WorkerIsStopped, WorkerCloses, WorkerCaptures, WorkerFinishes, Collect
    <3>3. UNCHANGED call
      BY <1>4 DEF Worker, WorkerStarts, WorkerPassesStop, WorkerCollects, WorkerCancels,
         WorkerSends, WorkerFails, WorkerIsStopped, WorkerCloses, WorkerCaptures, WorkerFinishes
    <3> QED BY <1>0, <2>3, <3>1, <3>2, <3>3
  <2> QED BY <2>2, <2>3
<1> QED BY <1>1, <1>2, <1>3, <1>4

LEMMA RunsKeepPages ==
  ASSUME TypeOK, RunInv, PageInv, NEW r \in Runs,
         Call(r) \/ Receiver(r) \/ Manager(r) \/ Worker(r)
  PROVE  PageInv'
<1>1. CASE UNCHANGED browser
  <2>1. page \notin {"idle", "left"} => Onward(watched)
    BY RunsGoOn DEF PageInv
  <2>2. page \notin {"idle", "left"} => packets[watched] \in Nat /\ packets'[watched] \in Nat /\ reply.to \in Nat
    <3>1. TypeOK'
      BY CallTypes, ThreadTypes
    <3> QED BY <1>1, <3>1 DEF PageInv, TypeOK, Replies, browser
  <2> QED BY <1>1, <2>1, <2>2 DEF PageInv, Onward, browser
<1>2. CASE ~UNCHANGED browser
  <2>1. CallAnswers(r) /\ page \notin Polling \cup {"left"}
    BY <1>2 DEF Call, CallOpens, CallRefuses, CallResolves, SocketsCollected, CallBinds,
       CallCloses, CallJoins, CallRegisters,
       CallAnswers, Receiver, ReceiverTakes, ReceiverIngests, ReceiverLeaves, Manager, ManagerSends,
       ManagerEnds, Worker, WorkerStarts, WorkerPassesStop, WorkerCollects, WorkerCancels,
       WorkerSends, WorkerFails, WorkerIsStopped, WorkerCloses, WorkerCaptures, WorkerFinishes
  <2>2. page' = "waiting" /\ watched' = r /\ call'[r] = "answered"
    BY <2>1 DEF CallAnswers, TypeOK, Set
  <2> QED BY <2>2 DEF PageInv
<1> QED BY <1>1, <1>2

LEMMA StepKeeps == LabInv /\ [Next]_vars => LabInv'
<1> SUFFICES ASSUME LabInv, [Next]_vars PROVE LabInv'
  OBVIOUS
<1> USE DEF LabInv
<1>1. CASE Page
  BY <1>1, PageTypes, PageKeepsRuns, PageKeeps
<1>2. ASSUME NEW r \in Runs, Call(r) \/ Receiver(r) \/ Manager(r) \/ Worker(r)
      PROVE  LabInv'
  <2>1. TypeOK'
    BY <1>2, CallTypes, ThreadTypes
  <2>2. RunInv'
    BY <1>2, CallKeeps, ReceiverKeeps, ManagerKeeps, WorkerKeeps
  <2>3. PageInv'
    BY <1>2, RunsKeepPages
  <2> QED BY <2>1, <2>2, <2>3
<1>3. CASE UNCHANGED vars
  BY <1>3 DEF vars, client, outcome, session, lab, browser, TypeOK, RunInv, CallInv, WorkerInv,
     Listening, Closing, Closed, Silent, PageInv
<1> QED BY <1>1, <1>2, <1>3 DEF Next

LEMMA LabInvariant == Spec => []LabInv
BY StartsInvariant, StepKeeps, PTL DEF Spec

\* Every value the lab and a page of it hold is of its kind.
THEOREM LabTyped == Spec => []TypeOK
<1>1. LabInv => TypeOK
  BY DEF LabInv
<1> QED BY <1>1, LabInvariant, PTL

\* The ports 319/320 are bound by a start that is under way, by a run that can be
\* found and has not finished (start_g8275_acr_lab, _gc_finished_runs), or by a start
\* that client.start() failed, whose sockets only the garbage collection closes.
THEOREM PortsAreTraceable == Spec => []PortsTraceable
<1>1. LabInv => PortsTraceable
  <2> SUFFICES ASSUME LabInv, NEW r \in Runs, ports = r
               PROVE  \/ call[r] \in {"resolving", "opened", "close", "bound", "registered"}
                      \/ call[r] = "answered" /\ r \in registry /\ ~finished[r]
                      \/ call[r] = "failed"
    BY DEF PortsTraceable
  <2>1. call[r] \in {"idle", "resolving", "opened", "close", "join", "bound", "registered",
                     "answered", "refused", "failed"}
    BY DEF LabInv, TypeOK
  <2>2. worker[r] \in {"none", "start", "watch", "send", "cancel", "close", "join", "finish", "done"}
    BY DEF LabInv, TypeOK
  <2>3. CallInv(r) /\ WorkerInv(r)
    BY DEF LabInv, RunInv
  <2>4. CASE call[r] # "answered"
    BY <2>1, <2>3, <2>4 DEF CallInv, Closing, Closed
  <2>5. CASE call[r] = "answered"
    <3>1. worker[r] \notin {"none", "finish", "done"}
      BY <2>3, <2>5 DEF CallInv, WorkerInv
    <3> QED BY <2>3, <2>5, <3>1 DEF WorkerInv
  <2> QED BY <2>4, <2>5
<1> QED BY <1>1, LabInvariant, PTL

\* A failed start and a finished run have ended their threads, and have closed their
\* sockets (the finally blocks of the workers, PTPClient.close), unless client.start()
\* itself failed, which closes none.
THEOREM RunsLeaveNothing == Spec => []NothingLeftBehind
<1>1. LabInv => NothingLeftBehind
  <2> SUFFICES ASSUME LabInv, NEW r \in Runs, call[r] \in {"refused", "failed"} \/ finished[r]
               PROVE  /\ receiver[r] \in {"none", "gone"} /\ manager[r] # "running"
                      /\ ports = r => call[r] = "failed"
    BY DEF NothingLeftBehind
  <2> QED BY DEF LabInv, RunInv, CallInv, WorkerInv, Closed, Silent
<1> QED BY <1>1, LabInvariant, PTL

\* What the last reply says of a finished run is how it ended, and no reply has a
\* next_index before the end of its own packets (poll_g8275_acr_lab reads the flag
\* first and the number of packets last).
THEOREM PollsAlwaysAddUp == Spec => []PollsAddUp
<1>1. LabInv => PollsAddUp
  BY DEF LabInv, PageInv, PollsAddUp
<1> QED BY <1>1, LabInvariant, PTL
=============================================================================
