------------------------------ MODULE AcrRunLab -----------------------------
(***************************************************************************)
(* The PTP lab runs of the web interface (web/ptp_lab.py) on the sockets   *)
(* and the receiver thread of their client (ptp/client.py).                *)
(*                                                                         *)
(* A run is started by an HTTP call, which binds the fixed ports 319/320,  *)
(* and may then fail and leave them to the garbage collection; it          *)
(* lives on a worker thread, a receiver thread and, for an ACR run, the    *)
(* manager thread of its G.8275.2 session; is watched by a page that polls *)
(* it; and is torn down by its worker.  The pages and their calls run on   *)
(* threads of their own, and what they share with the worker is a registry *)
(* under a lock and a run object under none.                               *)
(*                                                                         *)
(* A packet is its position in the collector.  What the session negotiates *)
(* and measures is the module UnicastSession.                              *)
(***************************************************************************)
EXTENDS Integers

CONSTANTS
  MaxRuns,    \* bound: calls of start
  Free,       \* no run has the ports 319/320
  MaxPackets  \* bound: packets of a run, those of its teardown not counted

\* A run id is fresh; it is the number of its call here.
Runs == 1..MaxRuns

NoPcap == -1

ASSUME AcrRunAssumption ==
  /\ Free \notin Runs
  /\ {MaxRuns, MaxPackets} \subseteq Nat

VARIABLES
  ports,         \* which run has the ports, or Free
  registry,      \* the keys of _RUNS
  call,          \* of each run: where its call of start is
  clientStop,    \* of each run: _stop of its client
  receiver,      \* of each run: where the receiver thread of its client is
  manager,       \* of each run: the manager thread of its session
  stopRequested, \* of each run: the worker has called request_stop()
  worker,        \* of each run: where its worker thread is
  packets,       \* of each run: how many the collector has
  stopEvent, error, cancelSent, pcap, finished, \* of each run: its fields
  page,          \* a page that starts runs and polls them: where it is,
  watched,       \* its run, or 0
  since,         \* next_index of the last reply
  reply          \* the reply under way, or the last

client == <<ports, clientStop, receiver>>
outcome == <<error, cancelSent, pcap, finished>>
session == <<manager, stopRequested>>
lab == <<registry, call>>
browser == <<page, watched, since, reply>>
vars == <<client, outcome, session, lab, browser, worker, packets, stopEvent>>

Set(f, r, v) == [f EXCEPT ![r] = v]

NoReply == [finished |-> FALSE, error |-> FALSE, cancelSent |-> FALSE,
            to |-> 0, next |-> 0, pcap |-> NoPcap]

Replies == [finished: BOOLEAN, error: BOOLEAN, cancelSent: BOOLEAN,
            to: Nat, next: Nat, pcap: Nat \cup {NoPcap}]

Polling == {"waiting", "asked", "error", "cancel_sent", "messages", "answered"}

TypeOK ==
  /\ ports \in Runs \cup {Free}
  /\ registry \subseteq Runs
  /\ call \in [Runs -> {"idle", "resolving", "opened", "close", "join", "bound",
                        "registered", "answered", "refused", "failed"}]
  /\ receiver \in [Runs -> {"none", "select", "got", "gone"}]
  /\ manager \in [Runs -> {"none", "running", "ok", "failed", "stopped"}]
  /\ worker \in [Runs -> {"none", "start", "watch", "send", "cancel", "close",
                          "join", "finish", "done"}]
  /\ {clientStop, stopRequested, stopEvent, error, cancelSent, finished}
       \subseteq [Runs -> BOOLEAN]
  /\ packets \in [Runs -> Nat]
  /\ pcap \in [Runs -> Nat \cup {NoPcap}]
  /\ page \in {"idle", "done", "left"} \cup Polling
  /\ watched \in Runs \cup {0}
  /\ since \in Nat
  /\ reply \in Replies

Init ==
  /\ ports = Free /\ registry = {}
  /\ call = [r \in Runs |-> "idle"]
  /\ receiver = [r \in Runs |-> "none"]
  /\ manager = [r \in Runs |-> "none"]
  /\ worker = [r \in Runs |-> "none"]
  /\ clientStop = [r \in Runs |-> FALSE] /\ stopRequested = clientStop
  /\ stopEvent = clientStop /\ error = clientStop
  /\ cancelSent = clientStop /\ finished = clientStop
  /\ packets = [r \in Runs |-> 0]
  /\ pcap = [r \in Runs |-> NoPcap]
  /\ page = "idle" /\ watched = 0 /\ since = 0 /\ reply = NoReply

-----------------------------------------------------------------------------
(***************************************************************************)
(* start_g8275_acr_lab() and start_fault_delay_req_lab().                  *)
(***************************************************************************)
\* _gc_finished_runs(), by which every start begins.  Runs take any time, and so
\* any of them may be older than _FINISHED_RUN_TTL_SEC.
Collects(old) == {q \in registry : q \in old => ~finished[q]}

CallBegins(r) ==
  /\ call[r] = "idle" /\ \A q \in 1..r - 1 : call[q] # "idle"
  /\ \E old \in SUBSET registry : registry' = Collects(old)

\* The body is well formed, and client.start() binds the event port, without which
\* no other start goes on.
CallOpens(r) ==
  /\ CallBegins(r)
  /\ ports = Free
  /\ ports' = r
  /\ call' = Set(call, r, "resolving")
  /\ UNCHANGED <<clientStop, receiver, outcome, session, browser, worker, packets, stopEvent>>

\* A ValueError, or the event port is taken, by another run or another program.
CallRefuses(r) ==
  /\ CallBegins(r)
  /\ call' = Set(call, r, "refused")
  /\ UNCHANGED <<client, outcome, session, browser, worker, packets, stopEvent>>

\* The rest of client.start(): the general port is bound, the master's name resolves
\* and the receiver thread is started.
ClientStarts(r) ==
  /\ receiver' = Set(receiver, r, "select")
  /\ call' = Set(call, r, "opened")

\* One of these fails: client.start() raises and nobody closes its sockets.
ClientFails(r) ==
  /\ call' = Set(call, r, "failed")
  /\ UNCHANGED receiver

CallResolves(r) ==
  /\ call[r] = "resolving"
  /\ ClientStarts(r) \/ ClientFails(r)
  /\ UNCHANGED <<ports, clientStop, outcome, session, registry, browser,
                 worker, packets, stopEvent>>

\* Some time after the HTTP error has been answered the exception, and the frame that
\* holds the sockets, are collected.
SocketsCollected(r) ==
  /\ call[r] = "failed" /\ ports = r
  /\ ports' = Free
  /\ UNCHANGED <<clientStop, receiver, outcome, session, lab, browser,
                 worker, packets, stopEvent>>

\* Mutant of EndpointsFail: the exception is raised with the client left open.
EndpointsFailOpen(r) == call' = Set(call, r, "refused")

\* No address toward the server: the client is closed before the exception goes on.
EndpointsFail(r) == call' = Set(call, r, "close")

CallBinds(r) ==
  /\ call[r] = "opened"
  /\ \/ call' = Set(call, r, "bound")
     \/ EndpointsFail(r)
  /\ UNCHANGED <<client, outcome, session, registry, browser,
                 worker, packets, stopEvent>>

\* client.close(), as far as the sockets: the ports are free from here on.
CloseSockets(r) ==
  /\ clientStop' = Set(clientStop, r, TRUE)
  /\ ports' = IF ports = r THEN Free ELSE ports

\* Mutant of Joined: close() does not wait for the receiver thread.
JoinedAtOnce(r) == receiver[r] # "none"

\* The rest of client.close(): the receiver leaves well within the two seconds.
Joined(r) == receiver[r] = "gone"

CallCloses(r) ==
  /\ call[r] = "close"
  /\ CloseSockets(r)
  /\ call' = Set(call, r, "join")
  /\ UNCHANGED <<receiver, outcome, session, registry, browser,
                 worker, packets, stopEvent>>

CallJoins(r) ==
  /\ call[r] = "join"
  /\ Joined(r)
  /\ call' = Set(call, r, "refused")
  /\ UNCHANGED <<client, outcome, session, registry, browser,
                 worker, packets, stopEvent>>

CallRegisters(r) ==
  /\ call[r] = "bound"
  /\ registry' = registry \cup {r}
  /\ call' = Set(call, r, "registered")
  /\ UNCHANGED <<client, outcome, session, browser, worker, packets, stopEvent>>

\* The worker of an ACR run or of a fault run starts.  The page, if it has no run,
\* has asked for this one, and starts with an empty list; else another page has.
CallAnswers(r) ==
  /\ call[r] = "registered"
  /\ \E start \in {"start", "send"} : worker' = Set(worker, r, start)
  /\ call' = Set(call, r, "answered")
  /\ IF page \in Polling \cup {"left"}
       THEN UNCHANGED browser
       ELSE page' = "waiting" /\ watched' = r /\ since' = 0 /\ reply' = NoReply
  /\ UNCHANGED <<client, outcome, session, registry, packets, stopEvent>>

Call(r) ==
  \/ CallOpens(r) \/ CallRefuses(r) \/ CallResolves(r) \/ SocketsCollected(r) \/ CallBinds(r)
  \/ CallCloses(r) \/ CallJoins(r) \/ CallRegisters(r) \/ CallAnswers(r)

-----------------------------------------------------------------------------
(***************************************************************************)
(* The receiver thread and the manager thread, which hand the collector    *)
(* what they receive and send.                                             *)
(***************************************************************************)
\* Bound: more traffic, what the receiver has in hand counted.
MoreTraffic(r) == packets[r] + (IF receiver[r] = "got" THEN 1 ELSE 0) < MaxPackets

Collect(r) == packets' = Set(packets, r, packets[r] + 1)

ReceiverTakes(r) ==
  /\ receiver[r] = "select" /\ ~clientStop[r]
  /\ MoreTraffic(r)
  /\ receiver' = Set(receiver, r, "got")
  /\ UNCHANGED <<ports, clientStop, outcome, session, lab, browser, worker, packets, stopEvent>>

\* A packet in hand is collected even when the sockets have been closed since.
ReceiverIngests(r) ==
  /\ receiver[r] = "got"
  /\ Collect(r)
  /\ receiver' = Set(receiver, r, "select")
  /\ UNCHANGED <<ports, clientStop, outcome, session, lab, browser, worker, stopEvent>>

ReceiverLeaves(r) ==
  /\ receiver[r] = "select" /\ clientStop[r]
  /\ receiver' = Set(receiver, r, "gone")
  /\ UNCHANGED <<ports, clientStop, outcome, session, lab, browser, worker, packets, stopEvent>>

Receiver(r) == ReceiverTakes(r) \/ ReceiverIngests(r) \/ ReceiverLeaves(r)

\* Signalling and Delay_Req of the session.
ManagerSends(r) ==
  /\ manager[r] = "running"
  /\ MoreTraffic(r)
  /\ Collect(r)
  /\ UNCHANGED <<client, outcome, session, lab, browser, worker, stopEvent>>

\* It fails on its own at any time, or ends, one way or another, when asked to.
ManagerEnds(r) ==
  /\ manager[r] = "running"
  /\ \E end \in {"failed"} \cup (IF stopRequested[r] THEN {"ok", "stopped"} ELSE {"ok"}) :
       manager' = Set(manager, r, end)
  /\ UNCHANGED <<client, outcome, stopRequested, lab, browser, worker, packets, stopEvent>>

Manager(r) == ManagerSends(r) \/ ManagerEnds(r)

-----------------------------------------------------------------------------
(***************************************************************************)
(* _lab_worker() and _fault_delay_req_worker().                            *)
(***************************************************************************)
\* session.start_acr().
WorkerStarts(r) ==
  /\ worker[r] = "start"
  /\ manager' = Set(manager, r, "running")
  /\ worker' = Set(worker, r, "watch")
  /\ UNCHANGED <<client, outcome, stopRequested, lab, browser, packets, stopEvent>>

\* Mutant of RequestStop: the stop is noticed and not passed on.
RequestStopNowhere(r) == UNCHANGED stopRequested

\* session.request_stop().
RequestStop(r) == stopRequested' = Set(stopRequested, r, TRUE)

WorkerPassesStop(r) ==
  /\ worker[r] = "watch" /\ manager[r] = "running"
  /\ stopEvent[r] /\ ~stopRequested[r]
  /\ RequestStop(r)
  /\ UNCHANGED <<client, outcome, manager, lab, browser, worker, packets, stopEvent>>

\* wait_acr() raises what ended the manager; that it was asked to is no error.
WorkerCollects(r) ==
  /\ worker[r] = "watch" /\ manager[r] \notin {"none", "running"}
  /\ error' = Set(error, r, manager[r] = "failed" \/ (manager[r] = "stopped" /\ ~stopRequested[r]))
  /\ worker' = Set(worker, r, "cancel")
  /\ UNCHANGED <<client, cancelSent, pcap, finished, session, lab, browser, packets, stopEvent>>

\* cancel_unicast(): the packet is collected before it is sent, and that may fail.
\* stop_acr() has nothing left to wait for.
WorkerCancels(r) ==
  /\ worker[r] = "cancel"
  /\ Collect(r)
  /\ \E sent \in BOOLEAN : cancelSent' = Set(cancelSent, r, sent)
  /\ stopRequested' = Set(stopRequested, r, TRUE)
  /\ manager' = Set(manager, r, "none")
  /\ worker' = Set(worker, r, "close")
  /\ UNCHANGED <<client, error, pcap, finished, lab, browser, stopEvent>>

\* One Delay_Req of the fault worker: collected, then sent or not.
WorkerSends(r) ==
  /\ worker[r] = "send" /\ ~stopEvent[r]
  /\ MoreTraffic(r)
  /\ Collect(r)
  /\ \/ UNCHANGED <<error, worker>>
     \/ error' = Set(error, r, TRUE) /\ worker' = Set(worker, r, "close")
  /\ UNCHANGED <<client, cancelSent, pcap, finished, session, lab, browser, stopEvent>>

\* The spec of the request cannot be built, or the client is not there: no packet.
WorkerFails(r) ==
  /\ worker[r] = "send" /\ ~stopEvent[r]
  /\ error' = Set(error, r, TRUE)
  /\ worker' = Set(worker, r, "close")
  /\ UNCHANGED <<client, cancelSent, pcap, finished, session, lab, browser, packets, stopEvent>>

WorkerIsStopped(r) ==
  /\ worker[r] = "send" /\ stopEvent[r]
  /\ worker' = Set(worker, r, "close")
  /\ UNCHANGED <<client, outcome, session, lab, browser, packets, stopEvent>>

WorkerCloses(r) ==
  /\ worker[r] = "close"
  /\ CloseSockets(r)
  /\ worker' = Set(worker, r, "join")
  /\ UNCHANGED <<receiver, outcome, session, lab, browser, packets, stopEvent>>

\* The receiver has left: a capture of all packets, none of which is such that it
\* could not be built.
WorkerCaptures(r) ==
  /\ worker[r] = "join"
  /\ Joined(r)
  /\ pcap' = Set(pcap, r, packets[r])
  /\ worker' = Set(worker, r, "finish")
  /\ UNCHANGED <<client, error, cancelSent, finished, session, lab, browser, packets, stopEvent>>

WorkerFinishes(r) ==
  /\ worker[r] = "finish"
  /\ finished' = Set(finished, r, TRUE)
  /\ worker' = Set(worker, r, "done")
  /\ UNCHANGED <<client, error, cancelSent, pcap, session, lab, browser, packets, stopEvent>>

Worker(r) ==
  \/ WorkerStarts(r) \/ WorkerPassesStop(r) \/ WorkerCollects(r) \/ WorkerCancels(r)
  \/ WorkerSends(r) \/ WorkerFails(r) \/ WorkerIsStopped(r) \/ WorkerCloses(r)
  \/ WorkerCaptures(r) \/ WorkerFinishes(r)

-----------------------------------------------------------------------------
(***************************************************************************)
(* The page: poll_g8275_acr_lab(), statement by statement, and what the    *)
(* script does with the reply; stop_g8275_acr_lab().                       *)
(***************************************************************************)
Reply(read, place) ==
  /\ reply' = read
  /\ page' = place
  /\ UNCHANGED <<client, outcome, session, lab, watched, since, worker, packets, stopEvent>>

\* The flag comes first: what is read after a TRUE is final.
PollBegins ==
  /\ page = "waiting" /\ watched \in registry
  /\ Reply([NoReply EXCEPT !.finished = finished[watched]], "asked")

\* The page forgets the run id; its list goes when it starts the next run.
PageForgets ==
  /\ page' = "idle" /\ watched' = 0 /\ since' = 0 /\ reply' = NoReply
  /\ UNCHANGED <<client, outcome, session, lab, worker, packets, stopEvent>>

\* KeyError, HTTP 404.
PollFindsNone ==
  /\ page = "waiting" /\ watched \notin registry
  /\ PageForgets

PollError ==
  /\ page = "asked"
  /\ Reply([reply EXCEPT !.error = error[watched]], "error")

PollCancelSent ==
  /\ page = "error"
  /\ Reply([reply EXCEPT !.cancelSent = cancelSent[watched]], "cancel_sent")

\* records_since(since).
PollMessages ==
  /\ page = "cancel_sent"
  /\ Reply([reply EXCEPT !.to = packets[watched]], "messages")

\* Mutant of Total: next_index is the index of the last packet.
TotalIsIndexOfLast ==
  [reply EXCEPT !.next = packets[watched] - 1,
                !.pcap = IF reply.finished THEN pcap[watched] ELSE NoPcap]

\* Mutant of Total: whether the run has finished is read last.
TotalThenFinished ==
  [reply EXCEPT !.next = packets[watched], !.finished = finished[watched],
                !.pcap = IF finished[watched] THEN pcap[watched] ELSE NoPcap]

\* total_records(), and the capture of a run that had finished.
Total == [reply EXCEPT !.next = packets[watched],
                       !.pcap = IF reply.finished THEN pcap[watched] ELSE NoPcap]

PollTotal ==
  /\ page = "messages"
  /\ Reply(Total, "answered")

\* applyPtpPollResult(): the packets after since join the list, the next poll starts after them.
PollShows ==
  /\ page = "answered"
  /\ since' = reply.next
  /\ IF reply.finished THEN page' = "done" /\ UNCHANGED reply
                       ELSE page' = "waiting" /\ reply' = NoReply
  /\ UNCHANGED <<client, outcome, session, lab, watched, worker, packets, stopEvent>>

\* The reply is lost, and the page polls again from where it was.  (A request that is
\* lost, or given up halfway, leaves no trace: the server only reads.)
PollIsLost ==
  /\ page = "answered"
  /\ Reply(NoReply, "waiting")

\* The page is left, and with it the run id.  (Bound: the pages opened after it start runs
\* that the model does not watch.)
PageCloses ==
  /\ page \in Polling
  /\ page' = "left" /\ watched' = 0 /\ since' = 0 /\ reply' = NoReply
  /\ UNCHANGED <<client, outcome, session, lab, worker, packets, stopEvent>>

PressStop ==
  /\ page \in Polling /\ watched \in registry
  /\ stopEvent' = Set(stopEvent, watched, TRUE)
  /\ UNCHANGED <<client, outcome, session, lab, browser, worker, packets>>

Page ==
  \/ PollBegins \/ PollFindsNone \/ PollError \/ PollCancelSent \/ PollMessages \/ PollTotal
  \/ PollShows \/ PollIsLost \/ PageCloses \/ PressStop

-----------------------------------------------------------------------------
Next ==
  \/ \E r \in Runs : Call(r) \/ Receiver(r) \/ Manager(r) \/ Worker(r)
  \/ Page

Spec == Init /\ [][Next]_vars

\* The threads of a run are not starved, and the manager ends once it has been
\* asked to: that much is the property StopEnds of UnicastSession.
ManagerObeys(r) == stopRequested[r] /\ ManagerEnds(r)

FairSpec ==
  /\ Spec
  /\ \A r \in Runs : WF_vars(Worker(r)) /\ WF_vars(Receiver(r)) /\ WF_vars(ManagerObeys(r))

-----------------------------------------------------------------------------
(***************************************************************************)
(* What the lab promises.                                                  *)
(***************************************************************************)
\* What the last reply says of a run that has ended is how it ended, although the page
\* is answered field by field while the worker writes the fields: the error, whether
\* CANCEL went out, and a capture of every packet; and it reaches the last packet.  And
\* no reply has a next_index before the end of its own packets, so that none is listed
\* twice.  That each is listed is not promised: one that arrives between
\* records_since() and total_records() is behind next_index and in no reply.
PollsAddUp ==
  /\ page = "answered" => reply.to <= reply.next
  /\ page = "done" =>
       /\ reply.error = error[watched] /\ reply.cancelSent = cancelSent[watched]
       /\ reply.pcap = packets[watched] /\ reply.to = packets[watched] /\ since = packets[watched]

\* The ports are one pair for the whole program.  Whoever holds them is a start
\* that is under way, a run that can still be found, polled and stopped, or a start
\* that client.start() failed, which nobody closes (a retry finds the ports taken
\* until its sockets are collected).  No other start leaves them bound, and no
\* collection of old runs.
PortsTraceable ==
  \A r \in Runs : ports = r =>
    \/ call[r] \in {"resolving", "opened", "close", "bound", "registered"}
    \/ call[r] = "answered" /\ r \in registry /\ ~finished[r]
    \/ call[r] = "failed"

\* When a start has failed or a run is reported as finished, neither of its threads
\* is there to write to the collector; and its sockets are closed, except those of a
\* start that client.start() itself failed.
NothingLeftBehind ==
  \A r \in Runs : call[r] \in {"refused", "failed"} \/ finished[r] =>
    /\ receiver[r] \in {"none", "gone"} /\ manager[r] # "running"
    /\ ports = r => call[r] = "failed"

\* Stop ends the run, whatever the worker was doing when the button was pressed.
StopFinishes == \A r \in Runs : stopEvent[r] ~> finished[r]

=============================================================================
