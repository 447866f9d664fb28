---------------------------- MODULE MasterProcess ---------------------------
(***************************************************************************)
(* The layer-2 master as a program of its own (ptp/l2master/cli.py): the   *)
(* main thread, which starts the master, prints its statistics and stops   *)
(* it; the signal handler, which runs on the main thread between two of    *)
(* its steps and stops the master too; the three threads of the master as  *)
(* far as they take its locks and end; and the transport they share.       *)
(*                                                                         *)
(* A second signal finds the flag set and does nothing.  What the threads  *)
(* send and receive is modelled in TxLoop and DelayResponder.              *)
(***************************************************************************)
EXTENDS TLC

CONSTANT Nobody  \* holds a lock that is free

Threads == {"rx", "resp", "tx"}
Locks == {"stats", "sessions"}          \* those of PtpL2Master and SessionTable
Frames == {"main", "handler"}           \* of the main thread
Platforms == {"linux", "windows", "virtual"}
Modes == {"duration", "stats", "wait"}  \* what main() does while the master runs

VARIABLES
  platform, mode,
  at,             \* of each frame: where it is; the handler may be "none"
  stop_requested, \* the flag of main()
  signalled,      \* history: when the signal came: "never", "starting", "locked", "running"
  stop_event, state, transport, \* of the master
  attribute,      \* the threads in _rx_thread, _resp_thread and _tx_thread
  thread,         \* of each thread: where it is
  sniffer,        \* of the Windows transport
  lock            \* of each lock: a thread, a frame, or Nobody

program == <<platform, mode, stop_requested, signalled>>
master == <<stop_event, state, transport, attribute, thread, sniffer, lock>>
vars == <<program, at, master>>

Init ==
  /\ platform \in Platforms /\ mode \in Modes
  /\ at = [main |-> "open", handler |-> "none"]
  /\ stop_requested = FALSE /\ signalled = "never"
  /\ stop_event = FALSE /\ state = "INIT" /\ transport = "none"
  /\ attribute = {} /\ thread = [t \in Threads |-> "none"]
  /\ sniffer = "off"
  /\ lock = [l \in Locks |-> Nobody]

-----------------------------------------------------------------------------
(***************************************************************************)
(* The upper frame of the main thread goes from place to place.  An        *)
(* exception nobody catches ends the program, and its daemon threads.      *)
(***************************************************************************)
Top == IF at["handler"] = "none" THEN "main" ELSE "handler"

At(place) == at[Top] = place

Go(place) == at' = [at EXCEPT ![Top] = place]

Crash == at' = [main |-> "crashed", handler |-> "none"]

Ended == at["main"] \in {"refused", "crashed", "exited"}

\* "with lock:", of a lock that is not reentrant.
Acquire(l, owner) ==
  /\ lock[l] = Nobody
  /\ lock' = [lock EXCEPT ![l] = owner]

Release(l, owner) ==
  /\ lock[l] = owner
  /\ lock' = [lock EXCEPT ![l] = Nobody]

\* Where the main thread needs a lock, and where it goes when it has given it back.
LockAt ==
  [listening |-> "stats", drain_bump |-> "stats", drain_mark |-> "sessions",
   stopped |-> "stats", stop_stats |-> "stats",
   get_stats |-> "stats", list_slaves |-> "sessions",
   final_stats |-> "stats", final_slaves |-> "sessions"]

After ==
  [listening |-> "clear", drain_bump |-> "drain_mark", drain_mark |-> "join_tx",
   stopped |-> "stop_stats", stop_stats |-> "return", get_stats |-> "list_slaves", list_slaves |-> "loop",
   final_stats |-> "final_slaves", final_slaves |-> "exited"]

StateSet == [listening |-> "LISTENING", stopped |-> "STOPPED"]

Lock(place) ==
  /\ At(place)
  /\ Acquire(LockAt[place], Top)
  /\ UNCHANGED <<program, at, stop_event, state, transport, attribute, thread, sniffer>>

Unlock(place) ==
  /\ At(place)
  /\ Release(LockAt[place], Top)
  /\ state' = IF place \in DOMAIN StateSet THEN StateSet[place] ELSE state
  /\ Go(After[place])
  /\ UNCHANGED <<program, stop_event, transport, attribute, thread, sniffer>>

-----------------------------------------------------------------------------
(***************************************************************************)
(* PtpL2Master.start().                                                    *)
(***************************************************************************)
\* open_transport(): the interface of a real platform may not be there.
OpenTransport ==
  /\ At("open")
  /\ \/ transport' = "open" /\ Go("source")
     \/ platform # "virtual" /\ Go("refused") /\ UNCHANGED transport
  /\ UNCHANGED <<program, stop_event, state, attribute, thread, sniffer, lock>>

\* The address of the interface is read from the attribute, which stop() clears.
ReadSource ==
  /\ At("source")
  /\ IF transport = "none" THEN Crash ELSE Go("listening")
  /\ UNCHANGED <<program, master>>

ClearStop ==
  /\ At("clear")
  /\ stop_event' = FALSE
  /\ Go("create_rx")
  /\ UNCHANGED <<program, state, transport, attribute, thread, sniffer, lock>>

Create == [rx |-> "create_rx", resp |-> "create_resp", tx |-> "create_tx"]
Begin == [rx |-> "start_rx", resp |-> "start_resp", tx |-> "start_tx"]
Begun == [rx |-> "create_resp", resp |-> "create_tx", tx |-> "loop"]

CreateThread(t) ==
  /\ At(Create[t])
  /\ attribute' = attribute \cup {t}
  /\ thread' = [thread EXCEPT ![t] = "new"]
  /\ Go(Begin[t])
  /\ UNCHANGED <<program, stop_event, state, transport, sniffer, lock>>

StartThread(t) ==
  /\ At(Begin[t])
  /\ IF t \in attribute
       THEN thread' = [thread EXCEPT ![t] = "setup"] /\ Go(Begun[t])
       ELSE Crash /\ UNCHANGED thread
  /\ UNCHANGED <<program, stop_event, state, transport, attribute, sniffer, lock>>

-----------------------------------------------------------------------------
(***************************************************************************)
(* main() while the master runs, and the signal handler.                   *)
(***************************************************************************)
\* Mutant of StopSeen: the flag is not looked at.
StopUnseen == FALSE

StopSeen == stop_requested

\* The head of a loop, or wait(); a duration is over sometime.
RunLoop ==
  /\ At("loop")
  /\ \/ mode # "wait" /\ Go(IF StopSeen THEN "finally" ELSE "get_stats")
     \/ mode = "duration" /\ Go("finally")
     \/ mode = "wait" /\ ("tx" \notin attribute \/ thread["tx"] = "ended") /\ Go("finally")
  /\ UNCHANGED <<program, master>>

Finally ==
  /\ At("finally")
  /\ Go(IF stop_requested THEN "final_stats" ELSE "stop")
  /\ UNCHANGED <<program, master>>

Starting == {"open", "source", "listening", "clear"} \cup
            {Create[t] : t \in Threads} \cup {Begin[t] : t \in Threads}

\* SIGINT or SIGTERM, handled also while the main thread waits in join() (as Python does
\* except, before 3.13, on Windows).
OnSignal ==
  /\ ~stop_requested
  /\ stop_requested' = TRUE
  /\ signalled' = CASE at["main"] \in Starting              -> "starting"
                    [] \E l \in Locks : lock[l] = "main"    -> "locked"
                    [] OTHER                                -> "running"
  /\ at' = [at EXCEPT !["handler"] = "stop"]
  /\ UNCHANGED <<platform, mode, master>>

-----------------------------------------------------------------------------
(***************************************************************************)
(* PtpL2Master.stop(), called by main() or by the handler.                 *)
(***************************************************************************)
StopBegins ==
  /\ At("stop")
  /\ stop_event' = TRUE
  /\ Go("drain")
  /\ UNCHANGED <<program, state, transport, attribute, thread, sniffer, lock>>

\* _drain_resp_queue(): a request can be there once RX has run.  Bound: one request.
Drain ==
  /\ At("drain")
  /\ \/ transport = "open" /\ thread["rx"] \notin {"none", "new"} /\ Go("drain_bump")
     \/ Go("join_tx")
  /\ UNCHANGED <<program, master>>

JoinAt == [tx |-> "join_tx", rx |-> "join_rx", resp |-> "join_resp"]

\* Mutant of Joined: only the thread that sends is waited for.
JoinedSender == [tx |-> "close", rx |-> "close", resp |-> "close"]

Joined == [tx |-> "join_rx", rx |-> "join_resp", resp |-> "close"]

LockOf == [stats |-> "stats", sessions |-> "sessions", leaving |-> "stats"]

\* A thread notices the stop event several times a second and is gone within the
\* two seconds of the join, unless the main thread keeps it waiting for a lock.
Stuck(t) == thread[t] \in DOMAIN LockOf /\ lock[LockOf[thread[t]]] \in Frames

\* A thread that was not started cannot be joined.
Join(t) ==
  /\ At(JoinAt[t])
  /\ \/ t \notin attribute /\ Go(Joined[t]) /\ UNCHANGED attribute
     \/ t \in attribute /\ thread[t] = "new" /\ Crash /\ UNCHANGED attribute
     \/ /\ t \in attribute /\ (thread[t] = "ended" \/ Stuck(t))
        /\ attribute' = attribute \ {t}
        /\ Go(Joined[t])
  /\ UNCHANGED <<program, stop_event, state, transport, thread, sniffer, lock>>

\* close(), which stops the sniffer, and the end of the attribute.
CloseTransport ==
  /\ At("close")
  /\ transport' = "none"
  /\ sniffer' = IF transport = "open" THEN "off" ELSE sniffer
  /\ Go("stopped")
  /\ UNCHANGED <<program, stop_event, state, attribute, thread, lock>>

StopReturns ==
  /\ At("return")
  /\ Go(IF Top = "main" THEN "final_stats" ELSE "none")
  /\ UNCHANGED <<program, master>>

Main ==
  \/ \E place \in DOMAIN LockAt : Lock(place) \/ Unlock(place)
  \/ OpenTransport \/ ReadSource \/ ClearStop
  \/ \E t \in Threads : CreateThread(t) \/ StartThread(t) \/ Join(t)
  \/ RunLoop \/ Finally
  \/ StopBegins \/ Drain \/ CloseTransport \/ StopReturns

-----------------------------------------------------------------------------
(***************************************************************************)
(* The threads of the master.                                              *)
(***************************************************************************)
Thread(t, place) ==
  /\ thread' = [thread EXCEPT ![t] = place]
  /\ UNCHANGED <<program, at, stop_event, transport, attribute>>

\* RX and TX assert that there is a transport.
ThreadSetsUp(t) ==
  /\ thread[t] = "setup"
  /\ Thread(t, IF transport = "none" /\ t # "resp" THEN "ended" ELSE "running")
  /\ UNCHANGED <<state, sniffer, lock>>

\* The first recv() on Windows starts the sniffer, or raises what the loop does
\* not catch.
RxSniffs ==
  /\ thread["rx"] = "running" /\ ~stop_event
  /\ platform = "windows" /\ sniffer = "off"
  /\ \/ sniffer' = "on" /\ Thread("rx", "running")
     \/ Thread("rx", "ended") /\ UNCHANGED sniffer
  /\ UNCHANGED <<state, lock>>

\* A counter or the state is set, or the session table is used.
ThreadWants(t, l) ==
  /\ thread[t] = "running" /\ ~stop_event
  /\ t = "tx" => l = "stats"
  /\ Thread(t, l)
  /\ UNCHANGED <<state, sniffer, lock>>

ThreadLocks(t) ==
  /\ thread[t] \in DOMAIN LockOf
  /\ Acquire(LockOf[thread[t]], t)
  /\ Thread(t, thread[t])
  /\ UNCHANGED <<state, sniffer>>

ThreadUnlocks(t) ==
  /\ thread[t] \in DOMAIN LockOf
  /\ Release(LockOf[thread[t]], t)
  /\ state' \in CASE t # "tx" -> {state}
                  [] thread[t] = "leaving" -> {"STOPPED"}
                  [] OTHER -> {state, "ACTIVE", "FAULT"}
  /\ Thread(t, IF thread[t] = "leaving" THEN "ended" ELSE "running")
  /\ UNCHANGED sniffer

ThreadLeaves(t) ==
  /\ thread[t] = "running" /\ stop_event
  /\ Thread(t, IF t = "tx" THEN "leaving" ELSE "ended")
  /\ UNCHANGED <<state, sniffer, lock>>

ThreadStep(t) ==
  \/ ThreadSetsUp(t) \/ ThreadLocks(t) \/ ThreadUnlocks(t) \/ ThreadLeaves(t)
  \/ t = "rx" /\ RxSniffs
  \/ \E l \in Locks : ThreadWants(t, l)

Next == ~Ended /\ (Main \/ OnSignal \/ \E t \in Threads : ThreadStep(t))

Fairness == WF_vars(~Ended /\ Main) /\ \A t \in Threads : WF_vars(~Ended /\ ThreadStep(t))

Spec == Init /\ [][Next]_vars /\ Fairness

-----------------------------------------------------------------------------
(***************************************************************************)
(* What Ctrl-C promises.                                                   *)
(***************************************************************************)
Clean ==
  /\ transport = "none" /\ sniffer = "off" /\ state = "STOPPED"
  /\ attribute = {} /\ \A t \in Threads : thread[t] = "ended"

\* A signal that comes while the master runs ends the program, whatever the main
\* thread is doing, its own stop() included, as long as it holds no lock at that
\* moment.  The program that ends so, or on its own, leaves no thread, no open
\* transport, no sniffer, and the state STOPPED.
GracefulExit ==
  /\ signalled = "running" ~> at["main"] = "exited"
  /\ [](at["main"] = "exited" /\ signalled \in {"never", "running"} => Clean)

\* The design says of SIGINT and SIGTERM at any moment that the program exits
\* gracefully.  It does not: the handler waits for ever for a lock that the frame
\* below it holds, and a stop() before the threads have been started is undone by
\* the rest of start().
SignalEnds == stop_requested ~> Ended

=============================================================================
