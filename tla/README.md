# ptp_client in TLA+

TLA+ models of the PTP/NTP test client `ptp_client`: the layer-2 PTP master with the
web lab that runs it, and the slave client with its G.8275.2 unicast session. They are checked by TLC on small
instances; the properties that matter most are proved with TLAPS for every value
of the constants.

Paths below are relative to the root of the repository; `P/` stands for
`src/ptp_client/ptp`, `W/` for `src/ptp_client/web`.

- [1. The system](#1-the-system)
- [2. The models](#2-the-models)
- [3. The runs](#3-the-runs)
- [4. Fairness, deadlock, time](#4-fairness-deadlock-time)
- [5. The proofs](#5-the-proofs)
- [6. What the models found](#6-what-the-models-found)
- [7. What is not modelled](#7-what-is-not-modelled)
- [8. Plan](#8-plan)

To run a check: `tlc -config MC_TxLoop.cfg MC_TxLoop.tla`; a proof:
`tlapm TxLoop_proofs.tla`. `PROJECT.json` lists the runs, the theorems, the source
lines behind each definition, the hazards of the code with the properties that
would catch them, and for each property a mutated definition that breaks it.

## 1. The system

The program has two halves that do not call each other: a *slave side* (CLI, web
lab, NTP and PTP clients) and a *layer-2 master* (`P/l2master/`) with a CLI and a
web lab of its own.

### 1.1 Layer-2 master (`P/l2master/`)

| Component | State | Operations | What makes it correct |
|---|---|---|---|
| Session table, `session.py` | map port identity -> session (MAC, last seen, counters, token bucket), `overflow_count`, a lock | `register_or_touch`, `mark_resp_sent`, `age_out`, `snapshot` | never above `max_slaves`; only the least recently seen live session is evicted, and only if no aged one can go; the rate limit holds over every window |
| Scheduler, `scheduler.py` | interval, deadline, skipped count | `next_boundary`, `due`, `advance`, `wait_timeout` | deadlines are absolute boundaries, strictly in the future after `advance`, without drift |
| Master, `master.py`: transmit | `cfg` and its generation, state, counters, sequence numbers, stop event; of the thread: two schedulers, its copy of the generation, backoff | `start`, `_tx_loop`, `_send_announce`, `_send_sync_pair`, `apply_runtime_update`, `stop` | each boundary served once; Follow_Ups pair with their Sync; an update takes effect in bounded time; what is in a frame was configured when it was made |
| Master: receive and respond | counters, bounded queue, transport | `_rx_loop`, `_handle_frame`, `_handle_delay_req`, `_resp_loop`, `_send_delay_resp`, draining in `stop` | each Delay_Req is accounted for and answered at most once, in order, only with a grant |
| Configuration, `config.py` | `MasterConfig` | load, `patch_from_dict`, `validate`, `effective` | only admissible values come into force, and none of them breaks a thread |
| Transports, `transport.py` | raw socket, Windows sniffer or in-process wire | `open_transport`, `send`, `recv`, `close` | nothing stays open |
| Command line, `cli.py` | the flag `stop_requested` | `main` with its three ways of running, the signal handler | Ctrl-C ends the program and leaves nothing behind |
| Messages, clock | none | byte layout, clock conversion | (pure) |

Threads: TX, RX, RESP, the caller of `start`/`stop`, and the callers of
`apply_runtime_update`. They share `MasterStats` (each counter under a lock), the
session table (under its own lock), `_resp_queue` (a `queue.Queue`), the stop
event, and without a lock `self.cfg`, `self._interval_gen` and `self._transport`.
RX registers a Delay_Req in the table and puts a context on the queue; RESP takes
it off and sends; `stop()` does the same from its own thread while the other two
may still be running. TX never touches the table. On the command line the caller of
`stop()` is the main thread or, on top of it, the signal handler.

### 1.2 Slave side

| Component | State | Operations | What makes it correct |
|---|---|---|---|
| PTP client, `P/client.py` | sockets, receive buffers (deques bounded by `event_buf_max`, `general_buf_max`), sequence numbers, receiver thread | `send_request`, waits for Sync/Follow_Up/Delay_Resp, `close` | a Sync is paired with its own Follow_Up, a Delay_Resp with its request |
| Unicast session, `P/g82752_unicast.py` | parameters, contract start, `_denial_counts`, stop flag, manager thread, result | `negotiate`, `renew_now`, `measure_acr`, `start_acr`, `wait_acr`, `stop_acr`, `cancel_unicast` | the contract outlives its use, nothing is left behind, stop ends, limits hold |
| Signalling, header, packet, request builders | none | encode and decode | (pure) |
| PTP CLI, `P/cli.py` | none of its own | runs one session with Ctrl+C, timeouts, `--cancel-after` | the session is ended on every path |
| NTP client, `src/ptp_client/ntp/` | none | one request, one reply | (stateless) |
| PTP lab, `W/ptp_lab.py` | registry of runs; per run: client, session, worker thread, outcome, packet collector, stop and finished events | two kinds of start, poll, stop, clean-up of old runs | what the last reply says of a run is final; whoever has the ports can be found and stopped; a run that is over leaves nothing running |
| L2 master lab, `W/l2_master_lab.py` | the one master of the server, ring of frame records, SSE subscribers | start, stop, update, stream | one master at a time; subscribers see each record once |
| Routes and static UI, `W/app.py`, `W/static/` | of a page: run id, next index, list of packets | HTTP glue, polling | a lost reply costs nothing |

Threads of a session: the manager (negotiates, measures, renews), the receiver of
the client (fills the buffers), and the caller (CLI main thread or lab worker),
plus HTTP threads in the lab, which share with the worker the registry, under a lock,
and the run, under none. The ports 319 and 320 are one pair for the whole program.
The grandmaster and the network are outside.

### 1.3 What is hard here

- three senders of two kinds on the master, with counters bumped one at a time
  (the books balance only across steps);
- deadlines computed from a wall clock that can be set, waits on a monotonic one,
  a loop that wakes late or early, faults with backoff and realignment;
- configuration and generation read and written without a common lock;
- `stop()` at any point: drains, joins with time limits, closed sockets;
- contracts that run out while a thread waits, retries whose first answer is still
  on its way, denials, buffers that push out what has not been read;
- Sync and Follow_Up that come late, twice, in the wrong order, from two masters, with
  numbers that wrap;
- a configuration replaced between the several reads that one frame takes;
- a signal handler that runs `stop()` between any two steps of the main thread;
- a master replaced by one HTTP request while another is stopping it, and readers
  whose queues are full or whose next index is read after the records;
- a run that is polled, stopped and forgotten while its worker starts, waits, fails or
  closes.

`PROJECT.json` lists 40 such hazards, each at its line. A hazard without a
property says why.

## 2. The models

| Module | Models | Extends / instances |
|---|---|---|
| `SessionTable` | `session.py` | |
| `DelayResponder` | RX, RESP and the draining `stop()` of `master.py` | `Table == INSTANCE SessionTable` |
| `PeriodicScheduler` | `scheduler.py`, operators only | |
| `TxLoop` | TX thread, runtime update, start, stop | extends `PeriodicScheduler` |
| `UnicastLease` | abstract: what a session promises about one service | |
| `UnicastSession` | `g82752_unicast.py`, its two callers, the receive buffer; network and grandmaster as environment | `Lease == INSTANCE UnicastLease WITH ...` |
| `SyncPairing` | `client.py`: receiver thread, bounded buffer, `wait_sync_sample`, `exchange_delay`; masters and network as environment | |
| `L2MasterLab` | `l2_master_lab.py`: registry, frame collector, SSE stream, poll | |
| `AcrRunLab` | `ptp_lab.py`: registry, starts, worker, collector, poll, stop; `client.py`: start, receiver, close; the page in `main.js` | |
| `RunningConfig` | `config.py`, `apply_runtime_update`, what a frame reads of the configuration, own frames in `_handle_frame` | |
| `MasterProcess` | `l2master/cli.py`: main thread and signal handler over `start()`, `stop()`, locks and transport | |
| `*_proofs` | theorems about the module named; `TxLoop_proofs` has those about `PeriodicScheduler` too | extends it and `TLAPS` |
| `MC_*` | constants for TLC | extends the module |

Operators whose comment starts with *Mutant of* are not part of a model: they are
the plausible bugs with which each property is tried.

### 2.1 SessionTable

`sessions` is `_sessions`, a function on the slaves that have a session.
`RegisterOrTouch` is the whole of `register_or_touch`: make room
(`_evict_oldest`: all aged sessions, else a least recently seen one), refresh or
create the session, charge its token bucket, count. `verdict` is what the call
returned. Time is counted in ticks and tokens in `1/TicksPerSec` of a token, so
the floating-point refill is exact. Of two sessions seen at the same instant the
code evicts the one registered first; the model lets either go. `grants` and
`since` are history.

### 2.2 DelayResponder

Each thread has a place (`rx.pc`, `sender[t].pc`), one for every point between two
accesses to shared state: a counter, the queue, the table, the event, the
transport. `sender["resp"]` is the RESP thread; `sender["main"]` is the caller of
`stop()`, which runs the same `_send_delay_resp`. A frame is a slave and a
number; parsing is a choice among the outcomes the filters have, and a `recv` that fails
counts as a frame that is too short: it bumps the same counter. The transport is
read once in `_send_delay_resp`, and may be closed before the `send`. Joins may
time out. `wire` and `abandoned` are history.

### 2.3 PeriodicScheduler and TxLoop

`NextBoundary`, `Due`, `Advance` and `WaitTimeout` are the functions of
`scheduler.py` over integers. `Valid` has what `validate()` says of the fields the
schedule depends on, with the ranges of one profile, which no update changes. `TxLoop` has one action per step of `_tx_loop`
between reads of shared state. `mono` is the clock of the waits, `real` the wall
clock, which `SetClock` moves. Computing takes no time; the thread wakes up to
`MaxLate` ticks after it asked to. `apply_runtime_update` is three steps, as in
the code: copy under the lock, validate outside it, store under it, where the TX
thread, which does not take the lock, can look between the new configuration and
the new generation. `last` and the `at` of an updater are history: the last frame of
each kind, with the boundary it was sent for, and when an update was complete. What
is in a frame besides its number is left to `RunningConfig`.

### 2.4 UnicastSession

`pc` is the place of the manager thread in `negotiate` and `measure_acr`; `neg` is
the call of `_negotiate_with_retries` under way, for the Announce contract, the
Sync contract or a renewal, and `ret` the place from which a renewal was begun.
Timers count down (`left`, `next_in`, `measure_left`), and `age` counts the
contract up to `Duration`, so the state space is finite without a bound on the
length of a session. A GRANT is its service and duration; `buf` is the part of
`_general_buf` that matters, `Evict` stands for the Announce, Sync and Follow_Up
frames that push GRANTs out. `caller` runs `stop_acr`, `cancel_unicast` and
`close` in the order in which the lab's worker or the CLI calls them.

The grandmaster (`GmAnswers`, `GmCancels`) and the network are external: a request
is granted or denied as a whole, each service in a frame of its own; messages are
lost, grants reordered. Grants are not yet delayed beyond a wait, nor duplicated
by the network (a GRANT can still be old: those of an earlier attempt, or pushed
into the buffer by a repeated REQUEST, are met later).

### 2.5 SyncPairing

`buf` is `_general_buf`; `Receive` is the receiver thread, every other action a step
of the caller between two looks at the buffer. In `wait_sync_sample` it takes the
oldest Sync (`scan`) and waits for its Follow_Up (`follow`); if no Sync has come for
50 ms it starts from the Follow_Up with the greatest number (`led`), and at the end of
its time from a Follow_Up alone (`degrade`). A message is identified by its master and
its place `n` in what that master sends; its sequence number is computed from it
modulo `Modulus`, and the client sees the number and the source only. Time is left
out: a wait may reach its deadline at any moment, hence also the 50 ms, 2 s and
whole-call deadlines in any order the code allows. A message is lost by never being
delivered. Domain filters are left out: what is not ours stays in the buffer until it
is pushed out, as anything unread does.

### 2.6 L2MasterLab

Every run of the lab has a master and a collector of its own, so these are functions
on run numbers. `http[t]` is an HTTP thread in `start_l2_master_lab` (which holds
`_LOCK` all along) or `stop_l2_master_lab` (which takes the run under the lock and
stops its master without it). `emitter[r][s]` is a thread of the master of run `r` in
`on_frame`: append and trim under one lock, copy the list of subscribers under
another, then put by put, with the removal of the oldest frame from a full queue as a
step of its own. A stream is `stream_l2_master_events`; the poller is a client that
passes `next_index` on as `since`. `MasterStops` waits for the threads of the master
to leave `on_frame`: its joins are limited to 2 s, which `on_frame` does not take.

### 2.7 AcrRunLab

`call[r]` is the HTTP thread in `start_g8275_acr_lab` or `start_fault_delay_req_lab`,
from the clean-up with which both begin to the answer, with each failure on the way;
the two kinds differ in the worker. `ports` is the event port, which `client.start()`
binds first. What fails after that within `client.start()` (the general port, the name of
the master) leaves it bound: nobody closes those sockets, and `SocketsCollected` is the
garbage collector, some time after the error has been answered. What fails after
`client.start()` closes the client. `worker[r]` follows `_lab_worker` or
`_fault_delay_req_worker`, `receiver[r]` the receiver thread of `client.py` and
`manager[r]` the manager of the session, of which it matters when it sends, fails and
obeys. The page polls as `main.js` does: a reply is read from the run statement by
statement (`PollBegins`, `PollError`, `PollCancelSent`, `PollMessages`, `PollTotal`), may be lost, and the next poll
asks from its `next_index`. The collector is the number of its packets. The age of a
run is a choice: any run may be older than the ten minutes.

### 2.8 RunningConfig

A configuration is a record with one field of each kind: the profile, one that a
profile bounds and defaults (`domain_number`), one that may be null
(`clock_identity`, `vlan_id`), one that is not validated (`priority1`), and the
overrides by message type. `FromDict`, `Patch`, `Valid` and `Effective` are the functions
of `config.py`. An update has five steps, `cfg` and `source_port` being two
assignments under the lock; a frame has four: the sender takes the configuration, takes it again in
`_source_for`, reads `source_port`, and takes it a third time in `_send_frame`; a
Follow_Up skips the first and keeps what its Sync took. What cannot be packed or
tagged ends the thread (`SendDies`). An identity is a model value for one that can be
used, or one of the three that cannot: empty, of another length, all ones.
`RX` looks at a frame of the master itself, given back by the switch. `past` and
`applied` are history.

### 2.9 MasterProcess

The main thread is a stack of at most two frames, `main` and `handler`, of which only
the upper one moves: a signal puts the handler on top between any two steps, and a
second one finds `stop_requested` set. Both frames go through the same steps of
`stop()`. The handler may run while the main thread waits in `join()`, as it does on
POSIX and, from CPython 3.13 on, on Windows (section 6 for older ones). The locks of the counters and of the session table are not reentrant. The
threads take locks, end when they see the stop event, and on Windows RX starts the
sniffer, or dies of the exception.

## 3. The runs

Twelve. `tx_disturbed`, `unicast`, `sync_pairing`, `acr_lab`, `running_config`, `responder`
and `l2_lab` take one to four minutes, the others less.

### 3.1 Properties that hold

**`session_table`** - 3 interchangeable slaves for 2 places, 2 tokens a second in
half-second ticks, sessions age after one tick, 4 ticks, 3 requests per slave and
session. Three slaves for two places is the least with which eviction has a choice
and the evicted can come back.
- `TableBounded`: never above the limit; the overflow branch of
  `register_or_touch` is dead code.
- `LiveSessionsStay`: whose session may be evicted, and when.
- `SessionRateBound`: over *every* window of time a session gets at most a
  bucketful plus what is refilled. (Per session: an evicted slave that returns
  starts with a full bucket, `session.py:38`.)

**`responder`** - 2 slaves for 1 place, a queue of 2, 3 frames, one tick of time,
`stop()` at any moment, fair threads. The queue fills, sessions are evicted while a
response is on its way, and three threads are in the middle of something at once.
- `RequestsAccounted`: received = sent + dropped + refused + queued + in hand +
  abandoned, at every step of every thread.
- `AnsweredOnceInOrder`: no request is twice in the queue, in hand or on the wire, and
  until a stop the wire has them in the order in which they came.
- `EveryRequestSettles`, `StopCompletes`.

**`tx_disturbed`** - a quarter of a second per tick: Announce and Sync every 4 ticks, as
the profile 1588v2 has it, waits of at most 2, backoff 3 to 4; two failed sends, one update
(faster messages, one-step, or an inadmissible one), one step of the wall clock
backwards or forwards, wake-ups up to 1 tick late, `stop()` at any moment, sequence
numbers modulo 2, 12 ticks. That is long enough for a fault, its backoff and three
boundaries.
- `Aligned`, `BoundariesServedOnce`, `FollowUpPaired`.
- `UpdateTakesEffect`: after one wait, one backoff and one gap, each with its lateness, the
  schedules are those of the new configuration, whatever the thread was doing. This is
  a bound in time, so it is an invariant and needs no fairness. Of several updates the
  last one counts (`Quiet`): until it is complete the thread may be told of a
  configuration that is being replaced.
- `EveryBoundaryServed`: until something fails or is changed no boundary is left out.

**`unicast`** - contracts of 10 ticks, margin 6, all timeouts 1, one exchange or one
every 2 ticks, no limit or one of 5, a buffer for 2 GRANTs, one message lost
between two contracts, one denial per service; callers: lab and CLI with
`--cancel-after`. The limit on losses starts again with each contract, so a session
of any length loses messages; three attempts are the code's own.
- `ContractKept`: while somebody measures, a willing grandmaster serves. The least
  margin with which it holds is 6, one ends too late with 5: the condition of
  `ContractAlwaysKept` is tight here.
- `LabLeavesNothing`: no REQUEST follows the lab's CANCEL.
- `IsLease`: as long as nothing is denied the session implements `UnicastLease`.
- `StopEnds`: every wait ends and no renewal is begun after a stop.

**`sync_pairing`** - 2 masters that send the same numbers, 3 numbers that wrap between
the first and the second Sync, 2 Syncs in all, one- and two-step, a buffer of 3, one
message doubled, 2 calls of either kind. Two Syncs are the least of which one can be
taken for the other, with the same number (two masters) or across the wrap (one).
- `SamplePaired`, `SampleIsFresh`: a sample is a Sync with its own Follow_Up, and no
  message serves twice. The path from a Follow_Up takes any Follow_Up of that number in
  the end, so there the claim is about samples from one source.
- `DelayAnswered`: no late answer to an earlier request. `CallEnds`.

**`l2_lab`** - 2 HTTP threads, 3 requests, 2 masters in turn with 2 sources each, 3
frames, a stream with a queue of 1 or two polls of a ring of 2 records. Stop, start and
start again is the least with which a start can meet a stop in progress; with 3 frames
both sources make room in the queue at once.
- `NoOrphan`: a master that runs is the run of the server or in the hands of a request
  that will publish or stop it.
- `ReadersInOrder`: neither a stream nor a polling client sees a frame twice or out of order. (That
  none is missed is not true: section 6.)
- `StreamsEnd`: a stream notices that its run is not the server's any more.

**`acr_lab`** - two runs that want the same ports, one packet besides those of the
teardown, one page. Two runs are the least with which one can be refused, or wait for
the ports of the other, or have the other dropped; one packet can be in the hands of
the receiver while the sockets are closed.
- `PollsAddUp`: the last reply of a run that is over has how it ended (error, CANCEL, a
  capture of all packets) and reaches to the last packet; and no reply goes back behind its
  own packets, so none is listed twice. It rests on the order of reads in the poll against
  the order of writes in the worker. That each packet is listed it does not say: one that
  arrives between `records_since()` and `total_records()` of a poll never is.
- `PortsTraceable`: who has the ports is a start under way, a run that can be polled
  and stopped, or a start that failed within `client.start()`.
- `NothingLeftBehind`: after a failed start or `finished` neither receiver nor manager, and
  no ports but those of a start that failed within `client.start()`.
- `StopFinishes`: a stop finishes the run, whatever the worker was doing.

**`running_config`** - two HTTP threads, two updates out of eight bodies that change,
clear or break an identity, a port number, a domain, overrides, `priority1`; masters of
both profiles, with and without an identity. Two updates at once are what can mix.
- `IdentityAgrees`: outside the critical section `source_port` is that of `cfg`.
- `FrameCurrent`: identity, port number and VLAN of a frame are of configurations in force
  between its beginning and its sending; the domain is that of the one configuration the
  thread held, which for a Follow_Up is its Sync's. The docstring of
  `apply_runtime_update()` says otherwise (section 6).
- `HeadersFit`: an exception ends only the TX thread, and only at an Announce whose
  `priority1` fits no octet; a validated identity, port number or VLAN ends nothing.
- `NoEcho`: the master takes a frame of its own for a foreign one only if an update has
  changed an identity since the frame was begun, whatever else was changed.

**`master_cli`** - all platforms, all three ways of running, a signal at any step or none.
- `GracefulExit`: while the master runs, a signal that comes when the main thread holds
  no lock ends the program, and an end leaves no thread, transport, sniffer or state
  behind. Both restrictions are needed: see section 6.

The passing runs but the last check the type invariant of their module, `TypeOK`, too.

### 3.2 Disagreements between code and documentation

Three runs end in a counterexample; see section 6.

## 4. Fairness, deadlock, time

*Weak fairness only.* The threads of the program run as long as the process does;
each blocking call of theirs has a time limit (`recv` timeouts, `Event.wait`,
`queue.get(timeout=...)`, joins with a limit), hence WF on the steps of each
thread and on the passing of time. What others decide is not fair: `start`,
`stop`, frames on the wire, updates, faults, clock steps, losses, the arrival of
Sync and Delay_Resp. In `DelayResponder` RX is fair step by step
(`RxTop`, `RxTimeout`, `RxHandle`), since frames may also keep coming. In
`UnicastSession` signalling that is not lost arrives and is answered. In `SyncPairing`
only the caller and the passing of time are fair, in `L2MasterLab` only the streams:
masters, network, requests and frames owe nothing. In `AcrRunLab` worker and receiver
are fair, and the manager once it has been asked to stop, which is what `StopEnds` of
`UnicastSession` shows of it; pages, presses and polls are not. In `MasterProcess` the
main thread and each thread of the master are fair, the signal and the end of a
duration are not. `TxLoop` and `RunningConfig` have safety only.

*Time.* `TxLoop` and `UnicastSession` assume that computing is instantaneous next
to a tick and let time pass only while the thread waits. `TxLoop` adds lateness
as a parameter. `SessionTable` and `DelayResponder` let time pass at any point.

*Deadlock.* Where the cfg says `CHECK_DEADLOCK FALSE` the behaviour really ends: the
master is stopped, the program has exited, or the bounds (`MaxTime`, `MaxFrames`,
`MaxRequests`, `MaxRuns`, `MaxUpdates`) are used up.
`UnicastSession` is checked for deadlock: its only end is `Over`. In `SyncPairing` and
`L2MasterLab` nothing more is called, sent or requested when the bounds are used up.

*Bounds* are all named in the CONSTANTS, marked `bound:`, or in a comment of that form
at the action. `MaxTime` cuts a behaviour of `TxLoop` off; its properties say what must
have happened by a time.

## 5. The proofs

All are about arbitrary values of the constants, from the assumptions of the
module (`SessionAssumption`, `ResponderAssumption`, `ResolutionAssumption`,
`TxAssumption`, `UnicastAssumption`, `PairingAssumption`, `LabAssumption`,
`AcrRunAssumption`, `UpdatersAssumption`), which TLC evaluates on every run. Five theorems
have hypotheses of their own, named in the table; the constants of the passing runs
that check the same property satisfy them.

| Theorem | Says | Argument |
|---|---|---|
| `SessionTable_proofs!TypeCorrect` | `[]TypeOK`, with tokens within capacity | inductive with the finiteness of the table |
| `SessionTable_proofs!AlwaysBounded` | `[]TableBounded` for any number of slaves and any limit, also 0 or negative ones (clamped) | `Room` always ends below the limit: an eviction removes at least one session, since a full table is not empty and a finite one has an oldest element |
| `SessionTable_proofs!LiveSessionsAreKept` | `LiveSessionsStay` | by action, from the same invariant |
| `SessionTable_proofs!RateAlwaysBounded` | `[]SessionRateBound`, for every rate and resolution of the clock | see below |
| `DelayResponder_proofs!AlwaysAccounted` | `[]RequestsAccounted`, for any number of slaves, frames, queue places | see below |
| `DelayResponder_proofs!AlwaysOnceInOrder` | `[]AnsweredOnceInOrder`, likewise | see below |
| `DelayResponder_proofs!TableUsedAsSpecified` | `Spec => Table!Spec`: the responder implements `SessionTable` | each step of a thread is one of the table, or leaves it alone |
| `DelayResponder_proofs!TableLimitsKept` | `[](Table!TableBounded /\ Table!SessionRateBound)` in the running master | from the theorems about `SessionTable`, by `TableUsedAsSpecified` |
| `DelayResponder_proofs!TypeCorrect` | `[]TypeOK`, with the bound of the queue | likewise, and `BooksInv` and `OnceInv` for what the threads have |
| `TxLoop_proofs!BoundaryFacts`, `AdvanceFacts` | `NextBoundary` is the multiple of the interval in `(at, at + interval]`; `Advance` moves an aligned deadline past the present and keeps it aligned, in each branch | division with remainder |
| `TxLoop_proofs!AdvanceOfDue` | of a due, aligned deadline `Advance` is just `NextBoundary`: the second branch of `advance()` (catching up) is never taken | a deadline an interval ago is also half an interval ago |
| `TxLoop_proofs!TypeCorrect` | `[]TypeOK`; only validated intervals come into force | inductive with the intervals in `LogRange` |
| `TxLoop_proofs!AlwaysAligned` | `[]Aligned`, through faults, updates and clock steps in any number | from `AdvanceFacts` |
| `TxLoop_proofs!ServedOnce`, `FollowUpsPaired` | `BoundariesServedOnce`, `FollowUpPaired`, for any number of faults, updates and clock steps | see below |
| `TxLoop_proofs!UpdatesTakeEffect` | `[]UpdateTakesEffect`, if no update begins before the thread has set up and none asks for a longer gap | see below |
| `TxLoop_proofs!BoundariesAllServed` | `EveryBoundaryServed`, if moreover the gap and two late wake-ups fit into either interval | see below |
| `UnicastSession_proofs!TypeCorrect` | `[]TypeOK`, for every duration, margin, time limit and size of the buffer | with where the manager is in its negotiation (`Stages`) |
| `UnicastSession_proofs!NothingLeftBehind` | `[]LabLeavesNothing`, whatever was lost or denied | see below |
| `UnicastSession_proofs!SessionIsLease` | `IsLease`: every step of the session is a step of `UnicastLease` or a stutter, if what is granted is granted in full | see below |
| `UnicastSession_proofs!LeaseSafe`, `NeverRenewedTooLate` | a client that keeps to the lease never relies on a service longer than it is served; hence nor does the session | inductive with the types; by `SessionIsLease` |
| `UnicastSession_proofs!ContractAlwaysKept` | `[]ContractKept`, if what is granted is granted in full and the margin suffices for the losses (`MarginSuffices`) | see below |
| `SyncPairing_proofs!TypeCorrect`, `SamplesPaired`, `SamplesFresh`, `DelaysAnswered` | `[]TypeOK`, `[]SamplePaired`, `[]SampleIsFresh`, `[]DelayAnswered`, for any number of masters, messages, copies and places in the buffer | see below |
| `L2MasterLab_proofs!NeverAnOrphan`, `LockNeverKept` | `[]NoOrphan`, and that the lock is held by a start under way only (`LockHeld`), for any number of HTTP threads and runs | see below |
| `L2MasterLab_proofs!TypeCorrect`, `ReadersAlwaysInOrder` | `[]TypeOK` with the bounds of ring and queues, `[]ReadersInOrder`, for any number of runs, sources, streams, polls and frames | see below |
| `AcrRunLab_proofs!LabTyped`, `PollsAlwaysAddUp`, `PortsAreTraceable`, `RunsLeaveNothing` | `[]TypeOK`, `[]PollsAddUp`, `[]PortsTraceable`, `[]NothingLeftBehind`, for any number of runs and packets | see below |
| `RunningConfig_proofs!TypeCorrect` | `[]TypeOK`; the configuration in force has an admissible identity and domain, and no frame carries an identity that stands for none (null, empty, too short or all ones) | with `ConfigInv` and `FrameInv` below, and `IdentityFits`: what `validate()` admits is an identity or missing |
| `RunningConfig_proofs!IdentityAlwaysAgrees`, `FramesAreCurrent`, `HeadersAlwaysFit`, `NoEchoEver` | `[]IdentityAgrees`, `[]FrameCurrent`, `HeadersFit`, `[]NoEcho`, for any number of HTTP threads, updates and inputs | see below |

*SessionRateBound* compares any two grants of a session, the code only keeps a balance.
`RateInv` relates the two. `Ledger`: of the grants from the i-th on the bucket has been
paid, and what is in it is no more than was in it and has come since, for every `i`.
`Windows` is the property itself, over the history. A grant pays `TicksPerSec` of
tokens, so it turns the `Ledger` of before into the `Windows` that end with it; a refill moves
`token_ts` on and adds no more than `Rate` times that, the cap only takes away.

*RequestsAccounted* is inductive only together with where the threads are:
`BooksInv == Threading /\ RequestsAccounted`, where `Threading` says that counters
are numbers, that a thread which is handling or sending holds a context, that each
sender is at a place of its own program, and that nothing runs before `start()`.
The sum is split into what is *settled* (counters, queue, abandoned) and what is
*in hand*; lemma `Balanced` says that a step keeps the books if what it adds to the
requests received it adds to one of the two. Then each step moves one unit: a bump
of a settling counter (`BumpSettles`), a put, a take, a change of hands. The
session table is not mentioned: its steps may do what they like.

*The table within the responder.* RX registers in the session table, RESP and `stop()` mark
what they have sent, and a marked slave is one, as a thread that sends holds a context
(`Threading`). So `TableSteps` holds, and what is proved of `SessionTable` by itself is true
in the running master. `TableAlone` says that the instance of the module in `DelayResponder`
and the one in the proofs, through which its theorems are cited, are the same;
`AssumptionsMet` that `ResponderAssumption` covers what `SessionTable` assumes.

*AnsweredOnceInOrder* needs to know where the contexts are, `OnceInv`: frames are
numbered as they come, what the RX thread is handling has a later number than all
else (`RxAhead`), the queue ascends and what has left it came before what is in it
(`QueueInOrder`), the wire and the hands of the two senders have nothing in common
(`OnWireOnce`). That is as much as holds once `stop()` drains the queue beside the
RESP thread; until then only RESP sends, and what it holds came after all that is
on the wire (`OneSender`). Putting is where the RX thread's number enters the queue,
taking is where the order of the queue becomes the order of the hands.

*BoundariesServedOnce* follows from `ServedInOrder`: as long as nobody has set the
clock, `now_sec` is not ahead of it, and of each kind the boundary last served has come
and lies before the deadline of the schedule; for a Sync it may equal that deadline
between the sending of the Sync and the step that advances its schedule (Follow_Up gap,
fault). The invariant is disturbed where an update rebuilds the schedules: there the
new deadline is the next boundary after the present, and the boundary last served is
not after the present.

*FollowUpPaired* is an action property about the moment of sending. `PairInv` is what the
thread in the gap holds: the number and the boundary of the last Sync, for which, unless
the clock was set, no Follow_Up has been sent.

*UpdateTakesEffect* is a bound in time, `Round`. `BackBy` says from where the thread is when
it is back at the head of its loop at the latest (`LoopTimed`: within a round);
`NewsIsFresh` says that as long as the thread does not know of an update, or has not acted
on it, `BackBy` is within a round of some update. When a round has passed since all of them
the thread is back, hence knows, and what it knows is in the schedules (`GenerationTold`).
The hypotheses are needed: an update while the thread sets up can be missed for good
(section 6, `SetUpAlone` says that there is none), and since `follow_up_gap_ms` can be
changed at run time, a longer gap makes a longer round (`GapsBounded`).

*EveryBoundaryServed* is about an undisturbed thread (`InLine`). `InTime` says for each
place how late the thread may be for the next deadline: less than an interval where frames
are sent, because from waking up to waking up at most a gap and two latenesses pass (`Spent`
counts what has passed since `now_sec` was read). So `Advance` moves by one interval (lemma
`AdvanceByOne`) and the boundary served next is the next one (`NextInLine`). With the
defaults of the code (a gap of 1 ms, Syncs every 62.5 ms) the hypothesis holds as long as no
wait is overslept by 30 ms; at 128 Syncs a second it is 3 ms.

*The unicast session.* `LabLeavesNothing` follows from `LabInv`: once the lab's worker has
stopped waiting the manager is done, and the CANCEL is lost, or the last message on its
way, or has arrived. Nothing can be sent after it: a manager that is done stays so.

`IsLease` compares what the client believes with what the grandmaster serves. `OneGrant`
is the reason why they agree: of REQUESTs on their way, GRANTs on their way, GRANTs in the
buffer and the Sync service collected there is never more than one that counts, and while it
is about, the service has its full duration; before a new attempt what was left of the
old one is gone, because a wait ends only when signalling has come or is lost. `NoDenial`
and `Willing` restrict that to a grandmaster that denied nothing, since an old denial hides
what is behind it; `CancelLast` says that nobody gives back what is relied on. The
hypothesis `GrantDurations \subseteq {0, Duration}` cannot be left out: the manager never
reads the duration of a GRANT, and `unicast_short_grant` is the counterexample.

*ContractKept* is a budget. A message lost costs a wait and a sleep (`LossCost`); the time
from the Announce grant to the measurement costs a wait for the first Announce (`Lead`); the
loop looks at the clock so often that a renewal begins at the age `Latest` at the latest.
`MarginSuffices` says that `Lead`, `Latest` and twice the losses (those before and those
after the contract began) are less than the duration, that fewer are lost than exhaust two
negotiations of three attempts, and that the buffer holds a GRANT of each service. The
invariant `KeptInv` says what is left of the contract at each place (`BudgetInv`, `AgeInv`):
never less than the budget minus the losses so far. That an attempt of which nothing is lost
succeeds, and renews every service, is in the rest: `MailInv` (a REQUEST is answered before
the wait for it ends), `PlaceInv` (a GRANT is in one place), `AnswerInv` (if one has come of
this attempt, the grandmaster has renewed them all) and `OrderInv` (in the buffer GRANTs
left from the wait for the first Announce come first, so by the pigeonhole principle a full
buffer pushes out one that nobody needs). With the defaults of the code (300 s, margin 75 s,
waits of 5 and 8 s, sleeps of 1 s) the condition holds with up to five losses, as many as
the attempts bear; with `--duration` below about 52 s it fails even without any. In the run
`unicast` it is tight: with a margin of 5 instead of 6 both it and the property fail.

*SamplePaired* and *DelayAnswered* rest on numbers that wrap: what the client compares
is `sequenceId`, what it should compare is which message of the source it is. Lemma
`NumbersDiffer` says that the two agree as long as no two messages are a whole round
of numbers apart, which is what `PairingAssumption` says of `MaxSyncs` and `MaxCalls`
(the model asks it of the whole run; in the code it is enough that what is in the
buffer or on its way at one time does not span 65536 numbers, and a message that is
delayed for a whole round does break the properties). The invariant adds to them
what the message in hand is at each place of the caller (`Hand`: the Sync found for a
Follow_Up has its source and its `n`), that the n-th request carries the number
`n % Modulus`, and that every answer on its way or in the buffer carries the number of
the request it answers (`Genuine`).

*SampleIsFresh* needs `CopiesInv`: of a message that the network has not doubled there is
one copy, on its way, in the buffer, in the hands of the caller or in the samples
(`OneCopy`). A Follow_Up that is being waited for is the exception: it is named (`held`) and
stays in the buffer until it is used. `SentBefore` says that what is still to be sent is
none of these.

*NoOrphan* is inductive together with what the lock protects (`Protected`): a thread in
the critical section of `start` holds the lock, and the run of the server is then the
one it is about to stop, or none. Hence the run that a start publishes replaces
nothing. A step moves one thread, so it is enough to account for the masters that were
the run of the server or in the hands of that thread (`SightKept`).

*ReadersInOrder*, for streams: what a stream has delivered and what is in its queue ascend,
and a source that may still put its frame into that queue (`StillDue`) holds a later one
than what is there of it (`Lines`, `Cleared`). Each source numbers its frames as it goes, so
it is enough that a source in `on_frame` serves one stream after the other, each once. For
polls: the records of a run are consecutive numbers that end with the last frame (`Ring`),
the trimming moves `Base`, and what the client has been shown lies at or before `Base` plus
its index (`Read`); since runs follow one another (`InTurn`, `Over`) a client that has gone
on to the next run never reads of an earlier one again.

*The PTP lab*: all three invariants follow from `LabInv == TypeOK /\ RunInv /\ PageInv`.
`RunInv` says of each run that its call, its worker, its client and its threads are at
places that go together: a worker exists only of a run that was answered, the receiver has
gone once `close()` has joined it, the capture has as many packets as the collector from
then on, and `finished` comes last. `PageInv` says that what a reply under way has read of a
finished run is what the run has now. Since nothing that a reply reads changes once
`finished` is set (lemma `OthersKept` for the other runs, `CollectionKept` for the packets),
a reply that begins with `finished` is final; the order in the poll is what makes it so.

*The configuration.* `ConfigInv` says what the HTTP threads hold (`Updates`: who has
the lock has stored the configuration whose port it will derive, and what is about to
be stored has been validated) and what the history is (`History`: its last entry is
the configuration in force, its last complete entry has `source_port`).
*IdentityAgrees* is what is left of it when the lock is free: the last entry is then
complete. *FrameCurrent* takes `FrameInv` besides, which says of each thing that the
sender has read that it is in the history: the configuration it holds and the domain in
the entry that was the last when it took it (`since`), source and VLAN in some entry from
the last complete update at the beginning of the frame (`from`) on. It is kept because the history only
grows (`HistoryGrows`) and a read is always of the last entry or, for `source_port`,
of the last complete one. Domain numbers go through an octet: that they come out as
they went in is lemma `DomainFits`, from `Valid`.
*HeadersFit* is about the step that ends a thread. What it was about to pack is of a
validated configuration (`ReadIsPast`), each number that `validate()` bounds fits its field
(`NumbersFit`), and a name is an identity (`Names`); `priority1` is what is left
(`OnlyPriorityKills`).
*NoEcho* adds `EchoInv`: what RX judges a frame by is an entry of the history
since the frame was begun. If none of these has changed an identity, the frame has the
identity that RX compares with (`OwnIsKnown`).

*Only model-checked:* everything under fairness (`EveryRequestSettles`, `StopCompletes`,
`StopEnds`, `CallEnds`, `StreamsEnd`, `StopFinishes`, `GracefulExit`), which is beyond TLAPS,
and with it `MasterProcess`. All invariants and all action properties of the passing runs are
theorems.

## 6. What the models found

Each is the counterexample of a run; quotations are in `PROJECT.json`.

| Run | Property | The code |
|---|---|---|
| `unicast_denials` | `DenialsCounted` | a denial is raised before it is taken off the buffer and counted again by the next renewals: one denial becomes "denied three times" |
| `unicast_short_grant` | `ContractKept` | the renewal is due by the duration asked for, not granted: a shorter contract runs out |
| `sync_degraded` | `DegradedOnlyWithoutSync` | the last attempt of `wait_sync_sample` waits for a Sync with a deadline that has passed, so it never looks at the buffer: degraded timestamps are used although the Sync is there |

`unicast_denials` is the reason why `IsLease` and `ContractKept` are about a grandmaster
that has denied nothing: afterwards an old denial in the buffer can hide the grants
behind it.

Seen while modelling, in the model as the code has it, but not the subject of a run:

- the signal handler runs `stop()` on the main thread. If the interrupted frame holds
  the lock of the counters or of the session table (`get_stats()`, `list_slaves()`, the
  `_set_state` of `start()`), the handler waits for it for ever: the program cannot be ended with
  Ctrl-C again, since the handler ignores a second signal (`l2master/cli.py:115`). A
  signal during `start()` stops what is not there yet; `_stop_event.clear()`
  (`master.py:161`) then undoes it and the threads start, and with `--stats-period 0`
  the program waits for ever. The property `SignalEnds` of `MasterProcess` says
  what the design does (line 293, and `cli.py:63`: "0=until Ctrl-C"); TLC finds it
  violated. `GracefulExit` is what is left of it;
- on Windows CPython before 3.13, which the project admits, runs no signal handler while the
  main thread is in `join()`: with `--stats-period 0` (`cli.py:159`, `master.py:190`) Ctrl-C is then
  never handled. `MasterProcess` has interpreters that do, and `GracefulExit` is about these;
- the TX thread reads the configuration before its generation: an update between the
  two is never adopted (`master.py:266-269`). `TxLoop` shows it with `EarlyUpdates =
  TRUE`, where TLC finds `UpdateTakesEffect` violated even if nothing fails; the run
  lets updates begin only when the thread has set up;
- the lock is released between copying and storing a configuration (`master.py:218-221`): of two
  concurrent updates of different keys one is lost, against the comment above it,
  "absent keys keep their current value";
- a Follow_Up after an update during the gap has the domain and flags of the old
  configuration and the source, VLAN and destination of the new one
  (`master.py:394-404`), against the docstring of the update, "Takes effect from the next
  Announce / Sync / Follow_Up / Delay_Resp" (`master.py:205`); `FrameCurrent` states what
  the code does. With a window for the domain that begins with the Follow_Up itself, as the
  docstring has it, TLC finds it violated;
- the master takes a frame of its own for another's if an update changes an identity between
  sending and hearing (`master.py:446-451`); `NoEcho` has this as its one exception;
- at the limit of the session table the design says both that a new session is refused,
  counted in `session_overflow` and dropped (`docs/g82751-l2-e2e-master-design.md:353`) and
  that the oldest is evicted (line 384). The code evicts (`session.py:77`), and
  `test_session_overflow_evicts_oldest` agrees; `TableBounded` shows that `session_overflow`
  is never counted;
- a start that fails within `client.start()` after the event port is bound leaves it bound
  until the sockets are garbage-collected, since the call stands before the `try` that closes
  the client (`ptp_lab.py:401`, `505`): a retry meets "address in use";
- a packet that arrives between `records_since()` and `total_records()` of one poll is never
  listed by the page, though the capture has it (`ptp_lab.py:566-567`);
- a `priority1` (or `clock_class`, ...) that does not fit an octet passes `validate()`
  and ends the TX thread with `struct.error`, the state still ACTIVE (`HeadersFit`);
- a null in an override is kept, though the docstring says "empty strings / null are
  dropped" (`config.py:298`); with a null identity the update is applied and then
  answered with HTTP 500 (`l2_master_lab.py:176`);
- `L2TransportError` is a `RuntimeError`, so opening that fails is HTTP 500 and not 502
  (`app.py:438`), and a sniffer that cannot be started ends RX silently;
- the session timeout is computed once and not when an update changes the Announce
  interval (`master.py:118`);
- the limit of a measurement is applied only once an exchange has succeeded: without any
  Delay_Resp it goes on for ever (`g82752_unicast.py:517` against its docstring, 435-437);
- a page that is reloaded has lost its run id, and with it the only way to stop a run,
  which keeps the ports until it ends by itself (`PageCloses`); `PortsTraceable` speaks of
  the registry, which no route lists;
- of two threads in `on_packet` both may take the same index (`ptp_lab.py:82`), and the
  statistics of a poll may count a packet that its list does not have yet
  (`ptp_lab.py:568`);
- nobody calls `age_out()`: a silent slave stays in the list of "online" slaves
  (`master.py:197`), although the design removes it on timeout (line 383);
- `stop_l2_master_lab` stops the master outside the lock, so a start that follows opens
  the interface while the old master still has it, against "one running master per
  server" (`l2_master_lab.py:3`); `NoOrphan` says that this passes;
- a frame recorded between `records_since()` and `total()` of a poll is never
  delivered, nor is what a trimming moves below the next index;
- of two threads making room in a full queue the second puts into a queue that is full
  again: `queue.Full` leaves `_notify` and the subscribers still to come miss the frame;
  if the stream has emptied the queue meanwhile, the newest frame is given up although
  there is room;
- the configuration in a poll is the one of the start, whatever was updated since
  (`l2_master_lab.py:266`);
- the path of `wait_sync_sample` that starts from a Follow_Up takes the first Follow_Up
  with that number from any source in the end (`client.py:551-559`), so with two masters
  in one domain a sample may mix them; and its wait of up to 2 s lets Syncs with other
  numbers lie;
- a tick more than half an interval late is still sent and `tx_skipped` is never
  bumped (`scheduler.py:20-24`, `docs/g82751-l2-e2e-master-design.md:337` against
  `master.py:287-292`);
- the schedule is computed from CLOCK_REALTIME, against line 423 of the same design;
- the first Sync sets ACTIVE before an Announce has been sent (design, 304 and 407),
  and FAULT turns ACTIVE when a loop finds nothing to send (`master.py:293`);
- after a backoff both schedules are advanced, also one whose deadline is still to
  come, which skips a boundary (`master.py:304-305`);
- a request that finds the queue full is not counted on its session (design, 380);
- Ctrl+C on the command line sends no CANCEL although `README.md:174` and
  `start-ptp-acr-client.ps1:40` say so;
- the branch for a denied retry in `_negotiate_with_retries` cannot be reached:
  `_collect_grants_until` raises first;
- after the first Sync nothing waits for one any more, so a contract that has
  lapsed is not noticed in the measurement;
- the 10 s for which `stop_acr()` joins are shorter than the wait for the first
  Announce: the manager then goes on with closed sockets, and ends by that.

## 7. What is not modelled

- Byte layout (headers, packets, signalling TLVs, PTP timestamps, captures), argument
  parsing, the other HTTP routes and tabs of the UI: pure or I/O.
- The NTP client: one request and one reply, without state.
- Sockets and Ethernet: `send` and `recv` as the threads see them; multicast and the
  raw sender of the slave client.
- Errors other than `OSError` in the threads of the master, except what
  `struct.pack()`, `PortIdentity`, the VLAN tag and the sniffer raise. In `UnicastSession`
  an `OSError` of `send` during a renewal.
- A second `print` by the signal handler while the main thread prints, which Python refuses
  as reentrant.
- `renew_now()` from another thread and `cancel_unicast(wait_ack=True)`: nothing in
  the program calls them. A second `start_acr()` on one session.
- Of the lab of the master the statistics and the list of interfaces.
- What a collector holds is the number of its packets, so an index that two threads
  take at once (section 6) is outside `AcrRunLab`.

## 8. Plan

Done, in this order: `SessionTable`, `DelayResponder`, `PeriodicScheduler`, `TxLoop`,
`UnicastLease`, `UnicastSession`, `SyncPairing`, `L2MasterLab`, `AcrRunLab`,
`RunningConfig`, `MasterProcess`.

What could still be modelled: `UnicastSession` with grants that are duplicated or delayed
beyond a wait, over `SyncPairing`'s buffer; the statistics of the labs.

Theorems worth proving next: the safety half of `GracefulExit` (a process that has exited
has left nothing behind), which a run checks; of `ContractKept` a condition for denials, too; that
the samples of `SyncPairing` come in the order in which they were sent.
