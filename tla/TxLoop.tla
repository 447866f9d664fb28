------------------------------- MODULE TxLoop -------------------------------
(***************************************************************************)
(* The transmit thread of the layer-2 master (_tx_loop and the senders it  *)
(* calls in ptp/l2master/master.py), with the callers of start(), stop()   *)
(* and apply_runtime_update() around it.                                   *)
(*                                                                         *)
(* Two clocks: "mono" measures waits, "real" is CLOCK_REALTIME, which the  *)
(* schedule is computed from and which an administrator may set.  Computing *)
(* takes no time, and the thread is woken at most MaxLate ticks after the  *)
(* wait it asked for.                                                      *)
(***************************************************************************)
EXTENDS PeriodicScheduler, Sequences, FiniteSets

CONSTANTS
  InitialConfig,  \* the MasterConfig given to the constructor
  Patches,        \* runtime updates that may be asked for
  Updaters,       \* threads that call apply_runtime_update
  EarlyUpdates,   \* may an update arrive before the TX thread has set up?
  LogRange,       \* log intervals the profile admits for each kind of message
  WaitCap,        \* the 0.5 s cap on one wait, in ticks
  BackoffMin, BackoffMax,  \* _FAULT_BACKOFF_MIN and _MAX, in ticks
  SeqMod,         \* sequenceId wraps at SeqMod (65536 in the code)
  MaxLate,        \* bound: how late the thread may be woken
  MaxTime,        \* bound: length of a behaviour, in ticks of "mono"
  MaxFaults,      \* bound: sends that fail
  Jumps,          \* steps by which REALTIME may be set
  MaxJumps        \* bound: how often

\* The fields of MasterConfig the schedule depends on.
Config == [log_announce_interval: Int, log_sync_interval: Int, two_step: BOOLEAN, gap: Int]

\* replace(): the configuration with the fields of the patch.
Patched(c, patch) == [f \in DOMAIN c |-> IF f \in DOMAIN patch THEN patch[f] ELSE c[f]]

ASSUME TxAssumption ==
  /\ InitialConfig \in Config
  /\ \A patch \in Patches : Patched(InitialConfig, patch) \in Config
  /\ Jumps \subseteq Int
  /\ InitialConfig.log_announce_interval \in LogRange.announce
  /\ InitialConfig.log_sync_interval \in LogRange.sync
  /\ InitialConfig.gap >= 0
  /\ \A log \in LogRange.announce \cup LogRange.sync : IntervalTicks(log) \in Nat \ {0}
  /\ {WaitCap, BackoffMin, BackoffMax} \subseteq Nat \ {0}
  /\ BackoffMin <= BackoffMax
  /\ SeqMod \in Nat \ {0, 1}
  /\ {MaxLate, MaxTime, MaxFaults, MaxJumps} \subseteq Nat
  /\ EarlyUpdates \in BOOLEAN

VARIABLES
  cfg,           \* self.cfg
  interval_gen,  \* self._interval_gen
  updater,       \* callers of apply_runtime_update: place, config in hand and, as
                 \* history, when it was applied
  state,         \* stats.state
  stats,         \* counters of the transmit path
  seq,           \* _seq_announce and _seq_sync
  stop_event,
  pc,            \* where the TX thread is
  sched,         \* its two schedulers
  gen,           \* its copy of the interval generation
  backoff,       \* its backoff
  now_sec,       \* its last reading of REALTIME
  inflight,      \* the Sync it is sending the Follow_Up of
  wake_at,       \* when, on "mono", its wait is over
  mono, real,    \* the clocks
  faults, jumps, \* how many there have been
  last           \* history: the last frame of each kind on the wire

sharedVars == <<cfg, interval_gen, updater>>
txVars     == <<sched, gen, backoff, now_sec, inflight, wake_at>>
clockVars  == <<mono, real, jumps>>
vars == <<cfg, interval_gen, updater, state, stats, seq, stop_event, pc, sched, gen,
          backoff, now_sec, inflight, wake_at, mono, real, faults, jumps, last>>

States == {"INIT", "LISTENING", "ACTIVE", "FAULT", "STOPPED"}
Kinds  == {"announce", "sync"}
Frames == {"announce", "sync", "followup"}
Counters == {"announce_sent", "sync_sent", "follow_up_sent", "tx_errors", "tx_skipped"}

Bump(c) == stats' = [stats EXCEPT ![c] = @ + 1]

SmallerOf(a, b) == IF a < b THEN a ELSE b

LargerOf(a, b) == IF a > b THEN a ELSE b

\* The interval a configuration gives to a message class.
Interval(c, kind) ==
  IntervalTicks(IF kind = "announce" THEN c.log_announce_interval
                                     ELSE c.log_sync_interval)

Schedules(c, at) == [k \in Kinds |-> NewScheduler(Interval(c, k), at)]

\* How long to sleep until the nearer deadline, at most WaitCap.
Nap(s, at) ==
  SmallerOf(SmallerOf(WaitTimeout(s["announce"], at), WaitTimeout(s["sync"], at)), WaitCap)

-----------------------------------------------------------------------------
(***************************************************************************)
(* start() and the set-up of the thread.                                   *)
(***************************************************************************)
Start ==
  /\ pc = "init"
  /\ state' = "LISTENING"
  /\ stop_event' = FALSE
  /\ pc' = "setup"
  /\ UNCHANGED <<sharedVars, stats, seq, txVars, clockVars, faults, last>>

\* The configuration is read first ...
ReadConfig ==
  /\ pc = "setup"
  /\ sched' = Schedules(cfg, real)
  /\ pc' = "setup_gen"
  /\ UNCHANGED <<sharedVars, state, stats, seq, stop_event, gen, backoff, now_sec,
                 inflight, wake_at, clockVars, faults, last>>

\* ... and its generation afterwards.
ReadGeneration ==
  /\ pc = "setup_gen"
  /\ gen' = interval_gen
  /\ backoff' = 0
  /\ pc' = "loop"
  /\ UNCHANGED <<sharedVars, state, stats, seq, stop_event, sched, now_sec, inflight,
                 wake_at, clockVars, faults, last>>

-----------------------------------------------------------------------------
(***************************************************************************)
(* The loop.                                                               *)
(***************************************************************************)
Exit ==
  /\ pc' = "done"
  /\ state' = "STOPPED"
  /\ UNCHANGED <<sharedVars, stats, seq, stop_event, txVars, clockVars, faults, last>>

\* stop() is seen at the head of the loop and in its two waits.
SeeStop == stop_event /\ pc \in {"loop", "wait", "backoff"} /\ Exit

\* The generation has moved on: note it, then rebuild from the configuration.
SeeUpdate ==
  /\ pc = "loop" /\ ~stop_event
  /\ interval_gen # gen
  /\ gen' = interval_gen
  /\ pc' = "rebuild"
  /\ UNCHANGED <<sharedVars, state, stats, seq, stop_event, sched, backoff, now_sec,
                 inflight, wake_at, clockVars, faults, last>>

Rebuild ==
  /\ pc = "rebuild"
  /\ sched' = Schedules(cfg, real)
  /\ wake_at' = mono + Nap(Schedules(cfg, real), real)
  /\ pc' = "wait"
  /\ UNCHANGED <<sharedVars, state, stats, seq, stop_event, gen, backoff, now_sec,
                 inflight, clockVars, faults, last>>

Sleep ==
  /\ pc = "loop" /\ ~stop_event
  /\ interval_gen = gen
  /\ wake_at' = mono + Nap(sched, real)
  /\ pc' = "wait"
  /\ UNCHANGED <<sharedVars, state, stats, seq, stop_event, sched, gen, backoff, now_sec,
                 inflight, clockVars, faults, last>>

Wake ==
  /\ pc = "wait" /\ ~stop_event
  /\ mono >= wake_at
  /\ now_sec' = real
  /\ pc' = "announce"
  /\ UNCHANGED <<sharedVars, state, stats, seq, stop_event, sched, gen, backoff,
                 inflight, wake_at, clockVars, faults, last>>

-----------------------------------------------------------------------------
(***************************************************************************)
(* Sending.  A sequence number is used up before the send is tried.        *)
(***************************************************************************)
NextSeq(k) == seq' = [seq EXCEPT ![k] = (@ + 1) % SeqMod]

\* Frame of kind f goes out, for the deadline that made it due.
Transmit(f, n, deadline) ==
  last' = [last EXCEPT ![f] = [seq |-> n, deadline |-> deadline]]

Advanced(k) == sched' = [sched EXCEPT ![k] = Advance(@, now_sec)]

AnnounceNotDue ==
  /\ pc = "announce" /\ ~Due(sched["announce"], now_sec)
  /\ pc' = "sync"
  /\ UNCHANGED <<sharedVars, state, stats, seq, stop_event, txVars, clockVars, faults, last>>

SendAnnounce ==
  /\ pc = "announce" /\ Due(sched["announce"], now_sec)
  /\ NextSeq("announce")
  /\ Transmit("announce", seq["announce"], sched["announce"].deadline)
  /\ Bump("announce_sent")
  /\ state' = "ACTIVE"
  /\ Advanced("announce")
  /\ pc' = "sync"
  /\ UNCHANGED <<sharedVars, stop_event, gen, backoff, now_sec, inflight, wake_at,
                 clockVars, faults>>

SyncNotDue ==
  /\ pc = "sync" /\ ~Due(sched["sync"], now_sec)
  /\ pc' = "recover"
  /\ UNCHANGED <<sharedVars, state, stats, seq, stop_event, txVars, clockVars, faults, last>>

\* Mutant of SendSync: the Follow_Up is given the next number.
SendSyncNumberedLate ==
  /\ pc = "sync" /\ Due(sched["sync"], now_sec)
  /\ NextSeq("sync")
  /\ Transmit("sync", seq["sync"], sched["sync"].deadline)
  /\ Bump("sync_sent")
  /\ state' = "ACTIVE"
  /\ inflight' = [seq |-> seq'["sync"], gap |-> cfg.gap]
  /\ wake_at' = mono + cfg.gap
  /\ pc' = "gap"
  /\ UNCHANGED <<sharedVars, stop_event, sched, gen, backoff, now_sec, clockVars, faults>>

\* One step: the pair is done.  Two steps: wait out the gap.
SendSync ==
  /\ pc = "sync" /\ Due(sched["sync"], now_sec)
  /\ NextSeq("sync")
  /\ Transmit("sync", seq["sync"], sched["sync"].deadline)
  /\ Bump("sync_sent")
  /\ state' = "ACTIVE"
  /\ IF cfg.two_step
     THEN /\ inflight' = [seq |-> seq["sync"], gap |-> cfg.gap]
          /\ wake_at' = mono + cfg.gap
          /\ pc' = "gap"
          /\ UNCHANGED sched
     ELSE /\ Advanced("sync")
          /\ pc' = "recover"
          /\ UNCHANGED <<inflight, wake_at>>
  /\ UNCHANGED <<sharedVars, stop_event, gen, backoff, now_sec, clockVars, faults>>

\* stop() during the gap: no Follow_Up, but the schedule still advances.
GiveUpFollowUp ==
  /\ pc = "gap" /\ stop_event /\ inflight.gap > 0
  /\ Advanced("sync")
  /\ pc' = "recover"
  /\ UNCHANGED <<sharedVars, state, stats, seq, stop_event, gen, backoff, now_sec,
                 inflight, wake_at, clockVars, faults, last>>

\* The Follow_Up takes its number from the Sync.
SendFollowUp ==
  /\ pc = "gap"
  /\ stop_event => inflight.gap = 0
  /\ mono >= wake_at
  /\ Transmit("followup", inflight.seq, sched["sync"].deadline)
  /\ Bump("follow_up_sent")
  /\ Advanced("sync")
  /\ pc' = "recover"
  /\ UNCHANGED <<sharedVars, state, seq, stop_event, gen, backoff, now_sec, inflight,
                 wake_at, clockVars, faults>>

Recover ==
  /\ pc = "recover"
  /\ backoff' = 0
  /\ state' = IF backoff > 0 THEN "ACTIVE" ELSE state
  /\ pc' = "loop"
  /\ UNCHANGED <<sharedVars, stats, seq, stop_event, sched, gen, now_sec, inflight,
                 wake_at, clockVars, faults, last>>

-----------------------------------------------------------------------------
(***************************************************************************)
(* Faults.                                                                 *)
(***************************************************************************)
\* The kind of frame the thread is about to send, if it is.
Sending ==
  CASE pc = "announce" /\ Due(sched["announce"], now_sec) -> "announce"
    [] pc = "sync" /\ Due(sched["sync"], now_sec)         -> "sync"
    [] pc = "gap" /\ mono >= wake_at /\ (stop_event => inflight.gap = 0) -> "followup"
    [] OTHER                                              -> "nothing"

\* Mutant of NextBackoff: no upper limit.
NextBackoffUnlimited == IF backoff = 0 THEN BackoffMin ELSE 2 * backoff

NextBackoff ==
  IF backoff = 0 THEN BackoffMin
  ELSE SmallerOf(LargerOf(2 * backoff, BackoffMin), BackoffMax)

\* send() raised OSError.
SendFails ==
  /\ Sending # "nothing"
  /\ faults < MaxFaults
  /\ faults' = faults + 1
  /\ IF Sending \in Kinds THEN NextSeq(Sending) ELSE UNCHANGED seq
  /\ Bump("tx_errors")
  /\ backoff' = NextBackoff
  /\ state' = "FAULT"
  /\ wake_at' = mono + NextBackoff
  /\ pc' = "backoff"
  /\ UNCHANGED <<sharedVars, stop_event, sched, gen, now_sec, inflight, clockVars, last>>

\* The backoff is over: both schedulers are advanced, due or not.
Realign ==
  /\ pc = "backoff" /\ ~stop_event
  /\ mono >= wake_at
  /\ now_sec' = real
  /\ sched' = [k \in Kinds |-> Advance(sched[k], real)]
  /\ pc' = "loop"
  /\ UNCHANGED <<sharedVars, state, stats, seq, stop_event, gen, backoff, inflight,
                 wake_at, clockVars, faults, last>>

-----------------------------------------------------------------------------
(***************************************************************************)
(* apply_runtime_update() in other threads, and stop().                    *)
(***************************************************************************)
Valid(c) ==
  /\ c.log_announce_interval \in LogRange.announce
  /\ c.log_sync_interval \in LogRange.sync
  /\ c.gap >= 0

Running == state # "INIT" /\ (EarlyUpdates \/ pc \notin {"setup", "setup_gen"})

\* Under the lock: copy the configuration with the patch applied.  It is
\* validated without the lock; an invalid one is refused.
UpdateRead(u, patch) ==
  /\ Running
  /\ updater[u].pc = "idle"
  /\ updater' = [updater EXCEPT ![u] =
                   [pc |-> IF Valid(Patched(cfg, patch)) THEN "store" ELSE "refused",
                    cfg |-> Patched(cfg, patch), at |-> 0]]
  /\ UNCHANGED <<cfg, interval_gen, state, stats, seq, stop_event, pc, txVars, clockVars,
                 faults, last>>

\* Under the lock again, which the TX thread does not take: first the
\* configuration ...
UpdateStore(u) ==
  /\ updater[u].pc = "store"
  /\ \A v \in Updaters : updater[v].pc # "bump"
  /\ cfg' = updater[u].cfg
  /\ updater' = [updater EXCEPT ![u].pc = "bump"]
  /\ UNCHANGED <<interval_gen, state, stats, seq, stop_event, pc, txVars, clockVars,
                 faults, last>>

\* Mutant of UpdateBump: the generation stays.
UpdateWithoutBump(u) ==
  /\ updater[u].pc = "bump"
  /\ updater' = [updater EXCEPT ![u].pc = "applied", ![u].at = mono]
  /\ UNCHANGED <<cfg, interval_gen, state, stats, seq, stop_event, pc, txVars, clockVars,
                 faults, last>>

\* ... then its generation.
UpdateBump(u) ==
  /\ updater[u].pc = "bump"
  /\ interval_gen' = interval_gen + 1
  /\ updater' = [updater EXCEPT ![u].pc = "applied", ![u].at = mono]
  /\ UNCHANGED <<cfg, state, stats, seq, stop_event, pc, txVars, clockVars, faults, last>>

Stop ==
  /\ state # "INIT" /\ ~stop_event
  /\ stop_event' = TRUE
  /\ UNCHANGED <<sharedVars, state, stats, seq, pc, txVars, clockVars, faults, last>>

-----------------------------------------------------------------------------
(***************************************************************************)
(* Time.  It passes only while the thread sleeps, and not beyond the       *)
(* latest moment the thread can be woken.  "mono" starts with the thread,  *)
(* at any position of "real" within a Sync interval.                       *)
(***************************************************************************)
Asleep == pc \in {"wait", "gap", "backoff", "done"}

Tick ==
  /\ mono < MaxTime
  /\ Asleep
  /\ pc \in {"wait", "gap", "backoff"} => ~stop_event /\ mono < wake_at + MaxLate
  /\ mono' = mono + 1
  /\ real' = real + 1
  /\ UNCHANGED <<sharedVars, state, stats, seq, stop_event, pc, txVars, faults, jumps, last>>

\* Somebody sets the wall clock.
SetClock(by) ==
  /\ jumps < MaxJumps
  /\ real + by >= 0
  /\ jumps' = jumps + 1
  /\ real' = real + by
  /\ UNCHANGED <<sharedVars, state, stats, seq, stop_event, pc, txVars, mono, faults, last>>

-----------------------------------------------------------------------------
NoFrame == [seq |-> 0, deadline |-> -1]

Init ==
  /\ cfg = InitialConfig
  /\ interval_gen = 0
  /\ updater = [u \in Updaters |-> [pc |-> "idle", cfg |-> InitialConfig, at |-> 0]]
  /\ state = "INIT"
  /\ stats = [c \in Counters |-> 0]
  /\ seq = [k \in Kinds |-> 0]
  /\ stop_event = FALSE
  /\ pc = "init"
  /\ \E start \in 0 .. IntervalTicks(InitialConfig.log_sync_interval) - 1 :
       /\ real = start
       /\ sched = Schedules(InitialConfig, start)
  /\ gen = 0
  /\ backoff = 0
  /\ now_sec = 0
  /\ inflight = [seq |-> 0, gap |-> 0]
  /\ wake_at = 0
  /\ mono = 0
  /\ faults = 0
  /\ jumps = 0
  /\ last = [f \in Frames |-> NoFrame]

TxStep ==
  \/ ReadConfig
  \/ ReadGeneration
  \/ SeeStop
  \/ SeeUpdate
  \/ Rebuild
  \/ Sleep
  \/ Wake
  \/ AnnounceNotDue
  \/ SendAnnounce
  \/ SyncNotDue
  \/ SendSync
  \/ GiveUpFollowUp
  \/ SendFollowUp
  \/ Recover
  \/ SendFails
  \/ Realign

Next ==
  \/ Start
  \/ TxStep
  \/ \E u \in Updaters, patch \in Patches : UpdateRead(u, patch)
  \/ \E u \in Updaters : UpdateStore(u) \/ UpdateBump(u)
  \/ Stop
  \/ Tick
  \/ \E by \in Jumps : SetClock(by)

Spec == Init /\ [][Next]_vars

-----------------------------------------------------------------------------
(***************************************************************************)
(* Properties                                                              *)
(***************************************************************************)
Places == {"init", "setup", "setup_gen", "loop", "rebuild", "wait", "announce", "sync",
           "gap", "recover", "backoff", "done"}

\* Every variable has its type; the backoff stays within its limits.
TypeOK ==
  /\ cfg \in Config
  /\ interval_gen \in Nat
  /\ updater \in [Updaters -> [pc: {"idle", "store", "bump", "applied", "refused"},
                               cfg: Config, at: Nat]]
  /\ state \in States
  /\ stats \in [Counters -> Nat]
  /\ seq \in [Kinds -> 0 .. SeqMod - 1]
  /\ stop_event \in BOOLEAN
  /\ pc \in Places
  /\ sched \in [Kinds -> Scheduler]
  /\ gen \in Nat
  /\ backoff \in {0} \cup BackoffMin .. BackoffMax
  /\ now_sec \in Int /\ real \in Int
  /\ inflight \in [seq: 0 .. SeqMod - 1, gap: Nat]
  /\ wake_at \in Nat /\ mono \in Nat /\ faults \in Nat /\ jumps \in Nat
  /\ last \in [Frames -> [seq: 0 .. SeqMod - 1, deadline: Int]]

\* Deadlines stay on absolute boundaries, multiples of the interval since the
\* epoch, through late wake-ups, faults, updates and clock steps: no schedule
\* drifts by the time it takes to send.
Aligned == \A k \in Kinds : sched[k].deadline % sched[k].interval = 0

Undisturbed == faults = 0 /\ jumps = 0 /\ interval_gen = 0

\* No boundary is served twice: whatever fails, is late or is reconfigured,
\* frames of one kind are sent for later and later boundaries, never before
\* the boundary (as long as nobody sets the clock).
BoundariesServedOnce ==
  [][\A k \in Kinds : last'[k] # last[k] /\ jumps = 0 =>
        /\ last'[k].deadline > last[k].deadline
        /\ last'[k].deadline <= real]_vars

\* As long as nothing fails and nothing is changed no boundary is missed
\* either, even though the thread is woken late, sends two kinds of frames
\* one after the other and sleeps between Sync and Follow_Up.
EveryBoundaryServed ==
  [][\A k \in Kinds : last'[k] # last[k] /\ last[k].deadline >= 0 /\ Undisturbed =>
        last'[k].deadline = last[k].deadline + sched[k].interval]_vars

\* A Follow_Up repeats the number of the Sync just sent, and each Sync has at
\* most one, through wrap-around, failed sends, updates of two_step and stop().
FollowUpPaired ==
  [][last'["followup"] # last["followup"] =>
        /\ last'["followup"].seq = last["sync"].seq
        /\ last'["followup"].deadline = last["sync"].deadline
        /\ last["followup"].deadline # last["sync"].deadline \/ jumps > 0]_vars

\* The schedules are those of the configuration in force.
ScheduleCurrent ==
  \A k \in Kinds : sched[k].interval = Interval(cfg, k)

\* The time the loop may take to come round to its head: a wait, the gap of a pair
\* and, when its Follow_Up fails, a backoff, each of them overslept.
Round == WaitCap + InitialConfig.gap + BackoffMax + 3 * MaxLate

\* The last of the updates was made a round ago, and none is half made.
Quiet ==
  \A u \in Updaters : /\ updater[u].pc # "bump"
                      /\ updater[u].pc = "applied" => mono > updater[u].at + Round

\* The loop takes note of an update within a round, whatever fails meanwhile and
\* wherever it is when the update comes, unless the master is stopped.  (An update
\* that comes before the thread has set up can be missed for good.)
UpdateTakesEffect == Quiet => ScheduleCurrent \/ stop_event

=============================================================================
