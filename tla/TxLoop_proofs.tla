---------------------------- MODULE TxLoop_proofs ---------------------------
(***************************************************************************)
(* Theorems about the transmit loop, for every configuration, every set of *)
(* updates, every lateness and any number of faults and clock steps.       *)
(***************************************************************************)
EXTENDS TxLoop, TLAPS

(***************************************************************************)
(* The scheduler: what next_boundary() and advance() guarantee, for every  *)
(* interval and every reading of the clock, however late.                  *)
(***************************************************************************)

LEMMA DivisionFacts ==
  ASSUME NEW n \in Int, NEW i \in Nat \ {0}
  PROVE  /\ n \div i \in Int
         /\ (n \div i) * i <= n
         /\ n < (n \div i + 1) * i
OBVIOUS

LEMMA MultipleFacts ==
  ASSUME NEW q \in Int, NEW i \in Nat \ {0}
  PROVE  (q * i) % i = 0
OBVIOUS

\* next_boundary() is a multiple of the interval, strictly after the instant
\* and not more than one interval after it.
THEOREM BoundaryFacts ==
  ASSUME NEW at \in Int, NEW i \in Nat \ {0}
  PROVE  /\ NextBoundary(at, i) \in Int
         /\ at < NextBoundary(at, i)
         /\ NextBoundary(at, i) <= at + i
         /\ NextBoundary(at, i) % i = 0
<1> DEFINE q == at \div i
<1>1. q \in Int /\ q * i <= at /\ at < (q + 1) * i
  BY DivisionFacts
<1>2. (q + 1) * i = q * i + i
  BY <1>1
<1>3. ((q + 1) * i) % i = 0
  <2>1. q + 1 \in Int
    BY <1>1
  <2> QED  BY <2>1, MultipleFacts
<1>4. NextBoundary(at, i) = (q + 1) * i
  BY DEF NextBoundary
<1> HIDE DEF q
<1> QED  BY <1>1, <1>2, <1>3, <1>4

\* An aligned deadline is a number of intervals.
LEMMA AlignedIsMultiple ==
  ASSUME NEW d \in Int, NEW i \in Nat \ {0}, d % i = 0
  PROVE  d = (d \div i) * i
OBVIOUS

LEMMA NextMultiple ==
  ASSUME NEW d \in Int, NEW i \in Nat \ {0}, d % i = 0
  PROVE  (d + i) % i = 0
<1> DEFINE q == d \div i
<1>1. q \in Int /\ d = q * i
  BY AlignedIsMultiple, DivisionFacts
<1> HIDE DEF q
<1>2. d + i = (q + 1) * i
  BY <1>1
<1>3. q + 1 \in Int
  BY <1>1
<1>4. ((q + 1) * i) % i = 0
  BY <1>3, MultipleFacts
<1> QED  BY <1>2, <1>4

\* advance() always moves the deadline on, past the present moment, and keeps
\* it on a boundary: a schedule neither stalls nor fires twice nor drifts,
\* whichever of its three branches is taken.
THEOREM AdvanceFacts ==
  ASSUME NEW s \in Scheduler, NEW at \in Int
  PROVE  /\ Advance(s, at) \in Scheduler
         /\ Advance(s, at).interval = s.interval
         /\ Advance(s, at).deadline > s.deadline
         /\ Advance(s, at).deadline > at
         /\ s.deadline % s.interval = 0 => Advance(s, at).deadline % s.interval = 0
<1> DEFINE nb == NextBoundary(at, s.interval)
<1>1. s.interval \in Nat \ {0} /\ s.deadline \in Int /\ s.skipped \in Nat
  BY DEF Scheduler
<1>2. nb \in Int /\ at < nb /\ nb % s.interval = 0
  BY <1>1, BoundaryFacts
<1> HIDE DEF nb
<1>3. CASE Late(s, at)
  <2>1. Advance(s, at) = [s EXCEPT !.skipped = s.skipped + 1, !.deadline = nb]
    BY <1>3 DEF Advance, nb
  <2>2. at > s.deadline
    BY <1>1, <1>3 DEF Late
  <2>3. Advance(s, at) \in Scheduler
    <3>1. nb \in Int /\ s.skipped + 1 \in Nat
      BY <1>1, <1>2
    <3> QED  BY <2>1, <3>1 DEF Scheduler
  <2>4. Advance(s, at).interval = s.interval /\ Advance(s, at).deadline = nb
    BY <2>1 DEF Scheduler
  <2> QED  BY <1>1, <1>2, <2>2, <2>3, <2>4
<1>4. CASE ~Late(s, at) /\ s.deadline + s.interval <= at
  <2>1. Advance(s, at) = [s EXCEPT !.deadline = nb]
    BY <1>4 DEF Advance, nb
  <2> QED  BY <1>1, <1>2, <1>4, <2>1 DEF Scheduler
<1>5. CASE ~Late(s, at) /\ ~(s.deadline + s.interval <= at)
  <2>1. Advance(s, at) = [s EXCEPT !.deadline = @ + s.interval]
    BY <1>5 DEF Advance
  <2>2. s.deadline % s.interval = 0 => (s.deadline + s.interval) % s.interval = 0
    BY <1>1, NextMultiple
  <2> QED  BY <1>1, <1>5, <2>1, <2>2 DEF Scheduler
<1> QED  BY <1>3, <1>4, <1>5

\* On an aligned deadline that is due, advance() is next_boundary(): a late
\* wake-up is forgotten at once, and the branch that catches up when the next
\* deadline has passed as well is never taken (twice half an interval late is
\* already more than half an interval late).
THEOREM AdvanceOfDue ==
  ASSUME NEW s \in Scheduler, NEW at \in Int,
         s.deadline % s.interval = 0, Due(s, at)
  PROVE  /\ Advance(s, at).deadline = NextBoundary(at, s.interval)
         /\ ~Late(s, at) => s.deadline + s.interval > at
<1> DEFINE i == s.interval
           d == s.deadline
           q == d \div i
<1>1. i \in Nat \ {0} /\ d \in Int /\ s.skipped \in Nat
  BY DEF Scheduler
<1>2. q \in Int /\ d = q * i
  BY <1>1, AlignedIsMultiple, DivisionFacts
<1>3. d <= at
  BY DEF Due
<1>4. ~Late(s, at) => 2 * (at - d) <= i
  BY <1>1 DEF Late
<1>5. ASSUME ~Late(s, at)
      PROVE  d + i > at
  BY <1>1, <1>3, <1>4, <1>5
<1>6. CASE Late(s, at)
  BY <1>5, <1>6 DEF Advance, Scheduler
<1>7. CASE ~Late(s, at)
  <2>1. Advance(s, at) = [s EXCEPT !.deadline = @ + s.interval]
    BY <1>1, <1>5, <1>7 DEF Advance
  <2>2. Advance(s, at).deadline = d + i
    BY <1>1, <2>1 DEF Scheduler
  <2>3. at \div i = q
    <3> HIDE DEF i, d, q
    <3>1. q * i <= at /\ at < (q + 1) * i
      BY <1>1, <1>2, <1>3, <1>5, <1>7
    <3> QED  BY <1>1, <1>2, <3>1
  <2>4. NextBoundary(at, i) = (q + 1) * i
    BY <2>3 DEF NextBoundary
  <2>5. (q + 1) * i = q * i + i
    BY <1>1, <1>2
  <2> QED  BY <1>2, <1>5, <1>7, <2>2, <2>4, <2>5
<1> QED  BY <1>6, <1>7

(***************************************************************************)
(* The transmit loop.                                                      *)
(***************************************************************************)

LEMMA PatchedType ==
  ASSUME NEW c \in Config, NEW patch \in Patches
  PROVE  Patched(c, patch) \in Config
<1>1. Patched(InitialConfig, patch) \in Config /\ InitialConfig \in Config
  BY TxAssumption
<1>2. DOMAIN c = DOMAIN InitialConfig
  BY <1>1 DEF Config
<1> QED  BY <1>1, <1>2 DEF Patched, Config

\* In force are only configurations that were validated: their intervals are
\* whole numbers of ticks.
LEMMA IntervalType ==
  ASSUME NEW c, Valid(c), NEW k \in Kinds
  PROVE  Interval(c, k) \in Nat \ {0}
BY TxAssumption DEF Valid, Interval, Kinds

LEMMA ScheduleFacts ==
  ASSUME NEW c, Valid(c), NEW at \in Int
  PROVE  /\ Schedules(c, at) \in [Kinds -> Scheduler]
         /\ \A k \in Kinds : /\ Schedules(c, at)[k].deadline > at
                             /\ Schedules(c, at)[k].deadline % Schedules(c, at)[k].interval = 0
<1> SUFFICES ASSUME NEW k \in Kinds
             PROVE  /\ Schedules(c, at)[k] \in Scheduler
                    /\ Schedules(c, at)[k].deadline > at
                    /\ Schedules(c, at)[k].deadline % Schedules(c, at)[k].interval = 0
  BY DEF Schedules
<1> DEFINE i == Interval(c, k)
           nb == NextBoundary(at, i)
<1>1. Schedules(c, at)[k] = [interval |-> i, deadline |-> nb, skipped |-> 0]
  BY DEF Schedules, NewScheduler
<1>2. i \in Nat \ {0}
  BY IntervalType
<1>3. nb \in Int /\ nb > at /\ nb % i = 0
  BY <1>2, BoundaryFacts
<1> HIDE DEF i, nb
<1>4. nb \in Int
  BY <1>3
<1>5. Schedules(c, at)[k] \in Scheduler
  BY <1>1, <1>2, <1>4 DEF Scheduler
<1> QED  BY <1>1, <1>3, <1>5

LEMMA NapType ==
  ASSUME NEW s \in [Kinds -> Scheduler], NEW at \in Int
  PROVE  Nap(s, at) \in Nat
<1>1. s["announce"].deadline \in Int /\ s["sync"].deadline \in Int
  BY DEF Kinds, Scheduler
<1> QED  BY <1>1, TxAssumption DEF Nap, SmallerOf, WaitTimeout

LEMMA AdvancedType ==
  ASSUME TypeOK, NEW k \in Kinds, NEW at \in Int
  PROVE  Advance(sched[k], at) \in Scheduler
BY AdvanceFacts DEF TypeOK

LEMMA BackoffType ==
  ASSUME TypeOK
  PROVE  NextBackoff \in BackoffMin .. BackoffMax
BY TxAssumption DEF TypeOK, NextBackoff, SmallerOf, LargerOf

LEMMA NextSeqType ==
  ASSUME TypeOK, NEW k \in Kinds, NextSeq(k)
  PROVE  seq' \in [Kinds -> 0 .. SeqMod - 1]
<1>1. \A n \in 0 .. SeqMod - 1 : (n + 1) % SeqMod \in 0 .. SeqMod - 1
  BY TxAssumption
<1> QED  BY <1>1 DEF TypeOK, NextSeq

LEMMA BumpType ==
  ASSUME TypeOK, NEW c \in Counters, Bump(c)
  PROVE  stats' \in [Counters -> Nat]
BY DEF TypeOK, Bump

-----------------------------------------------------------------------------
(***************************************************************************)
(* Types.  The configurations that can come into force are valid: this is  *)
(* what makes the intervals, and so the schedules, well-defined.           *)
(***************************************************************************)
ConfigsValid ==
  /\ Valid(cfg)
  /\ \A u \in Updaters : updater[u].pc = "store" => Valid(updater[u].cfg)

LEMMA InitSound == Init => TypeOK /\ ConfigsValid /\ Aligned
<1> SUFFICES ASSUME Init PROVE TypeOK /\ ConfigsValid /\ Aligned
  OBVIOUS
<1>1. Valid(InitialConfig) /\ InitialConfig \in Config
  BY TxAssumption DEF Valid
<1>2. real \in Int
  <2>1. IntervalTicks(InitialConfig.log_sync_interval) \in Nat
    BY TxAssumption
  <2> QED  BY <2>1 DEF Init
<1>3. sched = Schedules(InitialConfig, real)
  BY DEF Init
<1>4. sched \in [Kinds -> Scheduler] /\ Aligned
  BY <1>1, <1>2, <1>3, ScheduleFacts DEF Aligned
<1>5. stats \in [Counters -> Nat] /\ seq \in [Kinds -> 0 .. SeqMod - 1]
  BY TxAssumption DEF Init
<1>6. updater \in [Updaters -> [pc: {"idle", "store", "bump", "applied", "refused"},
                                cfg: Config, at: Nat]]
  BY <1>1 DEF Init
<1>7. last \in [Frames -> [seq: 0 .. SeqMod - 1, deadline: Int]]
  <2>1. NoFrame \in [seq: 0 .. SeqMod - 1, deadline: Int]
    <3>1. 0 \in 0 .. SeqMod - 1
      BY TxAssumption
    <3> QED  BY <3>1 DEF NoFrame
  <2> QED  BY <2>1 DEF Init
<1>8. inflight \in [seq: 0 .. SeqMod - 1, gap: Nat]
  BY TxAssumption DEF Init
<1>9. state \in States /\ pc \in Places /\ cfg \in Config
  BY <1>1 DEF Init, States, Places
<1>13. stop_event \in BOOLEAN
  BY DEF Init
<1>10. interval_gen \in Nat /\ gen \in Nat /\ now_sec \in Int
  BY DEF Init
<1>11. wake_at \in Nat /\ mono \in Nat /\ faults \in Nat /\ jumps \in Nat /\ backoff = 0
  BY DEF Init
<1>12. TypeOK
  BY <1>2, <1>4, <1>5, <1>6, <1>7, <1>8, <1>9, <1>10, <1>11, <1>13 DEF TypeOK
<1> QED  BY <1>1, <1>4, <1>12 DEF Init, ConfigsValid

LEMMA ConfigsStayValid ==
  TypeOK /\ ConfigsValid /\ [Next]_vars => ConfigsValid'
<1> SUFFICES ASSUME TypeOK, ConfigsValid, [Next]_vars
             PROVE  ConfigsValid'
  OBVIOUS
<1>1. ASSUME NEW u \in Updaters, NEW patch \in Patches, UpdateRead(u, patch)
      PROVE  ConfigsValid'
  BY <1>1 DEF UpdateRead, ConfigsValid, TypeOK, Valid
<1>2. ASSUME NEW u \in Updaters, UpdateStore(u)
      PROVE  ConfigsValid'
  BY <1>2 DEF UpdateStore, ConfigsValid, TypeOK, Valid
<1>3. ASSUME NEW u \in Updaters, UpdateBump(u)
      PROVE  ConfigsValid'
  BY <1>3 DEF UpdateBump, ConfigsValid, TypeOK, Valid
<1>4. CASE UNCHANGED <<cfg, updater>>
  BY <1>4 DEF ConfigsValid, Valid
<1> QED  BY <1>1, <1>2, <1>3, <1>4
  DEF Next, TxStep, Start, ReadConfig, ReadGeneration, SeeStop, Exit, SeeUpdate, Rebuild,
      Sleep, Wake, AnnounceNotDue, SendAnnounce, SyncNotDue, SendSync, GiveUpFollowUp,
      SendFollowUp, Recover, SendFails, Realign, Stop, Tick, SetClock, sharedVars, vars

LEMMA TypesStay ==
  TypeOK /\ ConfigsValid /\ [Next]_vars => TypeOK'
<1> SUFFICES ASSUME TypeOK, ConfigsValid, [Next]_vars
             PROVE  TypeOK'
  OBVIOUS
<1>1. CASE Start
  BY <1>1 DEF Start, TypeOK, States, Places, sharedVars, txVars, clockVars
<1>2. CASE ReadGeneration
  BY <1>2 DEF ReadGeneration, TypeOK, States, Places, sharedVars, txVars, clockVars
<1>3. CASE SeeStop
  BY <1>3 DEF SeeStop, TypeOK, States, Places, sharedVars, txVars, clockVars, Exit
<1>4. CASE SeeUpdate
  BY <1>4 DEF SeeUpdate, TypeOK, States, Places, sharedVars, txVars, clockVars
<1>5. CASE Wake
  BY <1>5 DEF Wake, TypeOK, States, Places, sharedVars, txVars, clockVars
<1>6. CASE AnnounceNotDue
  BY <1>6 DEF AnnounceNotDue, TypeOK, States, Places, sharedVars, txVars, clockVars
<1>7. CASE SyncNotDue
  BY <1>7 DEF SyncNotDue, TypeOK, States, Places, sharedVars, txVars, clockVars
<1>8. CASE Recover
  BY <1>8 DEF Recover, TypeOK, States, Places, sharedVars, txVars, clockVars
<1>9. CASE Stop
  BY <1>9 DEF Stop, TypeOK, States, Places, sharedVars, txVars, clockVars
<1>10. CASE Tick
  BY <1>10 DEF Tick, TypeOK, States, Places, sharedVars, txVars, clockVars
<1>11. CASE ReadConfig
  <2>1. sched' \in [Kinds -> Scheduler]
    BY <1>11, ScheduleFacts DEF ReadConfig, ConfigsValid, TypeOK
  <2> QED  BY <1>11, <2>1 DEF ReadConfig, TypeOK, States, Places, sharedVars, txVars, clockVars
<1>12. CASE Rebuild
  <2>1. sched' \in [Kinds -> Scheduler]
    BY <1>12, ScheduleFacts DEF Rebuild, ConfigsValid, TypeOK
  <2>2. wake_at' \in Nat
    <3>1. Nap(sched', real) \in Nat
      BY <2>1, NapType DEF TypeOK
    <3> QED  BY <1>12, <3>1 DEF Rebuild, TypeOK
  <2> QED  BY <1>12, <2>1, <2>2 DEF Rebuild, TypeOK, States, Places, sharedVars, txVars, clockVars
<1>13. CASE Sleep
  <2>1. wake_at' \in Nat
    <3>1. Nap(sched, real) \in Nat
      BY NapType DEF TypeOK
    <3> QED  BY <1>13, <3>1 DEF Sleep, TypeOK
  <2> QED  BY <1>13, <2>1 DEF Sleep, TypeOK, States, Places, sharedVars, txVars, clockVars
<1>14. CASE SendAnnounce
  <2>1. seq' \in [Kinds -> 0 .. SeqMod - 1]
    BY <1>14, NextSeqType DEF SendAnnounce, Kinds
  <2>2. stats' \in [Counters -> Nat]
    BY <1>14, BumpType DEF SendAnnounce, Counters
  <2>3. last' \in [Frames -> [seq: 0 .. SeqMod - 1, deadline: Int]]
    BY <1>14 DEF SendAnnounce, Transmit, TypeOK, Config, Scheduler, Kinds
  <2>4. sched' \in [Kinds -> Scheduler]
    BY <1>14, AdvancedType DEF SendAnnounce, Advanced, TypeOK, Kinds
  <2> QED  BY <1>14, <2>1, <2>2, <2>3, <2>4 DEF SendAnnounce, TypeOK, States, Places, sharedVars, txVars, clockVars
<1>15. CASE SendSync
  <2>1. seq' \in [Kinds -> 0 .. SeqMod - 1]
    BY <1>15, NextSeqType DEF SendSync, Kinds
  <2>2. stats' \in [Counters -> Nat]
    BY <1>15, BumpType DEF SendSync, Counters
  <2>3. last' \in [Frames -> [seq: 0 .. SeqMod - 1, deadline: Int]]
    BY <1>15 DEF SendSync, Transmit, TypeOK, Config, Scheduler, Kinds
  <2>4. sched' \in [Kinds -> Scheduler]
    BY <1>15, AdvancedType DEF SendSync, Advanced, TypeOK, Kinds
  <2>5. inflight' \in [seq: 0 .. SeqMod - 1, gap: Nat] /\ wake_at' \in Nat
    BY <1>15 DEF SendSync, TypeOK, Config, Kinds, ConfigsValid, Valid
  <2> QED  BY <1>15, <2>1, <2>2, <2>3, <2>4, <2>5 DEF SendSync, TypeOK, States, Places, sharedVars, txVars, clockVars
<1>16. CASE GiveUpFollowUp
  <2>1. sched' \in [Kinds -> Scheduler]
    BY <1>16, AdvancedType DEF GiveUpFollowUp, Advanced, TypeOK, Kinds
  <2> QED  BY <1>16, <2>1 DEF GiveUpFollowUp, TypeOK, States, Places, sharedVars, txVars, clockVars
<1>17. CASE SendFollowUp
  <2>1. stats' \in [Counters -> Nat]
    BY <1>17, BumpType DEF SendFollowUp, Counters
  <2>2. last' \in [Frames -> [seq: 0 .. SeqMod - 1, deadline: Int]]
    BY <1>17 DEF SendFollowUp, Transmit, TypeOK, Config, Scheduler, Kinds
  <2>3. sched' \in [Kinds -> Scheduler]
    BY <1>17, AdvancedType DEF SendFollowUp, Advanced, TypeOK, Kinds
  <2> QED  BY <1>17, <2>1, <2>2, <2>3 DEF SendFollowUp, TypeOK, States, Places, sharedVars, txVars, clockVars
<1>18. CASE SendFails
  <2>1. seq' \in [Kinds -> 0 .. SeqMod - 1]
    BY <1>18, NextSeqType DEF SendFails, TypeOK
  <2>2. stats' \in [Counters -> Nat]
    BY <1>18, BumpType DEF SendFails, Counters
  <2>3. backoff' \in BackoffMin .. BackoffMax /\ wake_at' \in Nat
    <3>1. NextBackoff \in BackoffMin .. BackoffMax /\ NextBackoff \in Nat
      BY BackoffType, TxAssumption
    <3> QED  BY <1>18, <3>1 DEF SendFails, TypeOK
  <2> QED  BY <1>18, <2>1, <2>2, <2>3 DEF SendFails, TypeOK, States, Places, sharedVars, txVars, clockVars
<1>19. CASE Realign
  <2>1. sched' \in [Kinds -> Scheduler]
    BY <1>19, AdvancedType DEF Realign, TypeOK, Kinds
  <2> QED  BY <1>19, <2>1 DEF Realign, TypeOK, States, Places, sharedVars, txVars, clockVars
<1>20. ASSUME NEW u \in Updaters, NEW patch \in Patches, UpdateRead(u, patch)
      PROVE  TypeOK'
  <2>1. updater' \in [Updaters -> [pc: {"idle", "store", "bump", "applied", "refused"},
                                     cfg: Config, at: Nat]]
    BY <1>20, PatchedType DEF UpdateRead, TypeOK
  <2> QED  BY <1>20, <2>1 DEF UpdateRead, TypeOK, States, Places, sharedVars, txVars, clockVars
<1>21. ASSUME NEW u \in Updaters, UpdateStore(u)
      PROVE  TypeOK'
  <2>1. updater' \in [Updaters -> [pc: {"idle", "store", "bump", "applied", "refused"},
                                     cfg: Config, at: Nat]]
    BY <1>21 DEF UpdateStore, TypeOK
  <2> QED  BY <1>21, <2>1 DEF UpdateStore, TypeOK, States, Places, sharedVars, txVars, clockVars
<1>22. ASSUME NEW u \in Updaters, UpdateBump(u)
      PROVE  TypeOK'
  <2>1. updater' \in [Updaters -> [pc: {"idle", "store", "bump", "applied", "refused"},
                                     cfg: Config, at: Nat]]
    BY <1>22 DEF UpdateBump, TypeOK
  <2> QED  BY <1>22, <2>1 DEF UpdateBump, TypeOK, States, Places, sharedVars, txVars, clockVars
<1>23. ASSUME NEW by \in Jumps, SetClock(by)
      PROVE  TypeOK'
  <2>1. real' \in Int /\ jumps' \in Nat
    BY <1>23, TxAssumption DEF SetClock, TypeOK
  <2> QED  BY <1>23, <2>1 DEF SetClock, TypeOK, sharedVars, txVars
<1>24. CASE UNCHANGED vars
  BY <1>24 DEF vars, TypeOK
<1> QED  BY <1>1, <1>2, <1>3, <1>4, <1>5, <1>6, <1>7, <1>8, <1>9, <1>10, <1>11, <1>12, <1>13, <1>14, <1>15, <1>16, <1>17, <1>18, <1>19, <1>20, <1>21, <1>22, <1>23, <1>24 DEF Next, TxStep

\* Every variable of the transmit loop keeps its type.
THEOREM TypeCorrect == Spec => []TypeOK
<1>1. TypeOK /\ ConfigsValid /\ [Next]_vars => (TypeOK /\ ConfigsValid)'
  BY TypesStay, ConfigsStayValid
<1> QED  BY <1>1, InitSound, PTL DEF Spec

-----------------------------------------------------------------------------
(***************************************************************************)
(* Alignment.  Every schedule comes from Schedules or from Advance.        *)
(***************************************************************************)
LEMMA AdvancedAligned ==
  ASSUME TypeOK, Aligned, NEW k \in Kinds, NEW at \in Int
  PROVE  Advance(sched[k], at).deadline % Advance(sched[k], at).interval = 0
<1>1. sched[k] \in Scheduler /\ sched[k].deadline % sched[k].interval = 0
  BY DEF TypeOK, Aligned
<1> QED  BY <1>1, AdvanceFacts

LEMMA AlignedStays ==
  TypeOK /\ ConfigsValid /\ Aligned /\ [Next]_vars => Aligned'
<1> SUFFICES ASSUME TypeOK, ConfigsValid, Aligned, [Next]_vars, NEW k \in Kinds
             PROVE  sched'[k].deadline % sched'[k].interval = 0
  BY DEF Aligned
<1>1. CASE UNCHANGED sched
  BY <1>1 DEF Aligned
<1>2. CASE sched' = Schedules(cfg, real)
  BY <1>2, ScheduleFacts DEF TypeOK, ConfigsValid
<1>3. ASSUME NEW j \in Kinds, Advanced(j)
      PROVE  sched'[k].deadline % sched'[k].interval = 0
  <2>1. sched'[k] = IF k = j THEN Advance(sched[k], now_sec) ELSE sched[k]
    BY <1>3 DEF Advanced, TypeOK
  <2>2. CASE k = j
    <3>1. sched'[k] = Advance(sched[k], now_sec) /\ now_sec \in Int
      BY <2>1, <2>2 DEF TypeOK
    <3> QED  BY <3>1, AdvancedAligned
  <2>3. CASE k # j
    BY <2>1, <2>3 DEF Aligned
  <2> QED  BY <2>2, <2>3
<1>4. CASE Realign
  <2>1. sched'[k] = Advance(sched[k], real) /\ real \in Int
    BY <1>4 DEF Realign, TypeOK
  <2> QED  BY <2>1, AdvancedAligned
<1>5. "announce" \in Kinds /\ "sync" \in Kinds
  BY DEF Kinds
<1> QED  BY <1>1, <1>2, <1>3, <1>4, <1>5
  DEF Next, TxStep, Start, ReadConfig, ReadGeneration, SeeStop, Exit, SeeUpdate, Rebuild,
      Sleep, Wake, AnnounceNotDue, SendAnnounce, SyncNotDue, SendSync, GiveUpFollowUp,
      SendFollowUp, Recover, SendFails, UpdateRead, UpdateStore, UpdateBump, Stop, Tick,
      SetClock, txVars, vars

\* Deadlines stay on absolute boundaries for ever: no schedule drifts.
THEOREM AlwaysAligned == Spec => []Aligned
<1>1. /\ TypeOK /\ ConfigsValid /\ Aligned /\ [Next]_vars
      => (TypeOK /\ ConfigsValid /\ Aligned)'
  BY TypesStay, ConfigsStayValid, AlignedStays
<1> QED  BY <1>1, InitSound, PTL DEF Spec

-----------------------------------------------------------------------------
(***************************************************************************)
(* No boundary is served twice.  As long as the clock is not set, the last *)
(* boundary served lies before the deadline, except between a Sync and the *)
(* step that advances its schedule.                                        *)
(***************************************************************************)
LastServed(k) ==
  /\ last[k].deadline <= real
  /\ \/ last[k].deadline < sched[k].deadline
     \/ /\ k = "sync" /\ pc \in {"gap", "backoff", "done"}
        /\ last[k].deadline = sched[k].deadline

ServedInOrder ==
  jumps = 0 => now_sec <= real /\ \A k \in Kinds : LastServed(k)

LEMMA InitServed == Init => ServedInOrder
<1> SUFFICES ASSUME Init PROVE ServedInOrder
  OBVIOUS
<1>1. IntervalTicks(InitialConfig.log_sync_interval) \in Nat
  BY TxAssumption
<1>2. real \in Int /\ real >= 0
  BY <1>1 DEF Init
<1>3. Valid(InitialConfig)
  BY TxAssumption DEF Valid
<1>4. \A k \in Kinds : sched[k].deadline > real /\ sched[k].deadline \in Int
  BY <1>2, <1>3, ScheduleFacts DEF Init, Scheduler
<1>5. \A k \in Kinds : last[k].deadline = -1
  BY DEF Init, Kinds, Frames, NoFrame
<1> QED  BY <1>2, <1>4, <1>5 DEF Init, ServedInOrder, LastServed

LEMMA ServedStays ==
  TypeOK /\ ConfigsValid /\ ServedInOrder /\ [Next]_vars => ServedInOrder'
<1> SUFFICES ASSUME TypeOK, ConfigsValid, ServedInOrder, [Next]_vars, jumps' = 0
             PROVE  now_sec' <= real' /\ \A k \in Kinds : LastServed(k)'
  BY DEF ServedInOrder
<1> USE DEF Kinds
<1>1. jumps = 0
  <2>1. CASE \E by \in Jumps : SetClock(by)
    BY <2>1 DEF SetClock, TypeOK
  <2>2. CASE TxStep
    BY <2>2 DEF TxStep, ReadConfig, ReadGeneration, SeeStop, Exit, SeeUpdate, Rebuild, Sleep,
        Wake, AnnounceNotDue, SendAnnounce, SyncNotDue, SendSync, GiveUpFollowUp,
        SendFollowUp, Recover, SendFails, Realign, clockVars
  <2>3. ASSUME NEW u \in Updaters, NEW patch \in Patches, UpdateRead(u, patch)
        PROVE  jumps = 0
    BY <2>3 DEF UpdateRead, clockVars
  <2>4. ASSUME NEW u \in Updaters, UpdateStore(u) \/ UpdateBump(u)
        PROVE  jumps = 0
    BY <2>4 DEF UpdateStore, UpdateBump, clockVars
  <2>5. CASE Start \/ Stop \/ Tick \/ UNCHANGED vars
    BY <2>5 DEF Start, Stop, Tick, clockVars, vars
  <2> QED  BY <2>1, <2>2, <2>3, <2>4, <2>5 DEF Next
<1>2. now_sec <= real /\ \A k \in Kinds : LastServed(k)
  BY <1>1 DEF ServedInOrder
<1>3. now_sec \in Int /\ real \in Int
  BY DEF TypeOK
<1>4. \A k \in Kinds : last[k].deadline \in Int /\ sched[k] \in Scheduler
  BY DEF TypeOK, Frames
<1>5. \A k \in Kinds : sched[k].deadline \in Int
  BY <1>4 DEF Scheduler
<1>6. \A k \in Kinds, at \in Int : /\ Advance(sched[k], at).deadline > sched[k].deadline
                                   /\ Advance(sched[k], at).deadline \in Int
  BY <1>4, AdvanceFacts DEF Scheduler
<1>7. CASE /\ UNCHANGED <<sched, last, now_sec, real>>
           /\ pc \in {"gap", "backoff", "done"} => pc' \in {"gap", "backoff", "done"}
  BY <1>2, <1>7 DEF LastServed
<1>8. CASE Tick
  BY <1>2, <1>3, <1>4, <1>5, <1>8 DEF Tick, txVars, LastServed
<1>9. CASE Wake
  BY <1>2, <1>3, <1>9 DEF Wake, clockVars, LastServed
<1>10. CASE /\ sched' = Schedules(cfg, real)
            /\ UNCHANGED <<last, now_sec, real>>
  <2>1. \A k \in Kinds : sched'[k].deadline > real /\ sched'[k].deadline \in Int
    BY <1>3, <1>10, ScheduleFacts DEF ConfigsValid, Scheduler
  <2> QED  BY <1>2, <1>3, <1>4, <1>10, <2>1 DEF LastServed
<1>11. CASE Realign
  <2>1. \A k \in Kinds : sched'[k] = Advance(sched[k], real)
    BY <1>11 DEF Realign
  <2> QED  BY <1>2, <1>3, <1>4, <1>5, <1>6, <1>11, <2>1 DEF Realign, clockVars, LastServed
<1>12. CASE SendAnnounce
  <2>1. sched' = [sched EXCEPT !["announce"] = Advance(sched["announce"], now_sec)]
    BY <1>12 DEF SendAnnounce, Advanced
  <2>2. sched'["announce"] = Advance(sched["announce"], now_sec) /\ sched'["sync"] = sched["sync"]
    BY <2>1 DEF TypeOK
  <2>3. /\ last'["announce"].deadline = sched["announce"].deadline
        /\ last'["sync"] = last["sync"]
    BY <1>12 DEF SendAnnounce, Transmit, TypeOK, Frames
  <2>4. sched["announce"].deadline <= now_sec
    BY <1>12, <1>3, <1>5 DEF SendAnnounce, Due
  <2>5. UNCHANGED <<real, now_sec>> /\ pc = "announce"
    BY <1>12 DEF SendAnnounce, clockVars
  <2> QED  BY <1>2, <1>3, <1>5, <1>6, <2>2, <2>3, <2>4, <2>5 DEF LastServed
<1>13. CASE SendSync
  <2>1. /\ last'["sync"].deadline = sched["sync"].deadline
        /\ last'["announce"] = last["announce"]
    BY <1>13 DEF SendSync, Transmit, TypeOK, Frames
  <2>2. sched["sync"].deadline <= now_sec
    BY <1>13, <1>3, <1>5 DEF SendSync, Due
  <2>3. UNCHANGED <<real, now_sec>> /\ pc = "sync"
    BY <1>13 DEF SendSync, clockVars
  <2>4. \/ sched' = sched /\ pc' = "gap"
        \/ sched' = [sched EXCEPT !["sync"] = Advance(sched["sync"], now_sec)]
    BY <1>13 DEF SendSync, Advanced
  <2>5. /\ sched'["announce"] = sched["announce"]
        /\ \/ sched'["sync"] = sched["sync"] /\ pc' = "gap"
           \/ sched'["sync"] = Advance(sched["sync"], now_sec)
    BY <2>4 DEF TypeOK
  <2> QED  BY <1>2, <1>3, <1>5, <1>6, <2>1, <2>2, <2>3, <2>5 DEF LastServed
<1>14. CASE GiveUpFollowUp \/ SendFollowUp
  <2>1. sched' = [sched EXCEPT !["sync"] = Advance(sched["sync"], now_sec)]
    BY <1>14 DEF GiveUpFollowUp, SendFollowUp, Advanced
  <2>2. sched'["sync"] = Advance(sched["sync"], now_sec) /\ sched'["announce"] = sched["announce"]
    BY <2>1 DEF TypeOK
  <2>3. \A k \in Kinds : last'[k] = last[k]
    BY <1>14 DEF GiveUpFollowUp, SendFollowUp, Transmit, TypeOK, Frames
  <2>4. UNCHANGED <<real, now_sec>>
    BY <1>14 DEF GiveUpFollowUp, SendFollowUp, clockVars
  <2> QED  BY <1>2, <1>3, <1>4, <1>5, <1>6, <2>2, <2>3, <2>4 DEF LastServed
<1>15. CASE \/ Start \/ ReadGeneration \/ SeeStop \/ SeeUpdate \/ Sleep \/ AnnounceNotDue
            \/ SyncNotDue \/ Recover \/ SendFails
  <2>1. UNCHANGED <<sched, last, now_sec, real>>
    BY <1>15 DEF Start, ReadGeneration, SeeStop, Exit, SeeUpdate, Sleep, AnnounceNotDue,
                 SyncNotDue, Recover, SendFails, txVars, clockVars
  <2>2. CASE SeeStop \/ SendFails
    BY <1>7, <2>1, <2>2 DEF SeeStop, Exit, SendFails
  <2>3. CASE Start \/ ReadGeneration \/ SeeUpdate \/ Sleep \/ AnnounceNotDue \/ SyncNotDue
             \/ Recover
    BY <1>7, <2>1, <2>3 DEF Start, ReadGeneration, SeeUpdate, Sleep, AnnounceNotDue,
                            SyncNotDue, Recover
  <2> QED  BY <1>15, <2>2, <2>3
<1>16. ASSUME \/ Stop
              \/ \E u \in Updaters, patch \in Patches : UpdateRead(u, patch)
              \/ \E u \in Updaters : UpdateStore(u) \/ UpdateBump(u)
       PROVE  UNCHANGED <<sched, last, now_sec, real, pc>>
  BY <1>16 DEF Stop, UpdateRead, UpdateStore, UpdateBump, txVars, clockVars
<1>17. CASE ReadConfig \/ Rebuild
  BY <1>10, <1>17 DEF ReadConfig, Rebuild, clockVars
<1>18. ~ \E by \in Jumps : SetClock(by)
  BY <1>1 DEF SetClock
<1>19. CASE UNCHANGED vars
  BY <1>7, <1>19 DEF vars
<1> QED  BY <1>7, <1>8, <1>9, <1>11, <1>12, <1>13, <1>14, <1>15, <1>16, <1>17, <1>18, <1>19
  DEF Next, TxStep

\* A boundary is served at most once and never before its time.
THEOREM ServedOnce == Spec => BoundariesServedOnce
<1> DEFINE Step == \A k \in Kinds : last'[k] # last[k] /\ jumps = 0 =>
                     /\ last'[k].deadline > last[k].deadline
                     /\ last'[k].deadline <= real
<1>1. TypeOK /\ ServedInOrder /\ [Next]_vars => [Step]_vars
  <2> SUFFICES ASSUME TypeOK, ServedInOrder, Next, NEW k \in Kinds,
                      last'[k] # last[k], jumps = 0
               PROVE  /\ last'[k].deadline > last[k].deadline
                      /\ last'[k].deadline <= real
    OBVIOUS
  <2>1. LastServed(k) /\ now_sec <= real
    BY DEF ServedInOrder
  <2>2. now_sec \in Int /\ real \in Int /\ last[k].deadline \in Int
    BY DEF TypeOK, Kinds, Frames
  <2>3. sched[k].deadline \in Int
    BY DEF TypeOK, Scheduler
  <2>4. CASE SendAnnounce
    <3>1. k = "announce" /\ last'[k].deadline = sched[k].deadline
      BY <2>4 DEF SendAnnounce, Transmit, TypeOK, Kinds, Frames
    <3>2. sched[k].deadline <= now_sec /\ pc = "announce"
      BY <2>2, <2>3, <2>4, <3>1 DEF SendAnnounce, Due
    <3> QED  BY <2>1, <2>2, <2>3, <3>1, <3>2 DEF LastServed
  <2>5. CASE SendSync
    <3>1. k = "sync" /\ last'[k].deadline = sched[k].deadline
      BY <2>5 DEF SendSync, Transmit, TypeOK, Kinds, Frames
    <3>2. sched[k].deadline <= now_sec /\ pc = "sync"
      BY <2>2, <2>3, <2>5, <3>1 DEF SendSync, Due
    <3> QED  BY <2>1, <2>2, <2>3, <3>1, <3>2 DEF LastServed
  <2>6. CASE SendFollowUp
    BY <2>6 DEF SendFollowUp, Transmit, TypeOK, Kinds, Frames
  <2> QED  BY <2>4, <2>5, <2>6
    DEF Next, TxStep, Start, ReadConfig, ReadGeneration, SeeStop, Exit, SeeUpdate, Rebuild,
        Sleep, Wake, AnnounceNotDue, SyncNotDue, GiveUpFollowUp, Recover, SendFails, Realign,
        UpdateRead, UpdateStore, UpdateBump, Stop, Tick, SetClock
<1>2. TypeOK /\ ConfigsValid /\ ServedInOrder /\ [Next]_vars
      => (TypeOK /\ ConfigsValid /\ ServedInOrder)'
  BY TypesStay, ConfigsStayValid, ServedStays
<1>3. Init => TypeOK /\ ConfigsValid /\ ServedInOrder
  BY InitSound, InitServed
<1> QED  BY <1>1, <1>2, <1>3, PTL DEF Spec, BoundariesServedOnce

-----------------------------------------------------------------------------
(***************************************************************************)
(* An update takes effect within a round, provided that none comes before  *)
(* the thread has set up and none asks for a longer gap than the first     *)
(* configuration.                                                          *)
(***************************************************************************)
Orderly ==
  /\ ~EarlyUpdates
  /\ \A patch \in Patches : Patched(InitialConfig, patch).gap <= InitialConfig.gap

SettingUp == pc \in {"init", "setup", "setup_gen"}

\* Until then nothing has been updated.
SetUpAlone ==
  /\ pc = "init" => state = "INIT"
  /\ SettingUp =>
       /\ cfg = InitialConfig /\ interval_gen = 0 /\ gen = 0
       /\ \A u \in Updaters : updater[u].pc \in {"idle", "refused"}
       /\ ScheduleCurrent

\* No configuration asks for a longer gap than the first one.
GapsBounded ==
  /\ cfg.gap <= InitialConfig.gap
  /\ \A u \in Updaters : updater[u].cfg.gap <= InitialConfig.gap

NothingHalfMade == \A u \in Updaters : updater[u].pc # "bump"

\* The thread that knows of the last update has the schedule for it, or is about to.
GenerationTold ==
  /\ gen <= interval_gen
  /\ pc = "rebuild" => interval_gen > 0
  /\ NothingHalfMade /\ gen = interval_gen /\ pc # "rebuild" => ScheduleCurrent

\* The latest moment the thread comes to the head of its loop.
PairAndFault == InitialConfig.gap + BackoffMax + 2 * MaxLate

BackBy ==
  CASE pc \in {"announce", "sync"} -> mono + PairAndFault
    [] pc = "wait"                 -> wake_at + MaxLate + PairAndFault
    [] pc = "gap"                  -> wake_at + BackoffMax + 2 * MaxLate
    [] pc = "backoff"              -> wake_at + MaxLate
    [] OTHER                       -> mono

LoopTimed ==
  /\ pc \in {"wait", "gap", "backoff"} => mono <= wake_at + MaxLate
  /\ pc = "done" => stop_event
  /\ BackBy <= mono + Round

MadeSince(t) == \E u \in Updaters : updater[u].pc = "applied" /\ t <= updater[u].at + Round

\* An update the thread does not know of, or has not acted on, was made so recently that
\* the thread is back at the head of its loop within a round of it.
NewsIsFresh ==
  ~stop_event =>
    /\ gen # interval_gen => MadeSince(BackBy)
    /\ gen # interval_gen /\ pc = "rebuild" => MadeSince(mono + Round)
    /\ pc = "rebuild" => MadeSince(mono)

LEMMA Spans ==
  /\ {InitialConfig.gap, WaitCap, BackoffMin, BackoffMax, MaxLate} \subseteq Nat
  /\ BackoffMin <= BackoffMax
  /\ PairAndFault \in Nat
  /\ Round = WaitCap + MaxLate + PairAndFault
<1>1. InitialConfig.gap \in Nat
  BY TxAssumption DEF Config
<1> QED  BY <1>1, TxAssumption DEF PairAndFault, Round

LEMMA NapBound ==
  ASSUME NEW s \in [Kinds -> Scheduler], NEW at \in Int
  PROVE  /\ Nap(s, at) \in Nat /\ Nap(s, at) <= WaitCap
         /\ \A k \in Kinds : Nap(s, at) = 0 \/ at + Nap(s, at) <= s[k].deadline
<1>1. s["announce"].deadline \in Int /\ s["sync"].deadline \in Int
  BY DEF Kinds, Scheduler
<1>2. WaitCap \in Nat
  BY TxAssumption
<1> QED  BY <1>1, <1>2 DEF Nap, SmallerOf, WaitTimeout, Kinds

LEMMA ScheduleIntervals ==
  ASSUME NEW c, NEW at, NEW k \in Kinds
  PROVE  Schedules(c, at)[k].interval = Interval(c, k)
BY DEF Schedules, NewScheduler

\* Only the set-up and a rebuild change the intervals.
LEMMA IntervalsStay ==
  ASSUME TypeOK, [Next]_vars, ~ReadConfig, ~Rebuild, NEW k \in Kinds
  PROVE  sched'[k].interval = sched[k].interval
<1>1. \A at \in Int : Advance(sched[k], at).interval = sched[k].interval
  BY AdvanceFacts DEF TypeOK
<1>2. now_sec \in Int /\ real \in Int /\ sched \in [Kinds -> Scheduler]
  BY DEF TypeOK
<1>3. CASE Realign
  BY <1>1, <1>2, <1>3 DEF Realign
<1>4. CASE \E j \in Kinds : Advanced(j)
  BY <1>1, <1>2, <1>4 DEF Advanced
<1>5. CASE UNCHANGED sched
  BY <1>5
<1> QED  BY <1>3, <1>4, <1>5
  DEF Next, TxStep, Start, ReadGeneration, SeeStop, Exit, SeeUpdate, Sleep, Wake,
      AnnounceNotDue, SendAnnounce, SyncNotDue, SendSync, GiveUpFollowUp, SendFollowUp,
      Recover, SendFails, UpdateRead, UpdateStore, UpdateBump, Stop, Tick, SetClock, txVars,
      vars, Kinds

LEMMA SetUpStays ==
  ASSUME Orderly, TypeOK, SetUpAlone, [Next]_vars
  PROVE  SetUpAlone'
<1>1. CASE Start
  BY <1>1 DEF Start, SetUpAlone, SettingUp, ScheduleCurrent, sharedVars, txVars
<1>2. CASE ReadConfig
  <2>1. ScheduleCurrent'
    BY <1>2, ScheduleIntervals DEF ReadConfig, ScheduleCurrent, sharedVars
  <2> QED  BY <1>2, <2>1 DEF ReadConfig, SetUpAlone, SettingUp, sharedVars
<1>3. ASSUME ~SettingUp' PROVE SetUpAlone'
  BY <1>3 DEF SettingUp, SetUpAlone
<1>4. ASSUME NEW u \in Updaters, NEW patch \in Patches, UpdateRead(u, patch)
      PROVE  SetUpAlone'
  <2>1. ~SettingUp
    BY <1>4 DEF UpdateRead, Running, Orderly, SetUpAlone, SettingUp
  <2>2. pc' = pc
    BY <1>4 DEF UpdateRead
  <2> QED  BY <1>3, <2>1, <2>2 DEF SettingUp
<1>5. ASSUME NEW u \in Updaters, UpdateStore(u) \/ UpdateBump(u)
      PROVE  SetUpAlone'
  <2>1. ~SettingUp
    BY <1>5 DEF UpdateStore, UpdateBump, SetUpAlone
  <2>2. pc' = pc
    BY <1>5 DEF UpdateStore, UpdateBump
  <2> QED  BY <1>3, <2>1, <2>2 DEF SettingUp
<1>6. CASE UNCHANGED <<cfg, interval_gen, gen, updater, sched, pc, state>>
  BY <1>6 DEF SetUpAlone, SettingUp, ScheduleCurrent
<1>7. CASE Stop \/ Tick \/ (\E by \in Jumps : SetClock(by)) \/ UNCHANGED vars
  BY <1>6, <1>7 DEF Stop, Tick, SetClock, sharedVars, txVars, vars
<1>8. CASE TxStep /\ ~ReadConfig
  BY <1>3, <1>8 DEF TxStep, SettingUp, ReadGeneration, SeeStop, Exit, SeeUpdate, Rebuild, Sleep,
      Wake, AnnounceNotDue, SendAnnounce, SyncNotDue, SendSync, GiveUpFollowUp, SendFollowUp,
      Recover, SendFails, Realign
<1> QED  BY <1>1, <1>2, <1>4, <1>5, <1>7, <1>8 DEF Next

LEMMA GapsStay ==
  ASSUME Orderly, TypeOK, GapsBounded, [Next]_vars
  PROVE  GapsBounded'
<1>1. ASSUME NEW u \in Updaters, NEW patch \in Patches, UpdateRead(u, patch)
      PROVE  GapsBounded'
  <2>1. /\ cfg \in Config /\ InitialConfig \in Config
        /\ updater \in [Updaters -> [pc: {"idle", "store", "bump", "applied", "refused"},
                                     cfg: Config, at: Nat]]
    BY TxAssumption DEF TypeOK
  <2>2. "gap" \in DOMAIN cfg /\ "gap" \in DOMAIN InitialConfig
    BY <2>1 DEF Config
  <2>3. Patched(cfg, patch).gap <= InitialConfig.gap
    BY <2>2 DEF Patched, Orderly, GapsBounded
  <2>4. /\ cfg' = cfg
        /\ \A v \in Updaters : updater'[v].cfg = IF v = u THEN Patched(cfg, patch)
                                                          ELSE updater[v].cfg
    BY <1>1, <2>1 DEF UpdateRead
  <2> QED  BY <2>3, <2>4 DEF GapsBounded
<1>2. ASSUME NEW u \in Updaters, UpdateStore(u) \/ UpdateBump(u)
      PROVE  GapsBounded'
  BY <1>2 DEF UpdateStore, UpdateBump, GapsBounded, TypeOK
<1>3. CASE UNCHANGED <<cfg, updater>>
  BY <1>3 DEF GapsBounded
<1> QED  BY <1>1, <1>2, <1>3
  DEF Next, TxStep, Start, ReadConfig, ReadGeneration, SeeStop, Exit, SeeUpdate, Rebuild,
      Sleep, Wake, AnnounceNotDue, SendAnnounce, SyncNotDue, SendSync, GiveUpFollowUp,
      SendFollowUp, Recover, SendFails, Realign, Stop, Tick, SetClock, sharedVars, vars

LEMMA GenerationStays ==
  ASSUME TypeOK, SetUpAlone, GenerationTold, [Next]_vars
  PROVE  GenerationTold'
<1>1. gen \in Nat /\ interval_gen \in Nat
  BY DEF TypeOK
<1>2. CASE ReadConfig \/ Rebuild
  <2>1. ScheduleCurrent'
    BY <1>2, ScheduleIntervals DEF ReadConfig, Rebuild, ScheduleCurrent, sharedVars
  <2> QED  BY <1>2, <2>1 DEF ReadConfig, Rebuild, GenerationTold, sharedVars
<1>3. CASE ReadGeneration
  <2>1. ScheduleCurrent /\ gen = interval_gen
    BY <1>3 DEF ReadGeneration, SetUpAlone, SettingUp
  <2>2. ScheduleCurrent'
    BY <1>3, <2>1 DEF ReadGeneration, ScheduleCurrent, sharedVars
  <2> QED  BY <1>1, <1>3, <2>2 DEF ReadGeneration, GenerationTold, sharedVars
<1>4. CASE SeeUpdate
  BY <1>1, <1>4 DEF SeeUpdate, GenerationTold, sharedVars
<1>5. ASSUME NEW u \in Updaters, UpdateBump(u)
      PROVE  GenerationTold'
  BY <1>1, <1>5 DEF UpdateBump, GenerationTold, txVars
<1>6. ASSUME NEW u \in Updaters, UpdateStore(u)
      PROVE  GenerationTold'
  <2>1. ~NothingHalfMade'
    BY <1>6 DEF UpdateStore, NothingHalfMade, TypeOK
  <2> QED  BY <1>6, <2>1 DEF UpdateStore, GenerationTold, txVars
<1>7. ASSUME NEW u \in Updaters, NEW patch \in Patches, UpdateRead(u, patch)
      PROVE  GenerationTold'
  <2>1. NothingHalfMade' => NothingHalfMade
    BY <1>7 DEF UpdateRead, NothingHalfMade, TypeOK
  <2>2. ScheduleCurrent' <=> ScheduleCurrent
    BY <1>7 DEF UpdateRead, ScheduleCurrent, txVars
  <2> QED  BY <1>7, <2>1, <2>2 DEF UpdateRead, GenerationTold, txVars
<1>8. ASSUME UNCHANGED <<cfg, interval_gen, gen, updater>>, pc' = pc \/ pc' # "rebuild",
             pc = "rebuild" => pc' = "rebuild", ~ReadConfig, ~Rebuild
      PROVE  GenerationTold'
  <2>1. ScheduleCurrent => ScheduleCurrent'
    BY <1>8, IntervalsStay DEF ScheduleCurrent
  <2> QED  BY <1>8, <2>1 DEF GenerationTold, NothingHalfMade
<1>9. CASE \/ Start \/ SeeStop \/ Sleep \/ Wake \/ AnnounceNotDue \/ SendAnnounce
           \/ SyncNotDue \/ SendSync \/ GiveUpFollowUp \/ SendFollowUp \/ Recover
           \/ SendFails \/ Realign \/ Stop \/ Tick \/ (\E by \in Jumps : SetClock(by))
           \/ UNCHANGED vars
  <2>1. UNCHANGED <<cfg, interval_gen, gen, updater>>
    BY <1>9 DEF Start, SeeStop, Exit, Sleep, Wake, AnnounceNotDue, SendAnnounce, SyncNotDue,
        SendSync, GiveUpFollowUp, SendFollowUp, Recover, SendFails, Realign, Stop, Tick,
        SetClock, sharedVars, txVars, vars
  <2>2. pc' = pc \/ (pc' # "rebuild" /\ pc # "rebuild")
    BY <1>9 DEF Start, SeeStop, Exit, Sleep, Wake, AnnounceNotDue, SendAnnounce, SyncNotDue,
        SendSync, GiveUpFollowUp, SendFollowUp, Recover, SendFails, Sending, Realign, Stop,
        Tick, SetClock, vars
  <2> QED  BY <1>2, <1>8, <2>1, <2>2
<1> QED  BY <1>2, <1>3, <1>4, <1>5, <1>6, <1>7, <1>9 DEF Next, TxStep

\* The thread comes back no later than was foreseen, except when it goes to sleep anew.
LEMMA BackByMoves ==
  ASSUME TypeOK, ConfigsValid, GapsBounded, LoopTimed, [Next]_vars
  PROVE  /\ mono' \in Nat /\ mono' >= mono
         /\ BackBy' \in Int
         /\ LoopTimed'
         /\ \/ BackBy' <= BackBy
            \/ Sleep \/ Rebuild
            \/ pc' = "done"
<1> DEFINE P == PairAndFault
<1>1. /\ mono \in Nat /\ wake_at \in Nat
      /\ {InitialConfig.gap, WaitCap, BackoffMin, BackoffMax, MaxLate, P} \subseteq Nat
      /\ P = InitialConfig.gap + BackoffMax + 2 * MaxLate
      /\ Round = WaitCap + MaxLate + P
  BY Spans DEF TypeOK, PairAndFault
<1> HIDE DEF P
<1>2. /\ pc \in {"announce", "sync"} => BackBy = mono + P
      /\ pc = "wait" => BackBy = wake_at + MaxLate + P
      /\ pc = "gap" => BackBy = wake_at + BackoffMax + 2 * MaxLate
      /\ pc = "backoff" => BackBy = wake_at + MaxLate
      /\ pc \notin {"announce", "sync", "wait", "gap", "backoff"} => BackBy = mono
  BY DEF BackBy, P
<1>3. /\ pc' \in {"announce", "sync"} => BackBy' = mono' + P
      /\ pc' = "wait" => BackBy' = wake_at' + MaxLate + P
      /\ pc' = "gap" => BackBy' = wake_at' + BackoffMax + 2 * MaxLate
      /\ pc' = "backoff" => BackBy' = wake_at' + MaxLate
      /\ pc' \notin {"announce", "sync", "wait", "gap", "backoff"} => BackBy' = mono'
  BY DEF BackBy, P, PairAndFault
<1>4. BackBy \in Int
  BY <1>1, <1>2
<1>5. cfg.gap \in Nat /\ cfg.gap <= InitialConfig.gap
  BY DEF GapsBounded, TypeOK, Config, ConfigsValid, Valid
<1>6. NextBackoff \in Nat /\ NextBackoff <= BackoffMax
  BY <1>1, BackoffType
<1>7. pc \in {"wait", "gap", "backoff"} => mono <= wake_at + MaxLate
  BY DEF LoopTimed
<1>8. pc = "done" => stop_event
  BY DEF LoopTimed
<1>9. BackBy <= mono + Round
  BY DEF LoopTimed
<1> DEFINE Moves == /\ mono' \in Nat /\ mono' >= mono
                    /\ BackBy' \in Int
                    /\ pc' \in {"wait", "gap", "backoff"} => mono' <= wake_at' + MaxLate
                    /\ BackBy' <= mono' + Round
                    /\ \/ BackBy' <= BackBy
                       \/ Sleep \/ Rebuild
                       \/ pc' = "done"
<1>10. ASSUME Sleep \/ Rebuild
       PROVE  Moves
  <2>1. PICK nap \in 0..WaitCap : wake_at' = mono + nap
    <3>1. CASE Sleep
      BY <1>1, <3>1, NapBound DEF Sleep, TypeOK
    <3>2. CASE Rebuild
      <4>1. Schedules(cfg, real) \in [Kinds -> Scheduler]
        BY ScheduleFacts DEF TypeOK, ConfigsValid
      <4> QED  BY <1>1, <3>2, <4>1, NapBound DEF Rebuild, TypeOK
    <3> QED  BY <1>10, <3>1, <3>2
  <2>2. mono' = mono /\ pc' = "wait"
    BY <1>10 DEF Sleep, Rebuild, clockVars
  <2> QED  BY <1>1, <1>3, <1>10, <2>1, <2>2 DEF Moves
<1>11. ASSUME Wake
       PROVE  Moves
  <2>1. mono' = mono /\ pc = "wait" /\ pc' = "announce"
    BY <1>11 DEF Wake, clockVars
  <2> QED  BY <1>1, <1>2, <1>3, <1>4, <1>7, <1>9, <2>1
<1>12. ASSUME SendSync
       PROVE  Moves
  <2>1. /\ mono' = mono /\ pc = "sync"
        /\ \/ pc' = "gap" /\ wake_at' = mono + cfg.gap
           \/ pc' = "recover"
    BY <1>12 DEF SendSync, clockVars
  <2> QED  BY <1>1, <1>2, <1>3, <1>4, <1>5, <1>9, <2>1
<1>13. ASSUME SendFails
       PROVE  Moves
  <2>1. /\ mono' = mono /\ pc \in {"announce", "sync", "gap"}
        /\ pc' = "backoff" /\ wake_at' = mono + NextBackoff
    BY <1>13 DEF SendFails, Sending, clockVars
  <2> QED  BY <1>1, <1>2, <1>3, <1>4, <1>6, <1>7, <1>9, <2>1
<1>14. ASSUME GiveUpFollowUp \/ SendFollowUp \/ Realign
       PROVE  Moves
  <2>1. /\ mono' = mono /\ pc \in {"gap", "backoff"}
        /\ pc' \in {"recover", "loop"}
    BY <1>14 DEF GiveUpFollowUp, SendFollowUp, Realign, clockVars
  <2> QED  BY <1>1, <1>2, <1>3, <1>4, <1>7, <1>9, <2>1
<1>15. ASSUME \/ Start \/ ReadConfig \/ ReadGeneration \/ SeeUpdate \/ AnnounceNotDue
              \/ SendAnnounce \/ SyncNotDue \/ Recover
       PROVE  Moves
  <2>1. /\ mono' = mono /\ pc \in {"init", "setup", "setup_gen", "loop", "announce", "sync", "recover"}
        /\ pc' \in {"setup", "setup_gen", "loop", "rebuild", "sync", "recover"}
        /\ pc' = "sync" => pc = "announce"
    BY <1>15 DEF Start, ReadConfig, ReadGeneration, SeeUpdate, AnnounceNotDue, SendAnnounce,
                 SyncNotDue, Recover, clockVars
  <2> QED  BY <1>1, <1>2, <1>3, <1>4, <1>7, <1>9, <2>1
<1>16. ASSUME SeeStop
       PROVE  Moves
  <2>1. mono' = mono /\ pc' = "done"
    BY <1>16 DEF SeeStop, Exit, clockVars
  <2> QED  BY <1>1, <1>3, <2>1
<1>17. ASSUME Tick
       PROVE  Moves
  <2>1. /\ mono' = mono + 1 /\ wake_at' = wake_at /\ pc' = pc
        /\ pc \in {"wait", "gap", "backoff", "done"}
        /\ pc \in {"wait", "gap", "backoff"} => mono < wake_at + MaxLate
    BY <1>17 DEF Tick, Asleep, txVars
  <2> QED  BY <1>1, <1>2, <1>3, <1>4, <1>9, <2>1
<1>18. ASSUME UNCHANGED <<mono, wake_at, pc>>
       PROVE  Moves
  BY <1>1, <1>2, <1>3, <1>4, <1>7, <1>9, <1>18
<1>19. ASSUME \/ \E u \in Updaters, patch \in Patches : UpdateRead(u, patch)
              \/ \E u \in Updaters : UpdateStore(u) \/ UpdateBump(u)
              \/ Stop \/ (\E by \in Jumps : SetClock(by)) \/ UNCHANGED vars
       PROVE  Moves
  BY <1>18, <1>19 DEF UpdateRead, UpdateStore, UpdateBump, Stop, SetClock, txVars, clockVars,
                      vars
<1>20. Moves
  BY <1>10, <1>11, <1>12, <1>13, <1>14, <1>15, <1>16, <1>17, <1>19 DEF Next, TxStep
<1>21. pc' = "done" => stop_event'
  <2>1. CASE Start \/ (TxStep /\ ~SeeStop)
    BY <2>1 DEF TxStep, Start, ReadConfig, ReadGeneration, SeeUpdate, Rebuild, Sleep, Wake,
        AnnounceNotDue, SendAnnounce, SyncNotDue, SendSync, GiveUpFollowUp, SendFollowUp,
        Recover, SendFails, Realign
  <2>2. CASE SeeStop
    BY <2>2 DEF SeeStop, Exit
  <2>3. CASE \/ \E u \in Updaters, patch \in Patches : UpdateRead(u, patch)
             \/ \E u \in Updaters : UpdateStore(u) \/ UpdateBump(u)
             \/ Stop \/ Tick \/ (\E by \in Jumps : SetClock(by)) \/ UNCHANGED vars
    <3>1. pc' = pc /\ (stop_event' = stop_event \/ stop_event')
      BY <2>3 DEF UpdateRead, UpdateStore, UpdateBump, Stop, Tick, SetClock, vars
    <3> QED  BY <1>8, <3>1
  <2> QED  BY <2>1, <2>2, <2>3 DEF Next
<1> HIDE DEF Moves
<1>22. LoopTimed'
  BY <1>20, <1>21 DEF Moves, LoopTimed
<1> QED  BY <1>20, <1>22 DEF Moves

LEMMA NotBackYet ==
  ASSUME TypeOK, LoopTimed
  PROVE  mono <= BackBy /\ BackBy \in Int
<1>1. /\ mono \in Nat /\ wake_at \in Nat
      /\ {InitialConfig.gap, BackoffMax, MaxLate, PairAndFault} \subseteq Nat
  BY Spans DEF TypeOK
<1>2. pc \in {"wait", "gap", "backoff"} => mono <= wake_at + MaxLate
  BY DEF LoopTimed
<1> QED  BY <1>1, <1>2 DEF BackBy

LEMMA NewsStaysFresh ==
  ASSUME Orderly, TypeOK, ConfigsValid, SetUpAlone, GapsBounded, GenerationTold, LoopTimed,
         NewsIsFresh, [Next]_vars
  PROVE  NewsIsFresh'
<1> DEFINE Since(t) == \E u \in Updaters : /\ updater'[u].pc = "applied"
                                           /\ t <= updater'[u].at + Round
           back == BackBy'
           now == mono'
<1>1. /\ back \in Int /\ now \in Int /\ mono \in Int /\ now >= mono /\ BackBy \in Int /\ mono <= BackBy
      /\ Round \in Int
  BY BackByMoves, NotBackYet, Spans DEF TypeOK
<1>2. \/ back <= BackBy
      \/ Sleep \/ Rebuild
      \/ pc' = "done"
  BY BackByMoves
<1>3. LoopTimed'
  BY BackByMoves
<1>4. back <= now + Round
  BY <1>3 DEF LoopTimed
<1> HIDE DEF back, now
<1> SUFFICES ASSUME ~stop_event'
             PROVE  /\ gen' # interval_gen' => Since(back)
                    /\ gen' # interval_gen' /\ pc' = "rebuild" => Since(now + Round)
                    /\ pc' = "rebuild" => Since(now)
  BY DEF NewsIsFresh, MadeSince, back, now
<1>5. pc' # "done"
  BY <1>3 DEF LoopTimed
<1> DEFINE Fresh == /\ gen' # interval_gen' => Since(back)
                    /\ gen' # interval_gen' /\ pc' = "rebuild" => Since(now + Round)
                    /\ pc' = "rebuild" => Since(now)
<1>6. \A u \in Updaters : updater[u].at \in Int
  BY DEF TypeOK
<1>7. ASSUME NEW t \in Int, NEW s \in Int, s <= t, MadeSince(t),
             \A u \in Updaters : updater[u].pc = "applied" => updater'[u] = updater[u]
      PROVE  Since(s)
  BY <1>1, <1>6, <1>7 DEF MadeSince
<1>8. ASSUME Start \/ ReadConfig \/ ReadGeneration
      PROVE  Fresh
  <2>1. gen = interval_gen
    BY <1>8 DEF Start, ReadConfig, ReadGeneration, SetUpAlone, SettingUp
  <2>2. gen' = interval_gen' /\ pc' # "rebuild"
    BY <1>8, <2>1 DEF Start, ReadConfig, ReadGeneration, sharedVars, txVars
  <2> QED  BY <2>2
<1>9. ASSUME SeeUpdate PROVE Fresh
  <2>1. gen' = interval_gen' /\ updater' = updater /\ now = mono
    BY <1>9 DEF SeeUpdate, sharedVars, clockVars, now
  <2>2. ~stop_event /\ gen # interval_gen /\ pc = "loop"
    BY <1>9 DEF SeeUpdate
  <2>3. MadeSince(BackBy)
    BY <2>2 DEF NewsIsFresh
  <2> QED  BY <1>1, <1>7, <2>1, <2>3
<1>10. ASSUME Rebuild PROVE Fresh
  <2>1. UNCHANGED <<gen, interval_gen, updater>> /\ pc = "rebuild" /\ pc' = "wait" /\ ~stop_event
        /\ now = mono
    BY <1>10 DEF Rebuild, sharedVars, clockVars, now
  <2>2. gen # interval_gen => MadeSince(mono + Round)
    BY <2>1 DEF NewsIsFresh
  <2>3. back <= mono + Round
    BY <1>4, <2>1
  <2> QED  BY <1>1, <1>7, <2>1, <2>2, <2>3
<1>11. ASSUME Sleep PROVE Fresh
  BY <1>11 DEF Sleep, sharedVars
<1>12. ASSUME NEW u \in Updaters, UpdateBump(u)
       PROVE  Fresh
  <2>1. updater'[u].pc = "applied" /\ updater'[u].at = mono /\ now = mono
    BY <1>12 DEF UpdateBump, TypeOK, clockVars, now
  <2>2. \A t \in Int : t <= mono + Round => Since(t)
    BY <2>1
  <2> QED  BY <1>1, <1>4, <2>1, <2>2, Spans
<1>13. ASSUME ~Sleep, ~Rebuild, UNCHANGED <<gen, interval_gen>>,
              pc' = "rebuild" => pc = "rebuild" /\ now = mono,
              stop_event => stop_event',
              \A u \in Updaters : updater[u].pc = "applied" => updater'[u] = updater[u]
       PROVE  Fresh
  <2>1. back <= BackBy /\ ~stop_event
    BY <1>2, <1>5, <1>13
  <2> QED  BY <1>1, <1>7, <1>13, <2>1 DEF NewsIsFresh
<1>14. ASSUME NEW u \in Updaters, NEW patch \in Patches, UpdateRead(u, patch)
       PROVE  Fresh
  <2>1. ~Sleep /\ ~Rebuild
    BY <1>14 DEF UpdateRead, Sleep, Rebuild, sharedVars, TypeOK
  <2> QED  BY <1>13, <1>14, <2>1 DEF UpdateRead, TypeOK, txVars, clockVars, now
<1>15. ASSUME NEW u \in Updaters, UpdateStore(u)
       PROVE  Fresh
  <2>1. ~Sleep /\ ~Rebuild
    BY <1>15 DEF UpdateStore, Sleep, Rebuild, sharedVars, TypeOK
  <2> QED  BY <1>13, <1>15, <2>1 DEF UpdateStore, TypeOK, txVars, clockVars, now
<1>16. ASSUME \/ SeeStop \/ Wake \/ AnnounceNotDue \/ SendAnnounce
              \/ SyncNotDue \/ SendSync \/ GiveUpFollowUp \/ SendFollowUp \/ Recover
              \/ SendFails \/ Realign \/ Stop \/ Tick \/ (\E by \in Jumps : SetClock(by))
              \/ UNCHANGED vars
       PROVE  Fresh
  <2>1. UNCHANGED <<gen, interval_gen, updater>> /\ (stop_event => stop_event')
    BY <1>16 DEF SeeStop, Exit, Wake, AnnounceNotDue, SendAnnounce, SyncNotDue,
        SendSync, GiveUpFollowUp, SendFollowUp, Recover, SendFails, Realign, Stop, Tick,
        SetClock, sharedVars, txVars, vars
  <2>2. /\ pc' = "rebuild" => pc = "rebuild" /\ now = mono
        /\ pc' = "wait" => pc = "wait"
    BY <1>16 DEF SeeStop, Exit, Wake, AnnounceNotDue, SendAnnounce, SyncNotDue,
        SendSync, GiveUpFollowUp, SendFollowUp, Recover, SendFails, Realign, Stop,
        Tick, Asleep, SetClock, vars, now
  <2>3. ~Sleep /\ ~Rebuild
    BY <2>2 DEF Sleep, Rebuild
  <2> QED  BY <1>13, <2>1, <2>2, <2>3
<1> HIDE DEF Fresh
<1>17. Fresh
  BY <1>8, <1>9, <1>10, <1>11, <1>12, <1>14, <1>15, <1>16 DEF Next, TxStep
<1> QED  BY <1>17 DEF Fresh

UpdateInv == SetUpAlone /\ GapsBounded /\ GenerationTold /\ LoopTimed /\ NewsIsFresh

LEMMA InitUpdates == Init => UpdateInv
<1> SUFFICES ASSUME Init PROVE UpdateInv
  OBVIOUS
<1>1. ScheduleCurrent
  BY ScheduleIntervals DEF Init, ScheduleCurrent
<1>2. SetUpAlone
  BY <1>1 DEF Init, SetUpAlone
<1>3. InitialConfig.gap \in Nat
  BY Spans
<1>4. GapsBounded
  BY <1>3 DEF Init, GapsBounded
<1>5. GenerationTold
  BY <1>1 DEF Init, GenerationTold
<1>6. BackBy = mono /\ mono = 0
  BY DEF Init, BackBy
<1>7. LoopTimed
  BY <1>6, Spans DEF Init, LoopTimed
<1>8. NewsIsFresh
  BY DEF Init, NewsIsFresh
<1> QED  BY <1>2, <1>4, <1>5, <1>7, <1>8 DEF UpdateInv

\* An update is in the schedule within a round, or the master has been stopped.
THEOREM UpdatesTakeEffect ==
  ASSUME ~EarlyUpdates,
         \A patch \in Patches : Patched(InitialConfig, patch).gap <= InitialConfig.gap
  PROVE  Spec => []UpdateTakesEffect
<1>1. Orderly
  BY DEF Orderly
<1>2. Init => TypeOK /\ ConfigsValid /\ UpdateInv
  BY InitSound, InitUpdates
<1>3. TypeOK /\ ConfigsValid /\ UpdateInv /\ [Next]_vars
      => (TypeOK /\ ConfigsValid /\ UpdateInv)'
  <2> SUFFICES ASSUME TypeOK, ConfigsValid, UpdateInv, [Next]_vars
               PROVE  (TypeOK /\ ConfigsValid)' /\ UpdateInv'
    OBVIOUS
  <2>1. SetUpAlone' /\ GapsBounded' /\ GenerationTold' /\ LoopTimed'
    BY <1>1, SetUpStays, GapsStay, GenerationStays, BackByMoves DEF UpdateInv
  <2>2. NewsIsFresh'
    BY <1>1, NewsStaysFresh DEF UpdateInv
  <2>3. UpdateInv'
    BY <2>1, <2>2 DEF UpdateInv
  <2> QED  BY <2>3, TypesStay, ConfigsStayValid
<1>4. TypeOK /\ UpdateInv => UpdateTakesEffect
  <2> SUFFICES ASSUME TypeOK, UpdateInv, Quiet, ~ScheduleCurrent, ~stop_event
               PROVE  FALSE
    BY DEF UpdateTakesEffect
  <2>1. NothingHalfMade
    BY DEF Quiet, NothingHalfMade
  <2>2. gen # interval_gen \/ pc = "rebuild"
    BY <2>1 DEF UpdateInv, GenerationTold
  <2>3. mono <= BackBy /\ BackBy \in Int /\ mono \in Int
    BY NotBackYet DEF UpdateInv, TypeOK
  <2>4. PICK t \in Int : mono <= t /\ MadeSince(t)
    BY <2>2, <2>3 DEF UpdateInv, NewsIsFresh
  <2>5. PICK u \in Updaters : updater[u].pc = "applied" /\ t <= updater[u].at + Round
    BY <2>4 DEF MadeSince
  <2>6. mono > updater[u].at + Round
    BY <2>5 DEF Quiet
  <2>7. updater[u].at \in Int /\ Round \in Int
    BY Spans DEF TypeOK
  <2> QED  BY <2>3, <2>4, <2>5, <2>6, <2>7
<1> QED  BY <1>2, <1>3, <1>4, PTL DEF Spec

-----------------------------------------------------------------------------
(***************************************************************************)
(* Pairs: while the thread waits between a Sync and its Follow_Up, what it *)
(* holds is the last Sync, for a boundary no Follow_Up has been sent for.  *)
(***************************************************************************)
PairInv ==
  /\ pc = "gap" => /\ inflight.seq = last["sync"].seq
                   /\ last["sync"].deadline = sched["sync"].deadline
  /\ jumps = 0 => /\ last["followup"].deadline <= last["sync"].deadline
                  /\ pc = "gap" => last["followup"].deadline < last["sync"].deadline

LEMMA PairsStay ==
  ASSUME TypeOK, ServedInOrder, PairInv, [Next]_vars
  PROVE  PairInv'
<1>1. /\ \A f \in Frames : last[f].deadline \in Int
      /\ \A k \in Kinds : sched[k].deadline \in Int
  BY DEF TypeOK, Scheduler
<1>2. jumps' = 0 => jumps = 0
  <2>1. CASE \E by \in Jumps : SetClock(by)
    BY <2>1 DEF SetClock, TypeOK
  <2>2. CASE ~ \E by \in Jumps : SetClock(by)
    BY <2>2 DEF Next, TxStep, Start, ReadConfig, ReadGeneration, SeeStop, Exit, SeeUpdate,
        Rebuild, Sleep, Wake, AnnounceNotDue, SendAnnounce, SyncNotDue, SendSync,
        GiveUpFollowUp, SendFollowUp, Recover, SendFails, Realign, UpdateRead, UpdateStore,
        UpdateBump, Stop, Tick, clockVars, vars
  <2> QED  BY <2>1, <2>2
<1>3. CASE SendSync
  <2>1. /\ last'["sync"] = [seq |-> seq["sync"], deadline |-> sched["sync"].deadline]
        /\ last'["followup"] = last["followup"]
    BY <1>3 DEF SendSync, Transmit, TypeOK, Frames
  <2>2. pc' = "gap" => inflight'.seq = seq["sync"] /\ sched' = sched
    BY <1>3 DEF SendSync
  <2>3. jumps = 0 => last["sync"].deadline < sched["sync"].deadline
    BY <1>3 DEF SendSync, ServedInOrder, LastServed, Kinds
  <2>4. jumps = 0 => last["followup"].deadline < sched["sync"].deadline
    BY <1>1, <2>3 DEF PairInv, Frames, Kinds
  <2> QED  BY <1>1, <1>2, <2>1, <2>2, <2>4 DEF PairInv, Frames, Kinds
<1>4. CASE SendFollowUp
  <2>1. /\ last'["sync"] = last["sync"] /\ pc' # "gap" /\ pc = "gap"
        /\ last'["followup"].deadline = sched["sync"].deadline
    BY <1>4 DEF SendFollowUp, Transmit, TypeOK, Frames
  <2> QED  BY <1>1, <1>2, <2>1 DEF PairInv, Frames, Kinds
<1>5. CASE SendAnnounce
  <2>1. last'["sync"] = last["sync"] /\ last'["followup"] = last["followup"] /\ pc' # "gap"
    BY <1>5 DEF SendAnnounce, Transmit, TypeOK, Frames
  <2> QED  BY <1>2, <2>1 DEF PairInv
<1>6. ASSUME last' = last, pc' = "gap" => UNCHANGED <<pc, inflight, sched>>
      PROVE  PairInv'
  BY <1>2, <1>6 DEF PairInv
<1>7. CASE TxStep /\ ~SendSync /\ ~SendFollowUp /\ ~SendAnnounce
  BY <1>6, <1>7 DEF TxStep, ReadConfig, ReadGeneration, SeeStop, Exit, SeeUpdate, Rebuild,
      Sleep, Wake, AnnounceNotDue, SyncNotDue, GiveUpFollowUp, Recover, SendFails, Realign
<1>8. CASE \/ Start \/ Stop \/ Tick \/ (\E by \in Jumps : SetClock(by)) \/ UNCHANGED vars
           \/ \E u \in Updaters, patch \in Patches : UpdateRead(u, patch)
           \/ \E u \in Updaters : UpdateStore(u) \/ UpdateBump(u)
  BY <1>6, <1>8 DEF Start, Stop, Tick, SetClock, UpdateRead, UpdateStore, UpdateBump, txVars,
      vars
<1> QED  BY <1>3, <1>4, <1>5, <1>7, <1>8 DEF Next, TxStep

\* A Follow_Up repeats the number of the Sync just sent, and no Sync has two.
THEOREM FollowUpsPaired == Spec => FollowUpPaired
<1> DEFINE Step == last'["followup"] # last["followup"] =>
                     /\ last'["followup"].seq = last["sync"].seq
                     /\ last'["followup"].deadline = last["sync"].deadline
                     /\ last["followup"].deadline # last["sync"].deadline \/ jumps > 0
<1>1. TypeOK /\ PairInv /\ [Next]_vars => [Step]_vars
  <2> SUFFICES ASSUME TypeOK, PairInv, Next, last'["followup"] # last["followup"]
               PROVE  /\ last'["followup"].seq = last["sync"].seq
                      /\ last'["followup"].deadline = last["sync"].deadline
                      /\ last["followup"].deadline # last["sync"].deadline \/ jumps > 0
    OBVIOUS
  <2>1. SendFollowUp
    <3>1. last' # last
      OBVIOUS
    <3>2. CASE SendAnnounce \/ SendSync
      BY <3>2 DEF SendAnnounce, SendSync, Transmit, TypeOK, Frames
    <3> QED  BY <3>1, <3>2
      DEF Next, TxStep, Start, ReadConfig, ReadGeneration, SeeStop, Exit, SeeUpdate, Rebuild,
          Sleep, Wake, AnnounceNotDue, SyncNotDue, GiveUpFollowUp, Recover, SendFails, Realign,
          UpdateRead, UpdateStore, UpdateBump, Stop, Tick, SetClock
  <2>2. /\ pc = "gap"
        /\ last'["followup"] = [seq |-> inflight.seq, deadline |-> sched["sync"].deadline]
    BY <2>1 DEF SendFollowUp, Transmit, TypeOK, Frames
  <2>3. jumps \in Nat /\ last["followup"].deadline \in Int /\ last["sync"].deadline \in Int
    BY DEF TypeOK, Frames
  <2> QED  BY <2>2, <2>3 DEF PairInv
<1>2. Init => PairInv
  BY DEF Init, PairInv, Frames, NoFrame
<1>3. TypeOK /\ ConfigsValid /\ ServedInOrder /\ PairInv /\ [Next]_vars
      => (TypeOK /\ ConfigsValid /\ ServedInOrder /\ PairInv)'
  BY TypesStay, ConfigsStayValid, ServedStays, PairsStay
<1>4. Init => TypeOK /\ ConfigsValid /\ ServedInOrder
  BY InitSound, InitServed
<1> QED  BY <1>1, <1>2, <1>3, <1>4, PTL DEF Spec, FollowUpPaired

-----------------------------------------------------------------------------
(***************************************************************************)
(* No boundary is missed, provided that a gap and two late wake-ups fit    *)
(* into an interval: then the thread is always back before the next        *)
(* deadline has passed as well.                                            *)
(***************************************************************************)
Roomy ==
  \A k \in Kinds : InitialConfig.gap + 2 * MaxLate < Interval(InitialConfig, k)

Slack == InitialConfig.gap + MaxLate

\* How late the thread may be for the next deadline of this kind.
InTime(k) ==
  LET d == sched[k].deadline IN
  /\ pc = "setup_gen" => real < d
  /\ pc \in {"loop", "recover"} => real <= d + Slack
  /\ pc = "wait" => real + wake_at <= mono + d + Slack
  /\ pc \in {"announce", "sync", "gap"} => now_sec < d + sched[k].interval
  /\ pc \in {"sync", "gap"} /\ k = "announce" => now_sec < d
  /\ pc = "gap" /\ k = "sync" => d <= now_sec

\* How much time has passed since the thread has read the clock.
Spent ==
  /\ pc \in {"announce", "sync"} => real = now_sec
  /\ pc = "gap" => real + wake_at <= mono + now_sec + InitialConfig.gap

NextInLine(k) ==
  last[k].deadline >= 0 =>
    sched[k].deadline = last[k].deadline
                        + (IF k = "sync" /\ pc = "gap" THEN 0 ELSE sched[k].interval)

InLine ==
  /\ pc \notin {"backoff", "rebuild"}
  /\ pc \in {"init", "setup"} => \A k \in Kinds : last[k].deadline < 0
  /\ Spent
  /\ \A k \in Kinds : /\ sched[k].interval = Interval(InitialConfig, k)
                      /\ InTime(k) /\ NextInLine(k)

BoundaryInv == Undisturbed => InLine

\* An aligned deadline that has passed, but not the one after it, moves by one interval.
LEMMA AdvanceByOne ==
  ASSUME NEW s \in Scheduler, NEW at \in Int,
         s.deadline % s.interval = 0, Due(s, at), at < s.deadline + s.interval
  PROVE  Advance(s, at).deadline = s.deadline + s.interval
<1> DEFINE i == s.interval
           d == s.deadline
           q == d \div i
<1>1. i \in Nat \ {0} /\ d \in Int
  BY DEF Scheduler
<1>2. q \in Int /\ d = q * i
  BY <1>1, AlignedIsMultiple, DivisionFacts
<1>3. d <= at /\ at < d + i
  BY DEF Due
<1>4. at \div i = q
  <2> HIDE DEF i, d, q
  <2>1. (q + 1) * i = q * i + i
    BY <1>1, <1>2
  <2>2. q * i <= at /\ at < (q + 1) * i
    BY <1>1, <1>2, <1>3, <2>1
  <2> QED  BY <1>1, <1>2, <2>2
<1>5. NextBoundary(at, i) = (q + 1) * i
  BY <1>4 DEF NextBoundary
<1>6. (q + 1) * i = q * i + i
  BY <1>1, <1>2
<1>7. Advance(s, at).deadline = NextBoundary(at, i)
  BY AdvanceOfDue
<1> QED  BY <1>2, <1>5, <1>6, <1>7

LEMMA StaysUndisturbed ==
  ASSUME TypeOK, GenerationTold, BoundaryInv, [Next]_vars, Undisturbed'
  PROVE  /\ Undisturbed /\ InLine
         /\ ~SendFails /\ ~Realign /\ ~Rebuild /\ ~SeeUpdate
         /\ ~ \E by \in Jumps : SetClock(by)
         /\ ~ \E u \in Updaters : UpdateBump(u)
<1>1. faults \in Nat /\ jumps \in Nat /\ interval_gen \in Nat /\ gen \in Nat
  BY DEF TypeOK
<1>2. faults' = 0 /\ jumps' = 0 /\ interval_gen' = 0
  BY DEF Undisturbed
<1>3. ~SendFails
  BY <1>1, <1>2 DEF SendFails
<1>4. ~ \E by \in Jumps : SetClock(by)
  BY <1>1, <1>2 DEF SetClock
<1>5. ~ \E u \in Updaters : UpdateBump(u)
  <2> SUFFICES ASSUME NEW u \in Updaters, UpdateBump(u) PROVE FALSE
    OBVIOUS
  <2>1. interval_gen' = interval_gen + 1
    BY DEF UpdateBump
  <2> QED  BY <1>1, <1>2, <2>1
<1>6. UNCHANGED <<faults, jumps, interval_gen>>
  BY <1>3, <1>4, <1>5 DEF Next, TxStep, Start, ReadConfig, ReadGeneration, SeeStop, Exit,
      SeeUpdate, Rebuild, Sleep, Wake, AnnounceNotDue, SendAnnounce, SyncNotDue, SendSync,
      GiveUpFollowUp, SendFollowUp, Recover, Realign, UpdateRead, UpdateStore, Stop, Tick,
      clockVars, sharedVars, vars
<1>7. Undisturbed
  BY <1>2, <1>6 DEF Undisturbed
<1>8. InLine
  BY <1>7 DEF BoundaryInv
<1>9. ~Realign /\ ~Rebuild
  BY <1>8 DEF InLine, Realign, Rebuild
<1>10. ~SeeUpdate
  BY <1>1, <1>2, <1>6 DEF SeeUpdate, GenerationTold
<1> QED  BY <1>3, <1>4, <1>5, <1>7, <1>8, <1>9, <1>10

LEMMA BoundariesStay ==
  ASSUME Roomy, TypeOK, ConfigsValid, Aligned, SetUpAlone, GapsBounded, GenerationTold,
         LoopTimed, BoundaryInv, [Next]_vars
  PROVE  BoundaryInv'
<1> SUFFICES ASSUME Undisturbed'
             PROVE  InLine'
  BY DEF BoundaryInv
<1>1. /\ InLine
      /\ ~SendFails /\ ~Realign /\ ~Rebuild /\ ~SeeUpdate
      /\ ~ \E by \in Jumps : SetClock(by)
      /\ ~ \E u \in Updaters : UpdateBump(u)
  BY StaysUndisturbed
<1>2. /\ real \in Int /\ now_sec \in Int /\ mono \in Int /\ wake_at \in Int
      /\ sched \in [Kinds -> Scheduler]
      /\ \A k \in Kinds : /\ last[k].deadline \in Int /\ sched[k].deadline \in Int
                          /\ sched[k].interval \in Int /\ sched[k].interval > 0
  BY DEF TypeOK, Kinds, Frames, Scheduler
<1>3. /\ InitialConfig.gap \in Nat /\ MaxLate \in Nat /\ Slack \in Nat
      /\ Slack = InitialConfig.gap + MaxLate
  BY Spans DEF Slack
<1>4. \A k \in Kinds : InitialConfig.gap + 2 * MaxLate < Interval(InitialConfig, k)
  BY DEF Roomy
<1>5. cfg.gap \in Nat /\ cfg.gap <= InitialConfig.gap
  BY DEF GapsBounded, TypeOK, Config, ConfigsValid, Valid
<1>6. pc \in {"wait", "gap"} => mono <= wake_at + MaxLate
  BY DEF LoopTimed
<1>7. \A k \in Kinds : /\ sched[k].interval = Interval(InitialConfig, k)
                       /\ InTime(k) /\ NextInLine(k)
  BY <1>1 DEF InLine
<1>8. Spent
  BY <1>1 DEF InLine
<1>9. \A k \in Kinds : Due(sched[k], now_sec) /\ pc \in {"announce", "sync", "gap"}
        => /\ Advance(sched[k], now_sec).deadline = sched[k].deadline + sched[k].interval
           /\ Advance(sched[k], now_sec).interval = sched[k].interval
  <2> TAKE k \in Kinds
  <2>1. sched[k] \in Scheduler /\ sched[k].deadline % sched[k].interval = 0
    BY <1>2 DEF Aligned
  <2>2. pc \in {"announce", "sync", "gap"} => now_sec < sched[k].deadline + sched[k].interval
    BY <1>7 DEF InTime
  <2> QED  BY <1>2, <2>1, <2>2, AdvanceByOne, AdvanceFacts
<1> DEFINE Fits == InLine'
<1>10. ASSUME ReadConfig PROVE Fits
  <2>1. cfg = InitialConfig /\ Valid(cfg)
    BY <1>10 DEF ReadConfig, SetUpAlone, SettingUp, ConfigsValid
  <2>2. \A k \in Kinds : sched'[k].deadline > real /\ sched'[k].interval = Interval(cfg, k)
    BY <1>2, <1>10, <2>1, ScheduleFacts, ScheduleIntervals DEF ReadConfig
  <2>3. pc' = "setup_gen" /\ real' = real /\ last' = last /\ \A k \in Kinds : last[k].deadline < 0
    BY <1>1, <1>10 DEF ReadConfig, clockVars, InLine
  <2>4. \A k \in Kinds : sched'[k].deadline \in Int
    BY <1>2, <1>10, <2>1, ScheduleFacts DEF ReadConfig, Scheduler
  <2> QED  BY <1>2, <2>1, <2>2, <2>3, <2>4 DEF InLine, Spent, InTime, NextInLine
<1>11. ASSUME Sleep PROVE Fits
  <2>1. PICK nap \in Nat : /\ wake_at' = mono + nap
                           /\ \A k \in Kinds : nap = 0 \/ real + nap <= sched[k].deadline
    BY <1>2, <1>11, NapBound DEF Sleep
  <2>2. pc = "loop" /\ pc' = "wait" /\ UNCHANGED <<real, mono, last, sched>>
    BY <1>11 DEF Sleep, clockVars
  <2> QED  BY <1>2, <1>3, <1>7, <2>1, <2>2 DEF InLine, Spent, InTime, NextInLine
<1>12. ASSUME Wake PROVE Fits
  <2>1. pc = "wait" /\ pc' = "announce" /\ now_sec' = real /\ UNCHANGED <<real, mono, last, sched>>
    BY <1>12 DEF Wake, clockVars
  <2>2. \A k \in Kinds : real < sched[k].deadline + sched[k].interval
    BY <1>2, <1>3, <1>4, <1>6, <1>7, <2>1 DEF InTime
  <2> QED  BY <1>2, <1>7, <2>1, <2>2 DEF InLine, Spent, InTime, NextInLine
<1>13. ASSUME AnnounceNotDue \/ SyncNotDue PROVE Fits
  <2>1. UNCHANGED <<real, now_sec, mono, last, sched>>
    BY <1>13 DEF AnnounceNotDue, SyncNotDue, txVars, clockVars
  <2>2. \/ pc = "announce" /\ pc' = "sync" /\ now_sec < sched["announce"].deadline
        \/ pc = "sync" /\ pc' = "recover" /\ now_sec < sched["sync"].deadline
    BY <1>2, <1>13 DEF AnnounceNotDue, SyncNotDue, Due, Kinds
  <2> QED  BY <1>2, <1>3, <1>7, <1>8, <2>1, <2>2 DEF InLine, Spent, InTime, NextInLine, Kinds
<1>14. ASSUME SendAnnounce PROVE Fits
  <2>1. /\ pc = "announce" /\ pc' = "sync" /\ UNCHANGED <<real, now_sec, mono>>
        /\ Due(sched["announce"], now_sec)
    BY <1>14 DEF SendAnnounce, clockVars
  <2>2. /\ last'["announce"].deadline = sched["announce"].deadline
        /\ last'["sync"] = last["sync"]
    BY <1>14 DEF SendAnnounce, Transmit, TypeOK, Frames
  <2>3. /\ sched'["announce"] = Advance(sched["announce"], now_sec)
        /\ sched'["sync"] = sched["sync"]
    BY <1>2, <1>14 DEF SendAnnounce, Advanced, Kinds
  <2>4. /\ sched'["announce"].deadline = sched["announce"].deadline + sched["announce"].interval
        /\ sched'["announce"].interval = sched["announce"].interval
    BY <1>9, <2>1, <2>3 DEF Kinds
  <2>5. now_sec < sched["announce"].deadline + sched["announce"].interval
    BY <1>7, <2>1 DEF InTime, Kinds
  <2> HIDE <1>14
  <2> QED  BY <1>2, <1>7, <1>8, <2>1, <2>2, <2>3, <2>4, <2>5
    DEF InLine, Spent, InTime, NextInLine, Kinds
<1>15. ASSUME SendSync PROVE Fits
  <2>1. /\ pc = "sync" /\ UNCHANGED <<real, now_sec, mono>>
        /\ Due(sched["sync"], now_sec)
    BY <1>15 DEF SendSync, clockVars
  <2>2. /\ last'["sync"].deadline = sched["sync"].deadline
        /\ last'["announce"] = last["announce"]
    BY <1>15 DEF SendSync, Transmit, TypeOK, Frames
  <2>3. \/ pc' = "gap" /\ wake_at' = mono + cfg.gap /\ sched' = sched
        \/ pc' = "recover" /\ Advanced("sync")
    BY <1>15 DEF SendSync
  <2>4. sched["sync"].deadline <= now_sec
    BY <1>2, <2>1 DEF Due, Kinds
  <2>5. CASE pc' = "gap" /\ wake_at' = mono + cfg.gap /\ sched' = sched
    BY <1>2, <1>3, <1>5, <1>7, <1>8, <2>1, <2>2, <2>4, <2>5
    DEF InLine, Spent, InTime, NextInLine, Kinds
  <2>6. CASE pc' = "recover" /\ Advanced("sync")
    <3>1. /\ sched'["sync"] = Advance(sched["sync"], now_sec)
          /\ sched'["announce"] = sched["announce"]
      BY <1>2, <2>6 DEF Advanced, Kinds
    <3>2. /\ sched'["sync"].deadline = sched["sync"].deadline + sched["sync"].interval
          /\ sched'["sync"].interval = sched["sync"].interval
      BY <1>9, <2>1, <3>1 DEF Kinds
    <3> QED  BY <1>2, <1>3, <1>7, <1>8, <2>1, <2>2, <2>6, <3>1, <3>2
      DEF InLine, Spent, InTime, NextInLine, Kinds
  <2> QED  BY <2>3, <2>5, <2>6
<1>16. ASSUME GiveUpFollowUp \/ SendFollowUp PROVE Fits
  <2>1. pc = "gap" /\ pc' = "recover" /\ UNCHANGED <<real, now_sec, mono>> /\ Advanced("sync")
    BY <1>16 DEF GiveUpFollowUp, SendFollowUp, clockVars
  <2>2. Due(sched["sync"], now_sec)
    BY <1>2, <1>7, <2>1 DEF InTime, Due, Kinds
  <2>3. \A k \in Kinds : last'[k] = last[k]
    BY <1>16 DEF GiveUpFollowUp, SendFollowUp, Transmit, TypeOK, Frames, Kinds
  <2>4. /\ sched'["sync"] = Advance(sched["sync"], now_sec)
        /\ sched'["announce"] = sched["announce"]
    BY <1>2, <2>1 DEF Advanced, Kinds
  <2>5. /\ sched'["sync"].deadline = sched["sync"].deadline + sched["sync"].interval
        /\ sched'["sync"].interval = sched["sync"].interval
    BY <1>9, <2>1, <2>2, <2>4 DEF Kinds
  <2>6. real <= now_sec + Slack
    BY <1>2, <1>3, <1>6, <1>8, <2>1 DEF Spent
  <2> HIDE <1>16
  <2> QED  BY <1>2, <1>3, <1>7, <2>1, <2>3, <2>4, <2>5, <2>6
    DEF InLine, Spent, InTime, NextInLine, Kinds
<1>17. ASSUME Start \/ ReadGeneration \/ SeeStop \/ Recover PROVE Fits
  <2>1. UNCHANGED <<real, now_sec, mono, last, sched>>
    BY <1>17 DEF Start, ReadGeneration, SeeStop, Exit, Recover, txVars, clockVars
  <2>2. \/ pc = "init" /\ pc' = "setup"
        \/ pc = "setup_gen" /\ pc' = "loop"
        \/ pc # "gap" /\ pc' = "done"
        \/ pc = "recover" /\ pc' = "loop"
    BY <1>17 DEF Start, ReadGeneration, SeeStop, Exit, Recover
  <2> HIDE <1>17
  <2> QED  BY <1>1, <1>2, <1>3, <1>7, <2>1, <2>2 DEF InLine, Spent, InTime, NextInLine
<1>18. ASSUME Tick PROVE Fits
  <2>1. /\ pc' = pc /\ pc \in {"wait", "gap", "done"} /\ mono' = mono + 1 /\ real' = real + 1
        /\ UNCHANGED <<now_sec, last, sched, wake_at>>
    BY <1>1, <1>18 DEF Tick, Asleep, txVars, InLine
  <2>2. Spent'
    BY <1>2, <1>3, <1>8, <2>1 DEF Spent
  <2>3. \A k \in Kinds : InTime(k)'
    BY <1>2, <1>3, <1>7, <2>1 DEF InTime
  <2>4. \A k \in Kinds : NextInLine(k)'
    BY <1>7, <2>1 DEF NextInLine
  <2> QED  BY <1>7, <2>1, <2>2, <2>3, <2>4 DEF InLine
<1>19. ASSUME \/ Stop \/ UNCHANGED vars
              \/ \E u \in Updaters, patch \in Patches : UpdateRead(u, patch)
              \/ \E u \in Updaters : UpdateStore(u)
       PROVE  Fits
  <2>1. UNCHANGED <<pc, real, mono, now_sec, last, sched, wake_at>>
    BY <1>19 DEF Stop, UpdateRead, UpdateStore, txVars, clockVars, vars
  <2> QED  BY <1>1, <2>1 DEF InLine, Spent, InTime, NextInLine
<1> HIDE DEF Fits
<1>20. Fits
  BY <1>1, <1>10, <1>11, <1>12, <1>13, <1>14, <1>15, <1>16, <1>17, <1>18, <1>19
  DEF Next, TxStep
<1> QED  BY <1>20 DEF Fits

LEMMA InitBoundaries == Init => BoundaryInv
<1> SUFFICES ASSUME Init PROVE InLine
  BY DEF BoundaryInv
<1>1. \A k \in Kinds : last[k].deadline = -1 /\ sched[k].interval = Interval(InitialConfig, k)
  BY ScheduleIntervals DEF Init, Kinds, Frames, NoFrame
<1>2. pc = "init"
  BY DEF Init
<1> QED  BY <1>1, <1>2 DEF InLine, Spent, InTime, NextInLine

\* As long as nothing fails and nothing is changed, every boundary is served.
THEOREM BoundariesAllServed ==
  ASSUME ~EarlyUpdates,
         \A patch \in Patches : Patched(InitialConfig, patch).gap <= InitialConfig.gap,
         \A k \in Kinds : InitialConfig.gap + 2 * MaxLate < Interval(InitialConfig, k)
  PROVE  Spec => EveryBoundaryServed
<1> DEFINE Step == \A k \in Kinds :
                     last'[k] # last[k] /\ last[k].deadline >= 0 /\ Undisturbed =>
                       last'[k].deadline = last[k].deadline + sched[k].interval
           Invariant == /\ TypeOK /\ ConfigsValid /\ Aligned
                        /\ SetUpAlone /\ GapsBounded /\ GenerationTold /\ LoopTimed
                        /\ BoundaryInv
<1>1. Orderly /\ Roomy
  BY DEF Orderly, Roomy
<1>2. Init => Invariant
  BY InitSound, InitUpdates, InitBoundaries DEF UpdateInv
<1>3. Invariant /\ [Next]_vars => Invariant'
  BY <1>1, TypesStay, ConfigsStayValid, AlignedStays, SetUpStays, GapsStay, GenerationStays,
     BackByMoves, BoundariesStay
<1>4. Invariant /\ [Next]_vars => [Step]_vars
  <2> SUFFICES ASSUME TypeOK, BoundaryInv, Next, NEW k \in Kinds,
                      last'[k] # last[k], last[k].deadline >= 0, Undisturbed
               PROVE  last'[k].deadline = last[k].deadline + sched[k].interval
    OBVIOUS
  <2>1. NextInLine(k)
    BY DEF BoundaryInv, InLine
  <2>2. SendAnnounce \/ SendSync
    <3>1. last' # last
      OBVIOUS
    <3>2. ~SendFollowUp
      BY DEF SendFollowUp, Transmit, TypeOK, Kinds, Frames
    <3> QED  BY <3>1, <3>2
      DEF Next, TxStep, Start, ReadConfig, ReadGeneration, SeeStop, Exit, SeeUpdate, Rebuild,
          Sleep, Wake, AnnounceNotDue, SyncNotDue, GiveUpFollowUp, Recover, SendFails, Realign,
          UpdateRead, UpdateStore, UpdateBump, Stop, Tick, SetClock
  <2>3. last'[k].deadline = sched[k].deadline /\ pc # "gap"
    BY <2>2 DEF SendAnnounce, SendSync, Transmit, TypeOK, Kinds, Frames
  <2> QED  BY <2>1, <2>3 DEF NextInLine
<1> QED  BY <1>2, <1>3, <1>4, PTL DEF Spec, EveryBoundaryServed
=============================================================================
