--------------------------- MODULE UnicastSession ---------------------------
(***************************************************************************)
(* A G.8275.2 unicast session (ptp/g82752_unicast.py): the manager thread  *)
(* negotiates the Announce and then the Sync contract, measures, renews    *)
(* the contract before it ends, and gives up when told to stop.  Its       *)
(* caller is the worker of the web lab (web/ptp_lab.py) or the command     *)
(* line (ptp/cli.py).  The grandmaster and the network are external: the   *)
(* grandmaster answers a REQUEST with one GRANT per service, the network   *)
(* loses messages and reorders grants.                                     *)
(*                                                                         *)
(* Time is relative: every timer counts the ticks it has left.  Threads    *)
(* and network are prompt: a tick passes only when all have to wait.       *)
(***************************************************************************)
EXTENDS Integers, Sequences, FiniteSets, SequencesExt

CONSTANTS
  Duration,            \* duration_sec: what every REQUEST asks for
  MinMargin,           \* the 10 s of _margin_seconds
  RequestTimeout,      \* request_timeout
  RetrySleep,          \* the 1 s of _sleep_retry
  AnnounceTimeout,     \* first_announce_timeout
  SyncTimeout,         \* sync_timeout
  DelayTimeout,        \* delay_timeout
  Intervals,           \* delay_request_interval_sec, 0 for one exchange only
  Limits,              \* measure_duration_sec, 0 for no limit
  JoinTimeout,         \* the 10 s of stop_acr
  NegotiateDelayResp,  \* negotiate_delay_resp
  Callers,             \* who runs the session: "lab", "cli", "cli_cancel_after"
  GrantDurations,      \* durations the grandmaster grants, 0 to deny
  GeneralBufMax,       \* general_buf_max (1024 in the code)
  MaxLosses,           \* bound: messages lost between two successful contracts
  MaxDenials,          \* bound: denials counted per service (the code compares with 3)
  MaxRefusals          \* bound: denials the grandmaster sends per service

ASSUME UnicastAssumption ==
  /\ {Duration, RequestTimeout, AnnounceTimeout, SyncTimeout, DelayTimeout,
      GeneralBufMax} \subseteq Nat \ {0}
  /\ {MinMargin, RetrySleep, JoinTimeout, MaxLosses, MaxDenials,
      MaxRefusals} \subseteq Nat
  /\ Intervals \subseteq Nat /\ Limits \subseteq Nat
  /\ NegotiateDelayResp \in BOOLEAN
  /\ Callers \subseteq {"lab", "cli", "cli_cancel_after"}
  /\ GrantDurations \subseteq 0..Duration

VARIABLES
  pc,           \* where the manager thread is
  neg,          \* the negotiation under way: phase, target, attempt, grants collected
  ret,          \* where the manager goes on after a renewal
  left,         \* ticks left of the wait the manager is in
  next_in,      \* ticks left until the next Delay_Req
  tries,        \* waits for the first Announce so far
  state,        \* self.state is set: negotiate() has succeeded
  age,          \* ticks since _mark_contract_started, up to Duration
  measured,     \* a Delay exchange has succeeded (round_no > 0)
  measure_left, \* ticks left of the measurement, -1 before it has begun
  denials,      \* _denial_counts
  stop,         \* _stop_manager
  error,        \* _manager_error
  caller,       \* who runs the session, with which interval and limit, and where it is
  buf,          \* _general_buf: the GRANTs in it, in order of arrival
  to_gm,        \* Signalling on its way to the grandmaster
  to_client,    \* GRANTs on their way back
  gm,           \* external: ticks the grandmaster still serves each service
  denied,       \* history: denials the grandmaster has sent, per service
  losses,       \* messages lost since the last successful contract
  cancel_lost   \* history: the CANCEL was lost

manager == <<pc, neg, ret, left, next_in, tries, state, age, measured, measure_left,
             denials, error>>
measuring == <<next_in, measured, measure_left>>
contract == <<tries, state, age>>
outside == <<stop, caller>>
peer == <<to_client, gm, denied, cancel_lost>>
network == <<buf, to_gm, to_client, gm, denied, losses, cancel_lost>>
vars == <<pc, neg, ret, left, next_in, tries, state, age, measured, measure_left,
          denials, error, stop, caller, buf, to_gm, to_client, gm, denied, losses,
          cancel_lost>>

Services == {"announce", "sync"} \cup (IF NegotiateDelayResp THEN {"delay_resp"} ELSE {})

Asked(phase) ==
  CASE phase = "announce" -> {"announce"}
    [] phase = "sync"     -> Services \ {"announce"}
    [] phase = "renew"    -> Services

UpTo(bound, n) == IF n < bound THEN n ELSE bound

Periodic == caller.interval > 0
Limited == caller.limit > 0
Overdue == measure_left = 0 /\ Limited
Closed == caller.pc = "over"

\* Mutant of Margin: the margin for retries is not kept up for short contracts.
QuarterMargin == Duration \div 4

\* _margin_seconds
Margin == IF Duration \div 4 > MinMargin THEN Duration \div 4 ELSE MinMargin

\* _seconds_until_renewal() <= 0: counted from the duration asked for, not granted.
RenewalDue == age >= Duration - Margin

Grant == [service : Services, duration : GrantDurations]
Fresh(phase, wild) == [phase |-> phase, wild |-> wild, attempt |-> 1, got |-> {}]
Idle == [phase |-> "none", wild |-> FALSE, attempt |-> 0, got |-> {}]

-----------------------------------------------------------------------------
(***************************************************************************)
(* The manager: where a step leads.                                        *)
(***************************************************************************)
\* Wait at a place for some ticks, or go there without waiting.
Wait(place, ticks) == pc' = place /\ left' = ticks
Go(place) == Wait(place, 0)

Finish(e) == Go("done") /\ error' = e

\* _renew_if_due, once it is due or forced: the manager renews and comes back.
Renew(place) == Go("request") /\ neg' = Fresh("renew", FALSE) /\ ret' = place

\* A negotiation that fails ends the manager, a renewal only itself.
Fail(e) ==
  /\ neg' = Idle
  /\ ret' = "none"
  /\ IF neg.phase = "renew" THEN Go(ret) /\ UNCHANGED error ELSE Finish(e)

MarkContractStarted == age' = 0 /\ losses' = 0

Succeed ==
  /\ neg' = Idle
  /\ ret' = "none"
  /\ CASE neg.phase = "announce" ->
            /\ Wait("first", AnnounceTimeout)
            /\ tries' = 1
            /\ UNCHANGED <<state, age, losses>>
       [] neg.phase = "sync" ->
            /\ Wait("sync", SyncTimeout)
            /\ state' = TRUE
            /\ MarkContractStarted
            /\ UNCHANGED tries
       [] neg.phase = "renew" ->
            /\ Go(ret)
            /\ MarkContractStarted
            /\ UNCHANGED <<state, tries>>

SendSignaling(kind, services) ==
  to_gm' = Append(to_gm, [kind |-> kind, services |-> services])

-----------------------------------------------------------------------------
(***************************************************************************)
(* _negotiate_with_retries and _collect_grants_until.                      *)
(***************************************************************************)
\* An attempt begins: the stop flag is looked at here and nowhere else.
BeginAttempt ==
  /\ pc = "request"
  /\ IF stop
     THEN Fail("stop") /\ UNCHANGED to_gm
     ELSE /\ SendSignaling("request", Asked(neg.phase))
          /\ Wait("collect", RequestTimeout)
          /\ neg' = [neg EXCEPT !.got = {}]
          /\ UNCHANGED <<ret, error>>
  /\ UNCHANGED <<measuring, contract, denials, outside, buf, peer, losses>>

\* Where in the buffer a service asked for is granted, or denied.
Relevant == {i \in DOMAIN buf : buf[i].service \in Asked(neg.phase)}
Denied == {i \in Relevant : buf[i].duration = 0}

\* The frames at some places stay, in their order.
KeepOnly(places) ==
  \E at \in [1..Cardinality(places) -> places] :
    /\ \A i, j \in DOMAIN at : i < j => at[i] < at[j]
    /\ buf' = [i \in DOMAIN at |-> buf[at[i]]]

\* A denial is counted and raised out of the scan: the frame stays in the buffer.
GrantDenied ==
  /\ pc = "collect" /\ left > 0
  /\ Denied # {}
  /\ denials' = [denials EXCEPT ![buf[Min(Denied)].service] = UpTo(MaxDenials, @ + 1)]
  /\ Fail("denied")
  /\ UNCHANGED <<measuring, contract, outside, network>>

\* Mutant of CollectGrants: a GRANT that has been used stays in the buffer.
CollectAndKeep ==
  /\ pc = "collect" /\ left > 0
  /\ ~(Asked(neg.phase) \subseteq neg.got)
  /\ Relevant # {} /\ Denied = {}
  /\ LET got == neg.got \cup {buf[i].service : i \in Relevant} IN
       IF Asked(neg.phase) \subseteq got
       THEN Succeed
       ELSE /\ neg' = [neg EXCEPT !.got = got]
            /\ UNCHANGED <<pc, ret, left, contract, losses>>
  /\ UNCHANGED <<measuring, denials, error, outside, buf, to_gm, peer>>

CollectGrants ==
  /\ pc = "collect" /\ left > 0
  /\ Relevant # {} /\ Denied = {}
  /\ KeepOnly(DOMAIN buf \ Relevant)
  /\ LET got == neg.got \cup {buf[i].service : i \in Relevant} IN
       IF Asked(neg.phase) \subseteq got
       THEN Succeed
       ELSE /\ neg' = [neg EXCEPT !.got = got]
            /\ UNCHANGED <<pc, ret, left, contract, losses>>
  /\ UNCHANGED <<measuring, denials, error, outside, to_gm, peer>>

\* Three attempts to the grandmaster's port; but for Announce three more to the wildcard.
AttemptTimesOut ==
  /\ pc = "collect" /\ left = 0
  /\ \/ /\ neg.attempt < 3
        /\ Wait("retry", RetrySleep)
        /\ UNCHANGED <<neg, ret, error>>
     \/ /\ neg.attempt = 3 /\ ~neg.wild /\ neg.phase # "announce"
        /\ Go("request")
        /\ neg' = Fresh(neg.phase, TRUE)
        /\ UNCHANGED <<ret, error>>
     \/ /\ neg.attempt = 3 /\ (neg.wild \/ neg.phase = "announce")
        /\ Fail("timeout")
  /\ UNCHANGED <<measuring, contract, denials, outside, network>>

RetryBegins ==
  /\ pc = "retry" /\ left = 0
  /\ Go("request")
  /\ neg' = [neg EXCEPT !.attempt = @ + 1]
  /\ UNCHANGED <<ret, measuring, contract, denials, error, outside, network>>

-----------------------------------------------------------------------------
(***************************************************************************)
(* negotiate(): the first Announce names the grandmaster.                  *)
(***************************************************************************)
FirstAnnounceArrives ==
  /\ pc = "first" /\ left > 0
  /\ Go("request")
  /\ neg' = Fresh("sync", FALSE)
  /\ tries' = 0
  /\ UNCHANGED <<ret, measuring, state, age, denials, error, outside, network>>

\* Announce is requested again, but the GRANT is not waited for.
FirstAnnounceTimesOut ==
  /\ pc = "first" /\ left = 0
  /\ IF tries < 3 /\ ~Closed
     THEN /\ SendSignaling("request", Asked("announce"))
          /\ Wait("first_retry", RetrySleep)
          /\ UNCHANGED error
     ELSE /\ Finish(IF Closed /\ tries < 3 THEN "closed" ELSE "timeout")
          /\ UNCHANGED to_gm
  /\ UNCHANGED <<neg, ret, measuring, contract, denials, outside, buf, peer, losses>>

FirstAnnounceAgain ==
  /\ pc = "first_retry" /\ left = 0
  /\ Wait("first", AnnounceTimeout)
  /\ tries' = tries + 1
  /\ UNCHANGED <<neg, ret, measuring, state, age, denials, error, outside, network>>

-----------------------------------------------------------------------------
(***************************************************************************)
(* measure_acr().                                                          *)
(***************************************************************************)
\* wait_sync_sample() finds a Sync; the measurement limit counts from here.
SyncArrives ==
  /\ pc \in {"sync", "sync_again"} /\ left > 0
  /\ Go("loop")
  /\ measure_left' = caller.limit
  /\ UNCHANGED <<neg, ret, next_in, contract, measured, denials, error, outside, network>>

SyncTimesOut ==
  /\ pc \in {"sync", "sync_again"} /\ left = 0
  /\ \/ /\ stop
        /\ Finish("none")
        /\ UNCHANGED <<neg, ret>>
     \/ /\ ~stop /\ pc = "sync"
        /\ Renew("resync")
        /\ UNCHANGED error
     \/ /\ ~stop /\ pc = "sync_again"
        /\ Finish("timeout")
        /\ UNCHANGED <<neg, ret>>
  /\ UNCHANGED <<measuring, contract, denials, outside, network>>

Resync ==
  /\ pc = "resync"
  /\ IF Closed THEN Finish("closed") ELSE Wait("sync_again", SyncTimeout) /\ UNCHANGED error
  /\ UNCHANGED <<neg, ret, measuring, contract, denials, outside, network>>

\* Mutant of LoopHead: the loop does not look at the stop flag.
LoopHeadDeaf ==
  /\ pc = "loop"
  /\ \/ /\ measured /\ Overdue
        /\ Finish("none")
        /\ UNCHANGED <<neg, ret>>
     \/ /\ ~(measured /\ Overdue) /\ RenewalDue
        /\ Renew("exchange")
        /\ UNCHANGED error
     \/ /\ ~(measured /\ Overdue) /\ ~RenewalDue
        /\ Go("exchange")
        /\ UNCHANGED <<neg, ret, error>>
  /\ UNCHANGED <<measuring, contract, denials, outside, network>>

\* The head of the loop: the limit counts only once an exchange has succeeded.
LoopHead ==
  /\ pc = "loop"
  /\ \/ /\ stop \/ (measured /\ Overdue)
        /\ Finish("none")
        /\ UNCHANGED <<neg, ret>>
     \/ /\ ~stop /\ ~(measured /\ Overdue) /\ RenewalDue
        /\ Renew("exchange")
        /\ UNCHANGED error
     \/ /\ ~stop /\ ~(measured /\ Overdue) /\ ~RenewalDue
        /\ Go("exchange")
        /\ UNCHANGED <<neg, ret, error>>
  /\ UNCHANGED <<measuring, contract, denials, outside, network>>

SendDelayReq ==
  /\ pc = "exchange"
  /\ IF Closed THEN Finish("closed") ELSE Wait("delay", DelayTimeout) /\ UNCHANGED error
  /\ UNCHANGED <<neg, ret, measuring, contract, denials, outside, network>>

Pause == Go("pause") /\ next_in' = caller.interval

DelayRespArrives ==
  /\ pc = "delay" /\ left > 0
  /\ measured' = TRUE
  /\ IF ~Periodic \/ (Limited /\ caller.interval >= measure_left)
     THEN Finish("none") /\ UNCHANGED next_in
     ELSE Pause /\ UNCHANGED error
  /\ UNCHANGED <<neg, ret, contract, measure_left, denials, outside, network>>

DelayRespTimesOut ==
  /\ pc = "delay" /\ left = 0
  /\ Renew("missed")
  /\ UNCHANGED <<measuring, contract, denials, error, outside, network>>

Missed ==
  /\ pc = "missed"
  /\ IF Periodic
     THEN Pause /\ UNCHANGED error
     ELSE Finish(IF stop THEN "none" ELSE "timeout") /\ UNCHANGED next_in
  /\ UNCHANGED <<neg, ret, contract, measured, measure_left, denials, outside, network>>

\* _sleep_until_next_or_deadline: one round of its loop, then a nap.
PauseRound ==
  /\ pc = "pause"
  /\ \/ /\ stop \/ next_in = 0 \/ Overdue
        /\ Go("loop")
        /\ next_in' = 0
        /\ UNCHANGED <<neg, ret>>
     \/ /\ ~stop /\ next_in > 0 /\ ~Overdue
        /\ IF RenewalDue THEN Renew("nap") ELSE Go("nap") /\ UNCHANGED <<neg, ret>>
        /\ UNCHANGED next_in
  /\ UNCHANGED <<contract, measured, measure_left, denials, error, outside, network>>

Nap ==
  /\ pc = "nap"
  /\ IF next_in = 0 \/ Overdue
     THEN Go("loop") /\ next_in' = 0
     ELSE Wait("napping", 1) /\ UNCHANGED next_in
  /\ UNCHANGED <<neg, ret, contract, measured, measure_left, denials, error, outside,
                 network>>

NapEnds ==
  /\ pc = "napping" /\ left = 0
  /\ Go("pause")
  /\ UNCHANGED <<neg, ret, measuring, contract, denials, error, outside, network>>

-----------------------------------------------------------------------------
(***************************************************************************)
(* The callers.                                                            *)
(***************************************************************************)
CallerGo(place, ticks) == caller' = [caller EXCEPT !.pc = place, !.left = ticks]

\* The lab's worker passes a stop on and then waits for the manager to end.
RequestStop ==
  /\ caller.by = "lab" /\ caller.pc = "waiting"
  /\ ~stop /\ pc # "done"
  /\ stop' = TRUE
  /\ UNCHANGED <<manager, caller, network>>

\* cancel_unicast(): the lab always, the command line when asked to and all went well.
Cancels == caller.by = "lab" \/ (caller.by = "cli_cancel_after" /\ error = "none" /\ state)

\* Mutant of ManagerEnded: the caller does not wait for the manager to end.
CancelOnStop ==
  /\ caller.pc = "waiting" /\ (pc = "done" \/ stop)
  /\ CallerGo("stopping", 0)
  /\ IF Cancels THEN SendSignaling("cancel", Services) ELSE UNCHANGED to_gm
  /\ UNCHANGED <<manager, stop, buf, peer, losses>>

ManagerEnded ==
  /\ caller.pc = "waiting" /\ pc = "done"
  /\ CallerGo("stopping", 0)
  /\ IF Cancels THEN SendSignaling("cancel", Services) ELSE UNCHANGED to_gm
  /\ UNCHANGED <<manager, stop, buf, peer, losses>>

\* Ctrl+C, or wait_acr() has timed out, on the command line: no CANCEL.
Interrupt ==
  /\ caller.by # "lab" /\ caller.pc = "waiting"
  /\ CallerGo("stopping", 0)
  /\ UNCHANGED <<manager, stop, network>>

\* stop_acr(): set the flag, join for a while.
StopAcr ==
  /\ caller.pc = "stopping"
  /\ stop' = TRUE
  /\ CallerGo("joining", JoinTimeout)
  /\ UNCHANGED <<manager, network>>

\* client.close(), whether or not the manager has ended.
Close ==
  /\ caller.pc = "joining"
  /\ pc = "done" \/ caller.left = 0
  /\ CallerGo("over", 0)
  /\ buf' = <<>>
  /\ UNCHANGED <<manager, stop, to_gm, peer, losses>>

-----------------------------------------------------------------------------
(***************************************************************************)
(* The grandmaster, the network and the receiver thread.                   *)
(***************************************************************************)
\* A REQUEST is granted or denied as a whole; every service is answered in a
\* frame of its own.  A denial leaves what was granted before as it was.
GmAnswers(duration) ==
  /\ to_gm # <<>> /\ Head(to_gm).kind = "request"
  /\ to_gm' = Tail(to_gm)
  /\ LET services == Head(to_gm).services IN
       /\ to_client' = to_client \cup [service : services, duration : {duration}]
       /\ IF duration = 0
          THEN /\ \A s \in services : denied[s] < MaxRefusals
               /\ denied' = [s \in Services |-> IF s \in services
                                                THEN denied[s] + 1 ELSE denied[s]]
               /\ UNCHANGED gm
          ELSE /\ gm' = [s \in Services |-> IF s \in services THEN duration ELSE gm[s]]
               /\ UNCHANGED denied
  /\ UNCHANGED <<manager, outside, buf, losses, cancel_lost>>

GmCancels ==
  /\ to_gm # <<>> /\ Head(to_gm).kind = "cancel"
  /\ to_gm' = Tail(to_gm)
  /\ gm' = [s \in Services |-> IF s \in Head(to_gm).services THEN 0 ELSE gm[s]]
  /\ UNCHANGED <<manager, outside, buf, to_client, denied, losses, cancel_lost>>

LoseSignaling ==
  /\ to_gm # <<>> /\ losses < MaxLosses
  /\ to_gm' = Tail(to_gm)
  /\ losses' = losses + 1
  /\ cancel_lost' = (cancel_lost \/ Head(to_gm).kind = "cancel")
  /\ UNCHANGED <<manager, outside, buf, to_client, gm, denied>>

LoseGrant(g) ==
  /\ g \in to_client /\ losses < MaxLosses
  /\ to_client' = to_client \ {g}
  /\ losses' = losses + 1
  /\ UNCHANGED <<manager, outside, buf, to_gm, gm, denied, cancel_lost>>

\* Mutant of Receive: a deque without maxlen.
ReceiveAll(g) ==
  /\ g \in to_client
  /\ to_client' = to_client \ {g}
  /\ buf' = IF Closed THEN buf ELSE Append(buf, g)
  /\ UNCHANGED <<manager, outside, to_gm, gm, denied, losses, cancel_lost>>

\* The receiver thread appends; a full deque drops its oldest entry.
Receive(g) ==
  /\ g \in to_client
  /\ to_client' = to_client \ {g}
  /\ buf' = IF Closed THEN buf
            ELSE LET b == Append(buf, g) IN
                   IF Len(b) > GeneralBufMax THEN Tail(b) ELSE b
  /\ UNCHANGED <<manager, outside, to_gm, gm, denied, losses, cancel_lost>>

\* Announce, Sync and Follow_Up fill the deque as well and push out old grants.
Evict ==
  /\ buf # <<>> /\ pc # "collect"
  /\ buf' = Tail(buf)
  /\ UNCHANGED <<manager, outside, to_gm, peer, losses>>

-----------------------------------------------------------------------------
(***************************************************************************)
(* Time.                                                                   *)
(***************************************************************************)
Waiting == /\ pc \in {"collect", "retry", "first", "first_retry", "sync", "sync_again",
                      "delay", "napping"}
           /\ left > 0
           /\ pc = "collect" => Relevant = {}

Down(n) == IF n > 0 THEN n - 1 ELSE n

Tick ==
  /\ Waiting
  /\ to_gm = <<>> /\ to_client = {}
  /\ caller.pc = "waiting" \/ caller.left > 0 \/ Closed
  /\ left' = left - 1
  /\ next_in' = Down(next_in)
  /\ measure_left' = Down(measure_left)
  /\ age' = UpTo(Duration, age + 1)
  /\ gm' = [s \in Services |-> Down(gm[s])]
  /\ caller' = [caller EXCEPT !.left = Down(@)]
  /\ UNCHANGED <<pc, neg, ret, tries, state, measured, denials, error, stop, buf, to_gm,
                 to_client, denied, losses, cancel_lost>>

-----------------------------------------------------------------------------
Init ==
  /\ pc = "request" /\ neg = Fresh("announce", FALSE) /\ ret = "none"
  /\ left = 0 /\ next_in = 0 /\ tries = 0
  /\ state = FALSE /\ age = Duration
  /\ measured = FALSE /\ measure_left = -1
  /\ denials = [s \in Services |-> 0]
  /\ stop = FALSE /\ error = "none"
  /\ \E by \in Callers, interval \in Intervals, limit \in Limits :
       caller = [by |-> by, interval |-> interval, limit |-> limit, pc |-> "waiting",
                 left |-> 0]
  /\ buf = <<>> /\ to_gm = <<>> /\ to_client = {}
  /\ gm = [s \in Services |-> 0] /\ denied = [s \in Services |-> 0]
  /\ losses = 0 /\ cancel_lost = FALSE

Negotiate == BeginAttempt \/ GrantDenied \/ CollectGrants \/ AttemptTimesOut \/ RetryBegins
             \/ FirstAnnounceArrives \/ FirstAnnounceTimesOut \/ FirstAnnounceAgain

Measure == SyncArrives \/ SyncTimesOut \/ Resync \/ LoopHead \/ SendDelayReq
           \/ DelayRespArrives \/ DelayRespTimesOut \/ Missed
           \/ PauseRound \/ Nap \/ NapEnds

Calling == RequestStop \/ ManagerEnded \/ Interrupt \/ StopAcr \/ Close

Network == \/ \E d \in GrantDurations : GmAnswers(d)
           \/ GmCancels \/ LoseSignaling
           \/ \E g \in Grant : LoseGrant(g) \/ Receive(g)
           \/ Evict

\* The session is over and nothing is on its way.
Over == Closed /\ pc = "done" /\ to_gm = <<>> /\ to_client = {} /\ UNCHANGED vars

Next == Negotiate \/ Measure \/ Calling \/ Network \/ Tick \/ Over

Spec == Init /\ [][Next]_vars

\* The threads run, what is on its way arrives (or is lost) and is answered, time
\* passes.  Nobody has to stop the session; Sync and Delay_Resp need not come.
FairSpec ==
  /\ Spec
  /\ WF_vars(Negotiate) /\ WF_vars(Measure) /\ WF_vars(Tick)
  /\ WF_vars(ManagerEnded \/ StopAcr \/ Close)
  /\ WF_vars(\E d \in GrantDurations : GmAnswers(d)) /\ WF_vars(GmCancels)
  /\ WF_vars(\E g \in Grant : Receive(g))

-----------------------------------------------------------------------------
(***************************************************************************)
(* Properties.                                                             *)
(***************************************************************************)
\* Every variable has its type; the buffer keeps within its bound and no
\* negotiation makes a fourth attempt.
TypeOK ==
  /\ pc \in {"request", "collect", "retry", "first", "first_retry", "sync", "resync",
             "sync_again", "loop", "exchange", "delay", "missed", "pause", "nap",
             "napping", "done"}
  /\ neg \in [phase : {"none", "announce", "sync", "renew"}, wild : BOOLEAN,
              attempt : 0..3, got : SUBSET Services]
  /\ ret \in {"none", "resync", "exchange", "missed", "nap"}
  /\ left \in Nat
  /\ next_in \in 0..caller.interval
  /\ tries \in 0..3
  /\ state \in BOOLEAN /\ measured \in BOOLEAN
  /\ age \in 0..Duration
  /\ measure_left \in -1..caller.limit
  /\ denials \in [Services -> 0..MaxDenials]
  /\ stop \in BOOLEAN
  /\ error \in {"none", "stop", "denied", "timeout", "closed"}
  /\ caller \in [by : Callers, interval : Intervals, limit : Limits,
                 pc : {"waiting", "stopping", "joining", "over"},
                 left : 0..JoinTimeout]
  /\ buf \in Seq(Grant) /\ Len(buf) <= GeneralBufMax
  /\ to_client \subseteq Grant
  /\ gm \in [Services -> 0..Duration]
  /\ denied \in [Services -> 0..MaxRefusals]
  /\ losses \in 0..MaxLosses
  /\ cancel_lost \in BOOLEAN

\* While the session measures and nobody stops it, the contract of a willing
\* grandmaster has not run out: it is renewed in time in spite of lost messages.
Willing == \A s \in Services : denied[s] = 0

ContractKept ==
  Willing /\ state /\ pc # "done" /\ ~stop => \A s \in Services : gm[s] > 0

\* While nothing is denied the session is a lease of the Sync service: the client
\* never believes in a longer contract than it has been granted, and what it
\* cancels it has stopped to use.
Lease == INSTANCE UnicastLease WITH
  Term   <- Duration,
  served <- gm["sync"],
  relied <- IF Willing /\ state /\ caller.pc = "waiting" THEN Duration - age ELSE 0

IsLease == Lease!Spec

\* Once the lab has closed the session and its CANCEL has arrived, the
\* grandmaster serves nothing any more: no REQUEST follows the CANCEL.
LabLeavesNothing ==
  Closed /\ caller.by = "lab" /\ to_gm = <<>> /\ ~cancel_lost
    => \A s \in Services : gm[s] = 0

\* A denial is counted once: the count that ends in "denied three times" never
\* exceeds the denials the grandmaster has sent.
DenialsCounted == \A s \in Services : denials[s] <= denied[s]

\* A stop ends the manager, wherever it is: every wait has an end, and no
\* renewal is begun any more.
StopEnds == stop ~> pc = "done"

=============================================================================
