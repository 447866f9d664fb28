------------------------ MODULE UnicastSession_proofs -----------------------
(***************************************************************************)
(* Theorems about the G.8275.2 session, for every duration, margin, wait   *)
(* and number of lost messages: its types, that it implements the lease of *)
(* module UnicastLease, that the lab leaves no service behind, and that    *)
(* the contract is renewed in time.                                        *)
(***************************************************************************)
EXTENDS UnicastSession, FiniteSetTheorems, SequenceTheorems, TLAPS

Message == [kind : {"request", "cancel"}, services : SUBSET Services]

Negotiating == {"request", "collect", "retry"}

\* Where the manager is goes with what it is negotiating and where it returns to.
Stages ==
  /\ to_gm \in Seq(Message)
  /\ pc \in Negotiating <=> neg.phase # "none"
  /\ neg.phase = "renew" <=> ret # "none"
  /\ neg.phase # "none" => neg.attempt \in 1..3
  /\ pc = "retry" => neg.attempt < 3
  /\ pc = "first_retry" => tries < 3

SessionInv == TypeOK /\ Stages

LEMMA ConstantTypes ==
  /\ Duration \in Nat \ {0} /\ RequestTimeout \in Nat \ {0} /\ AnnounceTimeout \in Nat \ {0}
  /\ SyncTimeout \in Nat \ {0} /\ DelayTimeout \in Nat \ {0} /\ GeneralBufMax \in Nat \ {0}
  /\ MinMargin \in Nat /\ RetrySleep \in Nat /\ JoinTimeout \in Nat
  /\ MaxLosses \in Nat /\ MaxDenials \in Nat /\ MaxRefusals \in Nat
  /\ Intervals \subseteq Nat /\ Limits \subseteq Nat
  /\ \A d \in GrantDurations : d \in 0..Duration
  BY UnicastAssumption

(***************************************************************************)
(* Types.  TypeOK and Stages by who changes what.                          *)
(***************************************************************************)
Pcs == {"request", "collect", "retry", "first", "first_retry", "sync", "resync",
        "sync_again", "loop", "exchange", "delay", "missed", "pause", "nap", "napping", "done"}
Negotiation == [phase : {"none", "announce", "sync", "renew"}, wild : BOOLEAN,
                attempt : 0..3, got : SUBSET Services]

ControlTyped ==
  /\ pc \in Pcs /\ neg \in Negotiation
  /\ ret \in {"none", "resync", "exchange", "missed", "nap"}
  /\ left \in Nat /\ tries \in 0..3
  /\ state \in BOOLEAN /\ measured \in BOOLEAN /\ age \in 0..Duration
  /\ error \in {"none", "stop", "denied", "timeout", "closed"}
  /\ pc \in Negotiating <=> neg.phase # "none"
  /\ neg.phase = "renew" <=> ret # "none"
  /\ neg.phase # "none" => neg.attempt \in 1..3
  /\ pc = "retry" => neg.attempt < 3
  /\ pc = "first_retry" => tries < 3

Caller == [by : Callers, interval : Intervals, limit : Limits,
           pc : {"waiting", "stopping", "joining", "over"}, left : 0..JoinTimeout]

CallerTyped ==
  /\ stop \in BOOLEAN /\ caller \in Caller
  /\ next_in \in 0..caller.interval /\ measure_left \in -1..caller.limit

NetworkTyped ==
  /\ to_gm \in Seq(Message) /\ to_client \subseteq Grant
  /\ gm \in [Services -> 0..Duration] /\ denied \in [Services -> 0..MaxRefusals]
  /\ losses \in 0..MaxLosses /\ cancel_lost \in BOOLEAN

BufferTyped == buf \in Seq(Grant) /\ Len(buf) <= GeneralBufMax

DenialsTyped == denials \in [Services -> 0..MaxDenials]

LEMMA Parts ==
  /\ SessionInv <=> ControlTyped /\ CallerTyped /\ NetworkTyped /\ BufferTyped /\ DenialsTyped
  /\ SessionInv' <=>
       ControlTyped' /\ CallerTyped' /\ NetworkTyped' /\ BufferTyped' /\ DenialsTyped'
  BY DEF SessionInv, TypeOK, Stages, ControlTyped, CallerTyped, NetworkTyped, BufferTyped,
         DenialsTyped, Pcs, Negotiation, Caller

LEMMA AskedTyped ==
  ASSUME NEW phase \in {"announce", "sync", "renew"}
  PROVE  /\ Asked(phase) \subseteq Services
         /\ phase = "announce" => Asked(phase) = {"announce"}
         /\ phase # "announce" => "sync" \in Asked(phase)
         /\ phase = "renew" => Asked(phase) = Services
  BY DEF Asked, Services

LEMMA FreshTyped ==
  ASSUME NEW phase \in {"announce", "sync", "renew"}, NEW wild \in BOOLEAN
  PROVE  /\ Fresh(phase, wild) \in Negotiation /\ Fresh(phase, wild).phase = phase
         /\ Fresh(phase, wild).attempt = 1 /\ Fresh(phase, wild).got = {}
  BY DEF Fresh, Negotiation

LEMMA IdleTyped == Idle \in Negotiation /\ Idle.phase = "none"
  BY DEF Idle, Negotiation

LEMMA InitTyped == Init => SessionInv
<1> SUFFICES ASSUME Init PROVE SessionInv
  OBVIOUS
<1>1. ControlTyped
  <2>1. /\ pc = "request" /\ ret = "none" /\ left = 0 /\ tries = 0
        /\ age = Duration /\ error = "none"
    BY DEF Init
  <2>2. /\ neg \in Negotiation /\ neg.phase = "announce" /\ neg.attempt = 1
        /\ age \in 0..Duration
    BY <2>1, ConstantTypes DEF Init, Fresh, Negotiation
  <2>3. state \in BOOLEAN /\ measured \in BOOLEAN
    BY DEF Init
  <2> QED
    BY <2>1, <2>2, <2>3 DEF ControlTyped, Pcs, Negotiating
<1>2. CallerTyped
  <2>1. PICK by \in Callers, interval \in Intervals, limit \in Limits :
          caller = [by |-> by, interval |-> interval, limit |-> limit, pc |-> "waiting", left |-> 0]
    BY DEF Init
  <2>2. interval \in Nat /\ limit \in Nat /\ 0 \in 0..JoinTimeout
    BY ConstantTypes
  <2>3. caller \in Caller /\ caller.interval = interval /\ caller.limit = limit
    BY <2>1, <2>2 DEF Caller
  <2>4. next_in = 0 /\ measure_left = -1 /\ stop = FALSE
    BY DEF Init
  <2>5. next_in \in 0..interval /\ measure_left \in -1..limit
    BY <2>2, <2>4
  <2> QED
    BY <2>3, <2>4, <2>5 DEF CallerTyped
<1>3. NetworkTyped
  <2>1. /\ to_gm = <<>> /\ to_client = {} /\ gm = [s \in Services |-> 0]
        /\ denied = [s \in Services |-> 0] /\ losses = 0 /\ cancel_lost = FALSE
    BY DEF Init
  <2>2. 0 \in 0..Duration /\ 0 \in 0..MaxRefusals /\ 0 \in 0..MaxLosses
    BY ConstantTypes
  <2>3. to_gm \in Seq(Message) /\ to_client \subseteq Grant
    BY <2>1
  <2>4. gm \in [Services -> 0..Duration] /\ denied \in [Services -> 0..MaxRefusals]
    BY <2>1, <2>2
  <2> QED
    BY <2>1, <2>2, <2>3, <2>4 DEF NetworkTyped
<1>4. BufferTyped /\ DenialsTyped
  BY ConstantTypes DEF Init, BufferTyped, DenialsTyped
<1> QED
  BY <1>1, <1>2, <1>3, <1>4, Parts

\* A message goes to the end of what is on its way.
LEMMA SendTyped ==
  ASSUME to_gm \in Seq(Message), NEW kind \in {"request", "cancel"},
         NEW services \in SUBSET Services, SendSignaling(kind, services)
  PROVE  /\ to_gm' \in Seq(Message)
         /\ to_gm' = Append(to_gm, [kind |-> kind, services |-> services])
  BY DEF SendSignaling, Message

\* A failed negotiation leads the manager on, or ends it.
LEMMA FailTyped ==
  ASSUME ControlTyped, pc \in Negotiating, NEW e \in {"stop", "denied", "timeout"}, Fail(e),
         UNCHANGED <<tries, state, measured, age>>
  PROVE  ControlTyped' /\ pc' \notin Negotiating
<1>1. neg' = Idle /\ ret' = "none" /\ left' = 0
  BY DEF Fail, Go, Wait, Finish
<1>2. pc' \in {"resync", "exchange", "missed", "nap", "done"} /\ error' \in {error, e}
  BY DEF Fail, Go, Wait, Finish, ControlTyped
<1> QED
  BY <1>1, <1>2, IdleTyped DEF ControlTyped, Pcs, Negotiating

LEMMA SucceedTyped ==
  ASSUME ControlTyped, pc = "collect", losses \in 0..MaxLosses, Succeed,
         UNCHANGED <<measured, error>>
  PROVE  /\ ControlTyped' /\ losses' \in 0..MaxLosses /\ pc' \notin Negotiating
         /\ neg.phase = "announce" => state' = state /\ age' = age
         /\ neg.phase = "sync" => state' /\ age' = 0
         /\ neg.phase = "renew" => state' = state /\ age' = 0
<1>1. neg' = Idle /\ ret' = "none" /\ neg.phase \in {"announce", "sync", "renew"}
  BY DEF Succeed, ControlTyped, Negotiation, Negotiating
<1>2. CASE neg.phase = "announce"
  <2>1. /\ pc' = "first" /\ left' = AnnounceTimeout /\ tries' = 1
        /\ UNCHANGED <<state, age, losses>>
    BY <1>2 DEF Succeed, Wait
  <2> QED
    BY <1>1, <1>2, <2>1, IdleTyped, ConstantTypes DEF ControlTyped, Pcs, Negotiating
<1>3. CASE neg.phase = "sync"
  <2>1. /\ pc' = "sync" /\ left' = SyncTimeout /\ state' = TRUE /\ age' = 0 /\ losses' = 0
        /\ tries' = tries
    BY <1>3 DEF Succeed, Wait, MarkContractStarted
  <2> QED
    BY <1>1, <1>3, <2>1, IdleTyped, ConstantTypes DEF ControlTyped, Pcs, Negotiating
<1>4. CASE neg.phase = "renew"
  <2>1. /\ pc' = ret /\ left' = 0 /\ age' = 0 /\ losses' = 0 /\ UNCHANGED <<state, tries>>
    BY <1>4 DEF Succeed, Go, Wait, MarkContractStarted
  <2> QED
    BY <1>1, <1>4, <2>1, IdleTyped, ConstantTypes DEF ControlTyped, Pcs, Negotiating
<1> QED
  BY <1>1, <1>2, <1>3, <1>4

\* What is kept of the buffer was in it.
LEMMA KeepTyped ==
  ASSUME BufferTyped, NEW places \in SUBSET DOMAIN buf, KeepOnly(places)
  PROVE  /\ BufferTyped'
         /\ \A i \in DOMAIN buf' : \E j \in places : buf'[i] = buf[j]
<1>1. DOMAIN buf = 1..Len(buf) /\ Len(buf) \in Nat /\ IsFiniteSet(1..Len(buf))
      /\ Cardinality(1..Len(buf)) = Len(buf)
  <2>1. DOMAIN buf = 1..Len(buf) /\ Len(buf) \in Nat
    BY DEF BufferTyped
  <2> QED
    BY <2>1, FS_Interval
<1>2. Cardinality(places) \in Nat /\ Cardinality(places) <= Len(buf)
  BY <1>1, FS_Subset, FS_CardinalityType
<1>3. PICK at \in [1..Cardinality(places) -> places] : buf' = [i \in DOMAIN at |-> buf[at[i]]]
  BY DEF KeepOnly
<1>4. buf' = [i \in 1..Cardinality(places) |-> buf[at[i]]]
  BY <1>3
<1>5. \A i \in 1..Cardinality(places) : at[i] \in places /\ buf'[i] = buf[at[i]]
                                        /\ buf[at[i]] \in Grant
  BY <1>1, <1>4 DEF BufferTyped
<1>6. buf' \in Seq(Grant) /\ Len(buf') = Cardinality(places)
  BY <1>2, <1>4, <1>5
<1> QED
  BY <1>2, <1>4, <1>5, <1>6, ConstantTypes DEF BufferTyped

LEMMA NegotiateTyped ==
  ASSUME SessionInv, Negotiate
  PROVE  SessionInv'
<1> USE DEF measuring, contract, outside, peer, network
<1>0. ControlTyped /\ CallerTyped /\ NetworkTyped /\ BufferTyped /\ DenialsTyped
  BY Parts
<1>1. CASE BeginAttempt
  <2>1. CallerTyped' /\ BufferTyped' /\ DenialsTyped'
    BY <1>0, <1>1 DEF BeginAttempt, CallerTyped, BufferTyped, DenialsTyped
  <2>2. ControlTyped' /\ NetworkTyped'
    <3>1. CASE stop
      <4>1. Fail("stop") /\ UNCHANGED to_gm
        BY <1>1, <3>1 DEF BeginAttempt
      <4>2. ControlTyped'
        BY <1>0, <1>1, <4>1, FailTyped DEF BeginAttempt, Negotiating
      <4> QED
        BY <1>0, <1>1, <4>1, <4>2 DEF BeginAttempt, NetworkTyped
    <3>2. CASE ~stop
      <4>1. /\ pc = "request" /\ pc' = "collect" /\ left' = RequestTimeout
            /\ SendSignaling("request", Asked(neg.phase)) /\ neg' = [neg EXCEPT !.got = {}]
            /\ UNCHANGED <<ret, error>>
        BY <1>1, <3>2 DEF BeginAttempt, Wait
      <4>2. neg.phase \in {"announce", "sync", "renew"}
        BY <1>0, <4>1 DEF ControlTyped, Negotiating, Negotiation
      <4>3. to_gm' \in Seq(Message)
        BY <1>0, <4>1, <4>2, AskedTyped, SendTyped DEF NetworkTyped
      <4>4. NetworkTyped'
        BY <1>0, <1>1, <4>3 DEF BeginAttempt, NetworkTyped
      <4>5. neg' \in Negotiation /\ neg'.phase = neg.phase /\ neg'.attempt = neg.attempt
        BY <1>0, <4>1 DEF ControlTyped, Negotiation
      <4>6. ControlTyped'
        BY <1>0, <1>1, <4>1, <4>2, <4>5, ConstantTypes
        DEF BeginAttempt, ControlTyped, Pcs, Negotiating
      <4> QED
        BY <4>4, <4>6
    <3> QED
      BY <3>1, <3>2
  <2> QED
    BY <2>1, <2>2, Parts
<1>2. CASE GrantDenied
  <2>1. CallerTyped' /\ BufferTyped' /\ NetworkTyped'
    BY <1>0, <1>2 DEF GrantDenied, CallerTyped, BufferTyped, NetworkTyped
  <2>2. ControlTyped'
    BY <1>0, <1>2, FailTyped DEF GrantDenied, Negotiating
  <2>3. DenialsTyped'
    <3>1. \A n \in 0..MaxDenials : UpTo(MaxDenials, n + 1) \in 0..MaxDenials
      BY ConstantTypes DEF UpTo
    <3>2. denials' = [denials EXCEPT ![buf[Min(Denied)].service] = UpTo(MaxDenials, @ + 1)]
      BY <1>2 DEF GrantDenied
    <3> QED
      BY <1>0, <3>1, <3>2 DEF DenialsTyped
  <2> QED
    BY <2>1, <2>2, <2>3, Parts
<1>3. CASE CollectGrants
  <2>1. CallerTyped' /\ DenialsTyped'
    BY <1>0, <1>3 DEF CollectGrants, CallerTyped, DenialsTyped
  <2>2. BufferTyped'
    <3>1. KeepOnly(DOMAIN buf \ Relevant)
      BY <1>3 DEF CollectGrants
    <3> QED
      BY <1>0, <3>1, KeepTyped
  <2>3. ControlTyped' /\ losses' \in 0..MaxLosses
    <3> DEFINE got == neg.got \cup {buf[i].service : i \in Relevant}
    <3>1. CASE Asked(neg.phase) \subseteq got
      <4>1. pc = "collect" /\ Succeed /\ UNCHANGED <<measured, error>>
        BY <1>3, <3>1 DEF CollectGrants
      <4> QED
        BY <1>0, <4>1, SucceedTyped DEF NetworkTyped
    <3>2. CASE ~(Asked(neg.phase) \subseteq got)
      <4>1. pc = "collect" /\ neg' = [neg EXCEPT !.got = got]
            /\ UNCHANGED <<pc, ret, left, tries, state, age, losses, measured, error>>
        BY <1>3, <3>2 DEF CollectGrants
      <4>2. \A i \in Relevant : buf[i].service \in Services
        <5>1. \A i \in Relevant : buf[i] \in Grant
          BY <1>0 DEF BufferTyped, Relevant
        <5> QED
          BY <5>1 DEF Grant
      <4>3. got \subseteq Services
        BY <1>0, <4>2 DEF ControlTyped, Negotiation
      <4>4. neg' \in Negotiation /\ neg'.phase = neg.phase /\ neg'.attempt = neg.attempt
        BY <1>0, <4>1, <4>3 DEF ControlTyped, Negotiation
      <4> QED
        BY <1>0, <4>1, <4>4 DEF ControlTyped, NetworkTyped
    <3> QED
      BY <3>1, <3>2
  <2>4. NetworkTyped'
    BY <1>0, <1>3, <2>3 DEF CollectGrants, NetworkTyped
  <2> QED
    BY <2>1, <2>2, <2>3, <2>4, Parts
<1>4. CASE AttemptTimesOut
  <2>1. CallerTyped' /\ NetworkTyped' /\ BufferTyped' /\ DenialsTyped'
    BY <1>0, <1>4 DEF AttemptTimesOut, CallerTyped, NetworkTyped, BufferTyped, DenialsTyped
  <2>2. /\ pc = "collect" /\ neg.phase \in {"announce", "sync", "renew"}
        /\ UNCHANGED <<tries, state, measured, age>>
    BY <1>0, <1>4 DEF AttemptTimesOut, ControlTyped, Negotiating, Negotiation
  <2>3. ASSUME neg.attempt < 3, Wait("retry", RetrySleep), UNCHANGED <<neg, ret, error>>
        PROVE  ControlTyped'
    BY <1>0, <2>2, <2>3, ConstantTypes DEF Wait, ControlTyped, Negotiating, Pcs
  <2>4. ASSUME Go("request"), neg' = Fresh(neg.phase, TRUE), UNCHANGED <<ret, error>>
        PROVE  ControlTyped'
    <3>1. neg' \in Negotiation /\ neg'.phase = neg.phase /\ neg'.attempt = 1
      BY <2>2, <2>4, FreshTyped
    <3>2. pc' = "request" /\ left' = 0 /\ ret' = ret /\ error' = error
      BY <2>4 DEF Go, Wait
    <3> QED
      BY <1>0, <2>2, <3>1, <3>2 DEF ControlTyped, Negotiating, Pcs
  <2>5. ASSUME Fail("timeout") PROVE ControlTyped'
    BY <1>0, <2>2, <2>5, FailTyped DEF Negotiating
  <2> QED
    BY <1>4, <2>1, <2>3, <2>4, <2>5, Parts DEF AttemptTimesOut
<1>5. CASE RetryBegins
  <2>1. CallerTyped' /\ NetworkTyped' /\ BufferTyped' /\ DenialsTyped'
    BY <1>0, <1>5 DEF RetryBegins, CallerTyped, NetworkTyped, BufferTyped, DenialsTyped
  <2>2. /\ pc = "retry" /\ pc' = "request" /\ left' = 0
        /\ neg' = [neg EXCEPT !.attempt = @ + 1]
        /\ UNCHANGED <<ret, tries, state, measured, age, error>>
    BY <1>5 DEF RetryBegins, Go, Wait
  <2>3. neg.attempt \in 1..2 /\ neg.phase # "none"
    BY <1>0, <2>2 DEF ControlTyped, Negotiating
  <2>4. neg' \in Negotiation /\ neg'.phase = neg.phase /\ neg'.attempt \in 1..3
    BY <1>0, <2>2, <2>3 DEF ControlTyped, Negotiation
  <2>5. ControlTyped'
    BY <1>0, <2>2, <2>3, <2>4 DEF ControlTyped, Negotiating, Pcs
  <2> QED
    BY <2>1, <2>5, Parts
<1>6. CASE FirstAnnounceArrives
  <2>1. CallerTyped' /\ NetworkTyped' /\ BufferTyped' /\ DenialsTyped'
    BY <1>0, <1>6 DEF FirstAnnounceArrives, CallerTyped, NetworkTyped, BufferTyped, DenialsTyped
  <2>2. /\ pc = "first" /\ pc' = "request" /\ left' = 0 /\ tries' = 0
        /\ UNCHANGED <<ret, state, measured, age, error>>
    BY <1>6 DEF FirstAnnounceArrives, Go, Wait
  <2>3. neg' \in Negotiation /\ neg'.phase = "sync" /\ neg'.attempt = 1
    BY <1>6, FreshTyped DEF FirstAnnounceArrives
  <2>4. ControlTyped'
    BY <1>0, <2>2, <2>3 DEF ControlTyped, Negotiating, Pcs
  <2> QED
    BY <2>1, <2>4, Parts
<1>7. CASE FirstAnnounceTimesOut
  <2>1. CallerTyped' /\ BufferTyped' /\ DenialsTyped'
    BY <1>0, <1>7 DEF FirstAnnounceTimesOut, CallerTyped, BufferTyped, DenialsTyped
  <2>2. pc = "first" /\ UNCHANGED <<neg, ret, tries, state, measured, age>>
    BY <1>7 DEF FirstAnnounceTimesOut
  <2>3. CASE tries < 3 /\ ~Closed
    <3>1. /\ SendSignaling("request", Asked("announce")) /\ pc' = "first_retry"
          /\ left' = RetrySleep /\ error' = error
      BY <1>7, <2>3 DEF FirstAnnounceTimesOut, Wait
    <3>2. to_gm' \in Seq(Message)
      BY <1>0, <3>1, AskedTyped, SendTyped DEF NetworkTyped
    <3>3. NetworkTyped'
      BY <1>0, <1>7, <3>2 DEF FirstAnnounceTimesOut, NetworkTyped
    <3>4. ControlTyped'
      BY <1>0, <2>2, <2>3, <3>1, ConstantTypes DEF ControlTyped, Negotiating, Pcs
    <3> QED
      BY <2>1, <3>3, <3>4, Parts
  <2>4. CASE ~(tries < 3 /\ ~Closed)
    <3>1. pc' = "done" /\ left' = 0 /\ error' \in {"closed", "timeout"} /\ UNCHANGED to_gm
      BY <1>7, <2>4 DEF FirstAnnounceTimesOut, Finish, Go, Wait
    <3>2. NetworkTyped'
      BY <1>0, <1>7, <3>1 DEF FirstAnnounceTimesOut, NetworkTyped
    <3>3. ControlTyped'
      BY <1>0, <2>2, <3>1 DEF ControlTyped, Negotiating, Pcs
    <3> QED
      BY <2>1, <3>2, <3>3, Parts
  <2> QED
    BY <2>3, <2>4
<1>8. CASE FirstAnnounceAgain
  <2>1. CallerTyped' /\ NetworkTyped' /\ BufferTyped' /\ DenialsTyped'
    BY <1>0, <1>8 DEF FirstAnnounceAgain, CallerTyped, NetworkTyped, BufferTyped, DenialsTyped
  <2>2. ControlTyped'
    BY <1>0, <1>8, ConstantTypes DEF FirstAnnounceAgain, Wait, ControlTyped, Negotiating, Pcs
  <2> QED
    BY <2>1, <2>2, Parts
<1> QED
  BY <1>1, <1>2, <1>3, <1>4, <1>5, <1>6, <1>7, <1>8 DEF Negotiate

\* A renewal begun anywhere in the measurement knows where to come back.
LEMMA RenewTyped ==
  ASSUME ControlTyped, pc \notin Negotiating, NEW place \in {"resync", "exchange", "missed", "nap"},
         Renew(place), UNCHANGED <<tries, state, measured, age, error>>
  PROVE  ControlTyped'
<1>1. neg' \in Negotiation /\ neg'.phase = "renew" /\ neg'.attempt = 1
  BY FreshTyped DEF Renew
<1>2. pc' = "request" /\ left' = 0 /\ ret' = place
  BY DEF Renew, Go, Wait
<1> QED
  BY <1>1, <1>2 DEF ControlTyped, Negotiating, Pcs

\* A step of the measurement that renews nothing.
LEMMA StepTyped ==
  ASSUME ControlTyped, pc \notin Negotiating, pc' \in Pcs \ (Negotiating \cup {"first_retry"}),
         left' \in Nat, error' \in {"none", "stop", "denied", "timeout", "closed"},
         measured' \in BOOLEAN, UNCHANGED <<neg, ret, tries, state, age>>
  PROVE  ControlTyped'
  BY DEF ControlTyped, Negotiating, Pcs

LEMMA MeasureTyped ==
  ASSUME SessionInv, Measure
  PROVE  SessionInv'
<1> USE DEF measuring, contract, outside, peer, network
<1>0. ControlTyped /\ CallerTyped /\ NetworkTyped /\ BufferTyped /\ DenialsTyped
  BY Parts
<1>1. NetworkTyped' /\ BufferTyped' /\ DenialsTyped'
  BY <1>0 DEF Measure, SyncArrives, SyncTimesOut, Resync, LoopHead, SendDelayReq,
     DelayRespArrives, DelayRespTimesOut, Missed, PauseRound, Nap, NapEnds,
     NetworkTyped, BufferTyped, DenialsTyped
<1>2. caller' = caller /\ stop' = stop /\ tries' = tries /\ state' = state /\ age' = age
  BY DEF Measure, SyncArrives, SyncTimesOut, Resync, LoopHead, SendDelayReq,
     DelayRespArrives, DelayRespTimesOut, Missed, PauseRound, Nap, NapEnds
<1>3. caller.interval \in Nat /\ caller.limit \in Nat
  BY <1>0, ConstantTypes DEF CallerTyped, Caller
<1>4. next_in' \in {next_in, 0, caller.interval} /\ measure_left' \in {measure_left, caller.limit}
  BY DEF Measure, SyncArrives, SyncTimesOut, Resync, LoopHead, SendDelayReq,
     DelayRespArrives, DelayRespTimesOut, Missed, PauseRound, Nap, NapEnds, Pause
<1>5. CallerTyped'
  BY <1>0, <1>2, <1>3, <1>4 DEF CallerTyped
<1>6. ControlTyped'
  <2> USE DEF Finish, Go, Wait, Pause
  <2>0. /\ error \in {"none", "stop", "denied", "timeout", "closed"} /\ measured \in BOOLEAN
        /\ SyncTimeout \in Nat /\ DelayTimeout \in Nat
    BY <1>0, ConstantTypes DEF ControlTyped
  <2>1. CASE SyncArrives
    BY <1>0, <1>2, <2>0, <2>1, StepTyped DEF SyncArrives, Negotiating, Pcs
  <2>2. CASE SyncTimesOut
    BY <1>0, <1>2, <2>0, <2>2, StepTyped, RenewTyped DEF SyncTimesOut, Negotiating, Pcs
  <2>3. CASE Resync
    BY <1>0, <1>2, <2>0, <2>3, StepTyped DEF Resync, Negotiating, Pcs
  <2>4. CASE LoopHead
    BY <1>0, <1>2, <2>0, <2>4, StepTyped, RenewTyped DEF LoopHead, Negotiating, Pcs
  <2>5. CASE SendDelayReq
    BY <1>0, <1>2, <2>0, <2>5, StepTyped DEF SendDelayReq, Negotiating, Pcs
  <2>6. CASE DelayRespArrives
    BY <1>0, <1>2, <2>0, <2>6, StepTyped DEF DelayRespArrives, Negotiating, Pcs
  <2>7. CASE DelayRespTimesOut
    BY <1>0, <1>2, <2>0, <2>7, RenewTyped DEF DelayRespTimesOut, Negotiating, Pcs
  <2>8. CASE Missed
    BY <1>0, <1>2, <2>0, <2>8, StepTyped DEF Missed, Negotiating, Pcs
  <2>9. CASE PauseRound
    BY <1>0, <1>2, <2>0, <2>9, StepTyped, RenewTyped DEF PauseRound, Negotiating, Pcs
  <2>10. CASE Nap
    BY <1>0, <1>2, <2>0, <2>10, StepTyped DEF Nap, Negotiating, Pcs
  <2>11. CASE NapEnds
    BY <1>0, <1>2, <2>0, <2>11, StepTyped DEF NapEnds, Negotiating, Pcs
  <2> QED
    BY <2>1, <2>2, <2>3, <2>4, <2>5, <2>6, <2>7, <2>8, <2>9, <2>10, <2>11 DEF Measure
<1> QED
  BY <1>1, <1>5, <1>6, Parts

\* What only the caller, the network or the grandmaster does leaves the manager alone.
LEMMA ManagerStays ==
  ASSUME ControlTyped, DenialsTyped, UNCHANGED manager
  PROVE  ControlTyped' /\ DenialsTyped'
  BY DEF ControlTyped, DenialsTyped, manager

LEMMA CallerGoTyped ==
  ASSUME CallerTyped, NEW place \in {"waiting", "stopping", "joining", "over"},
         NEW ticks \in 0..JoinTimeout, CallerGo(place, ticks), stop' \in BOOLEAN,
         UNCHANGED <<next_in, measure_left>>
  PROVE  /\ CallerTyped' /\ caller'.pc = place /\ caller'.by = caller.by
         /\ caller'.interval = caller.interval /\ caller'.limit = caller.limit
  BY DEF CallerTyped, Caller, CallerGo

LEMMA CallingTyped ==
  ASSUME SessionInv, Calling
  PROVE  SessionInv'
<1> USE DEF outside, peer, network
<1>0. ControlTyped /\ CallerTyped /\ NetworkTyped /\ BufferTyped /\ DenialsTyped
  BY Parts
<1>1. UNCHANGED manager
  BY DEF Calling, RequestStop, ManagerEnded, Interrupt, StopAcr, Close
<1>2. ControlTyped' /\ DenialsTyped' /\ next_in' = next_in /\ measure_left' = measure_left
  BY <1>0, <1>1, ManagerStays DEF manager
<1>3. 0 \in 0..JoinTimeout /\ JoinTimeout \in 0..JoinTimeout /\ 0 <= GeneralBufMax
  BY ConstantTypes
<1>4. stop \in BOOLEAN
  BY <1>0 DEF CallerTyped
<1>5. CASE RequestStop
  <2>1. stop' = TRUE /\ caller' = caller
    BY <1>5 DEF RequestStop
  <2> QED
    BY <1>0, <1>2, <1>5, <2>1, Parts DEF RequestStop, CallerTyped, NetworkTyped, BufferTyped
<1>6. CASE ManagerEnded
  <2>1. CallerTyped'
    BY <1>0, <1>2, <1>3, <1>4, <1>6, CallerGoTyped DEF ManagerEnded
  <2>2. to_gm' \in Seq(Message)
    BY <1>0, <1>6, SendTyped DEF ManagerEnded, NetworkTyped
  <2> QED
    BY <1>0, <1>2, <1>6, <2>1, <2>2, Parts DEF ManagerEnded, NetworkTyped, BufferTyped
<1>7. CASE Interrupt
  <2>1. CallerTyped'
    BY <1>0, <1>2, <1>3, <1>4, <1>7, CallerGoTyped DEF Interrupt
  <2> QED
    BY <1>0, <1>2, <1>7, <2>1, Parts DEF Interrupt, NetworkTyped, BufferTyped
<1>8. CASE StopAcr
  <2>1. CallerTyped'
    BY <1>0, <1>2, <1>3, <1>8, CallerGoTyped DEF StopAcr
  <2> QED
    BY <1>0, <1>2, <1>8, <2>1, Parts DEF StopAcr, NetworkTyped, BufferTyped
<1>9. CASE Close
  <2>1. CallerTyped'
    BY <1>0, <1>2, <1>3, <1>4, <1>9, CallerGoTyped DEF Close
  <2>2. BufferTyped'
    BY <1>3, <1>9 DEF Close, BufferTyped
  <2> QED
    BY <1>0, <1>2, <1>9, <2>1, <2>2, Parts DEF Close, NetworkTyped
<1> QED
  BY <1>5, <1>6, <1>7, <1>8, <1>9 DEF Calling

\* The oldest message to the grandmaster.
LEMMA HeadTyped ==
  ASSUME to_gm \in Seq(Message), to_gm # <<>>
  PROVE  Head(to_gm).services \subseteq Services /\ Tail(to_gm) \in Seq(Message)
<1>1. Head(to_gm) \in Message /\ Tail(to_gm) \in Seq(Message)
  OBVIOUS
<1> QED
  BY <1>1 DEF Message

\* The receiver keeps the buffer within its bound, and adds only what was on its way.
LEMMA ReceiveTyped ==
  ASSUME BufferTyped, NEW g \in Grant, Receive(g)
  PROVE  BufferTyped'
<1>1. CASE Closed
  BY <1>1 DEF Receive, BufferTyped
<1>2. CASE ~Closed
  <2>1. Append(buf, g) \in Seq(Grant) /\ Len(Append(buf, g)) = Len(buf) + 1
        /\ Append(buf, g) # <<>>
    BY DEF BufferTyped
  <2>2. buf' = IF Len(Append(buf, g)) > GeneralBufMax THEN Tail(Append(buf, g)) ELSE Append(buf, g)
    BY <1>2 DEF Receive
  <2>3. Tail(Append(buf, g)) \in Seq(Grant) /\ Len(Tail(Append(buf, g))) = Len(buf)
    BY <2>1 DEF BufferTyped
  <2> QED
    BY <2>1, <2>2, <2>3, ConstantTypes DEF BufferTyped
<1> QED
  BY <1>1, <1>2

LEMMA GmAnswersTyped ==
  ASSUME NetworkTyped, NEW d \in GrantDurations, GmAnswers(d)
  PROVE  NetworkTyped'
<1> DEFINE services == Head(to_gm).services
<1>1. services \subseteq Services /\ to_gm' \in Seq(Message)
  BY HeadTyped DEF GmAnswers, NetworkTyped
<1>2. to_client' = to_client \cup [service : services, duration : {d}]
  BY DEF GmAnswers
<1>3. [service : services, duration : {d}] \subseteq Grant
  BY <1>1 DEF Grant
<1>4. to_client' \subseteq Grant
  BY <1>2, <1>3 DEF NetworkTyped
<1>5. UNCHANGED <<losses, cancel_lost>>
  BY DEF GmAnswers
<1>6. CASE d = 0
  <2>1. /\ \A s \in services : denied[s] < MaxRefusals
        /\ denied' = [s \in Services |-> IF s \in services THEN denied[s] + 1 ELSE denied[s]]
        /\ gm' = gm
    BY <1>6 DEF GmAnswers
  <2>2. \A n \in 0..MaxRefusals : n < MaxRefusals => n + 1 \in 0..MaxRefusals
    BY ConstantTypes
  <2>3. denied' \in [Services -> 0..MaxRefusals]
    BY <1>1, <2>1, <2>2 DEF NetworkTyped
  <2> QED
    BY <1>1, <1>4, <1>5, <2>1, <2>3 DEF NetworkTyped
<1>7. CASE d # 0
  <2>1. /\ gm' = [s \in Services |-> IF s \in services THEN d ELSE gm[s]]
        /\ denied' = denied
    BY <1>7 DEF GmAnswers
  <2>2. gm' \in [Services -> 0..Duration]
    BY <2>1, ConstantTypes DEF NetworkTyped
  <2> QED
    BY <1>1, <1>4, <1>5, <2>1, <2>2 DEF NetworkTyped
<1> QED
  BY <1>6, <1>7

LEMMA NetworkStepTyped ==
  ASSUME SessionInv, Network
  PROVE  SessionInv'
<1> USE DEF outside, peer, network
<1>0. ControlTyped /\ CallerTyped /\ NetworkTyped /\ BufferTyped /\ DenialsTyped
  BY Parts
<1>1. UNCHANGED <<manager, outside>>
  BY DEF Network, GmAnswers, GmCancels, LoseSignaling, LoseGrant, Receive, Evict
<1>2. ControlTyped' /\ DenialsTyped' /\ CallerTyped'
  BY <1>0, <1>1, ManagerStays DEF manager, CallerTyped
<1>3. NetworkTyped' /\ BufferTyped'
  <2>1. ASSUME NEW d \in GrantDurations, GmAnswers(d) PROVE NetworkTyped' /\ BufferTyped'
    BY <1>0, <2>1, GmAnswersTyped DEF GmAnswers, BufferTyped
  <2>2. CASE GmCancels
    <3>1. to_gm' \in Seq(Message)
      BY <1>0, <2>2, HeadTyped DEF GmCancels, NetworkTyped
    <3>2. gm' \in [Services -> 0..Duration]
      BY <1>0, <2>2, ConstantTypes DEF GmCancels, NetworkTyped
    <3> QED
      BY <1>0, <2>2, <3>1, <3>2 DEF GmCancels, NetworkTyped, BufferTyped
  <2>3. CASE LoseSignaling
    <3>1. to_gm' \in Seq(Message)
      BY <1>0, <2>3, HeadTyped DEF LoseSignaling, NetworkTyped
    <3>2. losses' \in 0..MaxLosses
      BY <1>0, <2>3, ConstantTypes DEF LoseSignaling, NetworkTyped
    <3>3. cancel_lost' \in BOOLEAN
      BY <1>0, <2>3 DEF LoseSignaling, NetworkTyped
    <3> QED
      BY <1>0, <2>3, <3>1, <3>2, <3>3 DEF LoseSignaling, NetworkTyped, BufferTyped
  <2>4. ASSUME NEW g \in Grant, LoseGrant(g) PROVE NetworkTyped' /\ BufferTyped'
    <3>1. losses' \in 0..MaxLosses
      BY <1>0, <2>4, ConstantTypes DEF LoseGrant, NetworkTyped
    <3> QED
      BY <1>0, <2>4, <3>1 DEF LoseGrant, NetworkTyped, BufferTyped
  <2>5. ASSUME NEW g \in Grant, Receive(g) PROVE NetworkTyped' /\ BufferTyped'
    BY <1>0, <2>5, ReceiveTyped DEF Receive, NetworkTyped
  <2>6. CASE Evict
    <3>1. buf' \in Seq(Grant) /\ Len(buf') <= GeneralBufMax
      BY <1>0, <2>6, ConstantTypes DEF Evict, BufferTyped
    <3> QED
      BY <1>0, <2>6, <3>1 DEF Evict, NetworkTyped, BufferTyped
  <2> QED
    BY <2>1, <2>2, <2>3, <2>4, <2>5, <2>6 DEF Network
<1> QED
  BY <1>2, <1>3, Parts

LEMMA TickTyped ==
  ASSUME SessionInv, Tick
  PROVE  SessionInv'
<1>0. ControlTyped /\ CallerTyped /\ NetworkTyped /\ BufferTyped /\ DenialsTyped
  BY Parts
<1>1. Duration \in Nat /\ JoinTimeout \in Nat /\ caller.interval \in Nat /\ caller.limit \in Nat
  BY <1>0, ConstantTypes DEF CallerTyped, Caller
<1>2. ControlTyped'
  <2>1. left' \in Nat
    BY <1>0 DEF Tick, Waiting, ControlTyped
  <2>2. age' \in 0..Duration
    BY <1>0, <1>1 DEF Tick, UpTo, ControlTyped
  <2> QED
    BY <1>0, <2>1, <2>2 DEF Tick, ControlTyped
<1>3. CallerTyped'
  <2>1. caller' = [caller EXCEPT !.left = Down(@)] /\ stop' = stop
        /\ next_in' = Down(next_in) /\ measure_left' = Down(measure_left)
    BY DEF Tick
  <2>2. caller' \in Caller /\ caller'.interval = caller.interval /\ caller'.limit = caller.limit
    BY <1>0, <1>1, <2>1 DEF CallerTyped, Caller, Down
  <2>3. next_in' \in 0..caller.interval /\ measure_left' \in -1..caller.limit
    BY <1>0, <1>1, <2>1 DEF CallerTyped, Down
  <2> QED
    BY <1>0, <2>1, <2>2, <2>3 DEF CallerTyped
<1>4. NetworkTyped'
  <2>1. gm' = [s \in Services |-> Down(gm[s])]
    BY DEF Tick
  <2>2. \A n \in 0..Duration : Down(n) \in 0..Duration
    BY <1>1 DEF Down
  <2>3. gm' \in [Services -> 0..Duration]
    BY <1>0, <2>1, <2>2 DEF NetworkTyped
  <2> QED
    BY <1>0, <2>3 DEF Tick, NetworkTyped
<1>5. BufferTyped' /\ DenialsTyped'
  BY <1>0 DEF Tick, BufferTyped, DenialsTyped
<1> QED
  BY <1>2, <1>3, <1>4, <1>5, Parts

LEMMA TypesStay == SessionInv /\ [Next]_vars => SessionInv'
<1> SUFFICES ASSUME SessionInv, [Next]_vars PROVE SessionInv'
  OBVIOUS
<1>1. CASE UNCHANGED vars
  <2>1. ControlTyped /\ CallerTyped /\ NetworkTyped /\ BufferTyped /\ DenialsTyped
    BY Parts
  <2> QED
    BY <1>1, <2>1, Parts DEF vars, ControlTyped, CallerTyped, NetworkTyped, BufferTyped,
       DenialsTyped
<1> QED
  BY <1>1, NegotiateTyped, MeasureTyped, CallingTyped, NetworkStepTyped, TickTyped
  DEF Next, Over

\* Every variable keeps its type: no negotiation makes a fourth attempt, no fourth
\* Announce is asked for (_negotiate_with_retries, negotiate), and the receiver
\* thread never fills _general_buf beyond its bound.
THEOREM TypeCorrect == Spec => []TypeOK
<1>1. SessionInv => TypeOK
  BY DEF SessionInv
<1> QED
  BY <1>1, InitTyped, TypesStay, PTL DEF Spec

-----------------------------------------------------------------------------
(***************************************************************************)
(* The lab leaves nothing behind.                                          *)
(***************************************************************************)
Cancelling == [kind |-> "cancel", services |-> Services]

\* Once the lab has sent its CANCEL, that is the last message to the grandmaster.
LabInv ==
  caller.by = "lab" /\ caller.pc # "waiting" =>
    /\ pc = "done"
    /\ \/ cancel_lost
       \/ to_gm # <<>> /\ to_gm[Len(to_gm)] = Cancelling
       \/ to_gm = <<>> /\ \A s \in Services : gm[s] = 0

\* The manager runs until it is done, and has no say in who its caller is.
LEMMA ManagerRuns ==
  ASSUME Negotiate \/ Measure
  PROVE  pc # "done" /\ caller' = caller
  BY DEF Negotiate, BeginAttempt, GrantDenied, CollectGrants, AttemptTimesOut, RetryBegins,
     FirstAnnounceArrives, FirstAnnounceTimesOut, FirstAnnounceAgain, Measure, SyncArrives,
     SyncTimesOut, Resync, LoopHead, SendDelayReq, DelayRespArrives, DelayRespTimesOut, Missed,
     PauseRound, Nap, NapEnds, outside

LEMMA LabInvStays ==
  ASSUME SessionInv, LabInv, [Next]_vars
  PROVE  LabInv'
<1> USE DEF outside, peer, network, manager
<1>0. to_gm \in Seq(Message) /\ caller \in Caller /\ "sync" \in Services
  BY Parts DEF NetworkTyped, CallerTyped, Services
<1>1. CASE Negotiate \/ Measure
  BY <1>1, ManagerRuns DEF LabInv
<1>2. CASE Calling
  <2>1. CASE RequestStop
    BY <2>1 DEF RequestStop, LabInv
  <2>2. CASE ManagerEnded
    <3>1. pc' = "done" /\ caller' = [caller EXCEPT !.pc = "stopping", !.left = 0]
      BY <2>2 DEF ManagerEnded, CallerGo
    <3>2. CASE caller.by = "lab"
      <4>1. to_gm' = Append(to_gm, Cancelling)
        BY <2>2, <3>2 DEF ManagerEnded, Cancels, SendSignaling, Cancelling
      <4>2. to_gm' # <<>> /\ to_gm'[Len(to_gm')] = Cancelling
        BY <1>0, <4>1
      <4> QED
        BY <3>1, <4>2 DEF LabInv, Cancelling
    <3>3. CASE caller.by # "lab"
      BY <1>0, <3>1, <3>3 DEF LabInv, Caller
    <3> QED
      BY <3>2, <3>3
  <2>3. CASE Interrupt
    BY <1>0, <2>3 DEF Interrupt, CallerGo, LabInv, Caller
  <2>4. CASE StopAcr
    BY <1>0, <2>4 DEF StopAcr, CallerGo, LabInv, Caller, Cancelling
  <2>5. CASE Close
    BY <1>0, <2>5 DEF Close, CallerGo, LabInv, Caller, Cancelling
  <2> QED
    BY <1>2, <2>1, <2>2, <2>3, <2>4, <2>5 DEF Calling
<1>3. CASE Network
  <2>0. pc' = pc /\ caller' = caller
    BY <1>3 DEF Network, GmAnswers, GmCancels, LoseSignaling, LoseGrant, Receive, Evict
  <2> SUFFICES ASSUME caller.by = "lab", caller.pc # "waiting", pc = "done" PROVE LabInv'
    BY <2>0 DEF LabInv
  <2>1. ASSUME to_gm' = Tail(to_gm), to_gm # <<>>, to_gm[Len(to_gm)] = Cancelling
        PROVE  \/ to_gm' # <<>> /\ to_gm'[Len(to_gm')] = Cancelling
               \/ to_gm' = <<>> /\ Head(to_gm) = Cancelling
    <3>1. CASE Len(to_gm) = 1
      BY <1>0, <2>1, <3>1
    <3>2. CASE Len(to_gm) # 1
      BY <1>0, <2>1, <3>2
    <3> QED
      BY <3>1, <3>2
  <2>2. ASSUME NEW d \in GrantDurations, GmAnswers(d) PROVE LabInv'
    <3>1. to_gm # <<>> /\ Head(to_gm).kind = "request" /\ to_gm' = Tail(to_gm)
          /\ cancel_lost' = cancel_lost
      BY <2>2 DEF GmAnswers
    <3> QED
      BY <2>0, <2>1, <3>1 DEF LabInv, Cancelling
  <2>3. CASE GmCancels
    <3>1. to_gm # <<>> /\ to_gm' = Tail(to_gm) /\ cancel_lost' = cancel_lost
          /\ gm' = [s \in Services |-> IF s \in Head(to_gm).services THEN 0 ELSE gm[s]]
      BY <2>3 DEF GmCancels
    <3>2. Head(to_gm) = Cancelling => \A s \in Services : gm'[s] = 0
      BY <3>1 DEF Cancelling
    <3> QED
      BY <2>0, <2>1, <3>1, <3>2 DEF LabInv, Cancelling
  <2>4. CASE LoseSignaling
    <3>1. to_gm # <<>> /\ to_gm' = Tail(to_gm)
          /\ cancel_lost' = (cancel_lost \/ Head(to_gm).kind = "cancel")
      BY <2>4 DEF LoseSignaling
    <3>2. cancel_lost \/ Head(to_gm) = Cancelling => cancel_lost'
      <4>1. Head(to_gm) = Cancelling => Head(to_gm).kind = "cancel"
        BY DEF Cancelling
      <4> QED
        BY <3>1, <4>1, Zenon
    <3> QED
      BY <2>0, <2>1, <3>1, <3>2 DEF LabInv, Cancelling
  <2>5. CASE UNCHANGED <<to_gm, gm, cancel_lost>>
    BY <2>0, <2>5 DEF LabInv, Cancelling
  <2> QED
    BY <1>3, <2>2, <2>3, <2>4, <2>5 DEF Network, LoseGrant, Receive, Evict
<1>4. CASE Tick
  <2>1. /\ to_gm = <<>> /\ pc' = pc /\ to_gm' = to_gm /\ cancel_lost' = cancel_lost
        /\ gm' = [s \in Services |-> Down(gm[s])]
        /\ caller' = [caller EXCEPT !.left = Down(@)]
    BY <1>4 DEF Tick
  <2>2. caller'.by = caller.by /\ caller'.pc = caller.pc
    BY <1>0, <2>1 DEF Caller
  <2>3. (\A s \in Services : gm[s] = 0) => \A s \in Services : gm'[s] = 0
    BY <2>1 DEF Down
  <2> QED
    BY <2>1, <2>2, <2>3 DEF LabInv
<1>5. CASE UNCHANGED vars
  BY <1>5 DEF LabInv, vars, Cancelling
<1> QED
  BY <1>1, <1>2, <1>3, <1>4, <1>5 DEF Next, Over

\* Once the lab has closed the session and its CANCEL (cancel_unicast) has arrived, the
\* grandmaster serves nothing any more: no REQUEST of _negotiate_with_retries follows it.
THEOREM NothingLeftBehind == Spec => []LabLeavesNothing
<1>1. Init => LabInv
  BY DEF Init, LabInv
<1>2. SessionInv /\ LabInv /\ [Next]_vars => LabInv'
  BY LabInvStays
<1>3. SessionInv /\ LabInv => LabLeavesNothing
  BY Parts DEF LabInv, LabLeavesNothing, Closed
<1> QED
  BY <1>1, <1>2, <1>3, InitTyped, TypesStay, PTL DEF Spec

-----------------------------------------------------------------------------
(***************************************************************************)
(* The session is a lease, when the grandmaster grants what it is asked    *)
(* for in full or denies it.                                               *)
(***************************************************************************)
Asking == {i \in DOMAIN to_gm : to_gm[i].kind = "request" /\ "sync" \in to_gm[i].services}
OnWire == {g \in to_client : g.service = "sync"}
Buffered == {i \in DOMAIN buf : buf[i].service = "sync"}
Quiet == Asking = {} /\ OnWire = {} /\ Buffered = {}

\* The manager waits for a GRANT of the Sync service.
Collecting == pc = "collect" /\ left > 0 /\ neg.phase \in {"sync", "renew"}

\* Nothing that it waits for can come any more.
Stalled == to_gm = <<>> /\ to_client = {} /\ Relevant = {}

\* Of the Sync service there is one REQUEST at most, or the one GRANT it was answered
\* with, which tells what the grandmaster serves.
OneGrant ==
  /\ ~Collecting => Quiet
  /\ \A i, j \in Asking : i = j
  /\ \A g, h \in OnWire : g = h
  /\ Asking # {} => OnWire = {} /\ Buffered = {} /\ "sync" \notin neg.got
  /\ OnWire # {} => Buffered = {} /\ "sync" \notin neg.got /\ gm["sync"] = Duration
  /\ Buffered # {} => "sync" \notin neg.got /\ gm["sync"] = Duration
  /\ Collecting /\ "sync" \in neg.got => gm["sync"] = Duration \/ Stalled

\* A denial on its way has been counted by the grandmaster.
NoDenial ==
  /\ \A g \in to_client : g.duration # 0
  /\ \A i \in DOMAIN buf : buf[i].duration # 0

GrantInv == Willing /\ pc # "done" => NoDenial /\ OneGrant

\* A CANCEL is sent only by a caller whose manager has ended.
CancelLast ==
  \A i \in DOMAIN to_gm : to_gm[i].kind = "cancel" => pc = "done" /\ caller.pc # "waiting"

LeaseInv == SessionInv /\ GrantInv /\ CancelLast

\* What a step on the sequence of messages does to the requests in it.
LEMMA Sent ==
  ASSUME to_gm \in Seq(Message), NEW kind \in {"request", "cancel"},
         NEW services \in SUBSET Services, SendSignaling(kind, services)
  PROVE  /\ kind = "cancel" \/ "sync" \notin services => Asking' = Asking
         /\ Asking = {} => \A i, j \in Asking' : i = j
         /\ to_gm' # <<>>
         /\ \A i \in DOMAIN to_gm' : to_gm'[i].kind # kind =>
              i \in DOMAIN to_gm /\ to_gm'[i] = to_gm[i]
<1> DEFINE m == [kind |-> kind, services |-> services]
<1>1. to_gm' = Append(to_gm, m) /\ to_gm' \in Seq(Message)
  BY SendTyped
<1>2. m.kind = kind /\ m.services = services
  OBVIOUS
<1> HIDE DEF m
<1>3. \A i \in DOMAIN to_gm' : to_gm'[i] = m \/ (i \in DOMAIN to_gm /\ to_gm'[i] = to_gm[i])
  BY <1>1
<1>4. \A i, j \in DOMAIN to_gm' : i \notin DOMAIN to_gm /\ j \notin DOMAIN to_gm => i = j
  BY <1>1
<1>5. \A i \in DOMAIN to_gm : i \in DOMAIN to_gm' /\ to_gm'[i] = to_gm[i]
  BY <1>1
<1>6. \A i \in DOMAIN to_gm' : i \notin DOMAIN to_gm => to_gm'[i] = m
  BY <1>3
<1>7. \A i \in DOMAIN to_gm' : to_gm'[i].kind # kind =>
              i \in DOMAIN to_gm /\ to_gm'[i] = to_gm[i]
  <2>1. \A i \in DOMAIN to_gm' : i \notin DOMAIN to_gm => to_gm'[i].kind = kind
    BY <1>2, <1>6
  <2>2. \A i \in DOMAIN to_gm' : i \in DOMAIN to_gm => to_gm'[i] = to_gm[i]
    BY <1>5
  <2> QED
    BY <2>1, <2>2
<1>8. to_gm' # <<>>
  BY <1>1
<1>9. kind = "cancel" \/ "sync" \notin services => Asking' = Asking
  BY <1>2, <1>5, <1>6 DEF Asking
<1>10. Asking = {} => \A i, j \in Asking' : i = j
  <2>1. Asking = {} => \A i \in Asking' : i \in DOMAIN to_gm' /\ i \notin DOMAIN to_gm
    BY <1>5 DEF Asking
  <2> QED
    BY <1>4, <2>1
<1> QED
  BY <1>7, <1>8, <1>9, <1>10

LEMMA Taken ==
  ASSUME to_gm \in Seq(Message), to_gm # <<>>, to_gm' = Tail(to_gm)
  PROVE  /\ Asking = {} => Asking' = {}
         /\ (\A i, j \in Asking : i = j) => \A i, j \in Asking' : i = j
         /\ (\A i, j \in Asking : i = j) /\ Head(to_gm).kind = "request"
              /\ "sync" \in Head(to_gm).services => Asking # {} /\ Asking' = {}
         /\ \A i \in DOMAIN to_gm' : i + 1 \in DOMAIN to_gm /\ to_gm'[i] = to_gm[i + 1]
<1>1. /\ DOMAIN to_gm = 1..Len(to_gm) /\ Len(to_gm) \in Nat \ {0}
      /\ DOMAIN to_gm' = 1..(Len(to_gm) - 1)
      /\ \A i \in 1..(Len(to_gm) - 1) : to_gm'[i] = to_gm[i + 1]
      /\ Head(to_gm) = to_gm[1]
  OBVIOUS
<1>2. \A i \in Asking' : i \in Nat \ {0} /\ i + 1 \in Asking
  BY <1>1 DEF Asking
<1>3. Head(to_gm).kind = "request" /\ "sync" \in Head(to_gm).services => 1 \in Asking
  BY <1>1 DEF Asking
<1>4. \A i, j \in Nat : i + 1 = j + 1 => i = j
  OBVIOUS
<1>5. \A i \in Nat : i + 1 = 1 => i = 0
  OBVIOUS
<1> QED
  BY <1>1, <1>2, <1>3, <1>4, <1>5

LEMMA Received ==
  ASSUME BufferTyped, NEW g \in Grant, Receive(g)
  PROVE  \A i \in DOMAIN buf' : buf'[i] = g \/ \E j \in DOMAIN buf : buf'[i] = buf[j]
<1>1. CASE Closed
  BY <1>1 DEF Receive
<1>2. CASE ~Closed
  <2>1. /\ buf \in Seq(Grant) /\ DOMAIN buf = 1..Len(buf) /\ Len(buf) \in Nat
    BY DEF BufferTyped
  <2> DEFINE b == Append(buf, g)
  <2>2. /\ b \in Seq(Grant) /\ Len(b) = Len(buf) + 1 /\ DOMAIN b = 1..Len(b)
        /\ \A i \in 1..Len(b) : b[i] = g \/ \E j \in DOMAIN buf : b[i] = buf[j]
    BY <2>1
  <2>3. /\ DOMAIN Tail(b) = 1..(Len(b) - 1)
        /\ \A i \in 1..(Len(b) - 1) : Tail(b)[i] = b[i + 1]
    BY <2>1, <2>2
  <2>4. buf' \in {b, Tail(b)}
    BY <1>2 DEF Receive
  <2>5. CASE buf' = b
    BY <2>2, <2>5
  <2>6. CASE buf' = Tail(b)
    <3>1. \A i \in 1..(Len(b) - 1) : i + 1 \in 1..Len(b)
      BY <2>1, <2>2
    <3> HIDE DEF b
    <3> QED
      BY <2>2, <2>3, <2>6, <3>1
  <2> QED
    BY <2>4, <2>5, <2>6
<1> QED
  BY <1>1, <1>2

\* What the manager does sends a REQUEST at most, and changes the buffer only when it
\* collects.
LEMMA ManagerSends ==
  ASSUME SessionInv, Negotiate \/ Measure
  PROVE  /\ UNCHANGED <<stop, caller, to_client, gm, denied, cancel_lost>>
         /\ \/ to_gm' = to_gm
            \/ \E services \in SUBSET Services : SendSignaling("request", services)
<1> USE DEF measuring, contract, outside, peer, network
<1>1. UNCHANGED <<stop, caller, to_client, gm, denied, cancel_lost>>
  BY DEF Negotiate, BeginAttempt, GrantDenied, CollectGrants, AttemptTimesOut, RetryBegins,
     FirstAnnounceArrives, FirstAnnounceTimesOut, FirstAnnounceAgain, Measure, SyncArrives,
     SyncTimesOut, Resync, LoopHead, SendDelayReq, DelayRespArrives, DelayRespTimesOut, Missed,
     PauseRound, Nap, NapEnds
<1>2. CASE BeginAttempt
  <2>1. neg.phase \in {"announce", "sync", "renew"}
    BY <1>2, Parts DEF BeginAttempt, ControlTyped, Negotiation, Negotiating
  <2>2. Asked(neg.phase) \in SUBSET Services
    BY <2>1, AskedTyped
  <2> QED
    BY <1>1, <1>2, <2>2 DEF BeginAttempt
<1>3. CASE FirstAnnounceTimesOut
  <2>1. Asked("announce") \in SUBSET Services
    BY AskedTyped
  <2> QED
    BY <1>1, <1>3, <2>1 DEF FirstAnnounceTimesOut
<1>4. CASE ~BeginAttempt /\ ~FirstAnnounceTimesOut
  <2>1. to_gm' = to_gm
    BY <1>4 DEF Negotiate, GrantDenied, CollectGrants, AttemptTimesOut, RetryBegins,
       FirstAnnounceArrives, FirstAnnounceAgain, Measure, SyncArrives,
       SyncTimesOut, Resync, LoopHead, SendDelayReq, DelayRespArrives, DelayRespTimesOut, Missed,
       PauseRound, Nap, NapEnds
  <2> QED
    BY <1>1, <2>1
<1> QED
  BY <1>2, <1>3, <1>4

LEMMA OutsideLeaves ==
  ASSUME Calling \/ Network \/ Tick \/ UNCHANGED vars
  PROVE  pc' = pc /\ neg' = neg /\ state' = state
  BY DEF Calling, RequestStop, ManagerEnded, Interrupt, StopAcr, Close, Network, GmAnswers,
     GmCancels, LoseSignaling, LoseGrant, Receive, Evict, Tick, manager, vars

LEMMA CallerStays ==
  ASSUME SessionInv, Network \/ Tick \/ UNCHANGED vars
  PROVE  caller'.by = caller.by /\ caller'.pc = caller.pc
<1>1. caller \in Caller
  BY Parts DEF CallerTyped
<1>2. CASE Network \/ UNCHANGED vars
  BY <1>2 DEF Network, GmAnswers, GmCancels, LoseSignaling, LoseGrant, Receive, Evict, outside, vars
<1>3. CASE Tick
  BY <1>1, <1>3 DEF Tick, Caller
<1> QED
  BY <1>2, <1>3

LEMMA CancelLastStays ==
  ASSUME SessionInv, CancelLast, [Next]_vars
  PROVE  CancelLast'
<1> USE DEF outside, peer, network, manager
<1>0. to_gm \in Seq(Message) /\ caller \in Caller
  BY Parts DEF NetworkTyped, CallerTyped
<1>1. CASE Negotiate \/ Measure
  <2>1. pc # "done" /\ caller' = caller
    BY <1>1, ManagerRuns
  <2>2. \A i \in DOMAIN to_gm : to_gm[i].kind # "cancel"
    BY <2>1 DEF CancelLast
  <2>3. \A i \in DOMAIN to_gm' : to_gm'[i].kind # "cancel"
    <3>1. CASE to_gm' = to_gm
      BY <2>2, <3>1
    <3>2. ASSUME NEW services \in SUBSET Services, SendSignaling("request", services)
          PROVE  \A i \in DOMAIN to_gm' : to_gm'[i].kind # "cancel"
      BY <1>0, <2>2, <3>2, Sent
    <3> QED
      BY <1>1, <3>1, <3>2, ManagerSends
  <2> QED
    BY <2>3 DEF CancelLast
<1>2. CASE Calling
  <2>1. pc' = pc /\ (caller.pc # "waiting" => caller'.pc # "waiting")
    BY <1>0, <1>2, OutsideLeaves
    DEF Calling, RequestStop, ManagerEnded, Interrupt, StopAcr, Close, CallerGo, Caller
  <2>2. CASE to_gm' = to_gm
    BY <2>1, <2>2 DEF CancelLast
  <2>3. CASE ManagerEnded
    BY <1>0, <2>1, <2>3 DEF ManagerEnded, CallerGo, Caller, CancelLast
  <2> QED
    BY <1>2, <2>2, <2>3 DEF Calling, RequestStop, Interrupt, StopAcr, Close
<1>3. CASE Network \/ Tick \/ UNCHANGED vars
  <2>1. pc' = pc /\ caller'.pc = caller.pc
    BY <1>3, OutsideLeaves, CallerStays
  <2>2. to_gm' = to_gm \/ (to_gm # <<>> /\ to_gm' = Tail(to_gm))
    BY <1>3 DEF Network, GmAnswers, GmCancels, LoseSignaling, LoseGrant, Receive, Evict, Tick, vars
  <2>3. \A i \in DOMAIN to_gm' : \E j \in DOMAIN to_gm : to_gm'[i] = to_gm[j]
    BY <1>0, <2>2, Taken
  <2> QED
    BY <2>1, <2>3 DEF CancelLast
<1> QED
  BY <1>1, <1>2, <1>3 DEF Next, Over

\* The grandmaster never forgets a denial, and a manager that is done stays so.
LEMMA DenialsGrow ==
  ASSUME SessionInv, [Next]_vars, Willing'
  PROVE  Willing
<1>0. denied \in [Services -> 0..MaxRefusals] /\ MaxRefusals \in Nat
  BY Parts, ConstantTypes DEF NetworkTyped
<1>1. CASE denied' = denied
  BY <1>1 DEF Willing
<1>2. ASSUME GmAnswers(0), denied' # denied
      PROVE  Willing
  <2>1. denied' = [s \in Services |-> IF s \in Head(to_gm).services THEN denied[s] + 1 ELSE denied[s]]
    BY <1>2 DEF GmAnswers
  <2>2. \A s \in Services : denied'[s] \in {denied[s], denied[s] + 1}
    BY <2>1
  <2>3. \A n \in 0..MaxRefusals : n + 1 # 0
    BY <1>0
  <2> QED
    BY <1>0, <2>2, <2>3 DEF Willing
<1>3. CASE denied' # denied
  <2>1. \E d \in GrantDurations : GmAnswers(d)
    BY <1>3, ManagerSends DEF Next, Over, Calling, RequestStop, ManagerEnded, Interrupt, StopAcr, Close,
       Network, GmCancels, LoseSignaling, LoseGrant, Receive, Evict, Tick, vars, peer, network
  <2>2. \A d \in GrantDurations : GmAnswers(d) => d = 0
    BY <1>3 DEF GmAnswers
  <2> QED
    BY <1>2, <1>3, <2>1, <2>2
<1> QED
  BY <1>1, <1>3

LEMMA DoneStays ==
  ASSUME [Next]_vars, pc' # "done"
  PROVE  pc # "done"
  BY ManagerRuns, OutsideLeaves DEF Next, Over

FullGrants == GrantDurations \subseteq {0, Duration}

\* While the manager does not collect, nothing of the Sync service is on its way.
LEMMA CalmStep ==
  ASSUME NoDenial, OneGrant, ~Collecting, ~Collecting', Asking' = Asking,
         UNCHANGED <<to_client, buf>>
  PROVE  NoDenial' /\ OneGrant'
<1>1. Quiet
  BY DEF OneGrant
<1>2. OnWire' = OnWire /\ Buffered' = Buffered
  BY DEF OnWire, Buffered
<1>3. Quiet'
  BY <1>1, <1>2 DEF Quiet
<1>4. OneGrant'
  BY <1>3 DEF OneGrant, Quiet
<1> QED
  BY <1>4 DEF NoDenial

\* A negotiation is over: what it waited for is used up.
LEMMA EndOfCollecting ==
  ASSUME NoDenial, ~Collecting', Quiet', UNCHANGED to_client,
         \A i \in DOMAIN buf' : \E j \in DOMAIN buf : buf'[i] = buf[j]
  PROVE  NoDenial' /\ OneGrant'
<1>1. OneGrant'
  BY DEF OneGrant, Quiet
<1> QED
  BY <1>1 DEF NoDenial

\* The service of a frame that is relevant to a renewal or to the Sync negotiation.
LEMMA SyncIsRelevant ==
  ASSUME neg.phase \in {"sync", "renew"}
  PROVE  Buffered \subseteq Relevant
  BY AskedTyped DEF Buffered, Relevant

LEMMA CollectGrantsGranted ==
  ASSUME SessionInv, NoDenial, OneGrant, CollectGrants
  PROVE  NoDenial' /\ OneGrant'
<1> USE DEF measuring, contract, outside, peer, network
<1>0. ControlTyped /\ BufferTyped
  BY Parts
<1>1. /\ pc = "collect" /\ left > 0 /\ Relevant # {} /\ KeepOnly(DOMAIN buf \ Relevant)
      /\ UNCHANGED <<to_gm, to_client, gm>>
  BY DEF CollectGrants
<1>2. \A i \in DOMAIN buf' : \E j \in DOMAIN buf \ Relevant : buf'[i] = buf[j]
  BY <1>0, <1>1, KeepTyped
<1>3. Asking' = Asking /\ OnWire' = OnWire
  BY <1>1 DEF Asking, OnWire
<1>4. \A i \in DOMAIN buf' : \E j \in DOMAIN buf : buf'[i] = buf[j]
  BY <1>2
<1>5. ~Stalled
  BY <1>1 DEF Stalled
<1>6. neg.phase \in {"announce", "sync", "renew"}
  BY <1>0, <1>1 DEF ControlTyped, Negotiating, Negotiation
<1> DEFINE got == neg.got \cup {buf[i].service : i \in Relevant}
<1>7. \/ Asked(neg.phase) \subseteq got /\ Succeed
      \/ neg' = [neg EXCEPT !.got = got] /\ UNCHANGED <<pc, left>>
  BY DEF CollectGrants
<1>8. CASE neg.phase = "announce"
  <2>1. Quiet
    BY <1>8 DEF OneGrant, Collecting
  <2>2. Buffered' = {}
    BY <1>4, <2>1 DEF Quiet, Buffered
  <2>3. ~Collecting'
    <3>1. CASE Succeed
      BY <1>8, <3>1 DEF Succeed, Wait, Collecting
    <3>2. CASE neg' = [neg EXCEPT !.got = got]
      BY <1>0, <1>8, <3>2 DEF Collecting, ControlTyped, Negotiation
    <3> QED
      BY <1>7, <3>1, <3>2
  <2>4. Quiet'
    BY <1>3, <2>1, <2>2 DEF Quiet
  <2> QED
    BY <1>1, <1>4, <2>3, <2>4, EndOfCollecting
<1>9. CASE neg.phase \in {"sync", "renew"}
  <2>1. Collecting /\ "sync" \in Asked(neg.phase)
    BY <1>1, <1>9, AskedTyped DEF Collecting
  <2>2. Buffered' = {}
    <3>1. \A j \in DOMAIN buf \ Relevant : buf[j].service # "sync"
      BY <1>9, SyncIsRelevant DEF Buffered
    <3> QED
      BY <1>2, <3>1 DEF Buffered
  <2>3. "sync" \in got <=> "sync" \in neg.got \/ Buffered # {}
    BY <1>9, SyncIsRelevant DEF Buffered, Relevant
  <2>4. CASE Asked(neg.phase) \subseteq got /\ Succeed
    <3>1. "sync" \in neg.got \/ Buffered # {}
      BY <2>1, <2>3, <2>4
    <3>2. Asking = {} /\ OnWire = {}
      BY <3>1 DEF OneGrant
    <3>3. Quiet'
      BY <1>3, <2>2, <3>2 DEF Quiet
    <3>4. ~Collecting'
      <4>1. pc' \in {"sync", ret}
        BY <1>9, <2>4 DEF Succeed, Wait, Go
      <4>2. pc' # "collect"
        BY <1>0, <4>1 DEF ControlTyped
      <4> QED
        BY <4>2 DEF Collecting
    <3> QED
      BY <1>1, <1>4, <3>3, <3>4, EndOfCollecting
  <2>5. CASE neg' = [neg EXCEPT !.got = got] /\ UNCHANGED <<pc, left>>
    <3>1. Collecting' /\ neg'.got = got
      BY <1>0, <2>1, <2>5 DEF Collecting, ControlTyped, Negotiation
    <3>2. gm' = gm
      BY <1>1
    <3> HIDE DEF got
    <3>3. OneGrant'
      BY <1>3, <1>5, <2>1, <2>2, <2>3, <3>1, <3>2 DEF OneGrant
    <3> QED
      BY <1>1, <1>4, <3>3 DEF NoDenial
  <2> QED
    BY <1>7, <2>4, <2>5
<1> QED
  BY <1>6, <1>8, <1>9

LEMMA NegotiateGranted ==
  ASSUME SessionInv, Willing, NoDenial, OneGrant, Negotiate
  PROVE  NoDenial' /\ OneGrant'
<1> USE DEF measuring, contract, outside, peer, network
<1>0. ControlTyped /\ NetworkTyped
  BY Parts
<1>1. CASE BeginAttempt
  <2>1. ~Collecting /\ Quiet /\ UNCHANGED <<buf, to_client, gm>>
    BY <1>1 DEF BeginAttempt, Collecting, OneGrant
  <2>2. CASE stop
    <3>1. Fail("stop") /\ UNCHANGED to_gm
      BY <1>1, <2>2 DEF BeginAttempt
    <3>2. pc' # "collect"
      BY <1>0, <3>1 DEF Fail, Finish, Go, Wait, ControlTyped
    <3> QED
      BY <2>1, <3>1, <3>2, CalmStep DEF Collecting, Asking
  <2>3. CASE ~stop
    <3>1. /\ SendSignaling("request", Asked(neg.phase)) /\ pc' = "collect"
          /\ left' = RequestTimeout /\ neg' = [neg EXCEPT !.got = {}]
      BY <1>1, <2>3 DEF BeginAttempt, Wait
    <3>2. neg.phase \in {"announce", "sync", "renew"} /\ neg'.phase = neg.phase /\ neg'.got = {}
      BY <1>0, <1>1, <3>1 DEF BeginAttempt, ControlTyped, Negotiating, Negotiation
    <3>3. OnWire' = {} /\ Buffered' = {} /\ NoDenial'
      BY <2>1 DEF Quiet, OnWire, Buffered, NoDenial
    <3>4. CASE neg.phase = "announce"
      <4>1. ~Collecting'
        BY <3>2, <3>4 DEF Collecting
      <4>2. Asking' = Asking
        BY <1>0, <3>1, <3>2, <3>4, AskedTyped, Sent DEF NetworkTyped
      <4> QED
        BY <2>1, <4>1, <4>2, CalmStep
    <3>5. CASE neg.phase # "announce"
      <4>1. Collecting'
        BY <3>1, <3>2, <3>5, ConstantTypes DEF Collecting
      <4>2. \A i, j \in Asking' : i = j
        <5>1. Asked(neg.phase) \in SUBSET Services
          BY <3>2, AskedTyped
        <5> QED
          BY <1>0, <2>1, <3>1, <5>1, Sent DEF NetworkTyped, Quiet
      <4> QED
        BY <3>2, <3>3, <4>1, <4>2 DEF OneGrant
    <3> QED
      BY <3>4, <3>5
  <2> QED
    BY <2>2, <2>3
<1>2. CASE GrantDenied
  BY <1>2 DEF GrantDenied, Denied, Relevant, NoDenial
<1>3. CASE CollectGrants
  BY <1>3, CollectGrantsGranted
<1>4. CASE AttemptTimesOut \/ RetryBegins
  <2>1. UNCHANGED <<to_gm, to_client, buf>>
    BY <1>4 DEF AttemptTimesOut, RetryBegins
  <2>3. ~Collecting
    <3>1. left = 0
      BY <1>4 DEF AttemptTimesOut, RetryBegins
    <3> QED
      BY <3>1 DEF Collecting
  <2>2. pc' # "collect"
    BY <1>0, <1>4 DEF AttemptTimesOut, RetryBegins, Fail, Finish, Go, Wait, ControlTyped
  <2> QED
    BY <2>1, <2>2, <2>3, CalmStep DEF Collecting, Asking
<1>5. CASE FirstAnnounceArrives \/ FirstAnnounceAgain
  <2>1. ~Collecting /\ ~Collecting' /\ UNCHANGED <<to_gm, to_client, buf>>
    BY <1>5 DEF FirstAnnounceArrives, FirstAnnounceAgain, Go, Wait, Collecting
  <2> QED
    BY <2>1, CalmStep DEF Asking
<1>6. CASE FirstAnnounceTimesOut
  <2>1. ~Collecting /\ ~Collecting' /\ UNCHANGED <<to_client, buf>>
    BY <1>6 DEF FirstAnnounceTimesOut, Finish, Go, Wait, Collecting
  <2>2. to_gm' = to_gm \/ SendSignaling("request", Asked("announce"))
    BY <1>6 DEF FirstAnnounceTimesOut
  <2>3. Asking' = Asking
    <3>1. CASE to_gm' = to_gm
      BY <3>1 DEF Asking
    <3>2. CASE SendSignaling("request", Asked("announce"))
      BY <1>0, <3>2, AskedTyped, Sent DEF NetworkTyped
    <3> QED
      BY <2>2, <3>1, <3>2
  <2> QED
    BY <2>1, <2>3, CalmStep
<1> QED
  BY <1>1, <1>2, <1>3, <1>4, <1>5, <1>6 DEF Negotiate

LEMMA MeasureGranted ==
  ASSUME SessionInv, NoDenial, OneGrant, Measure
  PROVE  NoDenial' /\ OneGrant'
<1>1. ~Collecting /\ UNCHANGED <<to_gm, to_client, buf>>
  BY DEF Measure, SyncArrives, SyncTimesOut, Resync, LoopHead, SendDelayReq,
     DelayRespArrives, DelayRespTimesOut, Missed, PauseRound, Nap, NapEnds, network, Collecting
<1>2. ~Collecting'
  BY DEF Measure, SyncArrives, SyncTimesOut, Resync, LoopHead, SendDelayReq,
     DelayRespArrives, DelayRespTimesOut, Missed, PauseRound, Nap, NapEnds, Collecting,
     Finish, Renew, Go, Wait, Pause
<1> QED
  BY <1>1, <1>2, CalmStep DEF Asking

LEMMA CallingGranted ==
  ASSUME SessionInv, pc # "done", NoDenial, OneGrant, Calling
  PROVE  NoDenial' /\ OneGrant'
<1> USE DEF outside, peer, network, manager
<1>1. pc' = pc /\ neg' = neg /\ left' = left /\ UNCHANGED <<to_gm, to_client, gm>>
  BY DEF Calling, RequestStop, ManagerEnded, Interrupt, StopAcr, Close
<1>2. buf' = buf \/ buf' = <<>>
  BY DEF Calling, RequestStop, ManagerEnded, Interrupt, StopAcr, Close
<1>3. Asking' = Asking /\ OnWire' = OnWire /\ (Collecting' <=> Collecting)
  BY <1>1 DEF Asking, OnWire, Collecting
<1>4. (Buffered' = Buffered \/ Buffered' = {}) /\ (Stalled => Stalled')
  BY <1>1, <1>2 DEF Buffered, Stalled, Relevant
<1>5. NoDenial'
  BY <1>1, <1>2 DEF NoDenial
<1>6. OneGrant'
  BY <1>1, <1>3, <1>4 DEF OneGrant, Quiet
<1> QED
  BY <1>5, <1>6

\* The buffer may lose grants, whatever else happens to it.
LEMMA Evicted ==
  ASSUME BufferTyped, Evict
  PROVE  \A i \in DOMAIN buf' : \E j \in DOMAIN buf : buf'[i] = buf[j]
<1>1. buf \in Seq(Grant) /\ buf # <<>> /\ buf' = Tail(buf)
  BY DEF Evict, BufferTyped
<1>2. \A i \in DOMAIN buf' : i + 1 \in DOMAIN buf /\ buf'[i] = buf[i + 1]
  BY <1>1
<1> QED
  BY <1>2

LEMMA GmAnswersGranted ==
  ASSUME FullGrants, SessionInv, NoDenial, OneGrant, Willing',
         NEW d \in GrantDurations, GmAnswers(d)
  PROVE  NoDenial' /\ OneGrant'
<1> USE DEF outside, manager
<1>0. NetworkTyped
  BY Parts
<1> DEFINE services == Head(to_gm).services
<1>1. /\ to_gm # <<>> /\ Head(to_gm).kind = "request" /\ to_gm' = Tail(to_gm)
      /\ to_client' = to_client \cup [service : services, duration : {d}]
      /\ UNCHANGED <<pc, neg, left, buf>>
  BY DEF GmAnswers
<1>2. services \subseteq Services /\ "sync" \in Services
  BY <1>0, <1>1, HeadTyped DEF NetworkTyped, Services
<1>3. (Collecting' <=> Collecting) /\ Buffered' = Buffered /\ ~Stalled
  BY <1>1 DEF Collecting, Buffered, Stalled
<1>4. d # 0 \/ services = {}
  <2>1. CASE d = 0
    <3>1. denied' = [s \in Services |-> IF s \in services THEN denied[s] + 1 ELSE denied[s]]
      BY <2>1 DEF GmAnswers
    <3>2. \A s \in services : denied[s] \in Nat /\ denied'[s] = denied[s] + 1
      BY <1>0, <1>2, <3>1, ConstantTypes DEF NetworkTyped
    <3>3. \A s \in services : denied'[s] = 0
      BY <1>2 DEF Willing
    <3> QED
      BY <3>2, <3>3
  <2> QED
    BY <2>1
<1>5. NoDenial'
  <2>1. \A g \in [service : services, duration : {d}] : g.duration # 0
    BY <1>4
  <2> QED
    BY <1>1, <2>1 DEF NoDenial
<1>6. CASE "sync" \notin services
  <2>1. OnWire' = OnWire
    BY <1>1, <1>6 DEF OnWire
  <2>2. (Asking = {} => Asking' = {}) /\ \A i, j \in Asking' : i = j
    BY <1>0, <1>1, Taken DEF NetworkTyped, OneGrant
  <2>3. gm'["sync"] = gm["sync"]
    BY <1>2, <1>6 DEF GmAnswers
  <2>4. neg' = neg
    BY <1>1
  <2>5. OneGrant'
    BY <1>3, <2>1, <2>2, <2>3, <2>4 DEF OneGrant, Quiet
  <2> QED
    BY <1>5, <2>5
<1>7. CASE "sync" \in services
  <2>1. Asking # {} /\ Asking' = {}
    BY <1>0, <1>1, <1>7, Taken DEF NetworkTyped, OneGrant
  <2>2. Collecting /\ OnWire = {} /\ Buffered = {} /\ "sync" \notin neg.got
    BY <2>1 DEF OneGrant, Quiet
  <2>3. d = Duration
    BY <1>4, <1>7 DEF FullGrants
  <2>4. gm'["sync"] = Duration
    BY <1>2, <1>4, <1>7, <2>3 DEF GmAnswers
  <2>5. OnWire' = {[service |-> "sync", duration |-> d]}
    <3>1. \A g \in OnWire' : g \in [service : services, duration : {d}] /\ g.service = "sync"
      BY <1>1, <2>2 DEF OnWire
    <3>2. [service |-> "sync", duration |-> d] \in OnWire'
      BY <1>1, <1>7 DEF OnWire
    <3> QED
      BY <3>1, <3>2
  <2>6. neg' = neg
    BY <1>1
  <2>7. \A g, h \in OnWire' : g = h
    BY <2>5
  <2>8. OneGrant'
    BY <1>3, <2>1, <2>2, <2>4, <2>6, <2>7 DEF OneGrant, Quiet
  <2> QED
    BY <1>5, <2>8
<1> QED
  BY <1>6, <1>7

LEMMA ReceiveGranted ==
  ASSUME SessionInv, NoDenial, OneGrant, NEW g \in Grant, Receive(g)
  PROVE  NoDenial' /\ OneGrant'
<1> USE DEF outside, manager
<1>1. /\ g \in to_client /\ to_client' = to_client \ {g}
      /\ UNCHANGED <<pc, neg, left, to_gm, gm>>
  BY DEF Receive
<1>2. \A i \in DOMAIN buf' : buf'[i] = g \/ \E j \in DOMAIN buf : buf'[i] = buf[j]
  BY Parts, Received
<1>3. NoDenial'
  BY <1>1, <1>2 DEF NoDenial
<1>4. Asking' = Asking /\ (Collecting' <=> Collecting) /\ ~Stalled
  BY <1>1 DEF Asking, Collecting, Stalled
<1>5. neg' = neg /\ gm' = gm
  BY <1>1
<1>6. CASE g.service # "sync"
  <2>1. OnWire' = OnWire
    BY <1>1, <1>6 DEF OnWire
  <2>2. Buffered = {} => Buffered' = {}
    BY <1>2, <1>6 DEF Buffered
  <2>3. OneGrant'
    BY <1>4, <1>5, <2>1, <2>2 DEF OneGrant, Quiet
  <2> QED
    BY <1>3, <2>3
<1>7. CASE g.service = "sync"
  <2>1. g \in OnWire /\ \A h \in OnWire : h = g
    BY <1>1, <1>7 DEF OnWire, OneGrant
  <2>2. OnWire' = {}
    BY <1>1, <2>1 DEF OnWire
  <2>3. Asking = {} /\ Buffered = {} /\ "sync" \notin neg.got /\ gm["sync"] = Duration /\ Collecting
    BY <2>1 DEF OneGrant, Quiet
  <2>4. OneGrant'
    BY <1>4, <1>5, <2>2, <2>3 DEF OneGrant, Quiet
  <2> QED
    BY <1>3, <2>4
<1> QED
  BY <1>6, <1>7

LEMMA NetworkGranted ==
  ASSUME FullGrants, SessionInv, pc # "done", CancelLast, NoDenial, OneGrant, Willing', Network
  PROVE  NoDenial' /\ OneGrant'
<1> USE DEF outside, peer, manager
<1>0. to_gm \in Seq(Message) /\ BufferTyped
  BY Parts DEF NetworkTyped
<1>1. ASSUME NEW d \in GrantDurations, GmAnswers(d) PROVE NoDenial' /\ OneGrant'
  BY <1>1, GmAnswersGranted
<1>2. ~GmCancels
  <2>1. to_gm # <<>> => 1 \in DOMAIN to_gm /\ Head(to_gm) = to_gm[1]
    BY <1>0
  <2> QED
    BY <2>1 DEF GmCancels, CancelLast
<1>3. CASE LoseSignaling
  <2>1. /\ to_gm # <<>> /\ to_gm' = Tail(to_gm)
        /\ UNCHANGED <<pc, neg, left, buf, to_client, gm>>
    BY <1>3 DEF LoseSignaling
  <2>2. (Asking = {} => Asking' = {}) /\ \A i, j \in Asking' : i = j
    BY <1>0, <2>1, Taken DEF OneGrant
  <2>3. OnWire' = OnWire /\ Buffered' = Buffered /\ (Collecting' <=> Collecting) /\ ~Stalled
    BY <2>1 DEF OnWire, Buffered, Collecting, Stalled
  <2>4. neg' = neg /\ gm' = gm
    BY <2>1
  <2>5. OneGrant'
    BY <2>2, <2>3, <2>4 DEF OneGrant, Quiet
  <2> QED
    BY <2>1, <2>5 DEF NoDenial
<1>4. ASSUME NEW g \in Grant, LoseGrant(g) PROVE NoDenial' /\ OneGrant'
  <2>1. /\ g \in to_client /\ to_client' = to_client \ {g}
        /\ UNCHANGED <<pc, neg, left, buf, to_gm, gm>>
    BY <1>4 DEF LoseGrant
  <2>2. Asking' = Asking /\ Buffered' = Buffered /\ (Collecting' <=> Collecting) /\ ~Stalled
    BY <2>1 DEF Asking, Buffered, Collecting, Stalled
  <2>3. OnWire' \subseteq OnWire
    BY <2>1 DEF OnWire
  <2>4. neg' = neg /\ gm' = gm
    BY <2>1
  <2>5. OneGrant'
    BY <2>2, <2>3, <2>4 DEF OneGrant, Quiet
  <2> QED
    BY <2>1, <2>5 DEF NoDenial
<1>5. ASSUME NEW g \in Grant, Receive(g) PROVE NoDenial' /\ OneGrant'
  BY <1>5, ReceiveGranted
<1>6. CASE Evict
  <2>1. ~Collecting /\ ~Collecting' /\ UNCHANGED <<to_gm, to_client>>
    BY <1>6 DEF Evict, Collecting
  <2>2. \A i \in DOMAIN buf' : \E j \in DOMAIN buf : buf'[i] = buf[j]
    BY <1>0, <1>6, Evicted
  <2>3. Quiet
    BY <2>1 DEF OneGrant
  <2>4. Quiet'
    BY <2>1, <2>2, <2>3 DEF Quiet, Asking, OnWire, Buffered
  <2> QED
    BY <2>1, <2>2, <2>4, EndOfCollecting
<1> QED
  BY <1>1, <1>2, <1>3, <1>4, <1>5, <1>6 DEF Network

LEMMA TickGranted ==
  ASSUME SessionInv, NoDenial, OneGrant, Tick
  PROVE  NoDenial' /\ OneGrant'
<1>1. /\ to_gm = <<>> /\ to_client = {} /\ left > 0 /\ left' = left - 1
      /\ (pc = "collect" => Relevant = {})
      /\ UNCHANGED <<pc, neg, buf, to_gm, to_client>>
  BY DEF Tick, Waiting
<1>2. NoDenial'
  BY <1>1 DEF NoDenial
<1>3. left \in Nat
  BY Parts DEF ControlTyped
<1>4. Asking = {} /\ OnWire = {}
  BY <1>1 DEF Asking, OnWire
<1>5. Buffered = {}
  <2>1. CASE Collecting
    BY <1>1, <2>1, SyncIsRelevant DEF Collecting
  <2>2. CASE ~Collecting
    BY <2>2 DEF OneGrant, Quiet
  <2> QED
    BY <2>1, <2>2
<1>6. Quiet'
  BY <1>1, <1>4, <1>5 DEF Quiet, Asking, OnWire, Buffered
<1>7. Collecting' => Stalled'
  BY <1>1, <1>3 DEF Collecting, Stalled, Relevant
<1>8. OneGrant'
  BY <1>6, <1>7 DEF OneGrant, Quiet
<1> QED
  BY <1>2, <1>8

LEMMA LeaseInvStays ==
  ASSUME FullGrants, LeaseInv, [Next]_vars
  PROVE  LeaseInv'
<1>1. SessionInv /\ CancelLast /\ SessionInv' /\ CancelLast'
  BY TypesStay, CancelLastStays DEF LeaseInv
<1>2. ASSUME Willing', pc' # "done" PROVE NoDenial' /\ OneGrant'
  <2>1. Willing /\ pc # "done"
    BY <1>1, <1>2, DenialsGrow, DoneStays
  <2>2. NoDenial /\ OneGrant
    BY <2>1 DEF LeaseInv, GrantInv
  <2>3. CASE UNCHANGED vars
    <3>1. /\ Asking' = Asking /\ OnWire' = OnWire /\ Buffered' = Buffered
          /\ (Collecting' <=> Collecting) /\ (Stalled' <=> Stalled) /\ neg' = neg /\ gm' = gm
      BY <2>3 DEF vars, Asking, OnWire, Buffered, Collecting, Stalled, Relevant
    <3>2. OneGrant'
      BY <2>2, <3>1 DEF OneGrant, Quiet
    <3> QED
      BY <2>2, <2>3, <3>2 DEF vars, NoDenial
  <2> QED
    BY <1>1, <1>2, <2>1, <2>2, <2>3, NegotiateGranted, MeasureGranted, CallingGranted,
       NetworkGranted, TickGranted DEF Next, Over
<1> QED
  BY <1>1, <1>2 DEF LeaseInv, GrantInv

-----------------------------------------------------------------------------
(***************************************************************************)
(* Every step of the session is a step of the lease, or none.              *)
(***************************************************************************)
Relied == IF Willing /\ state /\ caller.pc = "waiting" THEN Duration - age ELSE 0

LEMMA ReliedTyped ==
  ASSUME SessionInv
  PROVE  Relied \in 0..Duration /\ gm["sync"] \in 0..Duration /\ "sync" \in Services
<1>1. age \in 0..Duration /\ gm \in [Services -> 0..Duration] /\ Duration \in Nat
  BY Parts, ConstantTypes DEF ControlTyped, NetworkTyped
<1> QED
  BY <1>1 DEF Relied, Services

\* A step that changes nothing of what the lease is about.
LEMMA Stutters ==
  ASSUME UNCHANGED <<gm, denied, state, age>>, caller'.pc = caller.pc
  PROVE  gm'["sync"] = gm["sync"] /\ Relied' = Relied
  BY DEF Relied, Willing

\* A success starts the contract anew: the client relies on what the grandmaster
\* has granted it.
LEMMA SuccessRelies ==
  ASSUME LeaseInv, SessionInv', CollectGrants
  PROVE  gm'["sync"] = gm["sync"] /\ (Relied' = Relied \/ Relied' \in 0..gm["sync"])
<1> USE DEF measuring, contract, outside, peer
<1>0. SessionInv /\ GrantInv /\ ControlTyped
  BY Parts DEF LeaseInv
<1>1. /\ pc = "collect" /\ left > 0 /\ Relevant # {} /\ pc # "done"
      /\ UNCHANGED <<gm, denied, caller>>
  BY DEF CollectGrants
<1>2. neg.phase \in {"announce", "sync", "renew"}
  BY <1>0, <1>1 DEF ControlTyped, Negotiating, Negotiation
<1>3. CASE UNCHANGED <<state, age>>
  BY <1>1, <1>3, Stutters
<1>4. CASE neg.phase \in {"sync", "renew"} /\ age' = 0
           /\ Asked(neg.phase) \subseteq neg.got \cup {buf[i].service : i \in Relevant}
  <2>1. Collecting /\ "sync" \in Asked(neg.phase)
    BY <1>1, <1>4, AskedTyped DEF Collecting
  <2>2. "sync" \in neg.got \/ Buffered # {}
    BY <1>4, <2>1 DEF Buffered, Relevant
  <2>3. Willing => gm["sync"] = Duration
    <3>1. Willing => OneGrant
      BY <1>0, <1>1 DEF GrantInv
    <3> QED
      BY <1>1, <2>1, <2>2, <3>1 DEF OneGrant, Stalled
  <2>4. Relied' = 0 \/ (Willing /\ Relied' = Duration)
    BY <1>1, <1>4, ConstantTypes DEF Relied, Willing
  <2>5. gm["sync"] \in Nat /\ gm'["sync"] = gm["sync"]
    BY <1>0, <1>1, ReliedTyped
  <2> QED
    BY <2>3, <2>4, <2>5, ConstantTypes
<1>5. CASE Succeed /\ Asked(neg.phase) \subseteq neg.got \cup {buf[i].service : i \in Relevant}
  <2>1. CASE neg.phase = "announce"
    BY <1>3, <1>5, <2>1 DEF Succeed
  <2>2. CASE neg.phase \in {"sync", "renew"}
    <3>1. age' = 0
      BY <1>5, <2>2 DEF Succeed, MarkContractStarted
    <3> QED
      BY <1>4, <1>5, <2>2, <3>1
  <2> QED
    BY <1>2, <2>1, <2>2
<1> QED
  BY <1>3, <1>5 DEF CollectGrants

LEMMA GrandmasterExtends ==
  ASSUME FullGrants, SessionInv, SessionInv', NEW d \in GrantDurations, GmAnswers(d)
  PROVE  \/ Relied' = Relied /\ gm'["sync"] \in {gm["sync"], Duration}
         \/ Relied' = 0 /\ gm'["sync"] = gm["sync"]
<1> USE DEF outside, manager
<1>0. NetworkTyped /\ UNCHANGED <<state, age, caller>>
  BY Parts DEF GmAnswers
<1>1. CASE d = 0
  <2>1. gm' = gm
    BY <1>1 DEF GmAnswers
  <2>2. Willing' => Willing
    BY DenialsGrow DEF Next, Network
  <2>3. Relied' \in {Relied, 0}
    BY <1>0, <2>2 DEF Relied
  <2> QED
    BY <2>1, <2>3
<1>2. CASE d # 0
  <2>1. d = Duration /\ denied' = denied
    BY <1>2 DEF FullGrants, GmAnswers
  <2>2. gm' = [s \in Services |-> IF s \in Head(to_gm).services THEN d ELSE gm[s]]
    BY <1>2 DEF GmAnswers
  <2>3. gm'["sync"] \in {gm["sync"], Duration}
    BY <2>1, <2>2, ReliedTyped
  <2>4. Relied' = Relied
    BY <1>0, <2>1 DEF Relied, Willing
  <2> QED
    BY <2>3, <2>4
<1> QED
  BY <1>1, <1>2

LEMMA TickPasses ==
  ASSUME SessionInv, Tick
  PROVE  gm'["sync"] = Lease!Down(gm["sync"]) /\ Relied' = Lease!Down(Relied)
<1>1. gm'["sync"] = Lease!Down(gm["sync"])
  BY ReliedTyped DEF Tick, Down, Lease!Down
<1>2. age \in 0..Duration /\ Duration \in Nat
  BY Parts, ConstantTypes DEF ControlTyped
<1>3. caller'.pc = caller.pc /\ state' = state /\ (Willing' <=> Willing)
      /\ age' = UpTo(Duration, age + 1)
  BY CallerStays DEF Tick, Willing
<1>4. Duration - age' = IF Duration - age > 0 THEN Duration - age - 1 ELSE Duration - age
  BY <1>2, <1>3 DEF UpTo
<1>5. Relied' = Lease!Down(Relied)
  BY <1>3, <1>4 DEF Relied, Lease!Down
<1> QED
  BY <1>1, <1>5

LEMMA StepOfLease ==
  ASSUME FullGrants, LeaseInv, LeaseInv', [Next]_vars
  PROVE  [Lease!Next]_(Lease!lease)
<1> USE DEF measuring, contract, outside, peer, network, manager
<1>0. SessionInv /\ SessionInv' /\ CancelLast
  BY DEF LeaseInv
<1> SUFFICES \/ gm'["sync"] = gm["sync"] /\ Relied' = Relied
             \/ gm'["sync"] = Duration /\ Relied' = Relied
             \/ gm'["sync"] = gm["sync"] /\ Relied' \in 0..gm["sync"]
             \/ gm'["sync"] = gm["sync"] /\ Relied' = 0
             \/ Relied = 0 /\ gm'["sync"] = 0 /\ Relied' = Relied
             \/ gm'["sync"] = Lease!Down(gm["sync"]) /\ Relied' = Lease!Down(Relied)
  BY DEF Relied, Lease!Next, Lease!lease, Lease!Extend, Lease!Rely, Lease!LetGo, Lease!GiveBack,
     Lease!Pass
<1>1. CASE Negotiate \/ Measure
  <2>1. CASE CollectGrants
    BY <1>0, <2>1, SuccessRelies
  <2>2. CASE ~CollectGrants
    <3>1. UNCHANGED <<state, age>>
      BY <1>1, <2>2 DEF Negotiate, BeginAttempt, GrantDenied, AttemptTimesOut, RetryBegins,
         FirstAnnounceArrives, FirstAnnounceTimesOut, FirstAnnounceAgain, Measure, SyncArrives,
         SyncTimesOut, Resync, LoopHead, SendDelayReq, DelayRespArrives, DelayRespTimesOut,
         Missed, PauseRound, Nap, NapEnds
    <3> QED
      BY <1>0, <1>1, <3>1, ManagerSends, Stutters
  <2> QED
    BY <2>1, <2>2
<1>2. CASE Calling
  <2>1. UNCHANGED <<gm, denied, state, age>>
    BY <1>2 DEF Calling, RequestStop, ManagerEnded, Interrupt, StopAcr, Close
  <2>2. CASE caller'.pc = caller.pc
    BY <2>1, <2>2, Stutters
  <2>3. CASE caller'.pc # caller.pc
    <3>1. caller'.pc # "waiting"
      BY <1>0, <1>2, <2>3, Parts
      DEF Calling, RequestStop, ManagerEnded, Interrupt, StopAcr, Close, CallerGo, CallerTyped, Caller
    <3> QED
      BY <2>1, <3>1 DEF Relied
  <2> QED
    BY <2>2, <2>3
<1>3. CASE Network
  <2>1. ASSUME NEW d \in GrantDurations, GmAnswers(d)
        PROVE  \/ Relied' = Relied /\ gm'["sync"] \in {gm["sync"], Duration}
               \/ Relied' = 0 /\ gm'["sync"] = gm["sync"]
    BY <1>0, <2>1, GrandmasterExtends
  <2>2. CASE GmCancels
    <3>1. caller.pc # "waiting" /\ UNCHANGED <<state, age, caller, denied>>
      <4>1. to_gm \in Seq(Message) /\ to_gm # <<>> /\ Head(to_gm).kind = "cancel"
        BY <1>0, <2>2, Parts DEF GmCancels, NetworkTyped
      <4>2. 1 \in DOMAIN to_gm /\ to_gm[1].kind = "cancel"
        BY <4>1
      <4> QED
        BY <1>0, <2>2, <4>2 DEF GmCancels, CancelLast
    <3>2. gm'["sync"] \in {gm["sync"], 0}
      BY <1>0, <2>2, ReliedTyped DEF GmCancels
    <3> QED
      BY <3>1, <3>2 DEF Relied
  <2>3. CASE LoseSignaling \/ Evict \/ \E g \in Grant : LoseGrant(g) \/ Receive(g)
    <3>1. UNCHANGED <<gm, denied, state, age, caller>>
      BY <2>3 DEF LoseSignaling, LoseGrant, Receive, Evict
    <3> QED
      BY <3>1, Stutters
  <2> QED
    BY <1>3, <2>1, <2>2, <2>3 DEF Network
<1>4. CASE Tick
  BY <1>0, <1>4, TickPasses
<1>5. CASE UNCHANGED vars
  BY <1>5, Stutters DEF vars
<1> QED
  BY <1>1, <1>2, <1>3, <1>4, <1>5 DEF Next, Over

LEMMA LeaseBegins == Init => LeaseInv /\ Lease!Init
<1> SUFFICES ASSUME Init PROVE LeaseInv /\ Lease!Init
  OBVIOUS
<1>1. SessionInv
  BY InitTyped
<1>2. to_gm = <<>> /\ to_client = {} /\ buf = <<>> /\ pc = "request" /\ state = FALSE
      /\ gm = [s \in Services |-> 0]
  BY DEF Init
<1>3. Quiet /\ NoDenial /\ ~Collecting
  BY <1>2 DEF Quiet, Asking, OnWire, Buffered, NoDenial, Collecting
<1>4. GrantInv
  BY <1>3 DEF GrantInv, OneGrant, Quiet
<1>5. CancelLast
  BY <1>2 DEF CancelLast
<1>6. gm["sync"] = 0 /\ Relied = 0
  BY <1>2 DEF Services, Relied
<1> QED
  BY <1>1, <1>4, <1>5, <1>6 DEF LeaseInv, Lease!Init, Relied

\* The session implements the lease of module UnicastLease, for every duration, margin,
\* timeout and number of lost messages: what _mark_contract_started believes is never more
\* than the grandmaster serves, and cancel_unicast gives back nothing still relied on.  It
\* needs a grandmaster that grants in full what it is asked for or denies it, as the
\* manager never reads the duration of a GRANT: with a shorter one the run
\* unicast_short_grant breaks it.
THEOREM SessionIsLease ==
  ASSUME GrantDurations \subseteq {0, Duration}
  PROVE  Spec => IsLease
<1>0. FullGrants
  BY DEF FullGrants
<1>1. Init => LeaseInv /\ Lease!Init
  BY LeaseBegins
<1>2. LeaseInv /\ [Next]_vars => LeaseInv'
  BY <1>0, LeaseInvStays
<1>3. LeaseInv /\ LeaseInv' /\ [Next]_vars => [Lease!Next]_(Lease!lease)
  BY <1>0, StepOfLease
<1> QED
  BY <1>1, <1>2, <1>3, PTL DEF Spec, IsLease, Lease!Spec

LeaseKept == Lease!LeaseTypeOK /\ Lease!NeverOverrelied

\* The client of a lease never relies on a service longer than the grandmaster serves
\* it: the margin of _renew_if_due is counted from a contract that exists.
THEOREM LeaseSafe == Lease!Spec => []Lease!NeverOverrelied
<1> USE DEF LeaseKept, Lease!LeaseTypeOK, Lease!NeverOverrelied
<1>1. Lease!Init => LeaseKept
  BY ConstantTypes DEF Lease!Init
<1>2. LeaseKept /\ [Lease!Next]_(Lease!lease) => LeaseKept'
  <2> SUFFICES ASSUME LeaseKept, [Lease!Next]_(Lease!lease) PROVE LeaseKept'
    OBVIOUS
  <2>0. Duration \in Nat
    BY ConstantTypes
  <2>1. CASE Lease!Extend BY <2>0, <2>1 DEF Lease!Extend
  <2>2. CASE Lease!Rely BY <2>0, <2>2 DEF Lease!Rely
  <2>3. CASE Lease!LetGo BY <2>0, <2>3 DEF Lease!LetGo
  <2>4. CASE Lease!GiveBack BY <2>0, <2>4 DEF Lease!GiveBack
  <2>5. CASE Lease!Pass BY <2>0, <2>5 DEF Lease!Pass, Lease!Down
  <2>6. CASE UNCHANGED Lease!lease BY <2>6 DEF Lease!lease
  <2> QED BY <2>1, <2>2, <2>3, <2>4, <2>5, <2>6 DEF Lease!Next
<1>3. LeaseKept => Lease!NeverOverrelied
  OBVIOUS
<1> QED
  BY <1>1, <1>2, <1>3, PTL DEF Lease!Spec

\* What the lease promises holds of the session: while nothing has been denied and its
\* caller waits for it, _seconds_until_renewal counts from a contract the grandmaster
\* still serves.
THEOREM NeverRenewedTooLate ==
  ASSUME GrantDurations \subseteq {0, Duration}
  PROVE  Spec => []Lease!NeverOverrelied
<1>1. Spec => Lease!Spec
  BY SessionIsLease DEF IsLease
<1> QED
  BY <1>1, LeaseSafe, PTL

-----------------------------------------------------------------------------
(***************************************************************************)
(* The contract is renewed in time.                                        *)
(***************************************************************************)
Larger(m, n) == IF m > n THEN m ELSE n

\* The most that one lost message costs: a wait, and the sleep before what was lost is
\* repeated.
LossCost == Larger(AnnounceTimeout, RequestTimeout) + RetrySleep
Owed(n) == n * LossCost
Debt == Owed(losses)

\* How old the Announce contract is, losses apart, when the Sync negotiation begins.
Lead == AnnounceTimeout + RetrySleep - 1

\* The age of the contract at the last look that finds no renewal due, and when a
\* renewal begins at the latest.
Early == Larger(Duration - Margin - 1, 0)
Latest == Larger(Early + Larger(DelayTimeout, 1), SyncTimeout)

\* What a contract is good for when the measurement begins.
Base == Duration - Lead - Owed(MaxLosses)

\* The condition under which a contract outlasts the retries.
MarginSuffices ==
  /\ RetrySleep > 0
  /\ MaxLosses < 6
  /\ GeneralBufMax >= Cardinality(Services)
  /\ Lead + 2 * (MaxLosses * LossCost) + Latest < Duration

Wired == {g.service : g \in to_client}
Stored == {buf[i].service : i \in DOMAIN buf}
Request(services) == <<[kind |-> "request", services |-> services]>>

\* The services whose GRANT can only be an answer to the REQUEST under way: an Announce
\* GRANT may be left over from the wait for the first Announce.
Telling == IF neg.phase = "announce" THEN {"announce"} ELSE Services \ {"announce"}

Collects == pc = "collect"

MailInv ==
  /\ Collects => to_gm = <<>> \/ (left = RequestTimeout /\ to_gm = Request(Asked(neg.phase)))
  /\ pc = "first_retry" => to_gm = <<>> \/ (left = RetrySleep /\ to_gm = Request({"announce"}))
  /\ pc \notin {"collect", "first_retry"} => to_gm = <<>>

\* Where the grants are.
Outside ==
  /\ ~(Collects /\ neg.phase # "announce") => Wired \cup Stored \subseteq {"announce"}
  /\ neg.phase = "announce" /\ ~Collects => Wired = {} /\ Stored = {}

Within ==
  /\ to_gm # <<>> => Telling \cap (Wired \cup Stored \cup neg.got) = {}
  /\ Telling \cap Wired \cap Stored = {}
  /\ Telling \cap neg.got \cap (Wired \cup Stored) = {}
  /\ ~(Asked(neg.phase) \subseteq neg.got)
  /\ left <= RequestTimeout
  /\ left < RequestTimeout => Wired = {} /\ Stored \cap Asked(neg.phase) = {} /\ to_gm = <<>>

PlaceInv == Outside /\ (Collects => Within)

\* A grant of this attempt has renewed all services that were asked for.
AnswerInv ==
  Collects /\ to_gm = <<>> /\ left = RequestTimeout
      /\ Telling \cap (Wired \cup Stored \cup neg.got) # {}
    => \A s \in Asked(neg.phase) : gm[s] = Duration

\* Old Announce grants lie before all others, so no grant of this attempt is pushed out
\* before they are.
Leads(b, i) == \A k \in 1..i : b[k].service = "announce"
Sorted(b) ==
  \A i, j \in DOMAIN b : i < j /\ b[i].service = b[j].service => Leads(b, i)
OldFirst(b) == \A i \in DOMAIN b : b[i].service = "announce" => Leads(b, i)
OrderInv == Sorted(buf) /\ (Collects /\ "announce" \in Wired => OldFirst(buf))

\* Something of this attempt has been lost.
Missing == Collects /\ to_gm = <<>> /\ ~(Asked(neg.phase) \subseteq neg.got \cup Wired \cup Stored)
Failed ==
  (IF neg.wild THEN 3 ELSE 0) + neg.attempt - 1 + (IF Missing \/ pc = "retry" THEN 1 ELSE 0)
Slack == IF Missing THEN LossCost - (RequestTimeout - left)
         ELSE IF pc = "retry" THEN LossCost - RequestTimeout - (RetrySleep - left) ELSE 0

Measuring == {"sync", "resync", "sync_again", "loop", "exchange", "delay", "missed", "pause",
              "nap", "napping"}

LossInv == neg.phase # "none" => losses >= Failed

\* What is left of the contracts: before the first Announce, while something is being
\* negotiated, and in the measurement.
FirstBudget ==
  /\ pc = "first" => gm["announce"] >= Duration - RetrySleep - Debt - (AnnounceTimeout - left)
  /\ pc = "first_retry" /\ to_gm = <<>> =>
       gm["announce"] >= Duration - (RetrySleep - left) - Debt
  /\ pc = "first_retry" /\ to_gm # <<>> =>
       gm["announce"] >= Duration - RetrySleep - AnnounceTimeout - Debt

NegotiationBudget ==
  /\ neg.phase = "sync" => gm["announce"] >= Duration - Lead - Debt + Slack
  /\ neg.phase = "renew" => \A s \in Services : gm[s] >= Base - Latest - Debt + Slack

MeasuringBudget == pc \in Measuring => \A s \in Services : gm[s] >= Base - age

\* How old the contract is where in the measurement.
AgeInv ==
  /\ pc \in {"resync", "missed"} => age = 0
  /\ pc \in {"sync", "sync_again"} => age + left <= SyncTimeout
  /\ pc \in {"loop", "pause"} => age <= Latest
  /\ pc \in {"exchange", "nap"} => age <= Early
  /\ pc = "delay" => age + left <= Early + DelayTimeout
  /\ pc = "napping" => age + left <= Early + 1

FlagInv ==
  /\ pc \in Measuring \/ neg.phase = "renew" => state
  /\ neg.phase \in {"announce", "sync"} \/ pc \in {"first", "first_retry"} => ~state
  /\ caller.pc \in {"waiting", "stopping"}

BudgetInv == LossInv /\ FirstBudget /\ NegotiationBudget /\ MeasuringBudget

KeptInv == MailInv /\ PlaceInv /\ AnswerInv /\ OrderInv /\ BudgetInv /\ AgeInv /\ FlagInv

Active == Willing /\ pc # "done" /\ ~stop

LEMMA Costs ==
  ASSUME MarginSuffices
  PROVE  /\ LossCost \in Nat /\ Lead \in Nat /\ Early \in Nat /\ Latest \in Nat /\ Base \in Int
         /\ LossCost >= RequestTimeout + RetrySleep /\ LossCost >= AnnounceTimeout + RetrySleep
         /\ Lead = AnnounceTimeout + RetrySleep - 1
         /\ Latest >= Early + DelayTimeout /\ Latest >= Early + 1 /\ Latest >= SyncTimeout
         /\ Margin \in Nat /\ Early >= Duration - Margin - 1
         /\ Base <= Duration /\ Base = Duration - Lead - Owed(MaxLosses)
         /\ Base - Latest - Owed(MaxLosses) > 0
         /\ RetrySleep \in Nat \ {0} /\ MaxLosses \in 0..5
<1>1. LossCost \in Nat /\ LossCost >= RequestTimeout + RetrySleep
      /\ LossCost >= AnnounceTimeout + RetrySleep
  BY ConstantTypes DEF LossCost, Larger
<1>2. Lead \in Nat /\ Lead = AnnounceTimeout + RetrySleep - 1
  BY ConstantTypes DEF Lead
<1>3. Margin \in Nat
  BY ConstantTypes DEF Margin
<1>4. Early \in Nat /\ Early >= Duration - Margin - 1
  BY <1>3, ConstantTypes DEF Early, Larger
<1>5. /\ Latest \in Nat
      /\ Latest >= Early + DelayTimeout /\ Latest >= Early + 1 /\ Latest >= SyncTimeout
  BY <1>4, ConstantTypes DEF Latest, Larger
<1>6. Owed(MaxLosses) \in Nat
  BY <1>1, ConstantTypes DEF Owed
<1>7. Lead + 2 * Owed(MaxLosses) + Latest < Duration
  BY DEF MarginSuffices, Owed
<1>8. Base \in Int /\ Base <= Duration /\ Base - Latest - Owed(MaxLosses) > 0
  BY <1>2, <1>5, <1>6, <1>7, ConstantTypes DEF Base
<1> QED
  BY <1>1, <1>2, <1>3, <1>4, <1>5, <1>8, ConstantTypes DEF MarginSuffices, Base

LEMMA Fixed ==
  /\ LossCost' = LossCost /\ Lead' = Lead /\ Early' = Early /\ Latest' = Latest /\ Base' = Base
  /\ \A n : Owed(n)' = Owed(n)
  BY DEF LossCost, Lead, Early, Latest, Base, Owed, Larger

LEMMA Debts ==
  ASSUME MarginSuffices, NEW n \in 0..MaxLosses
  PROVE  /\ Owed(n) \in Nat /\ Owed(n) <= Owed(MaxLosses) /\ Owed(n + 1) = Owed(n) + LossCost
         /\ n > 0 => Owed(n) >= LossCost
<1>1. LossCost \in Nat /\ MaxLosses \in 0..5
  BY Costs
<1>2. n \in 0..5 /\ MaxLosses \in Nat
  BY <1>1
<1>3. ASSUME NEW c \in Nat PROVE n * c \in Nat /\ n * c <= MaxLosses * c
  <2>1. CASE n = 0 BY <1>1, <2>1
  <2>2. CASE n = 1 BY <1>1, <2>2
  <2>3. CASE n = 2 BY <1>1, <2>3
  <2>4. CASE n = 3 BY <1>1, <2>4
  <2>5. CASE n = 4 BY <1>1, <2>5
  <2>6. CASE n = 5 BY <1>1, <2>6
  <2> QED BY <1>2, <2>1, <2>2, <2>3, <2>4, <2>5, <2>6
<1>4. Owed(n) \in Nat /\ Owed(n) <= Owed(MaxLosses)
  BY <1>1, <1>3 DEF Owed
<1>5. Owed(n + 1) = Owed(n) + LossCost
  BY <1>1, <1>2 DEF Owed
<1>6. n > 0 => Owed(n) >= LossCost
  BY <1>1, <1>2 DEF Owed
<1> QED
  BY <1>4, <1>5, <1>6

LEMMA KeptTypes ==
  ASSUME SessionInv, MarginSuffices
  PROVE  /\ Debt \in Nat /\ Debt <= Owed(MaxLosses) /\ losses \in 0..MaxLosses
         /\ \A s \in Services : gm[s] \in 0..Duration
         /\ "announce" \in Services /\ "sync" \in Services
         /\ left \in Nat /\ age \in 0..Duration /\ pc \in Pcs
         /\ neg.attempt \in 0..3 /\ neg.wild \in BOOLEAN /\ neg.got \in SUBSET Services
         /\ Wired \subseteq Services /\ Stored \subseteq Services
         /\ pc \in Negotiating <=> neg.phase \in {"announce", "sync", "renew"}
         /\ pc \notin Negotiating <=> neg.phase = "none"
<1>1. ControlTyped /\ NetworkTyped /\ BufferTyped
  BY Parts
<1>2. losses \in 0..MaxLosses /\ Debt \in Nat /\ Debt <= Owed(MaxLosses)
  BY <1>1, Debts DEF NetworkTyped, Debt
<1>3. Wired \subseteq Services /\ Stored \subseteq Services
  <2>1. \A g \in Grant : g.service \in Services
    BY DEF Grant
  <2>2. to_client \subseteq Grant /\ \A i \in DOMAIN buf : buf[i] \in Grant
    BY <1>1 DEF NetworkTyped, BufferTyped
  <2> QED
    BY <2>1, <2>2 DEF Wired, Stored
<1>4. /\ neg.attempt \in 0..3 /\ neg.wild \in BOOLEAN /\ neg.got \in SUBSET Services
      /\ neg.phase \in {"none", "announce", "sync", "renew"}
  BY <1>1 DEF ControlTyped, Negotiation
<1>5. left \in Nat /\ age \in 0..Duration /\ pc \in Pcs
      /\ (pc \in Negotiating <=> neg.phase # "none")
  BY <1>1 DEF ControlTyped
<1>6. "announce" \in Services /\ "sync" \in Services
  BY DEF Services
<1>7. \A s \in Services : gm[s] \in 0..Duration
  BY <1>1 DEF NetworkTyped
<1> QED
  BY <1>2, <1>3, <1>4, <1>5, <1>6, <1>7

\* What an attempt asks for, and which of it tells.
LEMMA AskedAndTelling ==
  /\ neg.phase = "announce" => Asked(neg.phase) = {"announce"} /\ Telling = {"announce"}
  /\ neg.phase = "sync" =>
       Asked(neg.phase) = Services \ {"announce"} /\ Telling = Services \ {"announce"}
  /\ neg.phase = "renew" => Asked(neg.phase) = Services /\ Telling = Services \ {"announce"}
  /\ neg.phase \in {"announce", "sync", "renew"} =>
       Telling # {} /\ Telling \subseteq Asked(neg.phase)
  BY DEF Asked, Telling, Services

\* Nothing but Announce in the buffer is sorted.
LEMMA OnlyAnnounce ==
  ASSUME buf \in Seq(Grant), Stored \subseteq {"announce"}
  PROVE  Sorted(buf) /\ OldFirst(buf)
<1>1. \A i \in DOMAIN buf : Leads(buf, i)
  <2>1. DOMAIN buf = 1..Len(buf) /\ Len(buf) \in Nat
    OBVIOUS
  <2>2. \A k \in DOMAIN buf : buf[k].service = "announce"
    BY DEF Stored
  <2>3. \A i \in DOMAIN buf : \A k \in 1..i : k \in DOMAIN buf
    BY <2>1
  <2> QED
    BY <2>2, <2>3 DEF Leads
<1> QED
  BY <1>1 DEF Sorted, OldFirst

\* Outside a negotiation there is no more to say.
LEMMA OutOfNegotiation ==
  ASSUME SessionInv', pc' \notin Negotiating, Outside',
         pc' = "first_retry" =>
           to_gm' = <<>> \/ (left' = RetrySleep /\ to_gm' = Request({"announce"})),
         pc' # "first_retry" => to_gm' = <<>>
  PROVE  MailInv' /\ PlaceInv' /\ AnswerInv' /\ OrderInv' /\ LossInv' /\ NegotiationBudget'
<1>1. ~Collects' /\ neg'.phase = "none"
  BY Parts DEF Collects, Negotiating, ControlTyped
<1>2. MailInv' /\ PlaceInv' /\ AnswerInv'
  BY <1>1 DEF MailInv, PlaceInv, AnswerInv, Collects
<1>3. LossInv' /\ NegotiationBudget'
  BY <1>1 DEF LossInv, NegotiationBudget
<1>4. Stored' \subseteq {"announce"} /\ buf' \in Seq(Grant)
  BY <1>1, Parts DEF Outside, BufferTyped
<1>5. Sorted(buf')
  <2>1. \A i \in DOMAIN buf' : Leads(buf', i)
    <3>1. DOMAIN buf' = 1..Len(buf') /\ Len(buf') \in Nat
      BY <1>4
    <3>2. \A k \in DOMAIN buf' : buf'[k].service = "announce"
      BY <1>4 DEF Stored
    <3>3. \A i \in DOMAIN buf' : \A k \in 1..i : k \in DOMAIN buf'
      BY <3>1
    <3> QED
      BY <3>2, <3>3 DEF Leads
  <2> QED
    BY <2>1 DEF Sorted
<1> QED
  BY <1>1, <1>2, <1>3, <1>5 DEF OrderInv

\* The beginning of a renewal.
LEMMA RenewalKept ==
  ASSUME SessionInv, SessionInv', KeptInv, MarginSuffices, pc \in Measuring, age <= Latest,
         NEW place, Renew(place), UNCHANGED <<gm, state, to_gm, to_client, buf, losses>>,
         caller'.pc = caller.pc
  PROVE  KeptInv'
<1>1. /\ pc' = "request" /\ left' = 0 /\ neg' = Fresh("renew", FALSE)
      /\ neg'.phase = "renew" /\ neg'.attempt = 1 /\ ~neg'.wild
  BY DEF Renew, Go, Wait, Fresh
<1>2. Wired' = Wired /\ Stored' = Stored /\ ~Collects /\ ~Collects' /\ neg.phase = "none"
  BY <1>1, KeptTypes DEF Wired, Stored, Collects, Measuring, Negotiating
<1>3. MailInv' /\ PlaceInv' /\ AnswerInv'
  BY <1>1, <1>2 DEF KeptInv, MailInv, PlaceInv, Outside, AnswerInv, Collects, Measuring
<1>4. OrderInv'
  BY <1>2 DEF KeptInv, OrderInv, Sorted, Leads
<1>5. Failed' = 0 /\ Slack' = 0
  <2>1. ~Missing' /\ pc' # "retry"
    BY <1>1, <1>2 DEF Missing
  <2>2. neg'.attempt = 1 /\ ~neg'.wild
    BY <1>1
  <2>3. Failed' = 0
    BY <2>1, <2>2 DEF Failed
  <2>4. Slack' = 0
    BY <2>1 DEF Slack
  <2> QED
    BY <2>3, <2>4
<1>6. LossInv' /\ FirstBudget' /\ MeasuringBudget'
  <2>1. losses \in 0..MaxLosses /\ MaxLosses \in Nat /\ losses' = losses
    BY KeptTypes, ConstantTypes
  <2>2. LossInv'
    BY <1>5, <2>1 DEF LossInv
  <2>3. pc' \notin Measuring /\ pc' \notin {"first", "first_retry"}
    BY <1>1 DEF Measuring
  <2> QED
    BY <2>2, <2>3 DEF FirstBudget, MeasuringBudget
<1>7. NegotiationBudget'
  <2>1. \A s \in Services : gm[s] >= Base - age /\ gm[s] \in 0..Duration
    BY KeptTypes DEF KeptInv, BudgetInv, MeasuringBudget
  <2>2. Debt' = Debt /\ Debt \in Nat /\ age \in Nat /\ Latest \in Nat /\ Base \in Int
    BY KeptTypes, Costs DEF Debt, Owed
  <2>3. \A s \in Services : gm[s] >= Base - Latest - Debt
    BY <2>1, <2>2
  <2>4. neg'.phase = "renew" /\ gm' = gm /\ Slack' = 0
    BY <1>1, <1>5
  <2>5. Debt' = Debt /\ Base' = Base /\ Latest' = Latest
    BY <2>2, Fixed
  <2>6. \A s \in Services : gm'[s] >= Base' - Latest' - Debt' + Slack'
    BY <2>2, <2>3, <2>4, <2>5
  <2> QED
    BY <2>4, <2>6 DEF NegotiationBudget
<1>8. AgeInv' /\ FlagInv'
  BY <1>1 DEF KeptInv, AgeInv, FlagInv, Measuring
<1> QED
  BY <1>3, <1>4, <1>6, <1>7, <1>8 DEF KeptInv, BudgetInv

\* A step of the measurement.
LEMMA MeasuringKept ==
  ASSUME SessionInv, SessionInv', KeptInv, MarginSuffices, pc \in Measuring, pc' \in Measuring,
         UNCHANGED <<age, gm, state, to_gm, to_client, buf, losses>>, caller'.pc = caller.pc,
         AgeInv'
  PROVE  KeptInv'
<1>1. pc' \notin Negotiating /\ pc \notin Negotiating /\ pc' # "first_retry" /\ pc # "first_retry"
      /\ pc' # "first" /\ ~Collects /\ ~Collects'
  BY DEF Measuring, Negotiating, Collects
<1>2. neg'.phase = "none"
  BY <1>1, Parts DEF ControlTyped
<1>3. Outside' /\ to_gm' = <<>>
  <2>1. Wired' = Wired /\ Stored' = Stored
    BY DEF Wired, Stored
  <2> QED
    BY <1>1, <1>2, <2>1 DEF KeptInv, PlaceInv, Outside, MailInv, Collects
<1>4. MailInv' /\ PlaceInv' /\ AnswerInv' /\ OrderInv' /\ LossInv' /\ NegotiationBudget'
  BY <1>1, <1>3, OutOfNegotiation
<1>5. FirstBudget' /\ MeasuringBudget'
  BY <1>1 DEF KeptInv, BudgetInv, FirstBudget, MeasuringBudget
<1>6. FlagInv'
  BY <1>1, <1>2 DEF KeptInv, FlagInv
<1> QED
  BY <1>4, <1>5, <1>6 DEF KeptInv, BudgetInv

LEMMA MeasureKept ==
  ASSUME SessionInv, SessionInv', KeptInv, MarginSuffices, Active', Measure
  PROVE  KeptInv'
<1> USE DEF measuring, contract, outside, network, peer
<1>0. /\ UNCHANGED <<state, gm, age, to_gm, to_client, buf, losses, caller, stop>>
      /\ ~stop /\ pc' # "done"
  BY DEF Measure, SyncArrives, SyncTimesOut, Resync, LoopHead, SendDelayReq,
     DelayRespArrives, DelayRespTimesOut, Missed, PauseRound, Nap, NapEnds, Active
<1>1. pc \in Measuring
  BY DEF Measuring, Measure, SyncArrives, SyncTimesOut, Resync, LoopHead, SendDelayReq,
     DelayRespArrives, DelayRespTimesOut, Missed, PauseRound, Nap, NapEnds
<1>2. AgeInv /\ left \in Nat /\ age \in Nat /\ Margin \in Nat /\ Early \in Nat /\ Latest \in Nat
      /\ Latest >= Early + DelayTimeout /\ Latest >= Early + 1 /\ Latest >= SyncTimeout
      /\ Early >= Duration - Margin - 1
      /\ DelayTimeout \in Nat /\ SyncTimeout \in Nat /\ Duration \in Nat
  BY KeptTypes, Costs, ConstantTypes DEF KeptInv
<1>3. age <= Latest
  BY <1>1, <1>2 DEF AgeInv, Measuring
<1>4. ASSUME pc' \in Measuring, AgeInv' PROVE KeptInv'
  BY <1>0, <1>1, <1>4, MeasuringKept
<1>5. ASSUME NEW place, Renew(place) PROVE KeptInv'
  BY <1>0, <1>1, <1>3, <1>5, RenewalKept
<1>6. \A e : ~Finish(e)
  BY <1>0 DEF Finish, Go, Wait
<1>7. ~Closed
  BY DEF KeptInv, FlagInv, Closed
<1>a. CASE SyncArrives
  <2>1. pc' = "loop"
    BY <1>a DEF SyncArrives, Go, Wait
  <2>2. AgeInv'
    BY <1>0, <1>3, <2>1 DEF AgeInv
  <2> QED
    BY <1>4, <2>1, <2>2 DEF Measuring
<1>b. CASE SyncTimesOut
  BY <1>5, <1>6, <1>b DEF SyncTimesOut
<1>c. CASE Resync
  <2>1. pc' = "sync_again" /\ left' = SyncTimeout /\ pc = "resync"
    BY <1>7, <1>c DEF Resync, Wait
  <2>2. age = 0
    BY <1>2, <2>1 DEF AgeInv
  <2>3. AgeInv'
    BY <1>0, <1>2, <2>1, <2>2 DEF AgeInv
  <2> QED
    BY <1>4, <2>1, <2>3 DEF Measuring
<1>d. CASE LoopHead
  <2>1. \/ Renew("exchange")
        \/ ~RenewalDue /\ pc' = "exchange"
    BY <1>6, <1>d DEF LoopHead, Go, Wait
  <2>2. CASE ~RenewalDue /\ pc' = "exchange"
    <3>1. age <= Early
      BY <1>2, <2>2 DEF RenewalDue
    <3>2. AgeInv'
      BY <1>0, <2>2, <3>1 DEF AgeInv
    <3> QED
      BY <1>4, <2>2, <3>2 DEF Measuring
  <2> QED
    BY <1>5, <2>1, <2>2
<1>e. CASE SendDelayReq
  <2>1. pc' = "delay" /\ left' = DelayTimeout /\ pc = "exchange"
    BY <1>7, <1>e DEF SendDelayReq, Wait
  <2>2. age <= Early
    BY <1>2, <2>1 DEF AgeInv
  <2>3. AgeInv'
    BY <1>0, <1>2, <2>1, <2>2 DEF AgeInv
  <2> QED
    BY <1>4, <2>1, <2>3 DEF Measuring
<1>f. CASE DelayRespArrives
  <2>1. pc' = "pause"
    BY <1>6, <1>f DEF DelayRespArrives, Pause, Go, Wait
  <2>2. AgeInv'
    BY <1>0, <1>3, <2>1 DEF AgeInv
  <2> QED
    BY <1>4, <2>1, <2>2 DEF Measuring
<1>g. CASE DelayRespTimesOut
  BY <1>5, <1>g DEF DelayRespTimesOut
<1>h. CASE Missed
  <2>1. pc' = "pause"
    BY <1>6, <1>h DEF Missed, Pause, Go, Wait
  <2>2. AgeInv'
    BY <1>0, <1>3, <2>1 DEF AgeInv
  <2> QED
    BY <1>4, <2>1, <2>2 DEF Measuring
<1>i. CASE PauseRound
  <2>1. \/ Renew("nap")
        \/ pc' = "loop"
        \/ ~RenewalDue /\ pc' = "nap"
    BY <1>i DEF PauseRound, Go, Wait
  <2>2. CASE pc' = "loop"
    <3>1. AgeInv'
      BY <1>0, <1>3, <2>2 DEF AgeInv
    <3> QED
      BY <1>4, <2>2, <3>1 DEF Measuring
  <2>3. CASE ~RenewalDue /\ pc' = "nap"
    <3>1. age <= Early
      BY <1>2, <2>3 DEF RenewalDue
    <3>2. AgeInv'
      BY <1>0, <2>3, <3>1 DEF AgeInv
    <3> QED
      BY <1>4, <2>3, <3>2 DEF Measuring
  <2> QED
    BY <1>5, <2>1, <2>2, <2>3
<1>j. CASE Nap
  <2>1. pc = "nap" /\ (pc' = "loop" \/ (pc' = "napping" /\ left' = 1))
    BY <1>j DEF Nap, Go, Wait
  <2>2. age <= Early
    BY <1>2, <2>1 DEF AgeInv
  <2>3. AgeInv'
    BY <1>0, <1>2, <1>3, <2>1, <2>2 DEF AgeInv
  <2> QED
    BY <1>4, <2>1, <2>3 DEF Measuring
<1>k. CASE NapEnds
  <2>1. pc' = "pause"
    BY <1>k DEF NapEnds, Go, Wait
  <2>2. AgeInv'
    BY <1>0, <1>3, <2>1 DEF AgeInv
  <2> QED
    BY <1>4, <2>1, <2>2 DEF Measuring
<1> QED
  BY <1>a, <1>b, <1>c, <1>d, <1>e, <1>f, <1>g, <1>h, <1>i, <1>j, <1>k DEF Measure

LEMMA SlackTyped ==
  ASSUME SessionInv, MarginSuffices
  PROVE  /\ Slack \in Int /\ Failed \in Int
         /\ Missing => Slack = LossCost - (RequestTimeout - left)
         /\ pc = "retry" => ~Missing /\ Slack = LossCost - RequestTimeout - (RetrySleep - left)
         /\ ~Missing /\ pc # "retry" => Slack = 0
         /\ LET tried == (IF neg.wild THEN 3 ELSE 0) + neg.attempt - 1 IN
              Failed = IF Missing \/ pc = "retry" THEN tried + 1 ELSE tried
<1>1. LossCost \in Nat /\ left \in Nat /\ RequestTimeout \in Nat /\ RetrySleep \in Nat
      /\ neg.attempt \in 0..3
  BY KeptTypes, Costs, ConstantTypes
<1>2. pc = "retry" => ~Missing
  BY DEF Missing, Collects
<1>3. (IF neg.wild THEN 3 ELSE 0) \in Int
  OBVIOUS
<1>4. Slack \in Int
  BY <1>1 DEF Slack
<1>5. Failed \in Int
  BY <1>1, <1>3 DEF Failed
<1>6. /\ Missing => Slack = LossCost - (RequestTimeout - left)
      /\ pc = "retry" => Slack = LossCost - RequestTimeout - (RetrySleep - left)
      /\ ~Missing /\ pc # "retry" => Slack = 0
  BY <1>2 DEF Slack
<1>7. LET tried == (IF neg.wild THEN 3 ELSE 0) + neg.attempt - 1 IN
        Failed = IF Missing \/ pc = "retry" THEN tried + 1 ELSE tried
  BY <1>1, <1>3 DEF Failed
<1> QED
  BY <1>2, <1>4, <1>5, <1>6, <1>7

\* In a negotiation there is less to say than in the measurement.
LEMMA InNegotiation ==
  ASSUME pc' \in Negotiating
  PROVE  FirstBudget' /\ MeasuringBudget' /\ AgeInv'
  BY DEF Negotiating, FirstBudget, MeasuringBudget, Measuring, AgeInv

\* What an answer, a loss or a tick does to the grants, the slack and the debt.
LEMMA BudgetCarries ==
  ASSUME SessionInv, SessionInv', KeptInv, MarginSuffices, neg'.phase = neg.phase,
         \A s \in Services : gm'[s] - Slack' + Debt' >= gm[s] - Slack + Debt
  PROVE  NegotiationBudget'
<1>1. Slack \in Int /\ Debt \in Int /\ \A s \in Services : gm[s] \in Int
  BY SlackTyped, KeptTypes
<1>2. Slack' \in Int
  <2>1. LossCost \in Nat /\ left' \in Nat /\ RequestTimeout \in Nat /\ RetrySleep \in Nat
    BY Parts, Costs, ConstantTypes DEF ControlTyped
  <2> QED
    BY <2>1, Fixed DEF Slack
<1>3. Debt' \in Int
  <2>1. losses' \in 0..MaxLosses
    BY Parts DEF NetworkTyped
  <2>2. Owed(losses') \in Nat
    BY <2>1, Debts
  <2> QED
    BY <2>2, Fixed DEF Debt, Owed
<1>4. \A s \in Services : gm'[s] \in Int
  BY Parts, ConstantTypes DEF NetworkTyped
<1>5. Base' = Base /\ Latest' = Latest /\ Lead' = Lead
      /\ Base \in Int /\ Latest \in Int /\ Lead \in Int /\ Duration \in Int
  BY Fixed, Costs, ConstantTypes
<1>6. "announce" \in Services
  BY KeptTypes
<1>7. \A b, d, e, k, l, m, n \in Int :
        k - m + e >= l - n + d /\ l >= b - d + n => k >= b - e + m
  OBVIOUS
<1>8. CASE neg.phase = "sync"
  <2>1. gm["announce"] >= (Duration - Lead) - Debt + Slack
    BY <1>8 DEF KeptInv, BudgetInv, NegotiationBudget
  <2>2. gm'["announce"] - Slack' + Debt' >= gm["announce"] - Slack + Debt
    BY <1>6
  <2>3. Duration - Lead \in Int
    BY <1>5
  <2>4. gm'["announce"] >= (Duration - Lead) - Debt' + Slack'
    BY <1>1, <1>2, <1>3, <1>4, <1>6, <1>7, <2>1, <2>2, <2>3
  <2> QED
    BY <1>5, <1>8, <2>4 DEF NegotiationBudget
<1>9. CASE neg.phase = "renew"
  <2>1. \A s \in Services : gm[s] >= (Base - Latest) - Debt + Slack
    BY <1>9 DEF KeptInv, BudgetInv, NegotiationBudget
  <2>2. Base - Latest \in Int
    BY <1>5
  <2>3. \A s \in Services : gm'[s] >= (Base - Latest) - Debt' + Slack'
    BY <1>1, <1>2, <1>3, <1>4, <1>7, <2>1, <2>2
  <2> QED
    BY <1>5, <1>9, <2>3 DEF NegotiationBudget
<1> QED
  BY <1>8, <1>9 DEF NegotiationBudget

\* A step within a negotiation, which loses nothing.
LEMMA NegotiationCarries ==
  ASSUME SessionInv, SessionInv', KeptInv, MarginSuffices, neg'.phase = neg.phase,
         UNCHANGED <<gm, losses>>, Slack' <= Slack
  PROVE  NegotiationBudget'
<1>1. Slack \in Int /\ Debt \in Int /\ \A s \in Services : gm[s] \in Int /\ gm'[s] = gm[s]
  BY SlackTyped, KeptTypes
<1>2. Debt' = Debt
  BY Fixed DEF Debt
<1>3. Slack' \in Int
  <2>1. LossCost \in Nat /\ left' \in Nat /\ RequestTimeout \in Nat /\ RetrySleep \in Nat
    BY Parts, Costs, ConstantTypes DEF ControlTyped
  <2> QED
    BY <2>1, Fixed DEF Slack
<1> QED
  BY <1>1, <1>2, <1>3, BudgetCarries

LEMMA BeginAttemptKept ==
  ASSUME SessionInv, SessionInv', KeptInv, MarginSuffices, Active', BeginAttempt
  PROVE  KeptInv'
<1> USE DEF measuring, contract, outside, peer
<1>1. /\ pc = "request" /\ pc' = "collect" /\ left' = RequestTimeout
      /\ SendSignaling("request", Asked(neg.phase)) /\ neg' = [neg EXCEPT !.got = {}]
      /\ UNCHANGED <<buf, to_client, gm, losses, state, caller>>
  BY DEF BeginAttempt, Wait, Active
<1>2. neg.phase \in {"announce", "sync", "renew"} /\ Asked(neg.phase) # {}
  BY <1>1, KeptTypes, AskedAndTelling DEF Negotiating
<1>3. /\ neg'.phase = neg.phase /\ neg'.got = {} /\ neg'.attempt = neg.attempt
      /\ (neg'.wild <=> neg.wild)
  BY <1>1, Parts DEF ControlTyped, Negotiation
<1>4. Wired' = Wired /\ Stored' = Stored /\ Telling' = Telling /\ ~Collects /\ Collects'
      /\ Asked(neg'.phase) = Asked(neg.phase)
  BY <1>1, <1>3 DEF Wired, Stored, Telling, Collects, Services
<1>5. to_gm = <<>>
  BY <1>1 DEF KeptInv, MailInv
<1>6. to_gm' = Request(Asked(neg.phase)) /\ to_gm' # <<>>
  BY <1>1, <1>5 DEF SendSignaling, Request
<1>7. Wired \cup Stored \subseteq {"announce"}
      /\ (neg.phase = "announce" => Wired = {} /\ Stored = {})
  BY <1>4 DEF KeptInv, PlaceInv, Outside
<1>8. MailInv'
  BY <1>1, <1>4, <1>6 DEF MailInv, Request
<1>9. PlaceInv'
  <2>1. Telling \cap (Wired \cup Stored) = {}
    BY <1>2, <1>7, AskedAndTelling
  <2>2. Outside'
    BY <1>3, <1>4, <1>7 DEF Outside
  <2>3. Within'
    BY <1>1, <1>2, <1>3, <1>4, <2>1, ConstantTypes DEF Within
  <2> QED
    BY <2>2, <2>3 DEF PlaceInv
<1>10. AnswerInv'
  BY <1>6 DEF AnswerInv
<1>11. OrderInv'
  <2>1. Sorted(buf) /\ OldFirst(buf)
    BY <1>7, OnlyAnnounce, Parts DEF BufferTyped
  <2> QED
    BY <1>1, <2>1 DEF OrderInv, Sorted, OldFirst, Leads
<1>12. ~Missing' /\ ~Missing
  BY <1>4, <1>6 DEF Missing
<1>13. Slack' = 0 /\ Slack = 0 /\ Failed' = Failed
  <2>1. Slack' = 0
    BY <1>1, <1>12 DEF Slack
  <2>2. Slack = 0
    BY <1>1, <1>12 DEF Slack
  <2>3. Failed' = Failed
    BY <1>1, <1>3, <1>12 DEF Failed
  <2> QED
    BY <2>1, <2>2, <2>3
<1>14. LossInv'
  BY <1>1, <1>2, <1>13 DEF KeptInv, BudgetInv, LossInv
<1>15. NegotiationBudget'
  BY <1>1, <1>3, <1>13, NegotiationCarries
<1>16. FlagInv'
  BY <1>1, <1>3 DEF KeptInv, FlagInv, Measuring
<1> QED
  BY <1>1, <1>8, <1>9, <1>10, <1>11, <1>14, <1>15, <1>16, InNegotiation
  DEF KeptInv, BudgetInv, Negotiating

\* An attempt whose time is over has lost something, and has left nothing.
LEMMA TimedOut ==
  ASSUME SessionInv, KeptInv, pc = "collect", left < RequestTimeout
  PROVE  /\ Wired = {} /\ Stored \cap Asked(neg.phase) = {} /\ to_gm = <<>> /\ Missing
         /\ Stored \subseteq {"announce"}
         /\ neg.phase \in {"announce", "renew"} => Stored = {}
<1>1. Within /\ Outside /\ Collects
  BY DEF KeptInv, PlaceInv, Collects
<1>2. Wired = {} /\ Stored \cap Asked(neg.phase) = {} /\ to_gm = <<>>
      /\ ~(Asked(neg.phase) \subseteq neg.got)
  BY <1>1 DEF Within
<1>3. Missing
  BY <1>1, <1>2 DEF Missing
<1>4. neg.phase \in {"announce", "sync", "renew"}
  BY Parts DEF ControlTyped, Negotiating, Negotiation
<1>5. Stored \subseteq Services
  <2>1. \A g \in Grant : g.service \in Services
    BY DEF Grant
  <2> QED
    BY <2>1, Parts DEF BufferTyped, Stored
<1>6. CASE neg.phase = "announce"
  BY <1>1, <1>2, <1>3, <1>6, AskedAndTelling DEF Outside
<1>7. CASE neg.phase \in {"sync", "renew"}
  BY <1>2, <1>3, <1>5, <1>7, AskedAndTelling
<1> QED
  BY <1>2, <1>3, <1>4, <1>6, <1>7

LEMMA AttemptTimesOutKept ==
  ASSUME SessionInv, SessionInv', KeptInv, MarginSuffices, Active', AttemptTimesOut
  PROVE  KeptInv'
<1> USE DEF measuring, contract, outside, network, peer
<1>1. /\ pc = "collect" /\ left = 0 /\ RequestTimeout \in Nat \ {0}
      /\ UNCHANGED <<buf, to_client, to_gm, gm, losses, state, caller>>
  BY ConstantTypes DEF AttemptTimesOut
<1>2. /\ Wired = {} /\ to_gm = <<>> /\ Missing /\ Stored \subseteq {"announce"}
      /\ (neg.phase = "announce" => Stored = {})
  BY <1>1, TimedOut
<1>3. Wired' = Wired /\ Stored' = Stored
  BY <1>1 DEF Wired, Stored
<1>4. neg.phase \in {"announce", "sync", "renew"} /\ neg.attempt \in 0..3 /\ neg.wild \in BOOLEAN
      /\ losses \in 0..5
  BY <1>1, KeptTypes, Costs DEF Negotiating
<1>5. Slack = LossCost - RequestTimeout /\ LossCost - RequestTimeout >= RetrySleep
      /\ LossCost \in Nat /\ RetrySleep \in Nat
  BY <1>1, <1>2, SlackTyped, Costs
<1>6. LET tried == (IF neg.wild THEN 3 ELSE 0) + neg.attempt - 1 IN Failed = tried + 1
  BY <1>2, SlackTyped
<1>7. losses >= Failed
  BY <1>4 DEF KeptInv, BudgetInv, LossInv
<1>8. ASSUME pc' \in {"request", "retry"}, neg'.phase = neg.phase, Failed' = Failed, Slack' <= Slack
      PROVE  KeptInv'
  <2>1. ~Collects' /\ to_gm' = <<>> /\ pc' \in Negotiating
    BY <1>1, <1>2, <1>8 DEF Collects, Negotiating
  <2>2. MailInv' /\ AnswerInv'
    BY <1>8, <2>1 DEF MailInv, AnswerInv
  <2>3. PlaceInv'
    BY <1>2, <1>3, <1>8, <2>1 DEF PlaceInv, Outside
  <2>4. OrderInv'
    <3>1. Sorted(buf)
      BY <1>2, OnlyAnnounce, Parts DEF BufferTyped
    <3> QED
      BY <1>1, <2>1, <3>1 DEF OrderInv, Sorted, Leads
  <2>5. LossInv'
    BY <1>1, <1>7, <1>8 DEF LossInv
  <2>6. NegotiationBudget'
    BY <1>1, <1>8, NegotiationCarries
  <2>7. FlagInv'
    BY <1>1, <1>8 DEF KeptInv, FlagInv, Measuring
  <2> QED
    BY <2>1, <2>2, <2>3, <2>4, <2>5, <2>6, <2>7, InNegotiation DEF KeptInv, BudgetInv
<1>9. CASE Wait("retry", RetrySleep) /\ UNCHANGED neg
  <2>1. pc' = "retry" /\ left' = RetrySleep /\ neg' = neg
    BY <1>9 DEF Wait
  <2>2. ~Missing'
    BY <2>1 DEF Missing, Collects
  <2>3. Failed' = Failed
    <3>1. Failed' = (IF neg.wild THEN 3 ELSE 0) + neg.attempt - 1 + 1
      BY <2>1 DEF Failed
    <3> QED
      BY <1>6, <3>1
  <2>4. Slack' <= Slack
    <3>1. Slack' = LossCost - RequestTimeout - (RetrySleep - RetrySleep)
      BY <2>1, <2>2, Fixed DEF Slack
    <3> QED
      BY <1>1, <1>5, <3>1
  <2> QED
    BY <1>8, <2>1, <2>3, <2>4
<1>10. CASE neg.attempt = 3 /\ ~neg.wild /\ Go("request") /\ neg' = Fresh(neg.phase, TRUE)
  <2>1. /\ pc' = "request" /\ neg'.phase = neg.phase /\ neg'.attempt = 1 /\ neg'.wild = TRUE
    BY <1>10 DEF Go, Wait, Fresh
  <2>2. ~Missing'
    BY <2>1 DEF Missing, Collects
  <2>3. Failed' = Failed
    <3>1. (IF neg'.wild THEN 3 ELSE 0) = 3 /\ (IF neg.wild THEN 3 ELSE 0) = 0
      BY <1>10, <2>1
    <3>2. Failed' = 3 + 1 - 1 + 0
      BY <2>1, <2>2, <3>1 DEF Failed
    <3>3. Failed = 0 + 3 - 1 + 1
      BY <1>6, <1>10, <3>1
    <3> QED
      BY <3>2, <3>3
  <2>4. Slack' <= Slack
    <3>1. Slack' = 0
      BY <2>1, <2>2 DEF Slack
    <3> QED
      BY <1>1, <1>5, <3>1
  <2> QED
    BY <1>8, <2>1, <2>3, <2>4
<1>11. CASE neg.attempt = 3 /\ (neg.wild \/ neg.phase = "announce") /\ Fail("timeout")
  <2>1. neg.phase # "renew"
    <3>1. SUFFICES ASSUME neg.phase = "renew" PROVE FALSE
      OBVIOUS
    <3>2. Failed = 3 + 3 - 1 + 1
      BY <1>6, <1>11, <3>1
    <3> QED
      BY <1>4, <1>7, <3>2
  <2>2. pc' = "done"
    BY <1>11, <2>1 DEF Fail, Finish, Go, Wait
  <2> QED
    BY <2>2 DEF Active
<1> QED
  BY <1>9, <1>10, <1>11 DEF AttemptTimesOut

LEMMA RetryBeginsKept ==
  ASSUME SessionInv, SessionInv', KeptInv, MarginSuffices, Active', RetryBegins
  PROVE  KeptInv'
<1> USE DEF measuring, contract, outside, network, peer
<1>1. /\ pc = "retry" /\ left = 0 /\ pc' = "request" /\ neg' = [neg EXCEPT !.attempt = @ + 1]
      /\ UNCHANGED <<buf, to_client, to_gm, gm, losses, state, caller>>
  BY DEF RetryBegins, Go, Wait
<1>2. /\ neg'.phase = neg.phase /\ neg'.attempt = neg.attempt + 1 /\ (neg'.wild <=> neg.wild)
      /\ neg.attempt \in 0..3 /\ neg.phase # "none"
  BY <1>1, Parts DEF ControlTyped, Negotiation, Negotiating
<1>3. Wired' = Wired /\ Stored' = Stored /\ ~Collects /\ ~Collects'
  BY <1>1 DEF Wired, Stored, Collects
<1>4. MailInv' /\ AnswerInv' /\ PlaceInv'
  BY <1>1, <1>2, <1>3 DEF KeptInv, MailInv, AnswerInv, PlaceInv, Outside, Collects
<1>5. OrderInv'
  BY <1>1, <1>3 DEF KeptInv, OrderInv, Sorted, Leads
<1>6. ~Missing'
  BY <1>3 DEF Missing
<1>7. Failed' = Failed
  <2>1. Failed = (IF neg.wild THEN 3 ELSE 0) + neg.attempt - 1 + 1
    BY <1>1 DEF Failed
  <2>2. Failed' = (IF neg.wild THEN 3 ELSE 0) + (neg.attempt + 1) - 1 + 0
    BY <1>1, <1>2, <1>6 DEF Failed
  <2>3. (IF neg.wild THEN 3 ELSE 0) \in Int
    OBVIOUS
  <2> QED
    BY <1>2, <2>1, <2>2, <2>3
<1>8. Slack' <= Slack
  <2>1. Slack' = 0
    BY <1>1, <1>6 DEF Slack
  <2>2. Slack = LossCost - RequestTimeout - (RetrySleep - 0)
    BY <1>1, SlackTyped
  <2>3. LossCost \in Nat /\ LossCost >= RequestTimeout + RetrySleep
        /\ RequestTimeout \in Nat /\ RetrySleep \in Nat
    BY Costs, ConstantTypes
  <2> QED
    BY <2>1, <2>2, <2>3
<1>9. LossInv'
  BY <1>1, <1>2, <1>7 DEF KeptInv, BudgetInv, LossInv
<1>10. NegotiationBudget'
  BY <1>1, <1>2, <1>8, NegotiationCarries
<1>11. FlagInv'
  BY <1>1, <1>2 DEF KeptInv, FlagInv, Measuring
<1> QED
  BY <1>1, <1>4, <1>5, <1>9, <1>10, <1>11, InNegotiation DEF KeptInv, BudgetInv, Negotiating

LEMMA GrantDeniedNot ==
  ASSUME NoDenial, SessionInv
  PROVE  ~GrantDenied
<1>1. Denied = {}
  BY DEF NoDenial, Denied, Relevant
<1> QED
  BY <1>1 DEF GrantDenied

\* What is collected is granted from the moment the REQUEST arrived.
LEMMA SuccessFull ==
  ASSUME SessionInv, KeptInv, pc = "collect", Relevant # {},
         Asked(neg.phase) \subseteq neg.got \cup Stored
  PROVE  /\ \A s \in Asked(neg.phase) : gm[s] = Duration
         /\ to_gm = <<>> /\ ~Missing /\ Wired \cap Telling = {}
<1>1. Within /\ Collects /\ AnswerInv /\ left \in Nat /\ RequestTimeout \in Nat
  BY Parts, ConstantTypes DEF KeptInv, PlaceInv, Collects, ControlTyped
<1>2. neg.phase \in {"announce", "sync", "renew"}
  BY Parts DEF ControlTyped, Negotiating, Negotiation
<1>3. Stored \cap Asked(neg.phase) # {}
  BY DEF Relevant, Stored
<1>4. left = RequestTimeout
  BY <1>1, <1>3 DEF Within
<1>5. Telling # {} /\ Telling \subseteq Asked(neg.phase)
  BY <1>2, AskedAndTelling
<1>6. Telling \cap (Wired \cup Stored \cup neg.got) # {} /\ Telling \subseteq neg.got \cup Stored
  BY <1>5
<1>7. to_gm = <<>>
  BY <1>1, <1>6 DEF Within
<1>8. \A s \in Asked(neg.phase) : gm[s] = Duration
  BY <1>1, <1>4, <1>6, <1>7 DEF AnswerInv
<1>9. ~Missing
  BY DEF Missing
<1>10. Wired \cap Telling = {}
  BY <1>1, <1>6 DEF Within
<1> QED
  BY <1>7, <1>8, <1>9, <1>10

LEMMA CollectGrantsKept ==
  ASSUME SessionInv, SessionInv', KeptInv, MarginSuffices, Active', CollectGrants
  PROVE  KeptInv'
<1> USE DEF measuring, contract, outside, peer
<1> DEFINE got == neg.got \cup {buf[i].service : i \in Relevant}
<1>1. /\ pc = "collect" /\ left > 0 /\ Relevant # {} /\ KeepOnly(DOMAIN buf \ Relevant)
      /\ UNCHANGED <<to_client, to_gm, gm, caller>>
  BY DEF CollectGrants
<1>2. \/ Asked(neg.phase) \subseteq got /\ Succeed
      \/ /\ ~(Asked(neg.phase) \subseteq got) /\ neg' = [neg EXCEPT !.got = got]
         /\ UNCHANGED <<pc, left, state, age, losses>>
  BY DEF CollectGrants
<1>3. neg.phase \in {"announce", "sync", "renew"} /\ Within /\ Outside /\ Collects
  BY <1>1, KeptTypes DEF Negotiating, KeptInv, PlaceInv, Collects
<1>4. got = neg.got \cup (Stored \cap Asked(neg.phase))
  BY DEF Stored, Relevant
<1>5. Stored' \subseteq Stored \ Asked(neg.phase)
  <2>1. \A i \in DOMAIN buf' : \E j \in DOMAIN buf \ Relevant : buf'[i] = buf[j]
    BY <1>1, KeepTyped, Parts
  <2>2. \A j \in DOMAIN buf \ Relevant : buf[j].service \in Stored \ Asked(neg.phase)
    BY DEF Stored, Relevant
  <2> QED
    BY <2>1, <2>2 DEF Stored
<1>6. Stored' \subseteq {"announce"} /\ Stored' \cap Telling = {}
      /\ (neg.phase = "announce" => Stored' = {})
  <2>1. Stored \subseteq Services
    BY KeptTypes
  <2> QED
    BY <1>3, <1>5, <2>1, AskedAndTelling DEF Outside
<1>7. Sorted(buf')
  <2>1. buf' \in Seq(Grant)
    BY Parts DEF BufferTyped
  <2>2. DOMAIN buf' = 1..Len(buf') /\ Len(buf') \in Nat
    BY <2>1
  <2>3. \A k \in DOMAIN buf' : buf'[k].service = "announce"
    BY <1>6 DEF Stored
  <2>4. \A i \in DOMAIN buf' : \A k \in 1..i : k \in DOMAIN buf'
    BY <2>2
  <2>5. \A i \in DOMAIN buf' : Leads(buf', i)
    BY <2>3, <2>4 DEF Leads
  <2> QED
    BY <2>5 DEF Sorted
<1>8. OldFirst(buf')
  <2>1. buf' \in Seq(Grant)
    BY Parts DEF BufferTyped
  <2>2. DOMAIN buf' = 1..Len(buf') /\ Len(buf') \in Nat
    BY <2>1
  <2>3. \A k \in DOMAIN buf' : buf'[k].service = "announce"
    BY <1>6 DEF Stored
  <2>4. \A i \in DOMAIN buf' : \A k \in 1..i : k \in DOMAIN buf'
    BY <2>2
  <2> QED
    BY <2>3, <2>4 DEF OldFirst, Leads
<1>9. OrderInv'
  BY <1>7, <1>8 DEF OrderInv
<1>10. Wired' = Wired
  BY <1>1 DEF Wired
<1> HIDE DEF got
<1>11. CASE ~(Asked(neg.phase) \subseteq got) /\ neg' = [neg EXCEPT !.got = got]
            /\ UNCHANGED <<pc, left, state, age, losses>>
  <2>1. neg'.phase = neg.phase /\ neg'.got = got /\ neg'.attempt = neg.attempt
        /\ (neg'.wild <=> neg.wild)
    BY <1>11, Parts DEF ControlTyped, Negotiation
  <2>2. Telling' = Telling /\ Asked(neg'.phase) = Asked(neg.phase) /\ Collects'
    BY <1>3, <1>11, <2>1 DEF Telling, Collects, Services
  <2>3. MailInv'
    BY <1>1, <1>11, <2>1 DEF KeptInv, MailInv, Collects
  <2>4. Within'
    <3>1. to_gm # <<>> => Telling \cap (Wired' \cup Stored' \cup got) = {}
      BY <1>3, <1>4, <1>6, <1>10 DEF Within
    <3>2. Telling \cap Wired' \cap Stored' = {} /\ Telling \cap got \cap (Wired' \cup Stored') = {}
      BY <1>3, <1>4, <1>6, <1>10 DEF Within
    <3>3. left < RequestTimeout =>
            Wired' = {} /\ Stored' \cap Asked(neg.phase) = {} /\ to_gm = <<>>
      BY <1>3, <1>5, <1>10 DEF Within
    <3>4. left' <= RequestTimeout /\ left' = left /\ to_gm' = to_gm
      BY <1>1, <1>3, <1>11 DEF Within
    <3> QED
      BY <1>11, <2>1, <2>2, <3>1, <3>2, <3>3, <3>4 DEF Within
  <2>5. Outside'
    BY <1>3, <1>6, <1>10, <2>1, <2>2 DEF Outside
  <2>6. AnswerInv'
    <3>1. Telling \cap (Wired' \cup Stored' \cup got) # {}
            => Telling \cap (Wired \cup Stored \cup neg.got) # {}
      BY <1>4, <1>5, <1>10
    <3> QED
      BY <1>1, <1>3, <1>11, <2>1, <2>2, <3>1 DEF KeptInv, AnswerInv
  <2>7. Missing' <=> Missing
    <3>1. Asked(neg.phase) \subseteq got \cup Wired' \cup Stored'
            <=> Asked(neg.phase) \subseteq neg.got \cup Wired \cup Stored
      BY <1>4, <1>5, <1>10
    <3> QED
      BY <1>1, <1>3, <2>1, <2>2, <3>1 DEF Missing
  <2>8. Failed' = Failed
    <3>1. (Missing' \/ pc' = "retry") <=> (Missing \/ pc = "retry")
      BY <1>11, <2>7
    <3> QED
      BY <2>1, <3>1 DEF Failed
  <2>9. Slack' <= Slack
    <3>1. Slack' = Slack
      <4>1. CASE Missing
        BY <1>11, <2>7, <4>1, Fixed DEF Slack
      <4>2. CASE ~Missing
        BY <1>1, <1>11, <2>7, <4>2 DEF Slack
      <4> QED
        BY <4>1, <4>2
    <3> QED
      BY <3>1, SlackTyped
  <2>10. LossInv'
    BY <1>11, <2>1, <2>8 DEF KeptInv, BudgetInv, LossInv
  <2>11. NegotiationBudget'
    BY <1>1, <1>11, <2>1, <2>9, NegotiationCarries
  <2>12. FlagInv'
    BY <1>1, <1>11, <2>1 DEF KeptInv, FlagInv, Measuring
  <2> QED
    BY <1>1, <1>9, <1>11, <2>3, <2>4, <2>5, <2>6, <2>10, <2>11, <2>12, InNegotiation
    DEF KeptInv, PlaceInv, BudgetInv, Negotiating
<1>12. CASE Asked(neg.phase) \subseteq got /\ Succeed
  <2>1. /\ \A s \in Asked(neg.phase) : gm[s] = Duration
        /\ to_gm = <<>> /\ ~Missing /\ Wired \cap Telling = {}
    BY <1>1, <1>4, <1>12, SuccessFull
  <2>2. Wired' \cup Stored' \subseteq {"announce"} /\ to_gm' = <<>>
    BY <1>1, <1>3, <1>6, <1>10, <2>1, KeptTypes, AskedAndTelling DEF Outside
  <2>3. Outside' /\ pc' \notin Negotiating /\ neg'.phase = "none"
    <3>1. neg' = Idle
      BY <1>12 DEF Succeed
    <3>2. neg'.phase = "none"
      BY <3>1, IdleTyped
    <3> QED
      BY <2>2, <3>2, Parts DEF Outside, ControlTyped
  <2>4. Outside' /\ to_gm' = <<>>
    BY <2>2, <2>3
  <2>5. MailInv' /\ PlaceInv' /\ AnswerInv' /\ LossInv' /\ NegotiationBudget'
    BY <2>3, <2>4, OutOfNegotiation
  <2>6. /\ Base \in Int /\ Base <= Duration /\ Base = Duration - Lead - Owed(MaxLosses)
        /\ Lead \in Nat /\ Early \in Nat /\ Latest \in Nat
        /\ Debt \in Nat /\ Debt <= Owed(MaxLosses) /\ Owed(MaxLosses) \in Nat
        /\ Duration \in Nat /\ RetrySleep \in Nat /\ AnnounceTimeout \in Nat /\ SyncTimeout \in Nat
        /\ Debt' \in Nat
    <3>1. losses' \in 0..MaxLosses /\ MaxLosses \in 0..MaxLosses
      BY Parts, ConstantTypes DEF NetworkTyped
    <3>2. Owed(losses') \in Nat /\ Owed(MaxLosses) \in Nat
      BY <3>1, Debts
    <3>3. Debt' \in Nat
      BY <3>2, Fixed DEF Debt, Owed
    <3> QED
      BY <3>2, <3>3, KeptTypes, Costs, ConstantTypes
  <2>7. gm' = gm /\ (\A s \in Services : gm[s] \in Int) /\ "announce" \in Services
    BY <1>1, KeptTypes
  <2>8. FlagInv /\ caller' = caller
    BY <1>1 DEF KeptInv
  <2>9. CASE neg.phase = "announce"
    <3>1. pc' = "first" /\ left' = AnnounceTimeout /\ UNCHANGED <<state, losses>>
      BY <1>12, <2>9 DEF Succeed, Wait
    <3>2. gm["announce"] = Duration
      BY <2>1, <2>9, AskedAndTelling
    <3>3. gm'["announce"] >= Duration - RetrySleep - Debt' - (AnnounceTimeout - left')
      <4>1. gm'["announce"] = Duration /\ AnnounceTimeout - left' = 0
        BY <2>6, <2>7, <3>1, <3>2
      <4>2. \A d \in Nat : Duration >= Duration - RetrySleep - d - 0
        BY ConstantTypes
      <4>3. Debt' \in Nat
        BY <2>6
      <4>4. Duration >= Duration - RetrySleep - Debt' - 0
        BY <4>2, <4>3
      <4> QED
        BY <4>1, <4>4
    <3>4. FirstBudget'
      BY <3>1, <3>3 DEF FirstBudget
    <3>5. MeasuringBudget' /\ AgeInv'
      BY <3>1 DEF MeasuringBudget, AgeInv, Measuring
    <3>6. FlagInv'
      BY <2>3, <2>8, <2>9, <3>1 DEF FlagInv, Measuring
    <3> QED
      BY <1>9, <2>5, <3>4, <3>5, <3>6 DEF KeptInv, BudgetInv
  <2>10. ASSUME neg.phase \in {"sync", "renew"}, age' = 0, state',
                \A s \in Services : gm[s] >= Base,
                pc' \in Measuring \ {"sync_again", "delay", "napping"},
                pc' = "sync" => left' = SyncTimeout
         PROVE  KeptInv'
    <3>1. FirstBudget'
      BY <2>10 DEF FirstBudget, Measuring
    <3>2. MeasuringBudget'
      BY <2>6, <2>7, <2>10, Fixed DEF MeasuringBudget
    <3>3. AgeInv'
      BY <2>6, <2>10, Fixed DEF AgeInv, Measuring
    <3>4. FlagInv'
      BY <2>3, <2>8, <2>10 DEF FlagInv, Measuring
    <3> QED
      BY <1>9, <2>5, <3>1, <3>2, <3>3, <3>4 DEF KeptInv, BudgetInv
  <2>11. CASE neg.phase = "sync"
    <3>1. pc' = "sync" /\ left' = SyncTimeout /\ state' = TRUE /\ age' = 0
      BY <1>12, <2>11 DEF Succeed, Wait, MarkContractStarted
    <3>2. gm["announce"] >= Base
      <4>1. gm["announce"] >= Duration - Lead - Debt + Slack
        BY <2>11 DEF KeptInv, BudgetInv, NegotiationBudget
      <4>2. Slack = 0
        BY <1>1, <2>1, SlackTyped
      <4> QED
        BY <2>6, <2>7, <4>1, <4>2, KeptTypes
    <3>3. \A s \in Services \ {"announce"} : gm[s] = Duration
      BY <2>1, <2>11, AskedAndTelling
    <3>4. \A s \in Services : gm[s] >= Base
      BY <2>6, <3>2, <3>3
    <3> QED
      BY <2>10, <2>11, <3>1, <3>4 DEF Measuring
  <2>12. CASE neg.phase = "renew"
    <3>1. pc' = ret /\ age' = 0 /\ state' = state
      BY <1>12, <2>12 DEF Succeed, Go, Wait, MarkContractStarted
    <3>2. ret \in {"resync", "exchange", "missed", "nap"}
      BY <2>12, Parts DEF ControlTyped
    <3>3. \A s \in Services : gm[s] >= Base
      BY <2>1, <2>6, <2>12, AskedAndTelling
    <3>4. state
      BY <2>8, <2>12 DEF FlagInv
    <3> QED
      BY <2>10, <2>12, <3>1, <3>2, <3>3, <3>4 DEF Measuring
  <2> QED
    BY <1>3, <2>9, <2>11, <2>12
<1> QED
  BY <1>2, <1>11, <1>12

LEMMA FirstAnnounceKept ==
  ASSUME SessionInv, SessionInv', KeptInv, MarginSuffices, Active',
         FirstAnnounceArrives \/ FirstAnnounceTimesOut \/ FirstAnnounceAgain
  PROVE  KeptInv'
<1> USE DEF measuring, contract, outside, peer, network
<1>0. /\ UNCHANGED <<gm, losses, state, caller, to_client, buf>>
      /\ pc \in {"first", "first_retry"} /\ neg.phase = "none" /\ ~Collects
  <2>1. /\ UNCHANGED <<gm, losses, state, caller, to_client, buf>>
        /\ pc \in {"first", "first_retry"}
    BY DEF FirstAnnounceArrives, FirstAnnounceTimesOut, FirstAnnounceAgain
  <2> QED
    BY <2>1, KeptTypes DEF Negotiating, Collects
<1>1. Wired' = Wired /\ Stored' = Stored /\ Wired \cup Stored \subseteq {"announce"} /\ ~state
  BY <1>0 DEF Wired, Stored, KeptInv, PlaceInv, Outside, FlagInv
<1>2. /\ Debt' = Debt /\ Debt \in Nat /\ Lead \in Nat /\ Lead = AnnounceTimeout + RetrySleep - 1
      /\ gm["announce"] \in Int /\ gm' = gm /\ left \in Nat /\ Duration \in Nat
      /\ RetrySleep \in Nat \ {0} /\ AnnounceTimeout \in Nat /\ Lead' = Lead /\ losses \in Nat
  BY <1>0, KeptTypes, Costs, ConstantTypes, Fixed DEF Debt
<1>3. CASE FirstAnnounceArrives
  <2>1. pc = "first" /\ left > 0 /\ pc' = "request" /\ neg' = Fresh("sync", FALSE) /\ to_gm' = to_gm
    BY <1>3 DEF FirstAnnounceArrives, Go, Wait
  <2>2. neg'.phase = "sync" /\ neg'.attempt = 1 /\ neg'.wild = FALSE
    BY <2>1 DEF Fresh
  <2>3. to_gm' = <<>> /\ ~Collects' /\ ~Missing'
    BY <2>1 DEF KeptInv, MailInv, Collects, Missing
  <2>4. MailInv' /\ PlaceInv' /\ AnswerInv'
    BY <1>1, <2>1, <2>2, <2>3 DEF MailInv, PlaceInv, Outside, AnswerInv
  <2>5. OrderInv'
    BY <1>0, <2>3 DEF KeptInv, OrderInv, Sorted, Leads
  <2>6. Failed' = 0
    <3>1. (IF neg'.wild THEN 3 ELSE 0) = 0 /\ ~(Missing' \/ pc' = "retry")
      BY <2>1, <2>2, <2>3
    <3> QED
      BY <2>2, <3>1 DEF Failed
  <2>7. LossInv'
    BY <1>0, <1>2, <2>6 DEF LossInv
  <2>8. Slack' = 0
    BY <2>1, <2>3 DEF Slack
  <2>9. gm["announce"] >= Duration - RetrySleep - Debt - (AnnounceTimeout - left)
    BY <2>1 DEF KeptInv, BudgetInv, FirstBudget
  <2>10. gm'["announce"] >= Duration - Lead' - Debt' + Slack'
    BY <1>2, <2>1, <2>8, <2>9
  <2>11. NegotiationBudget'
    BY <2>2, <2>10 DEF NegotiationBudget
  <2>12. FlagInv'
    BY <1>0, <1>1, <2>1, <2>2 DEF KeptInv, FlagInv, Measuring
  <2> QED
    BY <2>1, <2>4, <2>5, <2>7, <2>11, <2>12, InNegotiation DEF KeptInv, BudgetInv, Negotiating
<1>4. ASSUME pc' \in {"first", "first_retry"}, neg' = neg, FirstBudget',
             pc' = "first_retry" =>
               to_gm' = <<>> \/ (left' = RetrySleep /\ to_gm' = Request({"announce"})),
             pc' = "first" => to_gm' = <<>>
      PROVE  KeptInv'
  <2>1. pc' \notin Negotiating /\ pc' \notin Measuring /\ Outside'
    BY <1>0, <1>1, <1>4 DEF Negotiating, Measuring, Outside
  <2>2. MailInv' /\ PlaceInv' /\ AnswerInv' /\ OrderInv' /\ LossInv' /\ NegotiationBudget'
    BY <1>4, <2>1, OutOfNegotiation
  <2>3. MeasuringBudget' /\ AgeInv'
    BY <1>4, <2>1 DEF MeasuringBudget, AgeInv
  <2>4. FlagInv'
    BY <1>0, <1>1, <1>4, <2>1 DEF KeptInv, FlagInv
  <2> QED
    BY <1>4, <2>2, <2>3, <2>4 DEF KeptInv, BudgetInv
<1>5. CASE FirstAnnounceTimesOut
  <2>1. /\ pc = "first" /\ left = 0 /\ pc' = "first_retry" /\ left' = RetrySleep /\ neg' = neg
        /\ SendSignaling("request", Asked("announce"))
    BY <1>5 DEF FirstAnnounceTimesOut, Wait, Finish, Go, Active
  <2>2. to_gm = <<>>
    BY <2>1 DEF KeptInv, MailInv, Collects
  <2>3. to_gm' = Request({"announce"}) /\ to_gm' # <<>>
    BY <2>1, <2>2 DEF SendSignaling, Request, Asked
  <2>4. gm["announce"] >= Duration - RetrySleep - Debt - (AnnounceTimeout - left)
    BY <2>1 DEF KeptInv, BudgetInv, FirstBudget
  <2>5. gm'["announce"] >= Duration - RetrySleep - AnnounceTimeout - Debt'
    BY <1>2, <2>1, <2>4
  <2>6. FirstBudget'
    BY <2>1, <2>3, <2>5 DEF FirstBudget
  <2> QED
    BY <1>4, <2>1, <2>3, <2>6
<1>6. CASE FirstAnnounceAgain
  <2>1. /\ pc = "first_retry" /\ left = 0 /\ pc' = "first" /\ left' = AnnounceTimeout /\ neg' = neg
        /\ to_gm' = to_gm
    BY <1>6 DEF FirstAnnounceAgain, Wait
  <2>2. to_gm = <<>>
    BY <1>2, <2>1 DEF KeptInv, MailInv
  <2>3. gm["announce"] >= Duration - (RetrySleep - left) - Debt
    BY <2>1, <2>2 DEF KeptInv, BudgetInv, FirstBudget
  <2>4. gm'["announce"] >= Duration - RetrySleep - Debt' - (AnnounceTimeout - left')
    BY <1>2, <2>1, <2>3
  <2>5. FirstBudget'
    BY <2>1, <2>4 DEF FirstBudget
  <2> QED
    BY <1>4, <2>1, <2>2, <2>5
<1> QED
  BY <1>3, <1>5, <1>6

LEMMA NegotiateKept ==
  ASSUME SessionInv, SessionInv', NoDenial, KeptInv, MarginSuffices, Active', Negotiate
  PROVE  KeptInv'
  BY GrantDeniedNot, BeginAttemptKept, CollectGrantsKept, AttemptTimesOutKept, RetryBeginsKept,
     FirstAnnounceKept DEF Negotiate
\* A step that changes nothing of what the invariant is about.
KeptView == <<pc, neg, left, state, age, losses, buf, to_gm, to_client, gm>>

LEMMA ViewKept ==
  ASSUME KeptInv, UNCHANGED KeptView, caller'.pc \in {"waiting", "stopping"}
  PROVE  KeptInv'
<1> USE DEF KeptView
<1>1. /\ Wired' = Wired /\ Stored' = Stored /\ Telling' = Telling /\ (Collects' <=> Collects)
      /\ neg' = neg
  BY DEF Wired, Stored, Telling, Collects, Services
<1>2. Missing' <=> Missing
  BY <1>1 DEF Missing
<1>3. Slack' = Slack /\ Failed' = Failed /\ Debt' = Debt
  <2>1. Slack' = Slack
    BY <1>2, Fixed DEF Slack
  <2>2. Failed' = Failed
    BY <1>2 DEF Failed
  <2> QED
    BY <2>1, <2>2, Fixed DEF Debt
<1>4. MailInv'
  BY <1>1 DEF KeptInv, MailInv
<1>5. PlaceInv'
  BY <1>1 DEF KeptInv, PlaceInv, Outside, Within
<1>6. AnswerInv'
  BY <1>1 DEF KeptInv, AnswerInv
<1>7. OrderInv'
  BY <1>1 DEF KeptInv, OrderInv, Sorted, OldFirst, Leads
<1>8. BudgetInv'
  <2>1. LossInv'
    BY <1>1, <1>3 DEF KeptInv, BudgetInv, LossInv
  <2>2. FirstBudget'
    BY <1>1, <1>3 DEF KeptInv, BudgetInv, FirstBudget
  <2>3. NegotiationBudget'
    BY <1>1, <1>3, Fixed DEF KeptInv, BudgetInv, NegotiationBudget
  <2>4. MeasuringBudget'
    BY <1>1, <1>3, Fixed DEF KeptInv, BudgetInv, MeasuringBudget
  <2> QED
    BY <2>1, <2>2, <2>3, <2>4 DEF BudgetInv
<1>9. AgeInv'
  BY Fixed DEF KeptInv, AgeInv
<1>10. FlagInv'
  BY <1>1 DEF KeptInv, FlagInv
<1> QED
  BY <1>4, <1>5, <1>6, <1>7, <1>8, <1>9, <1>10 DEF KeptInv

LEMMA CallingKept ==
  ASSUME SessionInv, KeptInv, Active', Calling
  PROVE  KeptInv'
<1> USE DEF manager, network, peer
<1>1. caller \in Caller /\ caller.pc \in {"waiting", "stopping"} /\ stop' # TRUE /\ pc' # "done"
  BY Parts DEF CallerTyped, KeptInv, FlagInv, Active
<1>2. ~RequestStop /\ ~StopAcr /\ ~ManagerEnded /\ ~Close
  BY <1>1 DEF RequestStop, StopAcr, ManagerEnded, Close
<1>3. Interrupt
  BY <1>2 DEF Calling
<1>4. UNCHANGED KeptView /\ caller'.pc \in {"waiting", "stopping"}
  BY <1>1, <1>3 DEF Interrupt, CallerGo, Caller, KeptView
<1> QED
  BY <1>4, ViewKept

\* The network does not touch the manager.
LEMMA NetworkLeaves ==
  ASSUME KeptInv, Network
  PROVE  /\ UNCHANGED <<pc, neg, ret, left, state, age, caller, stop>>
         /\ AgeInv' /\ FlagInv' /\ (Collects' <=> Collects) /\ Telling' = Telling
<1>1. UNCHANGED <<pc, neg, ret, left, state, age, caller, stop>>
  BY DEF Network, GmAnswers, GmCancels, LoseSignaling, LoseGrant, Receive, Evict, outside, manager
<1>2. AgeInv'
  BY <1>1, Fixed DEF KeptInv, AgeInv
<1>3. FlagInv'
  BY <1>1 DEF KeptInv, FlagInv
<1>4. (Collects' <=> Collects) /\ Telling' = Telling
  BY <1>1 DEF Collects, Telling, Services
<1> QED
  BY <1>1, <1>2, <1>3, <1>4

\* The REQUEST on its way is the one of this attempt, or of the wait for the Announce.
LEMMA OneRequest ==
  ASSUME SessionInv, KeptInv, to_gm # <<>>
  PROVE  \/ /\ Collects /\ left = RequestTimeout /\ to_gm = Request(Asked(neg.phase))
            /\ neg.phase \in {"announce", "sync", "renew"}
         \/ pc = "first_retry" /\ left = RetrySleep /\ to_gm = Request({"announce"})
            /\ neg.phase = "none"
<1>1. neg.phase \in {"none", "announce", "sync", "renew"}
      /\ (pc \in Negotiating <=> neg.phase # "none")
  BY Parts DEF ControlTyped, Negotiation
<1> QED
  BY <1>1 DEF KeptInv, MailInv, Collects, Negotiating

LEMMA RequestTaken ==
  ASSUME NEW services, to_gm = Request(services), to_gm' = Tail(to_gm)
  PROVE  to_gm' = <<>> /\ Head(to_gm).kind = "request" /\ Head(to_gm).services = services
  BY DEF Request

\* A step of the network that loses nothing.
LEMMA NothingLost ==
  ASSUME SessionInv, SessionInv', KeptInv, MarginSuffices, UNCHANGED <<pc, neg, left, age, losses>>,
         Missing' <=> Missing, \A s \in Services : gm'[s] >= gm[s]
  PROVE  LossInv' /\ NegotiationBudget' /\ MeasuringBudget'
<1>1. Slack' = Slack /\ Failed' = Failed /\ Debt' = Debt
  <2>1. Slack' = Slack
    BY Fixed DEF Slack
  <2>2. Failed' = Failed
    BY DEF Failed
  <2> QED
    BY <2>1, <2>2, Fixed DEF Debt
<1>2. \A s \in Services : gm'[s] \in Int /\ gm[s] \in Int
  BY Parts, ConstantTypes DEF NetworkTyped
<1>3. Slack \in Int /\ Debt \in Int
  BY SlackTyped, KeptTypes
<1>4. LossInv'
  BY <1>1 DEF KeptInv, BudgetInv, LossInv
<1>5. NegotiationBudget'
  BY <1>1, <1>2, <1>3, BudgetCarries
<1>6. MeasuringBudget'
  <2>1. pc \in Measuring => \A s \in Services : gm[s] >= Base - age
    BY DEF KeptInv, BudgetInv, MeasuringBudget
  <2>2. Base \in Int /\ age \in Int
    BY Costs, KeptTypes, ConstantTypes
  <2>3. pc \in Measuring => \A s \in Services : gm'[s] >= Base - age
    BY <1>2, <2>1, <2>2
  <2> QED
    BY <2>3, Fixed DEF MeasuringBudget
<1> QED
  BY <1>4, <1>5, <1>6

\* A step of the network that loses a message: if the attempt needed it, it is one more that
\* has failed, and has its time yet to wait.
LEMMA OneLost ==
  ASSUME SessionInv, SessionInv', KeptInv, MarginSuffices, UNCHANGED <<pc, neg, left, age, gm>>,
         losses < MaxLosses, losses' = losses + 1, Missing => Missing',
         Missing' /\ ~Missing => left = RequestTimeout
  PROVE  LossInv' /\ NegotiationBudget' /\ MeasuringBudget' /\ Debt' = Debt + LossCost
<1>1. losses \in 0..MaxLosses /\ Debt \in Int /\ LossCost \in Nat /\ left \in Nat
      /\ RequestTimeout \in Nat /\ losses \in Int
  BY KeptTypes, Costs, ConstantTypes
<1>2. Debt' = Debt + LossCost
  <2>1. Owed(losses + 1) = Owed(losses) + LossCost
    BY <1>1, Debts
  <2> QED
    BY <2>1, Fixed DEF Debt, Owed
<1>3. Slack \in Int /\ Failed \in Int
  BY SlackTyped
<1>4. Slack' <= Slack + LossCost /\ Slack' \in Int
  <2>1. CASE Missing' <=> Missing
    <3>1. Slack' = Slack
      BY <2>1, Fixed DEF Slack
    <3> QED
      BY <1>1, <1>3, <3>1
  <2>2. CASE Missing' /\ ~Missing
    <3>1. Slack' = LossCost - (RequestTimeout - left)
      BY <2>2, Fixed DEF Slack
    <3>2. pc # "retry"
      BY <2>2 DEF Missing, Collects
    <3>3. Slack = 0
      BY <2>2, <3>2 DEF Slack
    <3> QED
      BY <1>1, <2>2, <3>1, <3>3
  <2> QED
    BY <2>1, <2>2
<1>5. Failed' <= Failed + 1 /\ Failed' \in Int
  <2>1. (IF neg.wild THEN 3 ELSE 0) \in Int /\ neg.attempt \in Int
    BY KeptTypes
  <2> QED
    BY <2>1 DEF Failed
<1>6. LossInv'
  <2>1. neg.phase # "none" => losses >= Failed
    BY DEF KeptInv, BudgetInv, LossInv
  <2>2. neg.phase # "none" => losses' >= Failed'
    BY <1>1, <1>3, <1>5, <2>1
  <2> QED
    BY <2>2 DEF LossInv
<1>7. NegotiationBudget'
  <2>1. \A s \in Services : gm[s] \in Int /\ gm'[s] = gm[s]
    BY KeptTypes
  <2>2. \A s \in Services : gm'[s] - Slack' + Debt' >= gm[s] - Slack + Debt
    BY <1>1, <1>2, <1>3, <1>4, <2>1
  <2> QED
    BY <2>2, BudgetCarries
<1>8. MeasuringBudget'
  BY Fixed DEF KeptInv, BudgetInv, MeasuringBudget
<1> QED
  BY <1>2, <1>6, <1>7, <1>8

\* What is left of the wait for the first Announce, when the network has taken the REQUEST.
LEMMA WaitKept ==
  ASSUME SessionInv, SessionInv', KeptInv, Network, pc = "first_retry", to_gm' = <<>>,
         Wired' \subseteq {"announce"}, buf' = buf,
         gm'["announce"] >= Duration - (RetrySleep - left) - Debt'
  PROVE  KeptInv'
<1>1. pc' = "first_retry" /\ left' = left /\ pc' \notin Negotiating /\ pc' \notin Measuring
      /\ AgeInv' /\ FlagInv'
  BY NetworkLeaves DEF Negotiating, Measuring
<1>2. neg'.phase = "none" /\ ~Collects /\ neg.phase = "none"
  BY <1>1, Parts DEF ControlTyped, Negotiating, Collects
<1>3. Stored' = Stored /\ Stored \subseteq {"announce"}
  BY <1>2 DEF Stored, KeptInv, PlaceInv, Outside
<1>4. Outside'
  BY <1>2, <1>3 DEF Outside
<1>5. MailInv' /\ PlaceInv' /\ AnswerInv' /\ OrderInv' /\ LossInv' /\ NegotiationBudget'
  BY <1>1, <1>4, OutOfNegotiation
<1>6. FirstBudget' /\ MeasuringBudget'
  BY <1>1 DEF FirstBudget, MeasuringBudget
<1> QED
  BY <1>1, <1>5, <1>6 DEF KeptInv, BudgetInv

LEMMA GmAnswersKept ==
  ASSUME FullGrants, SessionInv, SessionInv', KeptInv, MarginSuffices, Active, Active',
         NEW d \in GrantDurations, GmAnswers(d)
  PROVE  KeptInv'
<1> USE DEF outside, manager
<1> DEFINE services == Head(to_gm).services
<1>1. /\ to_gm # <<>> /\ to_gm' = Tail(to_gm) /\ Network
      /\ to_client' = to_client \cup [service : services, duration : {d}]
      /\ UNCHANGED <<pc, neg, left, age, buf, losses, caller>>
  BY DEF GmAnswers, Network
<1>2. services \subseteq Services
  BY <1>1, HeadTyped, Parts DEF NetworkTyped
<1>3. services # {} => d = Duration
  <2>1. SUFFICES ASSUME services # {}, d = 0 PROVE FALSE
    BY DEF FullGrants
  <2>2. PICK s \in services : TRUE
    BY <2>1
  <2>3. s \in Services /\ denied'[s] = denied[s] + 1
    BY <1>2, <2>1, <2>2 DEF GmAnswers
  <2>4. denied[s] = 0 /\ denied'[s] = 0
    BY <2>3 DEF Active, Willing
  <2> QED
    BY <2>3, <2>4
<1>4. Wired' = Wired \cup services
  <2>1. to_client' = to_client \cup [service : services, duration : {d}]
    BY <1>1
  <2>2. \A g \in [service : services, duration : {d}] : g.service \in services
    OBVIOUS
  <2>3. \A s \in services : [service |-> s, duration |-> d] \in [service : services, duration : {d}]
                            /\ [service |-> s, duration |-> d].service = s
    OBVIOUS
  <2> HIDE DEF services
  <2>4. Wired' \subseteq Wired \cup services
    BY <2>1, <2>2 DEF Wired
  <2>5. Wired \cup services \subseteq Wired'
    <3>1. \A s \in services : \E g \in to_client' : g.service = s
      BY <2>1, <2>3
    <3> QED
      BY <2>1, <3>1 DEF Wired
  <2> QED
    BY <2>4, <2>5
<1>5. \A s \in Services : gm'[s] = IF s \in services THEN Duration ELSE gm[s]
  <2>1. CASE services = {}
    <3>1. CASE d = 0
      BY <2>1, <3>1 DEF GmAnswers
    <3>2. CASE d # 0
      BY <2>1, <3>2 DEF GmAnswers
    <3> QED
      BY <3>1, <3>2
  <2>2. CASE services # {}
    <3>1. d = Duration /\ d # 0
      BY <1>3, <2>2, ConstantTypes
    <3> QED
      BY <3>1 DEF GmAnswers
  <2> QED
    BY <2>1, <2>2
<1>6. /\ \A s \in Services : gm[s] \in 0..Duration
      /\ "announce" \in Services /\ Debt \in Nat /\ Duration \in Nat
  BY KeptTypes, ConstantTypes
<1>7. \A s \in Services : gm'[s] >= gm[s]
  BY <1>5, <1>6
<1>8. AgeInv' /\ FlagInv' /\ (Collects' <=> Collects) /\ Telling' = Telling /\ Stored' = Stored
  BY <1>1, NetworkLeaves DEF Stored
<1>9. CASE Collects /\ left = RequestTimeout /\ to_gm = Request(Asked(neg.phase))
           /\ neg.phase \in {"announce", "sync", "renew"}
  <2>1. to_gm' = <<>> /\ services = Asked(neg.phase) /\ Asked(neg'.phase) = Asked(neg.phase)
    BY <1>1, <1>9, RequestTaken
  <2> HIDE DEF services
  <2>2. Within /\ Outside /\ Telling \cap (Wired \cup Stored \cup neg.got) = {}
        /\ Stored \subseteq Services
    BY <1>1, <1>9, KeptTypes DEF KeptInv, PlaceInv, Within
  <2>3. MailInv'
    BY <1>1, <1>8, <1>9, <2>1 DEF MailInv, Collects
  <2>4. PlaceInv'
    <3>1. neg.phase = "announce" => Asked(neg.phase) = {"announce"}
      BY AskedAndTelling
    <3>2. Outside'
      BY <1>1, <1>4, <1>8, <1>9, <2>1, <2>2, <3>1 DEF Outside
    <3>3. Within'
      BY <1>1, <1>8, <1>9, <2>1, <2>2 DEF Within
    <3> QED
      BY <3>2, <3>3 DEF PlaceInv
  <2>5. AnswerInv'
    BY <1>1, <1>2, <1>5, <2>1 DEF AnswerInv
  <2>6. OrderInv'
    <3>1. Stored \subseteq {"announce"}
      BY <1>9, <2>2, AskedAndTelling DEF Telling, Outside
    <3>2. Sorted(buf) /\ OldFirst(buf)
      BY <3>1, OnlyAnnounce, Parts DEF BufferTyped
    <3> QED
      BY <1>1, <3>2 DEF OrderInv, Sorted, OldFirst, Leads
  <2>7. ~Missing /\ ~Missing'
    BY <1>1, <1>4, <2>1 DEF Missing
  <2>8. LossInv' /\ NegotiationBudget' /\ MeasuringBudget'
    BY <1>1, <1>7, <2>7, NothingLost
  <2>9. FirstBudget'
    BY <1>1, <1>9 DEF FirstBudget, Collects
  <2> QED
    BY <1>8, <2>3, <2>4, <2>5, <2>6, <2>8, <2>9 DEF KeptInv, BudgetInv
<1>10. CASE pc = "first_retry" /\ left = RetrySleep /\ to_gm = Request({"announce"})
            /\ neg.phase = "none"
  <2>1. to_gm' = <<>> /\ services = {"announce"}
    BY <1>1, <1>10, RequestTaken
  <2> HIDE DEF services
  <2>2. Wired' \subseteq {"announce"}
    BY <1>4, <1>10, <2>1 DEF KeptInv, PlaceInv, Outside, Collects
  <2>3. gm'["announce"] = Duration /\ Debt' = Debt
    BY <1>1, <1>5, <1>6, <2>1, Fixed DEF Debt
  <2>4. gm'["announce"] >= Duration - (RetrySleep - left) - Debt'
    BY <1>6, <1>10, <2>3, ConstantTypes
  <2> QED
    BY <1>1, <1>10, <2>1, <2>2, <2>4, WaitKept
<1> QED
  BY <1>1, <1>9, <1>10, OneRequest

LEMMA LoseSignalingKept ==
  ASSUME SessionInv, SessionInv', KeptInv, MarginSuffices, LoseSignaling
  PROVE  KeptInv'
<1> USE DEF outside, manager
<1>1. /\ to_gm # <<>> /\ to_gm' = Tail(to_gm) /\ Network
      /\ losses < MaxLosses /\ losses' = losses + 1
      /\ UNCHANGED <<pc, neg, left, age, buf, caller, to_client, gm>>
  BY DEF LoseSignaling, Network
<1>2. /\ AgeInv' /\ FlagInv' /\ (Collects' <=> Collects) /\ Telling' = Telling
      /\ Stored' = Stored /\ Wired' = Wired
  BY <1>1, NetworkLeaves DEF Stored, Wired
<1>3. ~Missing
  BY <1>1 DEF Missing
<1>4. CASE Collects /\ left = RequestTimeout /\ to_gm = Request(Asked(neg.phase))
           /\ neg.phase \in {"announce", "sync", "renew"}
  <2>1. to_gm' = <<>> /\ Asked(neg'.phase) = Asked(neg.phase)
    BY <1>1, <1>4, RequestTaken
  <2>2. Within /\ Outside /\ Telling \cap (Wired \cup Stored \cup neg.got) = {}
    BY <1>1, <1>4 DEF KeptInv, PlaceInv, Within
  <2>3. MailInv'
    BY <1>1, <1>2, <1>4, <2>1 DEF MailInv, Collects
  <2>4. PlaceInv'
    <3>1. Outside'
      BY <1>1, <1>2, <2>2 DEF Outside
    <3>2. Within'
      BY <1>1, <1>2, <1>4, <2>1, <2>2 DEF Within
    <3> QED
      BY <3>1, <3>2 DEF PlaceInv
  <2>5. AnswerInv'
    BY <1>1, <1>2, <2>2 DEF AnswerInv
  <2>6. OrderInv'
    BY <1>1, <1>2 DEF KeptInv, OrderInv, Sorted, OldFirst, Leads
  <2>7. Missing'
    <3>1. Telling # {} /\ Telling \subseteq Asked(neg.phase)
      BY <1>4, AskedAndTelling
    <3>2. ~(Asked(neg.phase) \subseteq neg.got \cup Wired \cup Stored)
      BY <2>2, <3>1
    <3> QED
      BY <1>1, <1>2, <1>4, <2>1, <3>2 DEF Missing
  <2>8. LossInv' /\ NegotiationBudget' /\ MeasuringBudget'
    BY <1>1, <1>3, <1>4, <2>7, OneLost
  <2>9. FirstBudget'
    BY <1>1, <1>4 DEF FirstBudget, Collects
  <2> QED
    BY <1>2, <2>3, <2>4, <2>5, <2>6, <2>8, <2>9 DEF KeptInv, BudgetInv
<1>5. CASE pc = "first_retry" /\ left = RetrySleep /\ to_gm = Request({"announce"})
           /\ neg.phase = "none"
  <2>1. to_gm' = <<>>
    BY <1>1, <1>5, RequestTaken
  <2>2. Wired' \subseteq {"announce"} /\ ~Missing'
    BY <1>1, <1>2, <1>5 DEF KeptInv, PlaceInv, Outside, Collects, Missing
  <2>3. gm["announce"] >= Duration - RetrySleep - AnnounceTimeout - Debt
    BY <1>1, <1>5 DEF KeptInv, BudgetInv, FirstBudget
  <2>4. Debt' = Debt + LossCost
    BY <1>1, <1>3, <2>2, OneLost
  <2>5. /\ LossCost >= AnnounceTimeout + RetrySleep /\ LossCost \in Nat /\ Debt \in Nat
        /\ gm["announce"] \in Int /\ gm' = gm
        /\ RetrySleep \in Nat /\ AnnounceTimeout \in Nat /\ Duration \in Nat
    <3>1. LossCost >= AnnounceTimeout + RetrySleep /\ LossCost \in Nat
      BY Costs
    <3>2. Debt \in Nat /\ gm["announce"] \in Int
      BY KeptTypes
    <3> QED
      BY <1>1, <3>1, <3>2, ConstantTypes
  <2>6. gm'["announce"] >= Duration - (RetrySleep - left) - Debt'
    BY <1>5, <2>3, <2>4, <2>5
  <2> QED
    BY <1>1, <1>5, <2>1, <2>2, <2>6, WaitKept
<1> QED
  BY <1>1, <1>4, <1>5, OneRequest

LEMMA LoseGrantKept ==
  ASSUME SessionInv, SessionInv', KeptInv, MarginSuffices, NEW g \in Grant, LoseGrant(g)
  PROVE  KeptInv'
<1> USE DEF outside, manager
<1>1. /\ g \in to_client /\ to_client' = to_client \ {g} /\ Network
      /\ losses < MaxLosses /\ losses' = losses + 1
      /\ UNCHANGED <<pc, neg, left, age, buf, caller, to_gm, gm>>
  BY DEF LoseGrant, Network
<1>2. /\ AgeInv' /\ FlagInv' /\ (Collects' <=> Collects) /\ Telling' = Telling
      /\ Stored' = Stored /\ Wired' \subseteq Wired /\ Wired # {} /\ neg' = neg
  BY <1>1, NetworkLeaves DEF Stored, Wired
<1>3. MailInv'
  BY <1>1, <1>2 DEF KeptInv, MailInv
<1>4. PlaceInv'
  <2>1. Outside'
    BY <1>1, <1>2 DEF KeptInv, PlaceInv, Outside
  <2>2. Collects => Within'
    BY <1>1, <1>2 DEF KeptInv, PlaceInv, Within
  <2> QED
    BY <1>2, <2>1, <2>2 DEF PlaceInv
<1>5. AnswerInv'
  BY <1>1, <1>2 DEF KeptInv, AnswerInv
<1>6. OrderInv'
  BY <1>1, <1>2 DEF KeptInv, OrderInv, Sorted, OldFirst, Leads
<1>7. Missing => Missing'
  BY <1>1, <1>2 DEF Missing
<1>8. Missing' => left = RequestTimeout
  <2>1. Missing' => Collects
    BY <1>2 DEF Missing
  <2>2. Collects => left <= RequestTimeout /\ ~(left < RequestTimeout)
    BY <1>2 DEF KeptInv, PlaceInv, Within
  <2> QED
    BY <2>1, <2>2, KeptTypes, ConstantTypes
<1>9. LossInv' /\ NegotiationBudget' /\ MeasuringBudget' /\ Debt' = Debt + LossCost
  BY <1>1, <1>7, <1>8, OneLost
<1>10. FirstBudget'
  <2>1. /\ LossCost \in Nat /\ Debt \in Nat /\ left \in Nat /\ gm["announce"] \in Int /\ gm' = gm
        /\ RetrySleep \in Nat /\ AnnounceTimeout \in Nat /\ Duration \in Nat
    BY <1>1, Costs, KeptTypes, ConstantTypes
  <2>2. \A e \in Int : gm["announce"] >= e - Debt => gm'["announce"] >= e - Debt'
    BY <1>9, <2>1
  <2>3. CASE pc = "first"
    <3>1. gm["announce"] >= Duration - RetrySleep - Debt - (AnnounceTimeout - left)
      BY <2>3 DEF KeptInv, BudgetInv, FirstBudget
    <3>2. gm'["announce"] >= Duration - RetrySleep - Debt' - (AnnounceTimeout - left)
      BY <1>9, <2>1, <3>1
    <3> QED
      BY <1>1, <2>3, <3>2 DEF FirstBudget
  <2>4. CASE pc = "first_retry" /\ to_gm = <<>>
    <3>1. gm["announce"] >= Duration - (RetrySleep - left) - Debt
      BY <2>4 DEF KeptInv, BudgetInv, FirstBudget
    <3>2. gm'["announce"] >= Duration - (RetrySleep - left) - Debt'
      BY <1>9, <2>1, <3>1
    <3> QED
      BY <1>1, <2>4, <3>2 DEF FirstBudget
  <2>5. CASE pc = "first_retry" /\ to_gm # <<>>
    <3>1. gm["announce"] >= Duration - RetrySleep - AnnounceTimeout - Debt
      BY <2>5 DEF KeptInv, BudgetInv, FirstBudget
    <3>2. gm'["announce"] >= Duration - RetrySleep - AnnounceTimeout - Debt'
      BY <1>9, <2>1, <3>1
    <3> QED
      BY <1>1, <2>5, <3>2 DEF FirstBudget
  <2> QED
    BY <1>1, <2>3, <2>4, <2>5 DEF FirstBudget
<1> QED
  BY <1>2, <1>3, <1>4, <1>5, <1>6, <1>9, <1>10 DEF KeptInv, BudgetInv

LEMMA ServicesFinite == IsFiniteSet(Services) /\ Cardinality(Services) \in Nat
<1>1. /\ IsFiniteSet({} \cup {"announce"}) /\ \A S : IsFiniteSet(S) => IsFiniteSet(S \cup {"sync"})
      /\ \A S : IsFiniteSet(S) => IsFiniteSet(S \cup {"delay_resp"})
  BY FS_AddElement, FS_EmptySet
<1>2. IsFiniteSet(Services)
  <2>1. CASE NegotiateDelayResp
    <3>1. Services = (({} \cup {"announce"}) \cup {"sync"}) \cup {"delay_resp"}
      BY <2>1 DEF Services
    <3> QED
      BY <1>1, <3>1
  <2>2. CASE ~NegotiateDelayResp
    <3>1. Services = ({} \cup {"announce"}) \cup {"sync"}
      BY <2>2 DEF Services
    <3> QED
      BY <1>1, <3>1
  <2> QED
    BY <2>1, <2>2
<1> QED
  BY <1>2, FS_CardinalityType

\* A full buffer holds more grants than there are services: its oldest is not the only one
\* of its service, because only Announce is there twice and Announce comes first.
LEMMA OldestIsSpare ==
  ASSUME NEW b \in Seq(Grant), Sorted(b), Len(b) > Cardinality(Services)
  PROVE  \E k \in 2..Len(b) : b[k].service = b[1].service
<1>1. SUFFICES ASSUME \A k \in 2..Len(b) : b[k].service # b[1].service PROVE FALSE
  OBVIOUS
<1>2. IsFiniteSet(Services) /\ Cardinality(Services) \in Nat
  BY ServicesFinite
<1>3. Len(b) \in Nat /\ DOMAIN b = 1..Len(b) /\ Len(b) > 0
  BY <1>2
<1>4. IsFiniteSet(1..Len(b)) /\ Cardinality(1..Len(b)) = Len(b)
  BY <1>3, FS_Interval
<1> DEFINE f == [k \in 1..Len(b) |-> b[k].service]
<1>5. f \in [1..Len(b) -> Services]
  <2>1. \A k \in 1..Len(b) : b[k] \in Grant
    BY <1>3
  <2> QED
    BY <2>1 DEF Grant
<1>6. \E i, j \in 1..Len(b) : i # j /\ f[i] = f[j]
  <2> HIDE DEF f
  <2> QED
    BY <1>2, <1>4, <1>5, FS_PigeonHole
<1>7. PICK i \in 1..Len(b), j \in 1..Len(b) : i < j /\ b[i].service = b[j].service
  BY <1>3, <1>6
<1>8. Leads(b, i)
  BY <1>3, <1>7 DEF Sorted
<1>9. b[1].service = "announce" /\ b[i].service = "announce"
  BY <1>3, <1>7, <1>8 DEF Leads
<1>10. j \in 2..Len(b)
  BY <1>3, <1>7
<1> QED
  BY <1>1, <1>7, <1>9, <1>10

\* Without its oldest grant a buffer is as sorted as with it.
LEMMA TailSorted ==
  ASSUME NEW b \in Seq(Grant), b # <<>>
  PROVE  /\ Tail(b) \in Seq(Grant)
         /\ {Tail(b)[i].service : i \in DOMAIN Tail(b)} \subseteq {b[i].service : i \in DOMAIN b}
         /\ \A k \in 2..Len(b) : b[k].service \in {Tail(b)[i].service : i \in DOMAIN Tail(b)}
         /\ Sorted(b) => Sorted(Tail(b))
         /\ OldFirst(b) => OldFirst(Tail(b))
<1> DEFINE t == Tail(b)
<1>1. /\ t \in Seq(Grant) /\ Len(b) \in Nat \ {0} /\ DOMAIN b = 1..Len(b)
      /\ DOMAIN t = 1..(Len(b) - 1)
      /\ \A i \in 1..(Len(b) - 1) : t[i] = b[i + 1]
  OBVIOUS
<1> HIDE DEF t
<1>2. \A i \in DOMAIN t : i \in Nat \ {0} /\ i + 1 \in DOMAIN b /\ t[i] = b[i + 1]
  BY <1>1
<1>3. \A i \in DOMAIN t : Leads(b, i + 1) => Leads(t, i)
  <2>1. \A i \in DOMAIN t : \A k \in 1..i : k \in DOMAIN t /\ k + 1 \in 1..(i + 1)
    BY <1>1
  <2> QED
    BY <1>2, <2>1 DEF Leads
<1>4. Sorted(b) => Sorted(t)
  <2>1. \A i, j \in DOMAIN t : i < j => i + 1 < j + 1
    BY <1>2
  <2> QED
    BY <1>2, <1>3, <2>1 DEF Sorted
<1>5. OldFirst(b) => OldFirst(t)
  BY <1>2, <1>3 DEF OldFirst
<1>6. {t[i].service : i \in DOMAIN t} \subseteq {b[i].service : i \in DOMAIN b}
  BY <1>2
<1>7. \A k \in 2..Len(b) : b[k].service \in {t[i].service : i \in DOMAIN t}
  <2>1. \A k \in 2..Len(b) : k - 1 \in DOMAIN t /\ t[k - 1] = b[k]
    <3>1. \A k \in 2..Len(b) : k - 1 \in 1..(Len(b) - 1) /\ (k - 1) + 1 = k
      BY <1>1
    <3> QED
      BY <1>1, <3>1
  <2> QED
    BY <2>1
<1> QED
  BY <1>1, <1>4, <1>5, <1>6, <1>7 DEF t

\* A grant at the end of the buffer.
LEMMA AppendSorted ==
  ASSUME NEW b \in Seq(Grant), NEW g \in Grant
  PROVE  LET a == Append(b, g) IN
         /\ a \in Seq(Grant) /\ Len(a) = Len(b) + 1
         /\ {a[i].service : i \in DOMAIN a} = {b[i].service : i \in DOMAIN b} \cup {g.service}
         /\ Sorted(b) /\ (g.service \in {b[i].service : i \in DOMAIN b}
                            => g.service = "announce" /\ OldFirst(b)) => Sorted(a)
         /\ OldFirst(b) /\ g.service # "announce" => OldFirst(a)
<1> DEFINE a == Append(b, g)
<1>1. /\ a \in Seq(Grant) /\ Len(b) \in Nat /\ Len(a) = Len(b) + 1
      /\ DOMAIN b = 1..Len(b) /\ DOMAIN a = 1..(Len(b) + 1)
      /\ a[Len(b) + 1] = g
      /\ \A i \in 1..Len(b) : a[i] = b[i]
  OBVIOUS
<1> HIDE DEF a
<1>2. /\ \A i \in DOMAIN a : i = Len(b) + 1 \/ (i \in DOMAIN b /\ a[i] = b[i])
      /\ \A i \in DOMAIN b : i \in DOMAIN a /\ a[i] = b[i] /\ i < Len(b) + 1
      /\ Len(b) + 1 \in DOMAIN a
  BY <1>1
<1>3. {a[i].service : i \in DOMAIN a} = {b[i].service : i \in DOMAIN b} \cup {g.service}
  BY <1>1, <1>2
<1>4. \A i \in DOMAIN b : Leads(b, i) => Leads(a, i)
  <2>1. \A i \in DOMAIN b : \A k \in 1..i : k \in DOMAIN b
    BY <1>1
  <2> QED
    BY <1>2, <2>1 DEF Leads
<1>5. Sorted(b) /\ (g.service \in {b[i].service : i \in DOMAIN b}
                      => g.service = "announce" /\ OldFirst(b)) => Sorted(a)
  <2>1. SUFFICES ASSUME Sorted(b), g.service \in {b[i].service : i \in DOMAIN b}
                          => g.service = "announce" /\ OldFirst(b),
                        NEW i \in DOMAIN a, NEW j \in DOMAIN a,
                        i < j, a[i].service = a[j].service
                 PROVE  Leads(a, i)
    BY DEF Sorted
  <2>2. i \in DOMAIN b /\ a[i] = b[i]
    BY <1>1, <2>1
  <2>3. CASE j \in DOMAIN b
    BY <1>2, <1>4, <2>1, <2>2, <2>3 DEF Sorted
  <2>4. CASE j = Len(b) + 1
    BY <1>1, <1>4, <2>1, <2>2, <2>4 DEF OldFirst
  <2> QED
    BY <1>2, <2>3, <2>4
<1>6. OldFirst(b) /\ g.service # "announce" => OldFirst(a)
  BY <1>1, <1>2, <1>4 DEF OldFirst
<1> QED
  BY <1>1, <1>3, <1>5, <1>6 DEF a

LEMMA ReceiveKept ==
  ASSUME FullGrants, SessionInv, SessionInv', NoDenial, KeptInv, MarginSuffices,
         NEW g \in Grant, Receive(g)
  PROVE  KeptInv'
<1> USE DEF outside, manager
<1> DEFINE b == Append(buf, g)
<1>1. /\ g \in to_client /\ to_client' = to_client \ {g} /\ Network
      /\ UNCHANGED <<pc, neg, left, age, losses, caller, to_gm, gm>>
      /\ buf' = IF Len(b) > GeneralBufMax THEN Tail(b) ELSE b
  BY DEF Receive, Network, KeptInv, FlagInv, Closed
<1>2. /\ AgeInv' /\ FlagInv' /\ (Collects' <=> Collects) /\ Telling' = Telling /\ neg' = neg
  BY <1>1, NetworkLeaves
<1>3. buf \in Seq(Grant) /\ Wired \subseteq Services /\ Stored \subseteq Services
      /\ g.service \in Wired /\ Sorted(buf)
  BY <1>1, Parts, KeptTypes DEF BufferTyped, Wired, KeptInv, OrderInv
<1>4. Wired' = Wired \ {g.service}
  <2>1. \A h \in to_client : h \in Grant /\ h.duration # 0
    BY Parts DEF NetworkTyped, NoDenial
  <2>2. \A h \in to_client : h.duration = Duration
    BY <2>1 DEF FullGrants, Grant
  <2>3. \A h \in to_client : h.service = g.service => h = g
    BY <1>1, <2>1, <2>2 DEF Grant
  <2> QED
    BY <1>1, <2>3 DEF Wired
<1>5. /\ b \in Seq(Grant) /\ Len(b) = Len(buf) + 1
      /\ {b[i].service : i \in DOMAIN b} = Stored \cup {g.service}
      /\ (g.service \in Stored => g.service = "announce" /\ OldFirst(buf)) => Sorted(b)
      /\ OldFirst(buf) /\ g.service # "announce" => OldFirst(b)
  BY <1>3, AppendSorted DEF Stored
<1>6. neg.phase \in {"none", "announce", "sync", "renew"} /\ (Collects => neg.phase # "none")
  BY Parts DEF ControlTyped, Negotiation, Negotiating, Collects
<1>7. g.service \in Stored => g.service = "announce" /\ OldFirst(buf)
  <2>1. SUFFICES ASSUME g.service \in Stored PROVE g.service = "announce" /\ OldFirst(buf)
    OBVIOUS
  <2>2. CASE ~Collects \/ neg.phase = "announce"
    <3>1. Wired \cup Stored \subseteq {"announce"}
      BY <2>2 DEF KeptInv, PlaceInv, Outside
    <3>2. OldFirst(buf)
      BY <1>3, <3>1, OnlyAnnounce
    <3> QED
      BY <1>3, <3>1, <3>2
  <2>3. CASE Collects /\ neg.phase # "announce"
    <3>1. Telling \cap Wired \cap Stored = {}
      BY <2>3 DEF KeptInv, PlaceInv, Within
    <3>2. Telling = Services \ {"announce"}
      BY <2>3 DEF Telling
    <3>3. g.service = "announce"
      BY <1>3, <2>1, <3>1, <3>2
    <3>4. OldFirst(buf)
      BY <1>3, <2>3, <3>3 DEF KeptInv, OrderInv
    <3> QED
      BY <3>3, <3>4
  <2> QED
    BY <2>2, <2>3
<1>8. Sorted(b)
  BY <1>5, <1>7
<1> HIDE DEF b
<1>9. Stored' = Stored \cup {g.service} /\ Sorted(buf') /\ (OldFirst(b) => OldFirst(buf'))
  <2>1. CASE Len(b) > GeneralBufMax
    <3>1. b # <<>> /\ Len(b) > Cardinality(Services) /\ buf' = Tail(b) /\ DOMAIN b = 1..Len(b)
      <4>1. Cardinality(Services) \in Nat /\ GeneralBufMax \in Nat
            /\ GeneralBufMax >= Cardinality(Services)
        BY ServicesFinite, ConstantTypes DEF MarginSuffices
      <4>2. Len(buf) \in Nat
        BY <1>3
      <4>3. Len(b) > Cardinality(Services)
        BY <1>5, <2>1, <4>1, <4>2
      <4>4. b # <<>>
        BY <1>5, <4>2
      <4> QED
        BY <1>1, <1>5, <2>1, <4>3, <4>4
    <3>2. PICK k \in 2..Len(b) : b[k].service = b[1].service
      BY <1>5, <1>8, <3>1, OldestIsSpare
    <3>3. \A i \in DOMAIN b : i = 1 \/ i \in 2..Len(b)
      BY <3>1
    <3> DEFINE kept == {Tail(b)[i].service : i \in DOMAIN Tail(b)}
    <3>4. /\ kept \subseteq {b[i].service : i \in DOMAIN b}
          /\ \A i \in 2..Len(b) : b[i].service \in kept
          /\ Sorted(Tail(b)) /\ (OldFirst(b) => OldFirst(Tail(b)))
      BY <1>5, <1>8, <3>1, TailSorted
    <3>5. Stored' = kept
      BY <3>1 DEF Stored
    <3> HIDE DEF kept
    <3>6. \A i \in DOMAIN b : b[i].service \in kept
      BY <3>2, <3>3, <3>4
    <3>7. kept = {b[i].service : i \in DOMAIN b}
      BY <3>4, <3>6
    <3> QED
      BY <1>5, <3>1, <3>4, <3>5, <3>7
  <2>2. CASE ~(Len(b) > GeneralBufMax)
    <3>1. buf' = b
      BY <1>1, <2>2
    <3>2. Stored' = {b[i].service : i \in DOMAIN b}
      BY <3>1 DEF Stored
    <3> QED
      BY <1>5, <1>8, <3>1, <3>2
  <2> QED
    BY <2>1, <2>2
<1>10. MailInv'
  BY <1>1, <1>2 DEF KeptInv, MailInv
<1>11. PlaceInv'
  <2>1. Wired' \cup Stored' \subseteq Wired \cup Stored
    BY <1>3, <1>4, <1>9
  <2>2. Outside'
    BY <1>2, <1>3, <1>4, <2>1 DEF KeptInv, PlaceInv, Outside
  <2>3. ASSUME Collects PROVE Within'
    <3>1. Within
      BY <2>3 DEF KeptInv, PlaceInv
    <3>2. to_gm # <<>> => Telling \cap (Wired' \cup Stored' \cup neg.got) = {}
      BY <2>1, <3>1 DEF Within
    <3>3. Telling \cap Wired' \cap Stored' = {}
      BY <1>4, <1>9, <3>1 DEF Within
    <3>4. Telling \cap neg.got \cap (Wired' \cup Stored') = {}
      BY <2>1, <3>1 DEF Within
    <3>5. ~(left < RequestTimeout) /\ left <= RequestTimeout
          /\ ~(Asked(neg.phase) \subseteq neg.got)
      BY <1>3, <3>1 DEF Within
    <3> QED
      BY <1>1, <1>2, <3>2, <3>3, <3>4, <3>5 DEF Within
  <2> QED
    BY <1>2, <2>2, <2>3 DEF PlaceInv
<1>12. AnswerInv'
  BY <1>1, <1>2, <1>3, <1>4, <1>9 DEF KeptInv, AnswerInv
<1>13. OrderInv'
  <2>1. Collects' /\ "announce" \in Wired' => OldFirst(buf) /\ g.service # "announce"
    BY <1>2, <1>4 DEF KeptInv, OrderInv
  <2> QED
    BY <1>5, <1>9, <2>1 DEF OrderInv
<1>14. Missing' <=> Missing
  <2>1. Wired' \cup Stored' = Wired \cup Stored
    BY <1>3, <1>4, <1>9
  <2>2. Asked(neg'.phase) = Asked(neg.phase)
    BY <1>2
  <2>3. (Asked(neg'.phase) \subseteq neg'.got \cup Wired' \cup Stored')
          <=> (Asked(neg.phase) \subseteq neg.got \cup Wired \cup Stored)
    BY <1>2, <2>1, <2>2
  <2> QED
    BY <1>1, <1>2, <2>3 DEF Missing
<1>15. \A s \in Services : gm'[s] >= gm[s]
  BY <1>1, KeptTypes
<1>16. LossInv' /\ NegotiationBudget' /\ MeasuringBudget'
  BY <1>1, <1>14, <1>15, NothingLost
<1>17. FirstBudget'
  BY <1>1, Fixed DEF KeptInv, BudgetInv, FirstBudget, Debt
<1> QED
  BY <1>2, <1>10, <1>11, <1>12, <1>13, <1>16, <1>17 DEF KeptInv, BudgetInv

LEMMA EvictKept ==
  ASSUME SessionInv, SessionInv', KeptInv, MarginSuffices, Evict
  PROVE  KeptInv'
<1> USE DEF outside, manager, peer
<1>1. /\ buf # <<>> /\ buf' = Tail(buf) /\ ~Collects /\ Network
      /\ UNCHANGED <<pc, neg, left, age, losses, caller, to_gm, to_client, gm>>
  BY DEF Evict, Network, Collects
<1>2. /\ AgeInv' /\ FlagInv' /\ ~Collects' /\ neg' = neg /\ Wired' = Wired
  BY <1>1, NetworkLeaves DEF Wired
<1>3. Stored' \subseteq Stored /\ Sorted(buf')
  <2>1. buf \in Seq(Grant) /\ Sorted(buf)
    BY Parts DEF BufferTyped, KeptInv, OrderInv
  <2> QED
    BY <1>1, <2>1, TailSorted DEF Stored
<1>4. MailInv' /\ AnswerInv'
  BY <1>1, <1>2 DEF KeptInv, MailInv, AnswerInv
<1>5. PlaceInv'
  BY <1>1, <1>2, <1>3 DEF KeptInv, PlaceInv, Outside
<1>6. OrderInv'
  BY <1>2, <1>3 DEF OrderInv
<1>7. Missing' <=> Missing
  BY <1>1, <1>2 DEF Missing
<1>8. LossInv' /\ NegotiationBudget' /\ MeasuringBudget'
  BY <1>1, <1>7, NothingLost, KeptTypes
<1>9. FirstBudget'
  BY <1>1, Fixed DEF KeptInv, BudgetInv, FirstBudget, Debt
<1> QED
  BY <1>2, <1>4, <1>5, <1>6, <1>8, <1>9 DEF KeptInv, BudgetInv

LEMMA NetworkKept ==
  ASSUME FullGrants, SessionInv, SessionInv', NoDenial, CancelLast, KeptInv, MarginSuffices,
         Active, Active', Network
  PROVE  KeptInv'
<1>1. ~GmCancels
  <2>1. to_gm \in Seq(Message) /\ (to_gm # <<>> => 1 \in DOMAIN to_gm /\ Head(to_gm) = to_gm[1])
    BY Parts DEF NetworkTyped
  <2> QED
    BY <2>1 DEF CancelLast, Active, GmCancels
<1> QED
  BY <1>1, GmAnswersKept, LoseSignalingKept, LoseGrantKept, ReceiveKept, EvictKept DEF Network

LEMMA TickKept ==
  ASSUME SessionInv, SessionInv', KeptInv, MarginSuffices, Tick
  PROVE  KeptInv'
<1>1. /\ left > 0 /\ left' = left - 1 /\ to_gm = <<>> /\ to_client = {}
      /\ pc \in {"collect", "retry", "first", "first_retry", "sync", "sync_again", "delay",
                 "napping"}
      /\ (pc = "collect" => Relevant = {})
      /\ age' = UpTo(Duration, age + 1) /\ gm' = [s \in Services |-> Down(gm[s])]
      /\ UNCHANGED <<pc, neg, state, losses, buf, to_gm, to_client>>
  BY DEF Tick, Waiting
<1>2. /\ left \in Nat /\ age \in 0..Duration /\ Duration \in Nat /\ RequestTimeout \in Nat
      /\ \A s \in Services : gm[s] \in 0..Duration
      /\ "announce" \in Services /\ Debt \in Nat
  BY KeptTypes, ConstantTypes
<1>3. \A s \in Services : gm'[s] \in Nat /\ gm'[s] >= gm[s] - 1
  BY <1>1, <1>2 DEF Down
<1>4. age' \in Nat /\ age' <= age + 1 /\ (age' = age + 1 \/ age' = Duration)
  BY <1>1, <1>2 DEF UpTo
<1>5. /\ Wired = {} /\ Wired' = {} /\ Stored' = Stored /\ (Collects' <=> Collects)
      /\ Telling' = Telling /\ neg' = neg /\ Asked(neg'.phase) = Asked(neg.phase)
  BY <1>1 DEF Wired, Stored, Collects, Telling, Services
<1>6. MailInv'
  BY <1>1 DEF MailInv
<1>7. Collects => Stored \cap Asked(neg.phase) = {}
  BY <1>1 DEF Collects, Relevant, Stored
<1>8. Collects => left <= RequestTimeout /\ ~(Asked(neg.phase) \subseteq neg.got)
  BY DEF KeptInv, PlaceInv, Within
<1>9. PlaceInv'
  <2>1. Outside'
    BY <1>5 DEF KeptInv, PlaceInv, Outside
  <2>2. ASSUME Collects PROVE Within'
    <3>1. left' <= RequestTimeout
      BY <1>1, <1>2, <1>8, <2>2
    <3>2. Telling \cap neg.got \cap (Wired' \cup Stored') = {}
      BY <1>5, <2>2 DEF KeptInv, PlaceInv, Within
    <3> QED
      BY <1>1, <1>5, <1>7, <1>8, <2>2, <3>1, <3>2 DEF Within
  <2> QED
    BY <1>5, <2>1, <2>2 DEF PlaceInv
<1>10. AnswerInv'
  <2>1. Collects => left' # RequestTimeout
    BY <1>1, <1>2, <1>8
  <2> QED
    BY <1>5, <2>1 DEF AnswerInv
<1>11. OrderInv'
  BY <1>1, <1>5 DEF KeptInv, OrderInv, Sorted, Leads
<1>12. Missing <=> Collects
  BY <1>1, <1>5, <1>7, <1>8 DEF Missing
<1>13. Missing' <=> Collects
  BY <1>1, <1>5, <1>7, <1>8 DEF Missing
<1>14. Failed' = Failed
  BY <1>1, <1>12, <1>13 DEF Failed
<1>15. LossInv'
  BY <1>1, <1>14 DEF KeptInv, BudgetInv, LossInv
<1>16. Debt' = Debt
  BY <1>1, Fixed DEF Debt
<1>17. /\ LossCost \in Nat /\ RetrySleep \in Nat /\ AnnounceTimeout \in Nat
       /\ Base \in Int /\ Base <= Duration /\ DelayTimeout \in Nat
  BY Costs, ConstantTypes
<1>18. NegotiationBudget'
  <2>1. SUFFICES ASSUME neg.phase # "none" PROVE NegotiationBudget'
    BY <1>1 DEF NegotiationBudget
  <2>2. pc \in {"collect", "retry"}
    BY <1>1, <2>1, Parts DEF ControlTyped, Negotiating
  <2>3. Slack' = Slack - 1
    <3>1. CASE pc = "collect"
      <4>1. Slack = LossCost - (RequestTimeout - left)
        BY <1>12, <3>1 DEF Slack, Collects
      <4>2. Slack' = LossCost - (RequestTimeout - left')
        BY <1>13, <3>1, Fixed DEF Slack, Collects
      <4> QED
        BY <1>1, <1>2, <1>17, <4>1, <4>2
    <3>2. CASE pc = "retry"
      <4>1. Slack = LossCost - RequestTimeout - (RetrySleep - left)
        BY <1>12, <3>2 DEF Slack, Collects
      <4>2. Slack' = LossCost - RequestTimeout - (RetrySleep - left')
        BY <1>1, <1>13, <3>2, Fixed DEF Slack, Collects
      <4> QED
        BY <1>1, <1>2, <1>17, <4>1, <4>2
    <3> QED
      BY <2>2, <3>1, <3>2
  <2>4. Slack \in Int
    BY SlackTyped
  <2>5. \A s \in Services : gm'[s] - Slack' + Debt' >= gm[s] - Slack + Debt
    BY <1>2, <1>3, <1>16, <2>3, <2>4
  <2> QED
    BY <1>1, <2>5, BudgetCarries
<1>19. FirstBudget'
  <2>1. CASE pc = "first"
    <3>1. gm["announce"] >= Duration - RetrySleep - Debt - (AnnounceTimeout - left)
      BY <2>1 DEF KeptInv, BudgetInv, FirstBudget
    <3>2. gm'["announce"] >= Duration - RetrySleep - Debt - (AnnounceTimeout - left')
      BY <1>1, <1>2, <1>3, <1>17, <3>1
    <3> QED
      BY <1>1, <1>16, <2>1, <3>2 DEF FirstBudget
  <2>2. CASE pc = "first_retry"
    <3>1. gm["announce"] >= Duration - (RetrySleep - left) - Debt
      BY <1>1, <2>2 DEF KeptInv, BudgetInv, FirstBudget
    <3>2. gm'["announce"] >= Duration - (RetrySleep - left') - Debt
      BY <1>1, <1>2, <1>3, <1>17, <3>1
    <3> QED
      BY <1>1, <1>16, <2>2, <3>2 DEF FirstBudget
  <2> QED
    BY <1>1, <2>1, <2>2 DEF FirstBudget
<1>20. MeasuringBudget'
  <2>1. ASSUME pc \in Measuring, NEW s \in Services PROVE gm'[s] >= Base - age'
    <3>1. gm[s] >= Base - age
      BY <2>1 DEF KeptInv, BudgetInv, MeasuringBudget
    <3>2. gm'[s] \in Nat /\ gm'[s] >= gm[s] - 1 /\ gm[s] \in Nat
      BY <1>2, <1>3
    <3> QED
      BY <1>2, <1>4, <1>17, <3>1, <3>2
  <2> QED
    BY <1>1, <2>1, Fixed DEF MeasuringBudget
<1>21. AgeInv'
  <2>1. age' + left' <= age + left
    BY <1>1, <1>2, <1>4
  <2>2. /\ Early \in Nat /\ SyncTimeout \in Nat /\ left' \in Nat
    BY <1>1, <1>2, Costs, ConstantTypes
  <2>3. \A n \in Int : age + left <= n => age' + left' <= n
    BY <1>1, <1>2, <1>4, <2>1
  <2>4. AgeInv /\ Early + DelayTimeout \in Int /\ Early + 1 \in Int /\ SyncTimeout \in Int
    BY <1>17, <2>2 DEF KeptInv
  <2>5. /\ pc \in {"sync", "sync_again"} => age' + left' <= SyncTimeout
        /\ pc = "delay" => age' + left' <= Early + DelayTimeout
        /\ pc = "napping" => age' + left' <= Early + 1
    BY <2>3, <2>4 DEF AgeInv
  <2> QED
    BY <1>1, <2>5, Fixed DEF AgeInv
<1>22. FlagInv'
  <2>1. caller'.pc = caller.pc
    BY CallerStays
  <2> QED
    BY <1>1, <2>1 DEF KeptInv, FlagInv
<1> QED
  BY <1>6, <1>9, <1>10, <1>11, <1>15, <1>18, <1>19, <1>20, <1>21, <1>22 DEF KeptInv, BudgetInv

LEMMA KeptFirst ==
  ASSUME Init
  PROVE  KeptInv
<1>1. /\ pc = "request" /\ state = FALSE /\ losses = 0
      /\ buf = <<>> /\ to_gm = <<>> /\ to_client = {} /\ neg = Fresh("announce", FALSE)
      /\ caller.pc = "waiting"
  BY DEF Init
<1>2. neg.phase = "announce" /\ neg.wild = FALSE /\ neg.attempt = 1
  BY <1>1 DEF Fresh
<1>3. Wired = {} /\ Stored = {} /\ ~Collects
  BY <1>1 DEF Wired, Stored, Collects
<1>4. MailInv /\ PlaceInv /\ AnswerInv
  BY <1>1, <1>3 DEF MailInv, PlaceInv, Outside, AnswerInv, Collects
<1>5. OrderInv
  BY <1>1, <1>3 DEF OrderInv, Sorted
<1>6. Failed = 0
  <2>1. (IF neg.wild THEN 3 ELSE 0) = 0 /\ ~(Missing \/ pc = "retry")
    BY <1>1, <1>2, <1>3 DEF Missing
  <2> QED
    BY <1>2, <2>1 DEF Failed
<1>7. BudgetInv
  <2>1. LossInv
    BY <1>1, <1>6 DEF LossInv
  <2>2. FirstBudget /\ NegotiationBudget /\ MeasuringBudget
    BY <1>1, <1>2 DEF FirstBudget, NegotiationBudget, MeasuringBudget, Measuring
  <2> QED
    BY <2>1, <2>2 DEF BudgetInv
<1>8. AgeInv /\ FlagInv
  BY <1>1, <1>2 DEF AgeInv, FlagInv, Measuring
<1> QED
  BY <1>4, <1>5, <1>7, <1>8 DEF KeptInv

\* A stop is never taken back.
LEMMA ActiveBefore ==
  ASSUME SessionInv, [Next]_vars, Active'
  PROVE  Active
<1>1. Willing /\ pc # "done"
  BY DenialsGrow, DoneStays DEF Active
<1>2. ~stop
  <2>1. stop' = stop \/ stop'
    BY ManagerSends DEF Next, Over, Calling, RequestStop, ManagerEnded, Interrupt, Network,
       GmAnswers, GmCancels, LoseSignaling, LoseGrant, Receive, Evict, outside, manager,
       StopAcr, Close, Tick, vars
  <2> QED
    BY <2>1 DEF Active
<1> QED
  BY <1>1, <1>2 DEF Active

KeptWhileActive == LeaseInv /\ (Active => KeptInv)

LEMMA KeptStays ==
  ASSUME FullGrants, MarginSuffices, KeptWhileActive, [Next]_vars
  PROVE  KeptWhileActive'
<1>1. LeaseInv' /\ SessionInv /\ SessionInv' /\ CancelLast
  BY LeaseInvStays, TypesStay DEF KeptWhileActive, LeaseInv
<1>2. ASSUME Active' PROVE KeptInv'
  <2>1. Active
    BY <1>1, <1>2, ActiveBefore
  <2>2. KeptInv /\ NoDenial
    BY <2>1 DEF KeptWhileActive, LeaseInv, GrantInv, Active
  <2>3. CASE UNCHANGED vars
    <3>1. UNCHANGED KeptView /\ caller'.pc \in {"waiting", "stopping"}
      BY <2>2, <2>3 DEF vars, KeptView, KeptInv, FlagInv
    <3> QED
      BY <2>2, <3>1, ViewKept
  <2> QED
    BY <1>1, <1>2, <2>1, <2>2, <2>3, NegotiateKept, MeasureKept, CallingKept, NetworkKept, TickKept
    DEF Next, Over
<1> QED
  BY <1>1, <1>2 DEF KeptWhileActive

\* What the budget leaves is more than nothing.
LEMMA BudgetSuffices ==
  ASSUME MarginSuffices, KeptWhileActive
  PROVE  ContractKept
<1>1. SUFFICES ASSUME Active, state PROVE \A s \in Services : gm[s] > 0
  BY DEF ContractKept, Active
<1>2. KeptInv /\ SessionInv
  BY <1>1 DEF KeptWhileActive, LeaseInv
<1>3. /\ \A s \in Services : gm[s] \in Int
      /\ Debt \in Nat /\ Debt <= Owed(MaxLosses) /\ pc \in Pcs
      /\ Base - Latest - Owed(MaxLosses) > 0
      /\ Base \in Int /\ Latest \in Nat /\ age \in Nat /\ left \in Nat
  BY <1>2, KeptTypes, Costs
<1>4. Owed(MaxLosses) \in Nat
  BY Debts, ConstantTypes
<1>5. CASE pc \in Measuring
  <2>1. age <= Latest
    <3>1. /\ Latest >= Early + DelayTimeout /\ Latest >= Early + 1 /\ Latest >= SyncTimeout
          /\ Early \in Nat /\ DelayTimeout \in Nat /\ SyncTimeout \in Nat
      BY Costs, ConstantTypes
    <3> QED
      BY <1>2, <1>3, <1>5, <3>1 DEF KeptInv, AgeInv, Measuring
  <2>2. \A s \in Services : gm[s] >= Base - age
    BY <1>2, <1>5 DEF KeptInv, BudgetInv, MeasuringBudget
  <2> QED
    BY <1>3, <1>4, <2>1, <2>2
<1>6. CASE neg.phase = "renew"
  <2>1. \A s \in Services : gm[s] >= Base - Latest - Debt + Slack
    BY <1>2, <1>6 DEF KeptInv, BudgetInv, NegotiationBudget
  <2>2. Slack \in Int /\ Slack >= 0
    <3>1. /\ LossCost >= RequestTimeout + RetrySleep /\ LossCost \in Nat
          /\ RequestTimeout \in Nat /\ RetrySleep \in Nat /\ left \in Nat
      BY <1>3, Costs, ConstantTypes
    <3>2. Slack \in Int
      BY <1>2, SlackTyped
    <3>3. CASE Missing
      BY <1>2, <3>1, <3>3, SlackTyped
    <3>4. CASE pc = "retry"
      BY <1>2, <3>1, <3>4, SlackTyped
    <3>5. CASE ~Missing /\ pc # "retry"
      BY <1>2, <3>5, SlackTyped
    <3> QED
      BY <3>2, <3>3, <3>4, <3>5
  <2> QED
    BY <1>3, <1>4, <2>1, <2>2
<1>7. pc \in Measuring \/ neg.phase = "renew"
  <2>1. pc \in Negotiating <=> neg.phase # "none"
    BY <1>2, Parts DEF ControlTyped
  <2>2. neg.phase \in {"none", "announce", "sync", "renew"}
    BY <1>2, Parts DEF ControlTyped, Negotiation
  <2> QED
    BY <1>1, <1>2, <1>3, <2>1, <2>2 DEF KeptInv, FlagInv, Pcs, Measuring, Negotiating, Active
<1> QED
  BY <1>5, <1>6, <1>7

\* While the session measures and nobody stops it the contract of a willing grandmaster does
\* not run out (_renew_if_due and _sleep_until_next_or_deadline renew it in time): what a
\* contract lasts is more than what the wait for the first Announce, twice the messages that
\* may be lost and the longest time without a look at the clock take from it.
THEOREM ContractAlwaysKept ==
  ASSUME FullGrants, MarginSuffices
  PROVE  Spec => []ContractKept
<1>1. Init => KeptWhileActive
  BY KeptFirst, LeaseBegins DEF KeptWhileActive
<1>2. KeptWhileActive /\ [Next]_vars => KeptWhileActive'
  BY KeptStays
<1>3. KeptWhileActive => ContractKept
  BY BudgetSuffices
<1> QED
  BY <1>1, <1>2, <1>3, PTL DEF Spec

=============================================================================
