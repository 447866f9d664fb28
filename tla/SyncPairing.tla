----------------------------- MODULE SyncPairing -----------------------------
(***************************************************************************)
(* Samples of the PTP slave client (ptp/client.py): the receiver thread    *)
(* appends what comes in on either port to one bounded buffer, the caller  *)
(* waits for a Sync and its Follow_Up (wait_sync_sample) or for the        *)
(* Delay_Resp to a Delay_Req (exchange_delay) and takes them out of it.    *)
(* The masters and the network are external: messages are lost, delayed,   *)
(* reordered and duplicated.                                               *)
(*                                                                         *)
(* Time is left out: a wait may reach its deadline at any moment, and      *)
(* "late" says that the deadline of the call has passed.                   *)
(***************************************************************************)
EXTENDS Integers, FiniteSets, SequencesExt

CONSTANTS
  Masters,        \* clock identities that send in our domain
  Modulus,         \* sequenceId wraps at Modulus (65536 in the code)
  GeneralBufMax,  \* general_buf_max (1024 in the code)
  FirstIds,       \* sequence numbers a master may begin with
  TwoStep,        \* values of twoStepFlag a Sync may have
  MaxSyncs,       \* bound: Syncs sent by a master and by all of them together
  MaxCopies,      \* bound: messages delivered twice
  MaxCalls        \* bound: calls of wait_sync_sample and exchange_delay

\* What is in the buffer or on its way never spans a whole round of sequence
\* numbers (1024 places against 65536 numbers), nor do the requests of a run.
ASSUME PairingAssumption ==
  /\ {Modulus, GeneralBufMax} \subseteq Nat \ {0}
  /\ FirstIds \subseteq 0..Modulus - 1
  /\ TwoStep \subseteq BOOLEAN
  /\ {MaxSyncs, MaxCopies, MaxCalls} \subseteq Nat
  /\ MaxSyncs <= Modulus /\ MaxCalls <= Modulus

VARIABLES
  pc,       \* where the caller is
  late,     \* the deadline of its call has passed
  held,     \* the message it has in hand: Sync, Follow_Up or its own request
  partner,  \* the Sync it has found for the Follow_Up in hand
  buf,      \* _general_buf
  seq,      \* _seq
  asked,    \* Delay_Req sent
  samples,  \* history: what the calls of wait_sync_sample returned
  answers,  \* history: what the calls of exchange_delay returned
  first,    \* sequenceId of the first Sync of each master
  sent,     \* Syncs sent by each master
  net,      \* messages on their way to the client
  doubled   \* history: messages delivered twice

caller == <<pc, late, held, partner>>
results == <<samples, answers>>
masters == <<first, sent>>
vars == <<pc, late, held, partner, buf, seq, asked, samples, answers, first, sent, net,
          doubled>>

\* The n-th Sync of a master, its Follow_Up, and the answer to the n-th Delay_Req.
Sync == [kind: {"sync"}, src: Masters, n: 1..MaxSyncs, two_step: BOOLEAN]
FollowUp == [kind: {"follow_up"}, src: Masters, n: 1..MaxSyncs]
DelayReq == [kind: {"delay_req"}, n: 1..MaxCalls, seq: 0..Modulus - 1]
DelayResp == [kind: {"delay_resp"}, n: 1..MaxCalls, seq: 0..Modulus - 1]
Message == Sync \cup FollowUp \cup DelayResp

Nothing == [kind |-> "nothing"]

SequenceId(m) == (first[m.src] + m.n - 1) % Modulus

-----------------------------------------------------------------------------
(***************************************************************************)
(* The buffer: what a waiting caller accepts.                              *)
(***************************************************************************)
\* Mutant of Matches: the source is not compared.
MatchesBySequence(m, kind, other) ==
  m.kind = kind /\ SequenceId(m) = SequenceId(other)

\* m is of this kind and goes with the message in hand.
Matches(m, kind, other) ==
  m.kind = kind /\ m.src = other.src /\ SequenceId(m) = SequenceId(other)

Answers(m, request) == m.kind = "delay_resp" /\ m.seq = request.seq

\* Where in the buffer there is what the caller waits for.
Syncs == {i \in DOMAIN buf : buf[i].kind = "sync"}
FollowUps == {i \in DOMAIN buf : buf[i].kind = "follow_up"}
Matching(kind, other) == {i \in DOMAIN buf : Matches(buf[i], kind, other)}
SameNumber(other) == {i \in FollowUps : SequenceId(buf[i]) = SequenceId(other)}
AnswersTo(request) == {i \in DOMAIN buf : Answers(buf[i], request)}

\* The oldest message at these places, and the buffer without it.
Oldest(places) == buf[Min(places)]
Without(places) == RemoveAt(buf, Min(places))

-----------------------------------------------------------------------------
(***************************************************************************)
(* wait_sync_sample().                                                     *)
(***************************************************************************)
Goto(place, message) == pc' = place /\ held' = message

Return(path, sync, follow_up) ==
  /\ pc' = "idle"
  /\ held' = Nothing
  /\ partner' = Nothing
  /\ samples' = Append(samples, [path |-> path, sync |-> sync, follow_up |-> follow_up])
  /\ UNCHANGED answers

Calls == Len(samples) + asked

CallWaitSync ==
  /\ pc = "idle" /\ Calls < MaxCalls
  /\ Goto("head", Nothing)
  /\ late' = FALSE
  /\ UNCHANGED <<partner, buf, seq, asked, results, masters, net, doubled>>

\* Mutant of LoopHead: the deadline is not looked at.
LoopForever ==
  /\ pc = "head"
  /\ Goto("scan", Nothing)
  /\ UNCHANGED <<late, partner, buf, seq, asked, results, masters, net, doubled>>

LoopHead ==
  /\ pc = "head"
  /\ Goto(IF late THEN "last" ELSE "scan", Nothing)
  /\ UNCHANGED <<late, partner, buf, seq, asked, results, masters, net, doubled>>

\* Any Sync will do, the oldest first; a one-step Sync is a sample by itself.
ScanFinds ==
  /\ pc \in {"scan", "scanned"}
  /\ Syncs # {}
  /\ buf' = Without(Syncs)
  /\ IF Oldest(Syncs).two_step
     THEN Goto("follow", Oldest(Syncs)) /\ UNCHANGED <<partner, results>>
     ELSE Return("one_step", Oldest(Syncs), Nothing)
  /\ UNCHANGED <<late, seq, asked, masters, net, doubled>>

ScanMisses ==
  /\ pc = "scan"
  /\ Syncs = {}
  /\ Goto("scanned", Nothing)
  /\ UNCHANGED <<late, partner, buf, seq, asked, results, masters, net, doubled>>

\* Its Follow_Up, from the same source, before the deadline of the call.
FollowFinds ==
  /\ pc = "follow" /\ ~late
  /\ LET accepted == Matching("follow_up", held) IN
       /\ accepted # {}
       /\ buf' = Without(accepted)
       /\ Return("sync_led", held, Oldest(accepted))
  /\ UNCHANGED <<late, seq, asked, masters, net, doubled>>

\* The Sync is used up, and the call fails.
FollowTimesOut ==
  /\ pc = "follow" /\ late
  /\ Return("timeout", Nothing, Nothing)
  /\ UNCHANGED <<late, buf, seq, asked, masters, net, doubled>>

-----------------------------------------------------------------------------
(***************************************************************************)
(* _try_sync_sample_follow_up_led(): no Sync has come for 50 ms, or the    *)
(* call is at its end and a degraded sample is allowed.                    *)
(***************************************************************************)
\* The Follow_Up with the greatest number, the oldest of several.
Candidate ==
  Oldest({i \in FollowUps : \A j \in FollowUps :
            SequenceId(buf[i]) >= SequenceId(buf[j])})

LedBegins ==
  /\ pc = "scanned"
  /\ IF FollowUps = {} THEN Goto("head", Nothing) ELSE Goto("led", Candidate)
  /\ UNCHANGED <<late, partner, buf, seq, asked, results, masters, net, doubled>>

\* The buffer is looked at only if there is time left.
LedFinds ==
  /\ pc \in {"led", "led_missed"} /\ ~late
  /\ LET accepted == Matching("sync", held) IN
       /\ accepted # {}
       /\ partner' = Oldest(accepted)
       /\ buf' = Without(accepted)
  /\ pc' = "led_found"
  /\ UNCHANGED <<late, held, seq, asked, results, masters, net, doubled>>

LedMisses ==
  /\ pc = "led" /\ ~late
  /\ Matching("sync", held) = {}
  /\ pc' = "led_missed"
  /\ UNCHANGED <<late, held, partner, buf, seq, asked, results, masters, net, doubled>>

\* After 2 s or at the deadline: back to waiting for any Sync.
LedTimesOut ==
  /\ pc = "led_missed" \/ (pc = "led" /\ late)
  /\ Goto("head", Nothing)
  /\ UNCHANGED <<late, partner, buf, seq, asked, results, masters, net, doubled>>

\* Take a Follow_Up with the number of the one in hand out of the buffer, of
\* whatever source; it may have been pushed out, then the one in hand serves.
TakeFollowUp(path, sync) ==
  IF SameNumber(held) = {}
  THEN /\ Return(path, sync, held)
       /\ UNCHANGED buf
  ELSE /\ Return(path, sync, Oldest(SameNumber(held)))
       /\ buf' = Without(SameNumber(held))

\* Mutant of LedPairs: the Follow_Up stays in the buffer.
LedPairsAndKeeps ==
  /\ pc = "led_found"
  /\ Return("follow_up_led", partner, held)
  /\ UNCHANGED <<late, buf, seq, asked, masters, net, doubled>>

LedPairs ==
  /\ pc = "led_found"
  /\ TakeFollowUp("follow_up_led", partner)
  /\ UNCHANGED <<late, seq, asked, masters, net, doubled>>

\* The end of the call: a Follow_Up without Sync, or nothing.  The wait for a
\* Sync that goes with it has a deadline that has passed.
LastChance ==
  /\ pc = "last"
  /\ IF FollowUps = {}
     THEN Return("timeout", Nothing, Nothing)
     ELSE Goto("degrade", Candidate) /\ UNCHANGED <<partner, results>>
  /\ UNCHANGED <<late, buf, seq, asked, masters, net, doubled>>

Degrade ==
  /\ pc = "degrade"
  /\ TakeFollowUp("degraded", Nothing)
  /\ UNCHANGED <<late, seq, asked, masters, net, doubled>>

-----------------------------------------------------------------------------
(***************************************************************************)
(* exchange_delay().                                                       *)
(***************************************************************************)
\* Mutant of SendDelayReq: every request has the same number.
SendDelayReqUnnumbered ==
  /\ pc = "idle" /\ Calls < MaxCalls
  /\ asked' = asked + 1
  /\ Goto("delay", [kind |-> "delay_req", n |-> asked + 1, seq |-> seq])
  /\ late' = FALSE
  /\ UNCHANGED <<partner, buf, seq, results, masters, net, doubled>>

SendDelayReq ==
  /\ pc = "idle" /\ Calls < MaxCalls
  /\ seq' = (seq + 1) % Modulus
  /\ asked' = asked + 1
  /\ Goto("delay", [kind |-> "delay_req", n |-> asked + 1, seq |-> seq'])
  /\ late' = FALSE
  /\ UNCHANGED <<partner, buf, results, masters, net, doubled>>

Answered(n) ==
  /\ answers' = Append(answers, [request |-> held.n, response |-> n])
  /\ Goto("idle", Nothing)
  /\ UNCHANGED <<partner, samples>>

DelayRespFound ==
  /\ pc = "delay" /\ ~late
  /\ LET accepted == AnswersTo(held) IN
       /\ accepted # {}
       /\ buf' = Without(accepted)
       /\ Answered(Oldest(accepted).n)
  /\ UNCHANGED <<late, seq, asked, masters, net, doubled>>

DelayTimesOut ==
  /\ pc = "delay" /\ late
  /\ Answered(0)
  /\ UNCHANGED <<late, buf, seq, asked, masters, net, doubled>>

DeadlinePasses ==
  /\ pc # "idle" /\ ~late
  /\ late' = TRUE
  /\ UNCHANGED <<pc, held, partner, buf, seq, asked, results, masters, net, doubled>>

-----------------------------------------------------------------------------
(***************************************************************************)
(* Masters, network and the receiver thread.                               *)
(***************************************************************************)
SumOfSent == FoldFunction(+, 0, sent)

MasterSends(g, two_step) ==
  /\ sent[g] < MaxSyncs /\ SumOfSent < MaxSyncs
  /\ sent' = [sent EXCEPT ![g] = @ + 1]
  /\ net' = net \cup {[kind |-> "sync", src |-> g, n |-> sent[g] + 1, two_step |-> two_step]}
                \cup (IF two_step THEN {[kind |-> "follow_up", src |-> g, n |-> sent[g] + 1]}
                                  ELSE {})
  /\ UNCHANGED <<caller, buf, seq, asked, results, first, doubled>>

\* The master answers the request that is waiting, once.
MasterAnswers ==
  /\ pc = "delay"
  /\ net' = net \cup {[kind |-> "delay_resp", n |-> held.n, seq |-> held.seq]}
  /\ net' # net
  /\ \A i \in DOMAIN buf : buf[i].kind = "delay_resp" => buf[i].n # held.n
  /\ UNCHANGED <<caller, buf, seq, asked, results, masters, doubled>>

\* Mutant of Receive: a deque without maxlen.
ReceiveUnbounded(m) ==
  /\ m \in net
  /\ buf' = Append(buf, m)
  /\ net' = net \ {m}
  /\ UNCHANGED <<caller, seq, asked, results, masters, doubled>>

\* _ingest_ptp_datagram: append; a full deque drops its oldest message.  What
\* the network loses it never delivers.
Receive(m) ==
  /\ m \in net
  /\ buf' = LET b == Append(buf, m) IN IF Len(b) > GeneralBufMax THEN Tail(b) ELSE b
  /\ \/ net' = net \ {m} /\ UNCHANGED doubled
     \/ /\ m \notin doubled /\ Cardinality(doubled) < MaxCopies
        /\ doubled' = doubled \cup {m}
        /\ UNCHANGED net
  /\ UNCHANGED <<caller, seq, asked, results, masters>>

-----------------------------------------------------------------------------
Init ==
  /\ pc = "idle" /\ late = FALSE
  /\ held = Nothing /\ partner = Nothing
  /\ buf = <<>>
  /\ seq = 0 /\ asked = 0
  /\ samples = <<>> /\ answers = <<>>
  /\ first \in [Masters -> FirstIds]
  /\ sent = [g \in Masters |-> 0]
  /\ net = {} /\ doubled = {}

WaitSync == LoopHead \/ ScanFinds \/ ScanMisses \/ FollowFinds \/ FollowTimesOut
            \/ LedBegins \/ LedFinds \/ LedMisses \/ LedTimesOut \/ LedPairs
            \/ LastChance \/ Degrade

Exchange == DelayRespFound \/ DelayTimesOut

Next ==
  \/ CallWaitSync \/ SendDelayReq
  \/ WaitSync \/ Exchange \/ DeadlinePasses
  \/ \E g \in Masters, two_step \in TwoStep : MasterSends(g, two_step)
  \/ MasterAnswers
  \/ \E m \in net : Receive(m)

Spec == Init /\ [][Next]_vars

\* The caller's thread runs and time passes; masters and network owe nothing.
FairSpec == Spec /\ WF_vars(WaitSync \/ Exchange) /\ WF_vars(DeadlinePasses)

-----------------------------------------------------------------------------
(***************************************************************************)
(* Properties.                                                             *)
(***************************************************************************)
Paths == {"sync_led", "follow_up_led", "one_step", "degraded", "timeout"}

\* Every variable has its type, and the buffer keeps within its bound.
TypeOK ==
  /\ pc \in {"idle", "head", "scan", "scanned", "follow", "led", "led_missed", "led_found",
             "last", "degrade", "delay"}
  /\ late \in BOOLEAN
  /\ held \in Message \cup DelayReq \cup {Nothing}
  /\ partner \in Sync \cup {Nothing}
  /\ buf \in Seq(Message) /\ Len(buf) <= GeneralBufMax
  /\ seq \in 0..Modulus - 1 /\ asked \in 0..MaxCalls
  /\ samples \in Seq([path: Paths, sync: Sync \cup {Nothing},
                      follow_up: FollowUp \cup {Nothing}])
  /\ answers \in Seq([request: 1..MaxCalls, response: 0..MaxCalls])
  /\ first \in [Masters -> 0..Modulus - 1]
  /\ sent \in [Masters -> 0..MaxSyncs]
  /\ net \subseteq Message /\ doubled \subseteq Message

\* A two-step sample is made of a Sync and its own Follow_Up, whatever is lost,
\* late, doubled or in the wrong order, and also where the numbers wrap.  The
\* path that starts from a Follow_Up takes any Follow_Up of the same number in
\* the end, so there this holds of samples from one source.
SamplePaired ==
  \A i \in DOMAIN samples : LET s == samples[i] IN
    s.path \in {"sync_led", "follow_up_led"} =>
      /\ s.path = "sync_led" => s.follow_up.src = s.sync.src
      /\ s.follow_up.src = s.sync.src => s.follow_up.n = s.sync.n

\* No message serves for two samples, unless the network has doubled it.
UsedIn(m) == {i \in DOMAIN samples : m \in {samples[i].sync, samples[i].follow_up}}

SampleIsFresh ==
  \A i \in DOMAIN samples : \A m \in {samples[i].sync, samples[i].follow_up} \ {Nothing} :
    UsedIn(m) = {i} \/ m \in doubled

\* An exchange that succeeds has the answer to its own request and not a late
\* one to an earlier request that was given up.
DelayAnswered ==
  \A i \in DOMAIN answers : answers[i].response \in {0, answers[i].request}

\* Each call returns by itself, although it has waits within waits and no
\* message need ever come.
CallEnds == (pc # "idle") ~> (pc = "idle")

(***************************************************************************)
(* What the documentation says and the code does not do.                   *)
(***************************************************************************)
\* A Follow_Up is used without a Sync only if its Sync is not in the buffer.
DegradedOnlyWithoutSync ==
  [][pc = "last" /\ pc' = "degrade" =>
       \A i \in DOMAIN buf : ~Matches(buf[i], "sync", held')]_vars

=============================================================================
