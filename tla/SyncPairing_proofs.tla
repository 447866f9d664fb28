------------------------- MODULE SyncPairing_proofs -------------------------
(***************************************************************************)
(* For any number of masters, messages, copies and places in the buffer: a *)
(* sample is a Sync with its own Follow_Up, a Delay_Resp that is taken     *)
(* answers the request it is taken for, and no message serves twice.       *)
(*                                                                         *)
(* The client compares numbers that wrap; that it gets the right message   *)
(* all the same rests on the assumption that no more than one round of     *)
(* numbers is in use (NumbersDiffer).                                      *)
(***************************************************************************)
EXTENDS SyncPairing, SequenceTheorems, FiniteSetTheorems, TLAPS

-----------------------------------------------------------------------------
(***************************************************************************)
(* Numbers.                                                                *)
(***************************************************************************)
LEMMA RemainderType ==
  ASSUME NEW x \in Int, NEW m \in Nat \ {0}
  PROVE  x \div m \in Int /\ x % m \in 0..m - 1
  OBVIOUS

LEMMA Division ==
  ASSUME NEW x \in Int, NEW m \in Nat \ {0}
  PROVE  x = m * (x \div m) + (x % m)
  BY Z3

\* A multiple of m that is less than m away from zero is zero.
LEMMA SmallMultiple ==
  ASSUME NEW m \in Nat \ {0}, NEW k \in Int, m * k < m, -m < m * k
  PROVE  k = 0
<1>1. CASE k >= 1
  <2>1. m * k >= m
    BY <1>1, Z3
  <2> QED BY <2>1
<1>2. CASE k <= -1
  <2>1. m * k <= -m
    BY <1>2, Z3
  <2> QED BY <2>1
<1> QED BY <1>1, <1>2

\* Within one round numbers that are equal belong to the same message.
LEMMA NumbersDiffer ==
  ASSUME NEW m \in Nat \ {0}, NEW x \in Int, NEW y \in Int,
         x % m = y % m, x - y < m, y - x < m
  PROVE  x = y
<1> DEFINE p == x \div m
           q == y \div m
<1>1. p \in Int /\ q \in Int /\ x % m \in Int
  BY RemainderType
<1>2. x = m * p + (x % m) /\ y = m * q + (x % m)
  BY Division
<1> HIDE DEF p, q
<1>3. x - y = m * (p - q)
  BY <1>1, <1>2, Z3
<1>4. p - q \in Int
  BY <1>1
<1>5. p - q = 0
  BY <1>3, <1>4, SmallMultiple
<1> QED BY <1>1, <1>2, <1>5

\* allocate_sequence_id: the n-th number is n modulo the number of numbers.
LEMMA NextNumber ==
  ASSUME NEW m \in Nat \ {0}, NEW n \in Nat
  PROVE  ((n % m) + 1) % m = (n + 1) % m
<1> DEFINE x == (n % m) + 1
           y == n + 1
           p == x \div m
           q == y \div m
           k == n \div m
           r == x % m
           s == y % m
<1>1. x \in Int /\ y \in Int /\ p \in Int /\ q \in Int /\ k \in Int
  BY RemainderType
<1>2. r \in 0..m - 1 /\ s \in 0..m - 1
  BY <1>1, RemainderType
<1>3. x = m * p + r /\ y = m * q + s
  BY <1>1, Division
<1>4. y - x = m * k
  <2>1. n = m * k + (n % m)
    BY Division
  <2>2. n % m \in Int /\ m * k \in Int
    BY <1>1, RemainderType
  <2> QED BY <2>1, <2>2
<1> HIDE DEF p, q, k, x, y, r, s
<1>5. r - s = m * (q - p - k)
  <2>1. m * (q - p - k) = m * q - m * p - m * k
    BY <1>1
  <2>2. m * p \in Int /\ m * q \in Int /\ m * k \in Int
    BY <1>1
  <2> QED BY <1>1, <1>2, <1>3, <1>4, <2>1, <2>2
<1>6. q - p - k = 0
  <2>1. q - p - k \in Int
    BY <1>1
  <2> QED BY <1>2, <1>5, <2>1, SmallMultiple
<1>7. r = s
  BY <1>2, <1>5, <1>6
<1> QED BY <1>7 DEF x, y, r, s

-----------------------------------------------------------------------------
(***************************************************************************)
(* The buffer.                                                             *)
(***************************************************************************)
\* The oldest of some messages in the buffer is one of them.
LEMMA MinIsIn ==
  ASSUME NEW I \in SUBSET Nat, I # {}
  PROVE  Min(I) \in I /\ \A i \in I : Min(I) <= i
<1> DEFINE below(x) == {j \in I : j < x}
           T == {below(x) : x \in I}
<1>1. T # {} /\ T \subseteq FiniteSubsetsOf(Nat)
  <2>1. ASSUME NEW x \in I PROVE IsFiniteSet(below(x))
    BY FS_BoundedSetOfNaturals
  <2> QED BY <2>1 DEF FiniteSubsetsOf
<1>2. PICK U \in T : \A V \in T : <<V, U>> \notin StrictSubsetOrdering(Nat)
  <2> HIDE DEF T
  <2> QED BY <1>1, WFMin, FS_StrictSubsetOrderingWellFounded
<1>3. PICK x \in I : U = below(x)
  OBVIOUS
<1>4. ASSUME NEW y \in I, y < x PROVE FALSE
  <2>1. y \in below(x) /\ y \notin below(y)
    BY <1>4
  <2>2. below(y) \subseteq below(x)
    <3>1. \A j \in I : j < y => j < x
      BY <1>4
    <3> QED BY <3>1
  <2>3. <<below(y), below(x)>> \in StrictSubsetOrdering(Nat)
    BY <2>1, <2>2 DEF StrictSubsetOrdering
  <2> QED BY <1>2, <1>3, <2>3
<1>5. \A y \in I : x <= y
  BY <1>4
<1> QED BY <1>5 DEF Min

\* del self._general_buf[idx]
LEMMA RemovedOne ==
  ASSUME NEW S, NEW s \in Seq(S), NEW i \in 1..Len(s)
  PROVE  /\ RemoveAt(s, i) \in Seq(S)
         /\ Len(RemoveAt(s, i)) = Len(s) - 1
         /\ \A j \in 1..Len(s) - 1 : RemoveAt(s, i)[j] = IF j < i THEN s[j] ELSE s[j + 1]
<1>1. Len(s) \in Nat /\ \A j \in 1..Len(s) : s[j] \in S
  BY LenProperties, ElementOfSeq
<1> DEFINE before == SubSeq(s, 1, i - 1)
           after == SubSeq(s, i + 1, Len(s))
<1>2. /\ before \in Seq(S) /\ Len(before) = i - 1
      /\ \A j \in 1..i - 1 : before[j] = s[j]
  BY <1>1, SubSeqProperties
<1>3. /\ after \in Seq(S) /\ Len(after) = Len(s) - i
      /\ \A j \in 1..Len(s) - i : after[j] = s[i + j]
  BY <1>1, SubSeqProperties
<1>4. RemoveAt(s, i) = before \o after
  BY DEF RemoveAt
<1> HIDE DEF before, after
<1>5. /\ before \o after \in Seq(S) /\ Len(before \o after) = Len(before) + Len(after)
      /\ \A j \in 1..Len(before) + Len(after) :
           (before \o after)[j] = IF j <= Len(before) THEN before[j] ELSE after[j - Len(before)]
  BY <1>2, <1>3, ConcatProperties
<1>6. i \in Int /\ (i - 1) + (Len(s) - i) = Len(s) - 1
  BY <1>1
<1>7. \A j \in 1..Len(s) - 1 :
        (before \o after)[j] = IF j < i THEN s[j] ELSE s[j + 1]
  <2> TAKE j \in 1..Len(s) - 1
  <2>1. (before \o after)[j] = IF j <= i - 1 THEN before[j] ELSE after[j - (i - 1)]
    BY <1>2, <1>3, <1>5, <1>6
  <2>2. CASE j < i
    BY <1>1, <1>2, <2>1, <2>2
  <2>3. CASE j >= i
    <3>1. j - (i - 1) \in 1..Len(s) - i /\ i + (j - (i - 1)) = j + 1
      BY <1>1, <2>3
    <3>2. after[j - (i - 1)] = s[j + 1]
      BY <1>3, <3>1
    <3>3. ~(j <= i - 1) /\ ~(j < i)
      BY <1>1, <1>6, <2>3
    <3> QED BY <2>1, <3>2, <3>3
  <2>4. j < i \/ j >= i
    BY <1>1, <1>6
  <2> QED BY <2>2, <2>3, <2>4
<1> QED BY <1>2, <1>3, <1>4, <1>5, <1>6, <1>7

-----------------------------------------------------------------------------
(***************************************************************************)
(* The inductive invariant.                                                *)
(***************************************************************************)
\* What the masters send: an answer has the number of the request it answers.
Genuine == Sync \cup FollowUp \cup {m \in DelayResp : m.seq = m.n % Modulus}

\* What the calls may return.
Sample == [path: Paths, sync: Sync \cup {Nothing}, follow_up: FollowUp \cup {Nothing}]

Paired(s) ==
  s.path \in {"sync_led", "follow_up_led"} =>
    /\ s.path = "sync_led" => s.follow_up.src = s.sync.src
    /\ s.follow_up.src = s.sync.src => s.follow_up.n = s.sync.n

Answer == [request: 1..MaxCalls, response: 0..MaxCalls]

\* The message in hand is of the kind that the caller takes it for where it
\* stands, and the Sync it has found belongs to the Follow_Up in hand.
Hand ==
  /\ pc \in {"idle", "head", "scan", "scanned", "follow", "led", "led_missed", "led_found",
             "last", "degrade", "delay"}
  /\ late \in BOOLEAN
  /\ held \in Message \cup DelayReq \cup {Nothing}
  /\ partner \in Sync \cup {Nothing}
  /\ pc = "follow" => held \in Sync
  /\ pc \in {"led", "led_missed", "led_found", "degrade"} => held \in FollowUp
  /\ pc = "led_found" => partner \in Sync /\ partner.src = held.src /\ partner.n = held.n
  /\ pc = "delay" => held \in DelayReq /\ held.seq = held.n % Modulus

Buffered == buf \in Seq(Genuine) /\ Len(buf) <= GeneralBufMax

Numbered == asked \in 0..MaxCalls /\ seq = asked % Modulus

Results ==
  /\ samples \in Seq({s \in Sample : Paired(s)})
  /\ answers \in Seq({a \in Answer : a.response \in {0, a.request}})

Sources == first \in [Masters -> 0..Modulus - 1] /\ sent \in [Masters -> 0..MaxSyncs]

Network == net \subseteq Genuine /\ doubled \subseteq Message

IInv == Hand /\ Buffered /\ Numbered /\ Results /\ Sources /\ Network

-----------------------------------------------------------------------------
(***************************************************************************)
(* What the buffer gives.                                                  *)
(***************************************************************************)
LEMMA Constants ==
  /\ Modulus \in Nat \ {0} /\ GeneralBufMax \in Nat \ {0}
  /\ MaxSyncs \in Nat /\ MaxCalls \in Nat
  /\ MaxSyncs <= Modulus /\ MaxCalls <= Modulus
  BY PairingAssumption

LEMMA Kinds ==
  ASSUME NEW m \in Genuine
  PROVE  /\ m \in Message
         /\ m.kind = "sync" => m \in Sync
         /\ m.kind = "follow_up" => m \in FollowUp
         /\ m.kind = "delay_resp" => m \in DelayResp /\ m.seq = m.n % Modulus
  BY DEF Genuine, Message, Sync, FollowUp, DelayResp

\* What is found at some places is a message of the buffer, and the buffer
\* without it is a buffer.
LEMMA Taken ==
  ASSUME Buffered, NEW I \in SUBSET DOMAIN buf, I # {}
  PROVE  /\ Min(I) \in I /\ Oldest(I) = buf[Min(I)] /\ Oldest(I) \in Genuine
         /\ Without(I) \in Seq(Genuine)
         /\ Len(Without(I)) <= GeneralBufMax
<1>1. DOMAIN buf = 1..Len(buf) /\ Len(buf) \in Nat
  BY LenProperties DEF Buffered
<1>2. Min(I) \in I /\ Min(I) \in 1..Len(buf)
  BY <1>1, MinIsIn
<1>3. Oldest(I) \in Genuine
  BY <1>2, ElementOfSeq DEF Oldest, Buffered
<1>4. Without(I) \in Seq(Genuine) /\ Len(Without(I)) = Len(buf) - 1
  BY <1>2, RemovedOne DEF Without, Buffered
<1>5. Len(Without(I)) <= GeneralBufMax
  BY <1>1, <1>4, Constants DEF Buffered
<1> QED BY <1>2, <1>3, <1>4, <1>5 DEF Oldest

\* Messages of one source with the same number are the n-th of their kind.
LEMMA SameN ==
  ASSUME Sources, NEW m \in Sync \cup FollowUp, NEW o \in Sync \cup FollowUp,
         m.src = o.src, SequenceId(m) = SequenceId(o)
  PROVE  m.n = o.n
<1> DEFINE f == first[m.src]
           x == f + m.n - 1
           y == f + o.n - 1
<1>1. m.src \in Masters /\ m.n \in 1..MaxSyncs /\ o.n \in 1..MaxSyncs
  BY DEF Sync, FollowUp
<1>2. f \in Int
  BY <1>1, Constants DEF Sources
<1>3. x % Modulus = y % Modulus
  BY DEF SequenceId
<1> HIDE DEF f
<1>4. x \in Int /\ y \in Int /\ x - y < Modulus /\ y - x < Modulus
  BY <1>1, <1>2, Constants
<1> HIDE DEF x, y
<1>5. x = y
  BY <1>3, <1>4, Constants, NumbersDiffer
<1>6. f + m.n - 1 = f + o.n - 1
  BY <1>5 DEF x, y
<1> QED BY <1>1, <1>2, <1>6, Constants

LEMMA SameAnswer ==
  ASSUME NEW a \in 1..MaxCalls, NEW b \in 1..MaxCalls, a % Modulus = b % Modulus
  PROVE  a = b
<1>1. a - b < Modulus /\ b - a < Modulus /\ a \in Int /\ b \in Int
  BY Constants
<1> QED BY <1>1, Constants, NumbersDiffer

-----------------------------------------------------------------------------
(***************************************************************************)
(* The parts of a step.                                                    *)
(***************************************************************************)
\* The call goes on, or begins, with nothing in hand.
LEMMA WithNothing ==
  ASSUME Hand, NEW place \in {"head", "scan", "scanned", "last", "idle"},
         Goto(place, Nothing), late' \in BOOLEAN, UNCHANGED partner
  PROVE  Hand'
  BY DEF Hand, Goto

\* A Follow_Up is taken in hand to look for its Sync.
LEMMA WithFollowUp ==
  ASSUME Hand, NEW place \in {"led", "degrade"}, NEW m \in FollowUp,
         Goto(place, m), UNCHANGED <<late, partner>>
  PROVE  Hand'
  BY DEF Hand, Goto, Message

\* What is returned is a sample, and the call is over.
LEMMA Returned ==
  ASSUME Hand, Results, NEW path \in Paths,
         NEW sync \in Sync \cup {Nothing}, NEW follow_up \in FollowUp \cup {Nothing},
         Paired([path |-> path, sync |-> sync, follow_up |-> follow_up]),
         Return(path, sync, follow_up), UNCHANGED late
  PROVE  Hand' /\ Results'
<1> DEFINE s == [path |-> path, sync |-> sync, follow_up |-> follow_up]
           S == {t \in Sample : Paired(t)}
<1>1. Hand'
  BY DEF Hand, Return
<1>2. s \in S
  BY DEF Sample
<1>3. samples \in Seq(S) /\ samples' = Append(samples, s) /\ answers' = answers
  BY DEF Results, Return
<1> HIDE DEF s, S
<1>4. samples' \in Seq(S)
  BY <1>2, <1>3, AppendProperties
<1> QED BY <1>1, <1>3, <1>4 DEF Results, S

LEMMA AnsweredOnce ==
  ASSUME Hand, Results, pc = "delay", NEW n \in {0, held.n},
         Answered(n), UNCHANGED late
  PROVE  Hand' /\ Results'
<1> DEFINE a == [request |-> held.n, response |-> n]
           A == {b \in Answer : b.response \in {0, b.request}}
<1>1. Hand'
  BY WithNothing DEF Hand, Answered, Goto
<1>2. held.n \in 1..MaxCalls
  BY DEF Hand, DelayReq
<1>3. a \in A
  BY <1>2, Constants DEF Answer
<1>4. answers \in Seq(A) /\ answers' = Append(answers, a) /\ samples' = samples
  BY DEF Results, Answered
<1> HIDE DEF a, A
<1>5. answers' \in Seq(A)
  BY <1>3, <1>4, AppendProperties
<1> QED BY <1>1, <1>4, <1>5 DEF Results, A

\* The buffer after the oldest message at some places is taken out.
LEMMA BufferedWithout ==
  ASSUME Buffered, NEW I \in SUBSET DOMAIN buf, I # {}, buf' = Without(I)
  PROVE  Buffered'
  BY Taken DEF Buffered

LEMMA CandidateIsFollowUp ==
  ASSUME Buffered, Sources, FollowUps # {}
  PROVE  Candidate \in FollowUp /\ \E i \in DOMAIN buf : buf[i] = Candidate
<1> DEFINE gap(i) == Modulus - SequenceId(buf[i])
           greatest == {i \in FollowUps : \A j \in FollowUps :
                          SequenceId(buf[i]) >= SequenceId(buf[j])}
           G == {gap(i) : i \in FollowUps}
<1>1. DOMAIN buf = 1..Len(buf) /\ \A i \in FollowUps : buf[i] \in Genuine /\ buf[i] \in FollowUp
  BY LenProperties, ElementOfSeq, Kinds DEF Buffered, FollowUps
<1>2. \A i \in FollowUps : SequenceId(buf[i]) \in 0..Modulus - 1
  <2> TAKE i \in FollowUps
  <2> DEFINE x == first[buf[i].src] + buf[i].n - 1
  <2>1. buf[i].src \in Masters /\ buf[i].n \in 1..MaxSyncs
    BY <1>1 DEF FollowUp
  <2>2. first[buf[i].src] \in Int
    BY <2>1, Constants DEF Sources
  <2>3. x \in Int
    BY <2>1, <2>2, Constants
  <2> HIDE DEF x
  <2>4. x % Modulus \in 0..Modulus - 1
    BY <2>3, Constants, RemainderType
  <2> QED BY <2>4 DEF x, SequenceId
<1>3. G \in SUBSET Nat /\ G # {}
  <2>1. \A i \in FollowUps : gap(i) \in Nat
    BY <1>2, Constants
  <2> QED BY <2>1
<1>4. PICK i \in FollowUps : Min(G) = gap(i)
  BY <1>3, MinIsIn
<1>5. \A j \in FollowUps : gap(i) <= gap(j)
  <2>1. \A j \in FollowUps : gap(j) \in G
    OBVIOUS
  <2>2. \A g \in G : Min(G) <= g
    BY <1>3, MinIsIn
  <2> QED BY <1>4, <2>1, <2>2
<1>6. i \in greatest
  BY <1>2, <1>5, Constants
<1>7. greatest \in SUBSET DOMAIN buf /\ greatest # {}
  BY <1>6 DEF FollowUps
<1>8. Min(greatest) \in greatest /\ Oldest(greatest) = buf[Min(greatest)]
  <2> HIDE DEF greatest
  <2> QED BY <1>7, Taken
<1>9. /\ Oldest(greatest) \in FollowUp
      /\ \E j \in DOMAIN buf : buf[j] = Oldest(greatest)
  <2>1. Min(greatest) \in FollowUps /\ Min(greatest) \in DOMAIN buf
    BY <1>7, <1>8
  <2> HIDE DEF greatest
  <2> QED BY <1>1, <1>8, <2>1
<1> QED BY <1>9 DEF Candidate

-----------------------------------------------------------------------------
(***************************************************************************)
(* The invariant holds at first and is kept by every step.                 *)
(***************************************************************************)
LEMMA InitIInv == Init => IInv
<1> SUFFICES ASSUME Init PROVE IInv
  OBVIOUS
<1>1. Hand
  BY DEF Init, Hand
<1>2. Buffered
  BY Constants, EmptySeq DEF Init, Buffered
<1>3. Numbered
  <2>1. 0 % Modulus = 0
    BY Constants
  <2> QED BY <2>1, Constants DEF Init, Numbered
<1>4. Results
  BY EmptySeq DEF Init, Results
<1>5. Sources
  <2>1. FirstIds \subseteq 0..Modulus - 1
    BY PairingAssumption
  <2>2. first \in [Masters -> 0..Modulus - 1]
    BY <2>1 DEF Init
  <2>3. sent \in [Masters -> 0..MaxSyncs]
    BY Constants DEF Init
  <2> QED BY <2>2, <2>3 DEF Sources
<1>6. Network
  BY DEF Init, Network
<1> QED BY <1>1, <1>2, <1>3, <1>4, <1>5, <1>6 DEF IInv

LEMMA UnchangedParts ==
  /\ Hand /\ UNCHANGED caller => Hand'
  /\ Buffered /\ UNCHANGED buf => Buffered'
  /\ Numbered /\ UNCHANGED <<seq, asked>> => Numbered'
  /\ Results /\ UNCHANGED results => Results'
  /\ Sources /\ UNCHANGED masters => Sources'
  /\ Network /\ UNCHANGED <<net, doubled>> => Network'
  BY DEF Hand, Buffered, Numbered, Results, Sources, Network, caller, results, masters

\* The steps of wait_sync_sample that take nothing out of the buffer.
LEMMA LookingKeeps ==
  ASSUME IInv,
         \/ CallWaitSync \/ LoopHead \/ ScanMisses \/ LedBegins \/ LedMisses
         \/ LedTimesOut \/ FollowTimesOut \/ LastChance \/ DeadlinePasses
  PROVE  IInv'
<1>1. Hand /\ Buffered /\ Results /\ Sources
  BY DEF IInv
<1>2. Hand' /\ Results'
  <2>1. CASE CallWaitSync
    BY <1>1, <2>1, WithNothing, UnchangedParts DEF CallWaitSync
  <2>2. CASE LoopHead
    <3>1. (IF late THEN "last" ELSE "scan") \in {"head", "scan", "scanned", "last", "idle"}
      OBVIOUS
    <3> QED BY <1>1, <2>2, <3>1, WithNothing, UnchangedParts DEF LoopHead, Hand
  <2>3. CASE ScanMisses
    BY <1>1, <2>3, WithNothing, UnchangedParts DEF ScanMisses, Hand
  <2>4. CASE LedBegins
    <3>1. CASE FollowUps = {}
      BY <1>1, <2>4, <3>1, WithNothing, UnchangedParts DEF LedBegins, Hand
    <3>2. CASE FollowUps # {}
      BY <1>1, <2>4, <3>2, WithFollowUp, CandidateIsFollowUp, UnchangedParts DEF LedBegins
    <3> QED BY <3>1, <3>2
  <2>5. CASE LedMisses
    <3>1. Hand'
      BY <1>1, <2>5 DEF LedMisses, Hand
    <3> QED BY <1>1, <2>5, <3>1, UnchangedParts DEF LedMisses
  <2>6. CASE LedTimesOut
    BY <1>1, <2>6, WithNothing, UnchangedParts DEF LedTimesOut, Hand
  <2>7. CASE FollowTimesOut
    BY <1>1, <2>7, Returned DEF FollowTimesOut, Paths, Paired
  <2>8. CASE LastChance
    <3>1. CASE FollowUps = {}
      BY <1>1, <2>8, <3>1, Returned DEF LastChance, Paths, Paired
    <3>2. CASE FollowUps # {}
      BY <1>1, <2>8, <3>2, WithFollowUp, CandidateIsFollowUp, UnchangedParts DEF LastChance, results
    <3> QED BY <3>1, <3>2
  <2>9. CASE DeadlinePasses
    <3>1. Hand'
      BY <1>1, <2>9 DEF DeadlinePasses, Hand
    <3> QED BY <1>1, <2>9, <3>1, UnchangedParts DEF DeadlinePasses
  <2> QED BY <2>1, <2>2, <2>3, <2>4, <2>5, <2>6, <2>7, <2>8, <2>9
<1>3. UNCHANGED <<buf, seq, asked, masters, net, doubled>>
  BY DEF CallWaitSync, LoopHead, ScanMisses, LedBegins, LedMisses, LedTimesOut,
         FollowTimesOut, LastChance, DeadlinePasses
<1> QED BY <1>2, <1>3, UnchangedParts DEF IInv

\* The steps of wait_sync_sample that take a message out of the buffer.
LEMMA ScanFindsKeeps ==
  ASSUME IInv, ScanFinds
  PROVE  IInv'
<1> DEFINE m == Oldest(Syncs)
<1>1. Hand /\ Buffered /\ Results
  BY DEF IInv
<1>2. m \in Sync
  <2>1. Syncs \in SUBSET DOMAIN buf /\ Syncs # {}
    BY DEF Syncs, ScanFinds
  <2>2. Min(Syncs) \in Syncs /\ m = buf[Min(Syncs)] /\ m \in Genuine
    BY <1>1, <2>1, Taken
  <2> QED BY <2>2, Kinds DEF Syncs
<1>3. Buffered'
  <2>1. Syncs \in SUBSET DOMAIN buf
    BY DEF Syncs
  <2> QED BY <1>1, <2>1, BufferedWithout DEF ScanFinds
<1> HIDE DEF m
<1>4. Hand' /\ Results'
  <2>1. CASE m.two_step
    <3>1. pc' = "follow" /\ held' = m /\ UNCHANGED <<late, partner, results>>
      BY <2>1 DEF ScanFinds, Goto, m
    <3>2. Hand'
      BY <1>1, <1>2, <3>1 DEF Hand, Message
    <3> QED BY <1>1, <3>1, <3>2, UnchangedParts
  <2>2. CASE ~m.two_step
    <3>1. Return("one_step", m, Nothing) /\ UNCHANGED late
      BY <2>2 DEF ScanFinds, m
    <3> QED BY <1>1, <1>2, <3>1, Returned DEF Paths, Paired
  <2> QED BY <2>1, <2>2
<1>5. UNCHANGED <<seq, asked, masters, net, doubled>>
  BY DEF ScanFinds
<1> QED BY <1>3, <1>4, <1>5, UnchangedParts DEF IInv

\* What matches the message in hand is of the kind and source asked for and
\* has its n.
LEMMA Accepted ==
  ASSUME Buffered, Sources, NEW kind \in {"sync", "follow_up"},
         NEW other \in Sync \cup FollowUp, Matching(kind, other) # {}
  PROVE  LET m == Oldest(Matching(kind, other)) IN
         /\ m \in IF kind = "sync" THEN Sync ELSE FollowUp
         /\ m.src = other.src /\ m.n = other.n
<1> DEFINE I == Matching(kind, other)
           m == Oldest(I)
<1>1. I \in SUBSET DOMAIN buf
  BY DEF Matching
<1>2. Min(I) \in I /\ m = buf[Min(I)] /\ m \in Genuine
  <2> HIDE DEF I
  <2> QED BY <1>1, Taken DEF I
<1>3. m.kind = kind /\ m.src = other.src /\ SequenceId(m) = SequenceId(other)
  BY <1>2 DEF Matching, Matches
<1> HIDE DEF m
<1>4. m \in IF kind = "sync" THEN Sync ELSE FollowUp
  BY <1>2, <1>3, Kinds
<1>5. m.n = other.n
  BY <1>3, <1>4, SameN
<1> QED BY <1>3, <1>4, <1>5 DEF m

LEMMA FollowFindsKeeps ==
  ASSUME IInv, FollowFinds
  PROVE  IInv'
<1> DEFINE I == Matching("follow_up", held)
           m == Oldest(I)
<1>1. Hand /\ Buffered /\ Results /\ Sources
  BY DEF IInv
<1>2. held \in Sync /\ I # {} /\ buf' = Without(I) /\ Return("sync_led", held, m)
      /\ UNCHANGED late
  BY <1>1 DEF FollowFinds, Hand
<1>3. m \in FollowUp /\ m.src = held.src /\ m.n = held.n
  BY <1>1, <1>2, Accepted
<1>4. Buffered'
  <2>1. I \in SUBSET DOMAIN buf
    BY DEF Matching
  <2> HIDE DEF I
  <2> QED BY <1>1, <1>2, <2>1, BufferedWithout
<1> HIDE DEF I, m
<1>5. Hand' /\ Results'
  <2>1. Paired([path |-> "sync_led", sync |-> held, follow_up |-> m])
    BY <1>3 DEF Paired
  <2> QED BY <1>1, <1>2, <1>3, <2>1, Returned DEF Paths
<1>6. UNCHANGED <<seq, asked, masters, net, doubled>>
  BY DEF FollowFinds
<1> QED BY <1>4, <1>5, <1>6, UnchangedParts DEF IInv

LEMMA LedFindsKeeps ==
  ASSUME IInv, LedFinds
  PROVE  IInv'
<1> DEFINE I == Matching("sync", held)
           m == Oldest(I)
<1>1. Hand /\ Buffered /\ Results /\ Sources
  BY DEF IInv
<1>2. held \in FollowUp /\ I # {} /\ buf' = Without(I) /\ partner' = m
      /\ pc' = "led_found" /\ UNCHANGED <<late, held, results>>
  BY <1>1 DEF LedFinds, Hand
<1>3. m \in Sync /\ m.src = held.src /\ m.n = held.n
  BY <1>1, <1>2, Accepted
<1>4. Buffered'
  <2>1. I \in SUBSET DOMAIN buf
    BY DEF Matching
  <2> HIDE DEF I
  <2> QED BY <1>1, <1>2, <2>1, BufferedWithout
<1> HIDE DEF I, m
<1>5. Hand'
  BY <1>1, <1>2, <1>3 DEF Hand
<1>6. UNCHANGED <<seq, asked, masters, net, doubled>>
  BY DEF LedFinds
<1> QED BY <1>1, <1>2, <1>4, <1>5, <1>6, UnchangedParts DEF IInv

\* _try_sync_sample_follow_up_led, after the Sync: a Follow_Up with the number
\* of the one in hand, if it comes from the same source, is the one in hand.
LEMMA TakeFollowUpKeeps ==
  ASSUME IInv, held \in FollowUp, NEW path \in {"follow_up_led", "degraded"},
         NEW sync \in Sync \cup {Nothing}, TakeFollowUp(path, sync), UNCHANGED late,
         path = "follow_up_led" => sync.src = held.src /\ sync.n = held.n
  PROVE  Hand' /\ Buffered' /\ Results'
<1> DEFINE I == SameNumber(held)
           m == Oldest(I)
<1>1. Hand /\ Buffered /\ Results /\ Sources
  BY DEF IInv
<1>2. CASE I = {}
  <2>1. Return(path, sync, held) /\ UNCHANGED buf
    BY <1>2 DEF TakeFollowUp
  <2>2. Paired([path |-> path, sync |-> sync, follow_up |-> held])
    BY DEF Paired
  <2> QED BY <1>1, <2>1, <2>2, Returned, UnchangedParts DEF Paths
<1>3. CASE I # {}
  <2>1. Return(path, sync, m) /\ buf' = Without(I)
    BY <1>3 DEF TakeFollowUp
  <2>2. I \in SUBSET DOMAIN buf
    BY DEF SameNumber, FollowUps
  <2>3. Min(I) \in I /\ m = buf[Min(I)] /\ m \in Genuine /\ Buffered'
    <3> HIDE DEF I
    <3> QED BY <1>1, <1>3, <2>1, <2>2, Taken, BufferedWithout
  <2>4. m.kind = "follow_up" /\ SequenceId(m) = SequenceId(held)
    BY <2>3 DEF SameNumber, FollowUps
  <2> HIDE DEF m
  <2>5. m \in FollowUp
    BY <2>3, <2>4, Kinds
  <2>6. m.src = held.src => m.n = held.n
    BY <1>1, <2>4, <2>5, SameN
  <2>7. Paired([path |-> path, sync |-> sync, follow_up |-> m])
    BY <2>6 DEF Paired
  <2> QED BY <1>1, <2>1, <2>3, <2>5, <2>7, Returned DEF Paths
<1> QED BY <1>2, <1>3

LEMMA LedPairsKeeps ==
  ASSUME IInv, LedPairs \/ Degrade
  PROVE  IInv'
<1>1. Hand' /\ Buffered' /\ Results'
  <2>1. CASE LedPairs
    <3>1. held \in FollowUp /\ partner \in Sync /\ partner.src = held.src
          /\ partner.n = held.n
      BY <2>1 DEF IInv, Hand, LedPairs
    <3>2. TakeFollowUp("follow_up_led", partner) /\ UNCHANGED late
      BY <2>1 DEF LedPairs
    <3> QED BY <3>1, <3>2, TakeFollowUpKeeps
  <2>2. CASE Degrade
    <3>1. held \in FollowUp
      BY <2>2 DEF IInv, Hand, Degrade
    <3>2. TakeFollowUp("degraded", Nothing) /\ UNCHANGED late
      BY <2>2 DEF Degrade
    <3> QED BY <3>1, <3>2, TakeFollowUpKeeps
  <2> QED BY <2>1, <2>2
<1>2. UNCHANGED <<seq, asked, masters, net, doubled>>
  BY DEF LedPairs, Degrade
<1>3. Numbered /\ Sources /\ Network
  BY DEF IInv
<1> QED BY <1>1, <1>2, <1>3, UnchangedParts DEF IInv

\* exchange_delay
LEMMA SendDelayReqKeeps ==
  ASSUME IInv, SendDelayReq
  PROVE  IInv'
<1>1. Hand /\ Buffered /\ Results /\ Sources /\ Network
  BY DEF IInv
<1>2. asked \in 0..MaxCalls /\ asked < MaxCalls /\ asked' = asked + 1
  <2>1. Len(samples) \in Nat
    BY <1>1, LenProperties DEF Results
  <2>2. asked \in 0..MaxCalls /\ Len(samples) + asked < MaxCalls /\ asked' = asked + 1
    BY DEF IInv, Numbered, SendDelayReq, Calls
  <2> QED BY <2>1, <2>2, Constants
<1>3. seq' = asked' % Modulus /\ seq' \in 0..Modulus - 1
  <2>1. seq' = ((asked % Modulus) + 1) % Modulus
    BY DEF IInv, Numbered, SendDelayReq
  <2>2. asked \in Nat
    BY <1>2, Constants
  <2>3. seq' = (asked + 1) % Modulus
    BY <2>1, <2>2, Constants, NextNumber
  <2>4. asked + 1 \in Int
    BY <2>2
  <2> QED BY <1>2, <2>3, <2>4, Constants, RemainderType
<1>4. Numbered'
  BY <1>2, <1>3, Constants DEF Numbered
<1>5. held' = [kind |-> "delay_req", n |-> asked', seq |-> seq'] /\ pc' = "delay"
      /\ late' = FALSE /\ partner' = partner
  BY <1>2 DEF SendDelayReq, Goto
<1>6. held' \in DelayReq /\ held'.seq = held'.n % Modulus
  <2>1. asked' \in 1..MaxCalls
    BY <1>2, Constants
  <2> QED BY <1>3, <1>5, <2>1 DEF DelayReq
<1>7. Hand'
  BY <1>1, <1>5, <1>6 DEF Hand
<1>8. UNCHANGED <<buf, results, masters, net, doubled>>
  BY DEF SendDelayReq
<1> QED BY <1>1, <1>4, <1>7, <1>8, UnchangedParts DEF IInv

LEMMA ExchangeKeeps ==
  ASSUME IInv, DelayRespFound \/ DelayTimesOut
  PROVE  IInv'
<1>1. Hand /\ Buffered /\ Numbered /\ Results /\ Sources /\ Network
  BY DEF IInv
<1>2. pc = "delay" /\ held \in DelayReq /\ held.seq = held.n % Modulus
  BY <1>1 DEF Hand, DelayRespFound, DelayTimesOut
<1>3. Hand' /\ Results' /\ Buffered'
  <2>1. CASE DelayTimesOut
    BY <1>1, <1>2, <2>1, AnsweredOnce, UnchangedParts DEF DelayTimesOut
  <2>2. CASE DelayRespFound
    <3> DEFINE I == AnswersTo(held)
               m == Oldest(I)
    <3>1. I # {} /\ buf' = Without(I) /\ Answered(m.n) /\ UNCHANGED late
      BY <2>2 DEF DelayRespFound
    <3>2. I \in SUBSET DOMAIN buf
      BY DEF AnswersTo
    <3>3. Min(I) \in I /\ m = buf[Min(I)] /\ m \in Genuine /\ Buffered'
      <4> HIDE DEF I
      <4> QED BY <1>1, <3>1, <3>2, Taken, BufferedWithout
    <3>4. m.kind = "delay_resp" /\ m.seq = held.seq
      BY <3>3 DEF AnswersTo, Answers
    <3> HIDE DEF m
    <3>5. m \in DelayResp /\ m.seq = m.n % Modulus
      BY <3>3, <3>4, Kinds
    <3>6. m.n = held.n
      <4>1. m.n \in 1..MaxCalls /\ held.n \in 1..MaxCalls
        BY <1>2, <3>5 DEF DelayResp, DelayReq
      <4> QED BY <1>2, <3>4, <3>5, <4>1, SameAnswer
    <3> QED BY <1>1, <1>2, <3>1, <3>3, <3>6, AnsweredOnce
  <2> QED BY <2>1, <2>2
<1>4. UNCHANGED <<seq, asked, masters, net, doubled>>
  BY DEF DelayRespFound, DelayTimesOut
<1> QED BY <1>1, <1>3, <1>4, UnchangedParts DEF IInv

\* The masters and the receiver thread.
LEMMA MasterSendsKeeps ==
  ASSUME IInv, NEW g \in Masters, NEW two_step \in TwoStep, MasterSends(g, two_step)
  PROVE  IInv'
<1>1. Hand /\ Buffered /\ Numbered /\ Results /\ Sources /\ Network
  BY DEF IInv
<1>2. sent[g] \in 0..MaxSyncs /\ sent[g] < MaxSyncs
  BY <1>1 DEF Sources, MasterSends
<1>3. sent[g] + 1 \in 1..MaxSyncs /\ two_step \in BOOLEAN
  BY <1>2, Constants, PairingAssumption
<1>4. Sources'
  <2>1. sent[g] + 1 \in 0..MaxSyncs
    BY <1>3, Constants
  <2>2. sent' = [sent EXCEPT ![g] = sent[g] + 1] /\ first' = first
    BY DEF MasterSends, masters
  <2> QED BY <1>1, <2>1, <2>2 DEF Sources
<1>5. Network'
  <2> DEFINE n == sent[g] + 1
             sync == [kind |-> "sync", src |-> g, n |-> n, two_step |-> two_step]
             follow_up == [kind |-> "follow_up", src |-> g, n |-> n]
  <2>1. sync \in Genuine /\ follow_up \in Genuine
    BY <1>3 DEF Genuine, Sync, FollowUp
  <2>2. net' \subseteq net \cup {sync, follow_up} /\ doubled' = doubled
    BY DEF MasterSends
  <2> HIDE DEF sync, follow_up
  <2> QED BY <1>1, <2>1, <2>2 DEF Network
<1>6. UNCHANGED <<caller, buf, seq, asked, results>>
  BY DEF MasterSends
<1> QED BY <1>1, <1>4, <1>5, <1>6, UnchangedParts DEF IInv

LEMMA MasterAnswersKeeps ==
  ASSUME IInv, MasterAnswers
  PROVE  IInv'
<1>1. Hand /\ Buffered /\ Numbered /\ Results /\ Sources /\ Network
  BY DEF IInv
<1>2. Network'
  <2> DEFINE m == [kind |-> "delay_resp", n |-> held.n, seq |-> held.seq]
  <2>1. held \in DelayReq /\ held.seq = held.n % Modulus
    BY <1>1 DEF Hand, MasterAnswers
  <2>2. m \in Genuine
    BY <2>1 DEF Genuine, DelayReq, DelayResp
  <2>3. net' = net \cup {m} /\ doubled' = doubled
    BY DEF MasterAnswers
  <2> HIDE DEF m
  <2> QED BY <1>1, <2>2, <2>3 DEF Network
<1>3. UNCHANGED <<caller, buf, seq, asked, results, masters>>
  BY DEF MasterAnswers
<1> QED BY <1>1, <1>2, <1>3, UnchangedParts DEF IInv

LEMMA ReceiveKeeps ==
  ASSUME IInv, NEW m \in net, Receive(m)
  PROVE  IInv'
<1>1. Hand /\ Buffered /\ Numbered /\ Results /\ Sources /\ Network
  BY DEF IInv
<1>2. m \in Genuine /\ m \in Message
  BY <1>1, Kinds DEF Network
<1>3. Buffered'
  <2> DEFINE b == Append(buf, m)
  <2>1. b \in Seq(Genuine) /\ Len(b) = Len(buf) + 1 /\ Len(buf) \in Nat
    BY <1>1, <1>2, AppendProperties, LenProperties DEF Buffered
  <2>2. buf' = IF Len(b) > GeneralBufMax THEN Tail(b) ELSE b
    BY DEF Receive
  <2>3. Len(buf) <= GeneralBufMax
    BY <1>1 DEF Buffered
  <2> HIDE DEF b
  <2>4. CASE Len(b) > GeneralBufMax
    <3>1. b # <<>>
      BY <2>1, EmptySeq
    <3>2. Tail(b) \in Seq(Genuine) /\ Len(Tail(b)) = Len(b) - 1
      BY <2>1, <3>1, HeadTailProperties
    <3> QED BY <2>1, <2>2, <2>3, <2>4, <3>2, Constants DEF Buffered
  <2>5. CASE ~(Len(b) > GeneralBufMax)
    BY <2>1, <2>2, <2>5, Constants DEF Buffered
  <2> QED BY <2>4, <2>5
<1>4. Network'
  BY <1>1, <1>2 DEF Network, Receive
<1>5. UNCHANGED <<caller, seq, asked, results, masters>>
  BY DEF Receive
<1> QED BY <1>1, <1>3, <1>4, <1>5, UnchangedParts DEF IInv

LEMMA NextIInv == IInv /\ [Next]_vars => IInv'
<1> SUFFICES ASSUME IInv, [Next]_vars PROVE IInv'
  OBVIOUS
<1>1. CASE UNCHANGED vars
  BY <1>1, UnchangedParts DEF IInv, vars, caller, results, masters
<1>2. CASE WaitSync \/ Exchange \/ CallWaitSync \/ SendDelayReq \/ DeadlinePasses
  BY <1>2, LookingKeeps, ScanFindsKeeps, FollowFindsKeeps, LedFindsKeeps, LedPairsKeeps,
     SendDelayReqKeeps, ExchangeKeeps DEF WaitSync, Exchange
<1>3. CASE \E g \in Masters, two_step \in TwoStep : MasterSends(g, two_step)
  BY <1>3, MasterSendsKeeps
<1>4. CASE MasterAnswers
  BY <1>4, MasterAnswersKeeps
<1>5. CASE \E m \in net : Receive(m)
  BY <1>5, ReceiveKeeps
<1> QED BY <1>1, <1>2, <1>3, <1>4, <1>5 DEF Next

LEMMA IInvHolds == Spec => []IInv
  BY InitIInv, NextIInv, PTL DEF Spec

-----------------------------------------------------------------------------
\* Every variable keeps its type, and the buffer its bound.
THEOREM TypeCorrect == Spec => []TypeOK
<1>1. IInv => TypeOK
  <2> SUFFICES ASSUME IInv PROVE TypeOK
    OBVIOUS
  <2>1. Genuine \subseteq Message
    BY Kinds
  <2>2. buf \in Seq(Message) /\ net \subseteq Message
    BY <2>1, SeqMonotonic DEF IInv, Buffered, Network
  <2>3. samples \in Seq(Sample) /\ answers \in Seq(Answer)
    <3>1. {s \in Sample : Paired(s)} \subseteq Sample
          /\ {a \in Answer : a.response \in {0, a.request}} \subseteq Answer
      OBVIOUS
    <3> QED BY <3>1, SeqMonotonic DEF IInv, Results
  <2>4. seq \in 0..Modulus - 1 /\ asked \in 0..MaxCalls
    <3>1. asked \in 0..MaxCalls /\ seq = asked % Modulus
      BY DEF IInv, Numbered
    <3>2. asked \in Int
      BY <3>1, Constants
    <3> QED BY <3>1, <3>2, Constants, RemainderType
  <2> QED
    BY <2>2, <2>3, <2>4 DEF TypeOK, IInv, Hand, Buffered, Sources, Network, Sample, Answer
<1> QED BY <1>1, IInvHolds, PTL

\* wait_sync_sample never mixes the Sync of one moment with the Follow_Up of
\* another of the same master, whatever the network does to them.
THEOREM SamplesPaired == Spec => []SamplePaired
<1>1. IInv => SamplePaired
  <2> SUFFICES ASSUME IInv, NEW i \in DOMAIN samples PROVE Paired(samples[i])
    BY DEF SamplePaired, Paired
  <2>1. samples \in Seq({s \in Sample : Paired(s)})
    BY DEF IInv, Results
  <2>2. samples[i] \in {s \in Sample : Paired(s)}
    BY <2>1, LenProperties, ElementOfSeq
  <2> QED BY <2>2
<1> QED BY <1>1, IInvHolds, PTL

\* exchange_delay never takes a late answer for the answer to its request.
THEOREM DelaysAnswered == Spec => []DelayAnswered
<1>1. IInv => DelayAnswered
  <2> SUFFICES ASSUME IInv, NEW i \in DOMAIN answers
               PROVE  answers[i].response \in {0, answers[i].request}
    BY DEF DelayAnswered
  <2>1. answers \in Seq({a \in Answer : a.response \in {0, a.request}})
    BY DEF IInv, Results
  <2>2. answers[i] \in {a \in Answer : a.response \in {0, a.request}}
    BY <2>1, LenProperties, ElementOfSeq
  <2> QED BY <2>2
<1> QED BY <1>1, IInvHolds, PTL


-----------------------------------------------------------------------------
(***************************************************************************)
(* No message serves twice.  A message the network has not doubled is in   *)
(* one place at a time: on its way, in the buffer, in the hands of the     *)
(* caller or in a sample.  The exception is the Follow_Up that the caller  *)
(* looks for a Sync for: it stays in the buffer, or is pushed out of it.   *)
(***************************************************************************)
Data == Sync \cup FollowUp

InBuf(m) == \E i \in DOMAIN buf : buf[i] = m

InHand(m) == partner = m \/ (held = m /\ m.kind = "sync")

UsedBy(m, s) == m \in {s.sync, s.follow_up}

HasUsed(m) == \E i \in DOMAIN samples : UsedBy(m, samples[i])

OnceInBuf(m) == \A i, j \in DOMAIN buf : (buf[i] = m /\ buf[j] = m) => i = j

UsedOnce(m) ==
  \A i, j \in DOMAIN samples : (UsedBy(m, samples[i]) /\ UsedBy(m, samples[j])) => i = j

OneCopy(m) ==
  /\ OnceInBuf(m) /\ UsedOnce(m)
  /\ m \in net => ~InBuf(m) /\ ~InHand(m) /\ held # m /\ ~HasUsed(m)
  /\ InBuf(m) => ~InHand(m) /\ ~HasUsed(m)
  /\ InHand(m) \/ held = m => ~HasUsed(m)

Around(m) == m \in net \/ InBuf(m) \/ InHand(m) \/ held = m \/ HasUsed(m)

SentBefore(m) == Around(m) => m.n <= sent[m.src]

Kept(m) == SentBefore(m) /\ (m \notin doubled => OneCopy(m))

CopiesInv == \A m \in Data : Kept(m)

LEMMA DataKinds ==
  ASSUME NEW m \in Data
  PROVE  /\ m # Nothing
         /\ m.kind \in {"sync", "follow_up"}
         /\ m \in Sync <=> m.kind = "sync"
         /\ m \in FollowUp <=> m.kind = "follow_up"
  BY DEF Data, Sync, FollowUp, Nothing

\* What is taken out of the buffer is not there any more, and the rest is as it was.
LEMMA OutOfBuffer ==
  ASSUME Buffered, NEW I \in SUBSET DOMAIN buf, I # {}, buf' = Without(I), NEW m
  PROVE  /\ InBuf(Oldest(I))
         /\ InBuf(m)' => InBuf(m)
         /\ OnceInBuf(m) => OnceInBuf(m)'
         /\ (OnceInBuf(m) /\ m = Oldest(I)) => ~InBuf(m)'
<1> DEFINE k == Min(I)
<1>1. buf \in Seq(Genuine) /\ DOMAIN buf = 1..Len(buf) /\ Len(buf) \in Nat
  BY LenProperties DEF Buffered
<1>2. k \in I /\ Oldest(I) = buf[k] /\ buf' = RemoveAt(buf, k)
  BY Taken DEF Without
<1>3. k \in 1..Len(buf)
  BY <1>1, <1>2
<1> HIDE DEF k
<1>4. /\ buf' \in Seq(Genuine) /\ Len(buf') = Len(buf) - 1
      /\ \A j \in 1..Len(buf) - 1 : buf'[j] = IF j < k THEN buf[j] ELSE buf[j + 1]
  BY <1>1, <1>2, <1>3, RemovedOne
<1>5. DOMAIN buf' = 1..Len(buf) - 1
  BY <1>4, LenProperties
<1>6. InBuf(Oldest(I))
  BY <1>1, <1>2, <1>3 DEF InBuf
<1> DEFINE old(j) == IF j < k THEN j ELSE j + 1
<1>7. \A j \in DOMAIN buf' : old(j) \in DOMAIN buf /\ buf'[j] = buf[old(j)] /\ old(j) # k
  BY <1>1, <1>3, <1>4, <1>5
<1>8. \A i, j \in DOMAIN buf' : old(i) = old(j) => i = j
  BY <1>1, <1>3, <1>5
<1>9. k \in DOMAIN buf
  BY <1>1, <1>3
<1> HIDE DEF old
<1>10. InBuf(m)' => InBuf(m)
  BY <1>7 DEF InBuf
<1>11. OnceInBuf(m) => OnceInBuf(m)'
  BY <1>7, <1>8 DEF OnceInBuf
<1>12. (OnceInBuf(m) /\ m = Oldest(I)) => ~InBuf(m)'
  BY <1>2, <1>7, <1>9 DEF OnceInBuf, InBuf
<1> QED BY <1>6, <1>10, <1>11, <1>12

\* What is appended is there, and what a full buffer drops is not.
LEMMA IntoBuffer ==
  ASSUME Buffered, NEW x \in Genuine, NEW m,
         buf' = Append(buf, x) \/ buf' = Tail(Append(buf, x))
  PROVE  /\ InBuf(m)' => InBuf(m) \/ m = x
         /\ OnceInBuf(m) /\ (m = x => ~InBuf(m)) => OnceInBuf(m)'
<1> DEFINE b == Append(buf, x)
<1>1. /\ buf \in Seq(Genuine) /\ DOMAIN buf = 1..Len(buf) /\ Len(buf) \in Nat
  BY LenProperties DEF Buffered
<1>2. /\ b \in Seq(Genuine) /\ Len(b) = Len(buf) + 1
      /\ \A j \in 1..Len(buf) : b[j] = buf[j]
      /\ b[Len(buf) + 1] = x
  BY <1>1, AppendProperties
<1>3. DOMAIN b = 1..Len(buf) + 1
  BY <1>2, LenProperties
<1> HIDE DEF b
<1>4. \A j \in DOMAIN b : (j \in DOMAIN buf /\ b[j] = buf[j]) \/ (j = Len(buf) + 1 /\ b[j] = x)
  BY <1>1, <1>2, <1>3
<1>5. Len(buf) + 1 \notin DOMAIN buf
  BY <1>1
<1>6. /\ b # <<>>
      /\ \A j \in 1..Len(b) - 1 : Tail(b)[j] = b[j + 1]
      /\ DOMAIN Tail(b) = 1..Len(b) - 1
  <2>1. b # <<>>
    BY <1>1, <1>2, EmptySeq
  <2>2. Tail(b) \in Seq(Genuine) /\ Len(Tail(b)) = Len(b) - 1
        /\ \A j \in 1..Len(Tail(b)) : Tail(b)[j] = b[j + 1]
    BY <1>2, <2>1, HeadTailProperties
  <2> QED BY <2>1, <2>2, LenProperties
<1> DEFINE drop == IF buf' = b THEN 0 ELSE 1
<1>7. \A j \in DOMAIN buf' : j \in Int /\ j + drop \in DOMAIN b /\ buf'[j] = b[j + drop]
  <2>1. CASE buf' = b
    <3>1. drop = 0
      BY <2>1
    <3>0. DOMAIN buf' = 1..Len(buf) + 1
      BY <1>3, <2>1
    <3> HIDE DEF drop
    <3>2. \A j \in 1..Len(buf) + 1 : j \in Int /\ j + drop = j
      BY <1>1, <3>1
    <3>3. ASSUME NEW j \in DOMAIN buf'
          PROVE  j \in Int /\ j + drop \in DOMAIN b /\ buf'[j] = b[j + drop]
      <4>1. j \in 1..Len(buf) + 1
        BY <3>0
      <4>2. j \in Int /\ j + drop = j
        BY <3>2, <4>1
      <4>3. j + drop \in DOMAIN b
        BY <1>3, <4>1, <4>2
      <4> QED BY <2>1, <4>2, <4>3, Zenon
    <3> QED BY <3>3
  <2>2. CASE buf' # b
    <3>1. buf' = Tail(b)
      BY <2>2 DEF b
    <3>2. drop = 1
      BY <2>2
    <3>3. DOMAIN buf' = 1..Len(buf)
      <4>1. Len(b) - 1 = Len(buf)
        BY <1>1, <1>2
      <4> QED BY <1>6, <3>1, <4>1
    <3> HIDE DEF drop
    <3>4. \A j \in 1..Len(buf) : j \in Int /\ j + drop \in 1..Len(buf) + 1 /\ j + drop = j + 1
      BY <1>1, <3>2
    <3>5. \A j \in 1..Len(buf) : buf'[j] = b[j + 1]
      BY <1>1, <1>2, <1>6, <3>1
    <3> QED BY <1>3, <3>3, <3>4, <3>5
  <2> QED BY <2>1, <2>2
<1>8. drop \in Int
  OBVIOUS
<1> HIDE DEF drop
<1>9. InBuf(m)' => InBuf(m) \/ m = x
  BY <1>4, <1>7 DEF InBuf
<1>10. ASSUME OnceInBuf(m), m = x => ~InBuf(m), NEW i \in DOMAIN buf', NEW j \in DOMAIN buf',
              buf'[i] = m, buf'[j] = m
       PROVE  i = j
  <2>1. i + drop = j + drop
    BY <1>4, <1>7, <1>10 DEF OnceInBuf, InBuf
  <2> QED BY <1>7, <1>8, <2>1
<1> QED BY <1>9, <1>10 DEF OnceInBuf

\* A sample uses the messages it is made of.
LEMMA IntoSample ==
  ASSUME Results, NEW path, NEW sync, NEW follow_up, Return(path, sync, follow_up), NEW m
  PROVE  /\ HasUsed(m)' <=> (HasUsed(m) \/ m \in {sync, follow_up})
         /\ (UsedOnce(m) /\ (m \in {sync, follow_up} => ~HasUsed(m))) => UsedOnce(m)'
<1> DEFINE s == [path |-> path, sync |-> sync, follow_up |-> follow_up]
<1>1. samples' = Append(samples, s) /\ samples \in Seq(Sample)
  <2>1. {t \in Sample : Paired(t)} \subseteq Sample
    OBVIOUS
  <2> QED BY <2>1, SeqMonotonic DEF Return, Results
<1>2. UsedBy(m, s) <=> m \in {sync, follow_up}
  BY DEF UsedBy
<1>3. DOMAIN samples = 1..Len(samples) /\ Len(samples) \in Nat
  BY <1>1, LenProperties
<1> DEFINE S == Sample \cup {s}
<1>4. samples \in Seq(S) /\ s \in S
  BY <1>1, SeqMonotonic
<1> HIDE DEF s, S
<1>5. /\ samples' \in Seq(S) /\ Len(samples') = Len(samples) + 1
      /\ \A i \in 1..Len(samples) : samples'[i] = samples[i]
      /\ samples'[Len(samples) + 1] = s
  BY <1>1, <1>4, AppendProperties
<1> DEFINE new == Len(samples) + 1
<1>6. DOMAIN samples' = DOMAIN samples \cup {new} /\ new \notin DOMAIN samples
  BY <1>3, <1>5, LenProperties
<1>7. \A i \in DOMAIN samples : samples'[i] = samples[i]
  BY <1>3, <1>5
<1>8. samples'[new] = s
  BY <1>5
<1> HIDE DEF new
<1> QED BY <1>2, <1>6, <1>7, <1>8 DEF HasUsed, UsedOnce

\* A step of the caller moves a message on from the buffer to its hands or into a
\* sample, or drops it.
LEMMA Moved ==
  ASSUME NEW m, Kept(m), UNCHANGED <<net, doubled, sent>>,
         InBuf(m)' => InBuf(m),
         OnceInBuf(m) => OnceInBuf(m)',
         InHand(m)' \/ held' = m => InHand(m) \/ held = m \/ InBuf(m),
         HasUsed(m)' => HasUsed(m) \/ InHand(m) \/ held = m \/ InBuf(m),
         OneCopy(m) => /\ UsedOnce(m)'
                       /\ InHand(m)' => ~InBuf(m)'
                       /\ HasUsed(m)' => ~InBuf(m)' /\ ~InHand(m)' /\ held' # m
  PROVE  Kept(m)'
<1>1. Around(m)' => Around(m)
  BY DEF Around
<1>2. SentBefore(m)'
  BY <1>1 DEF Kept, SentBefore
<1>3. ASSUME m \notin doubled' PROVE OneCopy(m)'
  <2>1. OneCopy(m)
    BY <1>3 DEF Kept
  <2>2. OnceInBuf(m)' /\ UsedOnce(m)'
    BY <2>1 DEF OneCopy
  <2>3. m \in net' => ~InBuf(m) /\ ~InHand(m) /\ held # m /\ ~HasUsed(m)
    BY <2>1 DEF OneCopy
  <2>4. m \in net' => ~InBuf(m)' /\ ~InHand(m)' /\ held' # m /\ ~HasUsed(m)'
    BY <2>3
  <2>5. /\ InHand(m)' => ~InBuf(m)'
        /\ HasUsed(m)' => ~InBuf(m)' /\ ~InHand(m)' /\ held' # m
    BY <2>1
  <2> QED BY <2>2, <2>4, <2>5 DEF OneCopy
<1> QED BY <1>2, <1>3 DEF Kept

\* The caller looks on, or turns to a Follow_Up of the buffer.
LEMMA LooksOn ==
  ASSUME NEW m \in Data, Kept(m), UNCHANGED <<buf, samples, net, doubled, sent>>,
         partner' \in {partner, Nothing},
         held' = m => held = m \/ (InBuf(m) /\ m \in FollowUp)
  PROVE  Kept(m)'
<1>1. /\ InBuf(m)' <=> InBuf(m)
      /\ OnceInBuf(m)' <=> OnceInBuf(m)
      /\ HasUsed(m)' <=> HasUsed(m)
      /\ UsedOnce(m)' <=> UsedOnce(m)
  BY DEF InBuf, OnceInBuf, HasUsed, UsedOnce
<1>2. m # Nothing /\ (m \in FollowUp => m.kind # "sync")
  BY DataKinds
<1>3. InHand(m)' => InHand(m)
  BY <1>2 DEF InHand
<1>4. held' = m => held = m \/ InBuf(m)
  OBVIOUS
<1>5. OneCopy(m) => /\ UsedOnce(m)
                    /\ InHand(m) => ~InBuf(m)
                    /\ HasUsed(m) => ~InBuf(m) /\ ~InHand(m) /\ held # m
  BY DEF OneCopy
<1> QED BY <1>1, <1>3, <1>4, <1>5, Moved

\* The call is over: what it returns it has had in hand or taken out of the buffer.
LEMMA Returns ==
  ASSUME IInv, NEW m \in Data, Kept(m), UNCHANGED <<net, doubled, sent>>,
         NEW path, NEW sync, NEW follow_up, Return(path, sync, follow_up),
         InBuf(m)' => InBuf(m),
         OnceInBuf(m) => OnceInBuf(m)',
         m \in {sync, follow_up} => InHand(m) \/ held = m \/ (InBuf(m) /\ ~InHand(m)),
         OneCopy(m) /\ m \in {sync, follow_up} => ~InBuf(m)'
  PROVE  Kept(m)'
<1>1. Results
  BY DEF IInv
<1>2. HasUsed(m)' <=> (HasUsed(m) \/ m \in {sync, follow_up})
  BY <1>1, IntoSample
<1>3. (UsedOnce(m) /\ (m \in {sync, follow_up} => ~HasUsed(m))) => UsedOnce(m)'
  BY <1>1, IntoSample
<1>4. m # Nothing
  BY DataKinds
<1>5. ~InHand(m)' /\ held' # m
  BY <1>4 DEF Return, InHand
<1>6. OneCopy(m) => /\ UsedOnce(m)
                    /\ InHand(m) \/ held = m \/ InBuf(m) => ~HasUsed(m)
  BY DEF OneCopy
<1>7. OneCopy(m) => UsedOnce(m)' /\ (HasUsed(m)' => ~InBuf(m)')
  BY <1>2, <1>3, <1>6
<1> QED BY <1>2, <1>5, <1>7, Moved

LEMMA CallerKeeps ==
  ASSUME IInv, NEW m \in Data, Kept(m),
         \/ CallWaitSync \/ LoopHead \/ ScanMisses \/ LedBegins \/ LedMisses
         \/ LedTimesOut \/ LastChance \/ DeadlinePasses \/ SendDelayReq
         \/ DelayTimesOut \/ FollowTimesOut
  PROVE  Kept(m)'
<1>1. UNCHANGED <<net, doubled, sent, buf>>
  BY DEF CallWaitSync, LoopHead, ScanMisses, LedBegins, LedMisses, LedTimesOut, LastChance,
         DeadlinePasses, SendDelayReq, DelayTimesOut, FollowTimesOut, masters
<1>2. m # Nothing /\ m.kind # "delay_req"
  BY DataKinds
<1>3. InBuf(m)' <=> InBuf(m)
  BY <1>1 DEF InBuf
<1>4. OnceInBuf(m)' <=> OnceInBuf(m)
  BY <1>1 DEF OnceInBuf
<1>5. ASSUME Return("timeout", Nothing, Nothing) PROVE Kept(m)'
  BY <1>1, <1>2, <1>3, <1>4, <1>5, Returns
<1>6. FollowUps # {} => Candidate \in FollowUp /\ InBuf(Candidate)
  BY CandidateIsFollowUp DEF IInv, InBuf
<1>7. CASE CallWaitSync \/ LoopHead \/ ScanMisses \/ LedMisses \/ LedTimesOut \/ DeadlinePasses
           \/ SendDelayReq \/ DelayTimesOut
  <2>1. UNCHANGED samples /\ partner' = partner
    BY <1>7 DEF CallWaitSync, LoopHead, ScanMisses, LedMisses, LedTimesOut, DeadlinePasses,
                SendDelayReq, DelayTimesOut, Answered, results
  <2>2. held' = held \/ held' # m
    BY <1>2, <1>7 DEF CallWaitSync, LoopHead, ScanMisses, LedMisses, LedTimesOut,
       DeadlinePasses, SendDelayReq, DelayTimesOut, Answered, Goto
  <2> QED BY <1>1, <2>1, <2>2, LooksOn
<1>8. CASE LedBegins
  <2>1. UNCHANGED samples /\ partner' = partner
    BY <1>8 DEF LedBegins, results
  <2>2. held' = Nothing \/ (held' = Candidate /\ FollowUps # {})
    BY <1>8 DEF LedBegins, Goto
  <2> QED BY <1>1, <1>2, <1>6, <2>1, <2>2, LooksOn
<1>9. CASE LastChance /\ FollowUps # {}
  <2>1. UNCHANGED samples /\ partner' = partner /\ held' = Candidate
    BY <1>9 DEF LastChance, results, Goto
  <2> QED BY <1>1, <1>6, <1>9, <2>1, LooksOn
<1>10. CASE LastChance /\ FollowUps = {}
  BY <1>5, <1>10 DEF LastChance
<1>11. CASE FollowTimesOut
  BY <1>5, <1>11 DEF FollowTimesOut
<1> QED BY <1>7, <1>8, <1>9, <1>10, <1>11

\* A message goes from the buffer to the hands of the caller.
LEMMA Takes ==
  ASSUME IInv, NEW m \in Data, Kept(m), UNCHANGED <<samples, net, doubled, sent>>,
         NEW I \in SUBSET DOMAIN buf, I # {}, buf' = Without(I),
         partner' = m => partner = m \/ m = Oldest(I),
         held' = m => held = m \/ m = Oldest(I)
  PROVE  Kept(m)'
<1>1. Buffered
  BY DEF IInv
<1>2. /\ InBuf(Oldest(I))
      /\ InBuf(m)' => InBuf(m)
      /\ OnceInBuf(m) => OnceInBuf(m)'
      /\ (OnceInBuf(m) /\ m = Oldest(I)) => ~InBuf(m)'
  BY <1>1, OutOfBuffer
<1>3. /\ HasUsed(m)' <=> HasUsed(m)
      /\ UsedOnce(m)' <=> UsedOnce(m)
  BY DEF HasUsed, UsedOnce
<1>4. InHand(m)' \/ held' = m => InHand(m) \/ held = m \/ m = Oldest(I)
  BY DEF InHand
<1>5. InHand(m)' => InHand(m) \/ m = Oldest(I)
  BY DEF InHand
<1>6. OneCopy(m) => /\ OnceInBuf(m) /\ UsedOnce(m)
                    /\ InBuf(m) => ~InHand(m) /\ ~HasUsed(m)
                    /\ InHand(m) \/ held = m => ~HasUsed(m)
  BY DEF OneCopy
<1>7. m = Oldest(I) => InBuf(m)
  BY <1>2
<1>8. OneCopy(m) => /\ InHand(m)' => ~InBuf(m)'
                    /\ HasUsed(m)' => ~InBuf(m)' /\ ~InHand(m)' /\ held' # m
  BY <1>2, <1>3, <1>4, <1>5, <1>6, <1>7
<1>9. InHand(m)' \/ held' = m => InHand(m) \/ held = m \/ InBuf(m)
  BY <1>4, <1>7
<1> QED BY <1>2, <1>3, <1>6, <1>8, <1>9, Moved

\* A message goes from the buffer straight into a sample, with the Sync in hand, if any.
LEMMA TakesAndReturns ==
  ASSUME IInv, NEW m \in Data, Kept(m), UNCHANGED <<net, doubled, sent>>,
         NEW I \in SUBSET DOMAIN buf, I # {}, buf' = Without(I),
         NEW path, NEW sync, NEW follow_up, Return(path, sync, follow_up),
         m \in {sync, follow_up} => InHand(m) \/ m = Oldest(I)
  PROVE  Kept(m)'
<1>1. Buffered
  BY DEF IInv
<1>2. /\ InBuf(Oldest(I))
      /\ InBuf(m)' => InBuf(m)
      /\ OnceInBuf(m) => OnceInBuf(m)'
      /\ (OnceInBuf(m) /\ m = Oldest(I)) => ~InBuf(m)'
  BY <1>1, OutOfBuffer
<1>3. OneCopy(m) => /\ OnceInBuf(m)
                    /\ InHand(m) => ~InBuf(m)
  BY DEF OneCopy
<1>4. m = Oldest(I) => InBuf(m)
  BY <1>2
<1>5. OneCopy(m) /\ m \in {sync, follow_up} => ~InBuf(m)'
  BY <1>2, <1>3
<1> QED BY <1>2, <1>4, <1>5, Returns

LEMMA FindingKeeps ==
  ASSUME IInv, NEW m \in Data, Kept(m),
         ScanFinds \/ FollowFinds \/ LedFinds \/ DelayRespFound
  PROVE  Kept(m)'
<1>1. UNCHANGED <<net, doubled, sent>>
  BY DEF ScanFinds, FollowFinds, LedFinds, DelayRespFound, masters
<1>2. m # Nothing
  BY DataKinds
<1>3. Hand
  BY DEF IInv
<1>4. CASE ScanFinds
  <2>1. Syncs \in SUBSET DOMAIN buf /\ Syncs # {} /\ buf' = Without(Syncs)
    BY <1>4 DEF ScanFinds, Syncs
  <2>2. CASE Oldest(Syncs).two_step
    <3>1. held' = Oldest(Syncs) /\ partner' = partner /\ samples' = samples
      BY <1>4, <2>2 DEF ScanFinds, Goto, results
    <3> QED BY <1>1, <2>1, <3>1, Takes
  <2>3. CASE ~Oldest(Syncs).two_step
    <3>1. Return("one_step", Oldest(Syncs), Nothing)
      BY <1>4, <2>3 DEF ScanFinds
    <3> QED BY <1>1, <1>2, <2>1, <3>1, TakesAndReturns
  <2> QED BY <2>2, <2>3
<1>5. CASE FollowFinds
  <2> DEFINE I == Matching("follow_up", held)
  <2>1. I \in SUBSET DOMAIN buf /\ I # {} /\ buf' = Without(I)
    BY <1>5 DEF FollowFinds, Matching
  <2>2. Return("sync_led", held, Oldest(I))
    BY <1>5 DEF FollowFinds
  <2>3. held = m => InHand(m)
    BY <1>3, <1>5 DEF FollowFinds, Hand, Sync, InHand
  <2> HIDE DEF I
  <2> QED BY <1>1, <2>1, <2>2, <2>3, TakesAndReturns
<1>6. CASE LedFinds
  <2> DEFINE I == Matching("sync", held)
  <2>1. I \in SUBSET DOMAIN buf /\ I # {} /\ buf' = Without(I)
    BY <1>6 DEF LedFinds, Matching
  <2>2. partner' = Oldest(I) /\ held' = held /\ samples' = samples
    BY <1>6 DEF LedFinds, results
  <2> HIDE DEF I
  <2> QED BY <1>1, <2>1, <2>2, Takes
<1>7. CASE DelayRespFound
  <2> DEFINE I == AnswersTo(held)
  <2>1. I \in SUBSET DOMAIN buf /\ I # {} /\ buf' = Without(I)
    BY <1>7 DEF DelayRespFound, AnswersTo
  <2>2. partner' = partner /\ held' = Nothing /\ samples' = samples
    BY <1>7 DEF DelayRespFound, Answered, Goto
  <2> HIDE DEF I
  <2> QED BY <1>1, <1>2, <2>1, <2>2, Takes
<1> QED BY <1>4, <1>5, <1>6, <1>7

\* The Follow_Up in hand serves only if it is not in the buffer any more.
LEMMA PairingKeeps ==
  ASSUME IInv, NEW m \in Data, Kept(m), LedPairs \/ Degrade
  PROVE  Kept(m)'
<1> DEFINE I == SameNumber(held)
           sync == IF pc = "led_found" THEN partner ELSE Nothing
           path == IF pc = "led_found" THEN "follow_up_led" ELSE "degraded"
<1>1. UNCHANGED <<net, doubled, sent>> /\ TakeFollowUp(path, sync)
  BY DEF LedPairs, Degrade, masters
<1>2. held \in FollowUp
  BY DEF IInv, Hand, LedPairs, Degrade
<1>3. m # Nothing
  BY DataKinds
<1>4. sync = m => InHand(m)
  BY <1>3 DEF InHand
<1> HIDE DEF sync, path
<1>5. CASE I # {}
  <2>1. I \in SUBSET DOMAIN buf /\ buf' = Without(I) /\ Return(path, sync, Oldest(I))
    BY <1>1, <1>5 DEF TakeFollowUp, SameNumber, FollowUps
  <2> HIDE DEF I
  <2> QED BY <1>1, <1>4, <1>5, <2>1, TakesAndReturns
<1>6. CASE I = {}
  <2>1. buf' = buf /\ Return(path, sync, held)
    BY <1>1, <1>6 DEF TakeFollowUp
  <2>2. ~InBuf(held)
    BY <1>2, <1>6 DEF SameNumber, FollowUps, InBuf, FollowUp
  <2>3. (InBuf(m)' <=> InBuf(m)) /\ (OnceInBuf(m)' <=> OnceInBuf(m))
    BY <2>1 DEF InBuf, OnceInBuf
  <2>4. OneCopy(m) /\ m \in {sync, held} => ~InBuf(m)
    BY <1>4, <2>2 DEF OneCopy
  <2> QED BY <1>1, <1>4, <2>1, <2>3, <2>4, Returns
<1> QED BY <1>5, <1>6

LEMMA SendingKeeps ==
  ASSUME IInv, NEW m \in Data, Kept(m),
         NEW g \in Masters, NEW two_step \in TwoStep, MasterSends(g, two_step)
  PROVE  Kept(m)'
<1> DEFINE n == sent[g] + 1
           sync == [kind |-> "sync", src |-> g, n |-> n, two_step |-> two_step]
           follow_up == [kind |-> "follow_up", src |-> g, n |-> n]
<1>1. /\ net' \subseteq net \cup {sync, follow_up} /\ UNCHANGED <<buf, held, partner, samples, doubled>>
      /\ sent' = [sent EXCEPT ![g] = n]
  BY DEF MasterSends, caller, results
<1>2. sent \in [Masters -> 0..MaxSyncs] /\ m.src \in Masters /\ m.n \in Int
  BY DEF IInv, Sources, Data, Sync, FollowUp
<1>3. /\ sent[m.src] \in Int /\ sent[g] \in Int
      /\ sent'[m.src] = IF m.src = g THEN n ELSE sent[m.src]
  BY <1>1, <1>2, Constants
<1>4. /\ InBuf(m)' <=> InBuf(m)
      /\ OnceInBuf(m)' <=> OnceInBuf(m)
      /\ InHand(m)' <=> InHand(m)
      /\ HasUsed(m)' <=> HasUsed(m)
      /\ UsedOnce(m)' <=> UsedOnce(m)
      /\ held' = m <=> held = m
  BY <1>1 DEF InBuf, OnceInBuf, InHand, HasUsed, UsedOnce
<1>5. CASE m \in {sync, follow_up}
  <2>1. m.src = g /\ m.n = n
    BY <1>5
  <2> HIDE DEF sync, follow_up
  <2>2. ~Around(m)
    BY <1>2, <1>3, <2>1 DEF Kept, SentBefore
  <2>3. ~InBuf(m)' /\ ~InHand(m)' /\ held' # m /\ ~HasUsed(m)'
    BY <1>4, <2>2 DEF Around
  <2>4. SentBefore(m)'
    BY <1>2, <1>3, <2>1 DEF SentBefore
  <2>5. m \notin doubled' => OneCopy(m)'
    BY <1>1, <1>4, <2>3 DEF Kept, OneCopy
  <2> QED BY <2>4, <2>5 DEF Kept
<1>6. CASE m \notin {sync, follow_up}
  <2> HIDE DEF sync, follow_up
  <2>1. m \in net' => m \in net
    BY <1>1, <1>6
  <2>2. Around(m)' => Around(m)
    BY <1>4, <2>1 DEF Around
  <2>3. SentBefore(m)'
    BY <1>2, <1>3, <2>2 DEF Kept, SentBefore
  <2>4. m \notin doubled' => OneCopy(m)'
    BY <1>1, <1>4, <2>1 DEF Kept, OneCopy
  <2> QED BY <2>3, <2>4 DEF Kept
<1> QED BY <1>5, <1>6

LEMMA DeliveryKeeps ==
  ASSUME IInv, NEW m \in Data, Kept(m), MasterAnswers \/ \E x \in net : Receive(x)
  PROVE  Kept(m)'
<1>1. UNCHANGED <<held, partner, samples, sent>>
  BY DEF MasterAnswers, Receive, caller, results, masters
<1>2. /\ InHand(m)' <=> InHand(m)
      /\ HasUsed(m)' <=> HasUsed(m)
      /\ UsedOnce(m)' <=> UsedOnce(m)
      /\ held' = m <=> held = m
  BY <1>1 DEF InHand, HasUsed, UsedOnce
<1>3. CASE MasterAnswers
  <2>1. doubled' = doubled /\ buf' = buf /\ (m \in net' => m \in net)
    <3>1. m.kind # "delay_resp"
      BY DataKinds
    <3> QED BY <1>3, <3>1 DEF MasterAnswers
  <2>2. (InBuf(m)' <=> InBuf(m)) /\ (OnceInBuf(m)' <=> OnceInBuf(m))
    BY <2>1 DEF InBuf, OnceInBuf
  <2> QED BY <1>1, <1>2, <2>1, <2>2 DEF Kept, SentBefore, Around, OneCopy
<1>4. ASSUME NEW x \in net, Receive(x) PROVE Kept(m)'
  <2>1. Buffered /\ x \in Genuine
    BY DEF IInv, Network
  <2>2. buf' = Append(buf, x) \/ buf' = Tail(Append(buf, x))
    BY <1>4 DEF Receive
  <2>3. /\ InBuf(m)' => InBuf(m) \/ m = x
        /\ OnceInBuf(m) /\ (m = x => ~InBuf(m)) => OnceInBuf(m)'
    BY <2>1, <2>2, IntoBuffer
  <2>4. /\ net' \subseteq net /\ doubled \subseteq doubled'
        /\ x \in doubled' \/ x \notin net'
    BY <1>4 DEF Receive
  <2>5. Around(m)' => Around(m)
    BY <1>2, <2>3, <2>4 DEF Around
  <2>6. SentBefore(m)'
    BY <1>1, <2>5 DEF Kept, SentBefore
  <2>7. ASSUME m \notin doubled' PROVE OneCopy(m)'
    <3>1. OneCopy(m)
      BY <2>4, <2>7 DEF Kept
    <3>2. m = x => /\ ~InBuf(m) /\ ~InHand(m) /\ held # m /\ ~HasUsed(m)
                   /\ m \notin net'
      BY <2>4, <2>7, <3>1 DEF OneCopy
    <3> QED BY <1>2, <2>3, <2>4, <3>1, <3>2 DEF OneCopy
  <2> QED BY <2>6, <2>7 DEF Kept
<1> QED BY <1>3, <1>4

\* No message serves for two samples, unless the network has doubled it.
THEOREM SamplesFresh == Spec => []SampleIsFresh
<1>1. Init => CopiesInv
  BY DEF Init, CopiesInv, Kept, SentBefore, Around, OneCopy, InBuf, InHand, HasUsed, OnceInBuf,
         UsedOnce, Data, Sync, FollowUp, Nothing
<1>2. IInv /\ CopiesInv /\ [Next]_vars => CopiesInv'
  <2> SUFFICES ASSUME IInv, CopiesInv, [Next]_vars, NEW m \in Data
               PROVE  Kept(m)'
    BY DEF CopiesInv, Data
  <2>1. Kept(m)
    BY DEF CopiesInv
  <2>2. CASE UNCHANGED vars
    BY <2>1, <2>2 DEF vars, caller, results, masters, Kept, SentBefore, Around, OneCopy, InBuf,
                      InHand, HasUsed, OnceInBuf, UsedOnce
  <2>3. CASE WaitSync \/ Exchange \/ CallWaitSync \/ SendDelayReq \/ DeadlinePasses
    BY <2>1, <2>3, CallerKeeps, FindingKeeps, PairingKeeps DEF WaitSync, Exchange
  <2>4. CASE \E g \in Masters, two_step \in TwoStep : MasterSends(g, two_step)
    BY <2>1, <2>4, SendingKeeps
  <2>5. CASE MasterAnswers \/ \E x \in net : Receive(x)
    BY <2>1, <2>5, DeliveryKeeps
  <2> QED BY <2>2, <2>3, <2>4, <2>5 DEF Next
<1>3. IInv /\ CopiesInv => SampleIsFresh
  <2> SUFFICES ASSUME IInv, CopiesInv, NEW i \in DOMAIN samples,
                      NEW m \in {samples[i].sync, samples[i].follow_up} \ {Nothing},
                      m \notin doubled
               PROVE  UsedIn(m) = {i}
    BY DEF SampleIsFresh
  <2>1. m \in Data
    <3>1. samples[i] \in Sample
      BY LenProperties, ElementOfSeq DEF IInv, Results
    <3> QED BY <3>1 DEF Sample, Data
  <2>2. UsedOnce(m)
    BY <2>1 DEF CopiesInv, Kept, OneCopy
  <2> QED BY <2>2 DEF UsedOnce, UsedBy, UsedIn
<1> QED BY <1>1, <1>2, <1>3, InitIInv, NextIInv, PTL DEF Spec
=============================================================================
