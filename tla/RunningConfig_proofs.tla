------------------------ MODULE RunningConfig_proofs ------------------------
(***************************************************************************)
(* Theorems about RunningConfig, for any number of HTTP threads, updates   *)
(* and inputs.                                                             *)
(***************************************************************************)
EXTENDS RunningConfig, SequenceTheorems, TLAPS

Entries(seq) == {seq[v] : v \in DOMAIN seq}

\* What the HTTP threads hold: the configuration that a thread stores has been
\* validated, and who holds the lock has stored it.
Updates ==
  /\ DOMAIN updater = Updaters /\ lock \in Updaters \cup {Nobody}
  /\ \A u \in Updaters :
       /\ updater[u].pc = "port" <=> lock = u
       /\ updater[u].pc = "port" => updater[u].new = cfg
       /\ updater[u].pc = "store" => Valid(updater[u].new)

\* The last entry of the history is the configuration in force, and the last
\* complete one has its source port.
History ==
  /\ past \in Seq(Entries(past)) /\ Len(past) \in Nat \ {0}
  /\ applied = IF lock = Nobody THEN Len(past) ELSE Len(past) - 1
  /\ applied \in Nat \ {0}
  /\ cfg = past[Len(past)].cfg
  /\ past[Len(past)].port = PortOf(cfg, port.ci)
  /\ port = past[applied].port
  /\ \A v \in DOMAIN past : Valid(past[v].cfg)

ConfigInv == Updates /\ History

\* A history that grows keeps what it has.
LEMMA Grown ==
  ASSUME NEW seq, seq \in Seq(Entries(seq)), NEW e
  PROVE  /\ Append(seq, e) \in Seq(Entries(Append(seq, e)))
         /\ Len(Append(seq, e)) = Len(seq) + 1 /\ Len(seq) \in Nat
         /\ DOMAIN seq = 1..Len(seq)
         /\ DOMAIN Append(seq, e) = 1..Len(seq) + 1
         /\ \A v \in 1..Len(seq) : Append(seq, e)[v] = seq[v]
         /\ Append(seq, e)[Len(seq) + 1] = e
<1> DEFINE T == Entries(seq) \cup {e}
           longer == Append(seq, e)
<1>1. seq \in Seq(T)
  BY SeqMonotonic
<1>2. /\ longer \in Seq(T) /\ Len(longer) = Len(seq) + 1 /\ Len(seq) \in Nat
      /\ DOMAIN seq = 1..Len(seq)
      /\ \A v \in 1..Len(seq) : longer[v] = seq[v]
      /\ longer[Len(seq) + 1] = e
  BY <1>1, AppendProperties, LenProperties
<1>3. DOMAIN longer = 1..Len(seq) + 1
  BY <1>2, LenProperties
<1> HIDE DEF longer
<1>4. T \subseteq Entries(longer)
  BY <1>2, <1>3 DEF Entries
<1>5. longer \in Seq(Entries(longer))
  BY <1>2, <1>4, SeqMonotonic
<1> QED
  BY <1>2, <1>3, <1>5 DEF longer

\* Derived again, the source port is the same.
LEMMA PortSettles ==
  ASSUME NEW c, NEW identity
  PROVE  PortOf(c, PortOf(c, identity).ci) = PortOf(c, identity)
  BY DEF PortOf

LEMMA InitConfig == Init => ConfigInv
<1> SUFFICES ASSUME Init PROVE ConfigInv
  OBVIOUS
<1>1. Updates
  BY UpdatersAssumption DEF Init, Updates, IdleUpdater, Nobody
<1>2. Valid(cfg)
  BY DEF Init
<1> DEFINE e == [cfg |-> cfg, port |-> port]
<1>3. past = <<e>> /\ past = Append(<< >>, e)
  BY DEF Init
<1>4. Len(past) = 1 /\ DOMAIN past = {1} /\ past[1] = e
  BY <1>3
<1>5. past \in Seq(Entries(past))
  <2>1. <<e>> \in Seq({e}) /\ {e} \subseteq Entries(past)
    BY <1>4 DEF Entries
  <2> HIDE DEF e
  <2> QED
    BY <1>3, <2>1, SeqMonotonic
<1>6. port = PortOf(cfg, port.ci)
  BY PortSettles DEF Init
<1> QED
  BY <1>1, <1>2, <1>4, <1>5, <1>6 DEF Init, ConfigInv, History

\* An HTTP thread that moves without the lock.
LEMMA MovingKeepsConfig ==
  ASSUME ConfigInv, NEW u \in Updaters, NEW state, Updater(u, state),
         updater[u].pc # "port", state.pc # "port",
         state.pc = "store" => Valid(state.new),
         UNCHANGED <<cfg, port, lock, past, applied>>
  PROVE  ConfigInv'
<1>1. /\ DOMAIN updater' = Updaters /\ updater'[u] = state
      /\ \A w \in Updaters \ {u} : updater'[w] = updater[w]
  BY DEF Updater, ConfigInv, Updates
<1>2. Updates'
  BY <1>1 DEF ConfigInv, Updates
<1>3. History'
  BY DEF ConfigInv, History
<1> QED
  BY <1>2, <1>3 DEF ConfigInv

LEMMA StoringKeepsConfig ==
  ASSUME ConfigInv, NEW u \in Updaters, UpdateStores(u)
  PROVE  ConfigInv' /\ past' = Append(past, [cfg |-> cfg', port |-> PortOf(cfg', port.ci)])
<1> DEFINE e == [cfg |-> cfg', port |-> PortOf(cfg', port.ci)]
<1>1. /\ updater[u].pc = "store" /\ lock = Nobody /\ cfg' = updater[u].new
      /\ past' = Append(past, e) /\ lock' = u /\ port' = port /\ applied' = applied
      /\ updater' = [updater EXCEPT ![u] = [pc |-> "port", new |-> updater[u].new]]
  BY DEF UpdateStores, HoldsOn, Updater
<1>2. u # Nobody /\ Nobody \notin Updaters
  BY UpdatersAssumption DEF Nobody
<1>3. /\ DOMAIN updater' = Updaters
      /\ updater'[u] = [pc |-> "port", new |-> cfg']
      /\ \A w \in Updaters \ {u} : updater'[w] = updater[w] /\ updater[w].pc # "port"
  BY <1>1, <1>2 DEF ConfigInv, Updates
<1>4. Updates'
  BY <1>1, <1>2, <1>3 DEF ConfigInv, Updates
<1>5. e.cfg = cfg' /\ e.port = PortOf(cfg', port.ci)
  OBVIOUS
<1> HIDE DEF e
<1>6. /\ past' \in Seq(Entries(past')) /\ Len(past') = Len(past) + 1 /\ Len(past) \in Nat \ {0}
      /\ DOMAIN past = 1..Len(past) /\ DOMAIN past' = 1..Len(past) + 1
      /\ \A v \in 1..Len(past) : past'[v] = past[v]
      /\ past'[Len(past) + 1] = e
  BY <1>1, Grown DEF ConfigInv, History
<1>7. applied = Len(past) /\ past'[applied] = past[applied]
  BY <1>1, <1>6 DEF ConfigInv, History
<1>8. Valid(cfg')
  <2>1. Valid(updater[u].new)
    BY <1>1 DEF ConfigInv, Updates
  <2> QED
    BY <1>1, <2>1, Zenon
<1>9. \A v \in DOMAIN past' : Valid(past'[v].cfg)
  <2> TAKE v \in DOMAIN past'
  <2>1. CASE v \in DOMAIN past
    <3>1. Valid(past[v].cfg)
      BY <2>1 DEF ConfigInv, History
    <3>2. past'[v].cfg = past[v].cfg
      BY <1>6, <2>1
    <3> QED
      BY <3>1, <3>2, Zenon
  <2>2. CASE v = Len(past) + 1
    <3>1. past'[v].cfg = cfg'
      BY <1>5, <1>6, <2>2
    <3> QED
      BY <1>8, <3>1, Zenon
  <2> QED
    BY <1>6, <2>1, <2>2
<1>10. History'
  BY <1>1, <1>2, <1>5, <1>6, <1>7, <1>9 DEF ConfigInv, History
<1> QED
  BY <1>1, <1>4, <1>10 DEF ConfigInv, e

\* The last entry of the history becomes complete.
LEMMA PortKeepsConfig ==
  ASSUME ConfigInv, NEW u \in Updaters, UpdateSetsPort(u)
  PROVE  ConfigInv' /\ applied' = applied + 1 /\ applied' = Len(past)
<1>1. /\ updater[u].pc = "port" /\ port' = PortOf(updater[u].new, port.ci)
      /\ applied' = applied + 1 /\ lock' = Nobody /\ cfg' = cfg /\ past' = past
      /\ updater' = [updater EXCEPT ![u] = [pc |-> "idle"]]
  BY DEF UpdateSetsPort, Updater, IdleUpdater
<1>2. Nobody \notin Updaters
  BY UpdatersAssumption DEF Nobody
<1>3. lock = u /\ updater[u].new = cfg /\ applied = Len(past) - 1 /\ Len(past) \in Nat
  BY <1>1, <1>2 DEF ConfigInv, Updates, History
<1>4. /\ DOMAIN updater' = Updaters /\ updater'[u].pc = "idle"
      /\ \A w \in Updaters \ {u} : updater'[w] = updater[w] /\ updater[w].pc # "port"
  BY <1>1, <1>3 DEF ConfigInv, Updates
<1>5. Updates'
  BY <1>1, <1>2, <1>4 DEF ConfigInv, Updates
<1>6. port' = past[Len(past)].port /\ port' = PortOf(cfg, port'.ci)
  BY <1>1, <1>3, PortSettles DEF ConfigInv, History
<1>7. History'
  BY <1>1, <1>3, <1>6 DEF ConfigInv, History
<1> QED
  BY <1>1, <1>3, <1>5, <1>7 DEF ConfigInv

LEMMA UpdateKeepsConfig ==
  ASSUME ConfigInv, NEW u \in Updaters, Update(u)
  PROVE  ConfigInv'
<1>1. CASE UpdateCopies(u)
  <2>1. PICK change \in Changes :
          /\ updater[u].pc = "idle"
          /\ Updater(u, [pc |-> "validate", new |-> Patch(change) @@ cfg])
          /\ UNCHANGED <<cfg, port, lock, past, applied>>
    BY <1>1 DEF UpdateCopies
  <2> QED
    BY <2>1, MovingKeepsConfig
<1>2. CASE UpdateDoesNothing(u)
  BY <1>2 DEF UpdateDoesNothing, vars, ConfigInv, Updates, History
<1>3. CASE UpdateValidates(u)
  <2>1. /\ updater[u].pc = "validate" /\ UNCHANGED <<cfg, port, lock, past, applied>>
        /\ \/ Valid(updater[u].new) /\ Updater(u, [pc |-> "store", new |-> updater[u].new])
           \/ Updater(u, [pc |-> "idle"])
    BY <1>3 DEF UpdateValidates, IdleUpdater
  <2> QED
    BY <2>1, MovingKeepsConfig
<1>4. CASE UpdateStores(u)
  BY <1>4, StoringKeepsConfig
<1>5. CASE UpdateSetsPort(u)
  BY <1>5, PortKeepsConfig
<1> QED
  BY <1>1, <1>2, <1>3, <1>4, <1>5 DEF Update

LEMMA OthersKeepConfig ==
  ASSUME ConfigInv, Send \/ Hear
  PROVE  ConfigInv' /\ UNCHANGED <<cfg, port, lock, updater, past, applied>>
<1>1. UNCHANGED <<cfg, port, lock, updater, past, applied>>
  BY DEF Send, Hear, SendBegins, FollowUpBegins, SourceReads, SendBuilds, SendDies, SendFrame,
         HearReads, HearDecides
<1> QED
  BY <1>1 DEF ConfigInv, Updates, History

LEMMA NextKeepsConfig == ConfigInv /\ [Next]_vars => ConfigInv'
<1>1. ASSUME ConfigInv, UNCHANGED vars PROVE ConfigInv'
  BY <1>1 DEF vars, ConfigInv, Updates, History
<1> QED
  BY <1>1, UpdateKeepsConfig, OthersKeepConfig DEF Next

\* Between two updates the source port is that of the configuration in force,
\* however many HTTP threads update the master at once.
THEOREM IdentityAlwaysAgrees == Spec => []IdentityAgrees
<1>1. Init => ConfigInv
  BY InitConfig
<1>2. ConfigInv /\ [Next]_vars => ConfigInv'
  BY NextKeepsConfig
<1>3. ConfigInv => IdentityAgrees
  <2>1. ASSUME ConfigInv, lock = Nobody PROVE port = PortOf(cfg, port.ci)
    BY <2>1 DEF ConfigInv, History
  <2> QED
    BY <2>1 DEF IdentityAgrees, PortOf
<1> QED
  BY <1>1, <1>2, <1>3, PTL DEF Spec

-----------------------------------------------------------------------------
(***************************************************************************)
(* Where the fields of a frame come from.                                  *)
(***************************************************************************)
\* A field of one of the configurations from one to another.
FieldOf(from, to, key, f, value) ==
  \E v \in from..to : Effective(past[v].cfg, key, f) = value

\* The identity that one of them names, or, where it names none, that of a source port.
IdentityOf(from, to, key, ci) ==
  \E v \in from..to :
    LET named == Effective(past[v].cfg, key, "clock_identity")
    IN  IF named = NullIdentity THEN \E w \in from..to : ci = past[w].port.ci ELSE ci = named

ConfigOf(from, c) == \E v \in from..Len(past) : c = past[v].cfg

\* What the thread that sends has read was in force since it began the frame, or,
\* what a Follow_Up has from its Sync, when it began the Sync.
SenderSees ==
  sender.pc # "idle" =>
    /\ sender.since \in 1..Len(past) /\ sender.held = past[sender.since].cfg
    /\ sender.pc # "gap" =>
         /\ sender.from \in Nat \ {0} /\ sender.from <= applied
         /\ sender.key # "followup" => sender.from <= sender.since
    /\ sender.pc = "source" => ConfigOf(sender.from, sender.fresh)
    /\ sender.pc = "built" =>
         /\ sender.domain = Effective(sender.held, sender.key, "domain_number")
         /\ FieldOf(sender.from, Len(past), sender.key, "port_number", sender.source.pn)
         /\ IdentityOf(sender.from, Len(past), sender.key, sender.source.ci)

WireSees ==
  wire # NoFrame =>
    /\ wire.from \in Nat \ {0} /\ wire.to \in 1..Len(past) /\ wire.since \in 1..wire.to
    /\ wire.key # "followup" => wire.from <= wire.since
    /\ wire.domain = Effective(past[wire.since].cfg, wire.key, "domain_number")
    /\ FieldOf(wire.from, wire.to, wire.key, "port_number", wire.pn)
    /\ FieldOf(wire.from, wire.to, wire.key, "vlan_id", wire.vlan)
    /\ IdentityOf(wire.from, wire.to, wire.key, wire.ci)

FrameInv == SenderSees /\ WireSees

\* A domain number that has been validated fits the octet of the header.
LEMMA DomainFits ==
  ASSUME NEW c, Valid(c), NEW key
  PROVE  Effective(c, key, "domain_number") % 256 = Effective(c, key, "domain_number")
<1> DEFINE d == Effective(c, key, "domain_number")
<1>1. c.domain_number \in Uint8
  BY DEF Valid, DomainRange, Uint8
<1>2. ASSUME key \in DOMAIN c.message_overrides,
             "domain_number" \in DOMAIN c.message_overrides[key]
      PROVE  c.message_overrides[key]["domain_number"] \in Uint8
  BY <1>2 DEF Valid, ValidOverride
<1>3. d \in Uint8
  BY <1>1, <1>2 DEF Effective
<1> HIDE DEF d
<1>4. d % 256 = d
  BY <1>3 DEF Uint8
<1> QED
  BY <1>4 DEF d

\* Updates add to the history and change nothing of it.
LEMMA HistoryGrows ==
  ASSUME ConfigInv, [Next]_vars
  PROVE  /\ Len(past) \in Nat /\ Len(past') \in Nat /\ Len(past) <= Len(past')
         /\ applied \in Nat /\ applied' \in Nat /\ applied <= applied' /\ applied <= Len(past)
         /\ \A v \in 1..Len(past) : past'[v] = past[v]
<1>1. Len(past) \in Nat /\ applied \in Nat /\ applied <= Len(past)
  BY DEF ConfigInv, History
<1>2. ASSUME NEW u \in Updaters, UpdateStores(u)
      PROVE  /\ Len(past') = Len(past) + 1 /\ applied' = applied
             /\ \A v \in 1..Len(past) : past'[v] = past[v]
  <2>1. past' = Append(past, [cfg |-> cfg', port |-> PortOf(cfg', port.ci)]) /\ applied' = applied
    BY <1>2, StoringKeepsConfig DEF UpdateStores
  <2> QED
    BY <2>1, Grown DEF ConfigInv, History
<1>3. ASSUME NEW u \in Updaters, UpdateSetsPort(u)
      PROVE  past' = past /\ applied' = applied + 1
  BY <1>3 DEF UpdateSetsPort
<1>4. ASSUME NEW u \in Updaters, UpdateCopies(u) \/ UpdateDoesNothing(u) \/ UpdateValidates(u)
      PROVE  past' = past /\ applied' = applied
  BY <1>4 DEF UpdateCopies, UpdateDoesNothing, UpdateValidates, vars
<1>5. CASE Send \/ Hear \/ UNCHANGED vars
  BY <1>1, <1>5, OthersKeepConfig DEF vars
<1> QED
  BY <1>1, <1>2, <1>3, <1>4, <1>5 DEF Next, Update

\* A longer history still has what was found in it.
LEMMA StillThere ==
  ASSUME NEW from \in Nat \ {0}, NEW to \in Nat, NEW later \in Nat, to <= later,
         to <= Len(past), Len(past) \in Nat, Len(past') \in Nat, Len(past) <= Len(past'),
         \A v \in 1..Len(past) : past'[v] = past[v]
  PROVE  /\ \A key, f, value : FieldOf(from, to, key, f, value)
              => (\E v \in from..later : Effective(past'[v].cfg, key, f) = value)
         /\ \A key, ci : IdentityOf(from, to, key, ci)
              => (\E v \in from..later :
                    LET named == Effective(past'[v].cfg, key, "clock_identity")
                    IN  IF named = NullIdentity THEN \E w \in from..later : ci = past'[w].port.ci
                                                ELSE ci = named)
         /\ \A c : (\E v \in from..to : c = past[v].cfg) => (\E v \in from..later : c = past'[v].cfg)
<1>1. \A v \in from..to : v \in from..later /\ past'[v] = past[v]
  OBVIOUS
<1>2. ASSUME NEW key, NEW f, NEW value, FieldOf(from, to, key, f, value)
      PROVE  \E v \in from..later : Effective(past'[v].cfg, key, f) = value
  <2>1. PICK v \in from..to : Effective(past[v].cfg, key, f) = value
    BY <1>2 DEF FieldOf
  <2>2. v \in from..later /\ past'[v] = past[v]
    BY <1>1
  <2>3. Effective(past'[v].cfg, key, f) = value
    BY <2>1, <2>2
  <2> QED
    BY <2>2, <2>3
<1>3. ASSUME NEW key, NEW ci, IdentityOf(from, to, key, ci)
      PROVE  \E v \in from..later :
               LET named == Effective(past'[v].cfg, key, "clock_identity")
               IN  IF named = NullIdentity THEN \E w \in from..later : ci = past'[w].port.ci
                                           ELSE ci = named
  <2>1. PICK v \in from..to :
          LET named == Effective(past[v].cfg, key, "clock_identity")
          IN  IF named = NullIdentity THEN \E w \in from..to : ci = past[w].port.ci ELSE ci = named
    BY <1>3 DEF IdentityOf
  <2>2. v \in from..later /\ past'[v] = past[v]
    BY <1>1
  <2>3. (\E w \in from..to : ci = past[w].port.ci) => (\E w \in from..later : ci = past'[w].port.ci)
    BY <1>1
  <2>4. LET named == Effective(past'[v].cfg, key, "clock_identity")
        IN  IF named = NullIdentity THEN \E w \in from..later : ci = past'[w].port.ci ELSE ci = named
    BY <2>1, <2>2, <2>3
  <2> QED
    BY <2>2, <2>4
<1> QED
  BY <1>1, <1>2, <1>3

\* What has been read or sent already is not undone by an update.
LEMMA SenderStays ==
  ASSUME ConfigInv, [Next]_vars, SenderSees, UNCHANGED sender
  PROVE  SenderSees'
<1> SUFFICES ASSUME sender.pc # "idle" PROVE SenderSees'
  BY DEF SenderSees
<1> DEFINE from == sender.from
           later == Len(past')
<1>1. /\ Len(past) \in Nat /\ later \in Nat /\ Len(past) <= later
      /\ applied \in Nat /\ applied' \in Nat /\ applied <= applied' /\ applied <= Len(past)
      /\ \A v \in 1..Len(past) : past'[v] = past[v]
  BY HistoryGrows
<1>2. sender'.since \in 1..Len(past') /\ sender'.held = past'[sender'.since].cfg
  BY <1>1 DEF SenderSees
<1>3. sender.pc # "gap" =>
         /\ sender'.from \in Nat \ {0} /\ sender'.from <= applied'
         /\ sender'.key # "followup" => sender'.from <= sender'.since
  BY <1>1 DEF SenderSees
<1>4. sender.pc = "source" => ConfigOf(sender.from, sender.fresh)'
  <2> SUFFICES ASSUME sender.pc = "source" PROVE ConfigOf(sender.from, sender.fresh)'
    OBVIOUS
  <2>1. from \in Nat \ {0} /\ \E v \in from..Len(past) : sender.fresh = past[v].cfg
    BY DEF SenderSees, ConfigOf
  <2> HIDE DEF from, later
  <2>2. \E v \in from..later : sender.fresh = past'[v].cfg
    BY <1>1, <2>1
  <2> QED
    BY <2>2 DEF ConfigOf, from, later
<1>5. ASSUME sender.pc = "built"
      PROVE  /\ FieldOf(sender.from, Len(past), sender.key, "port_number", sender.source.pn)'
             /\ IdentityOf(sender.from, Len(past), sender.key, sender.source.ci)'
  <2> DEFINE to == Len(past)
  <2>1. /\ from \in Nat \ {0} /\ to \in Nat /\ to <= later /\ to <= Len(past)
        /\ FieldOf(from, to, sender.key, "port_number", sender.source.pn)
        /\ IdentityOf(from, to, sender.key, sender.source.ci)
    BY <1>1, <1>5 DEF SenderSees
  <2> HIDE DEF from, to, later
  <2>2. /\ \E v \in from..later :
             Effective(past'[v].cfg, sender.key, "port_number") = sender.source.pn
        /\ \E v \in from..later :
             LET named == Effective(past'[v].cfg, sender.key, "clock_identity")
             IN  IF named = NullIdentity
                   THEN \E w \in from..later : sender.source.ci = past'[w].port.ci
                   ELSE sender.source.ci = named
    <3>1. /\ Len(past') = later /\ later \in Nat /\ Len(past) \in Nat /\ Len(past) <= later
          /\ \A v \in 1..Len(past) : past'[v] = past[v]
      BY <1>1 DEF later
    <3>2. /\ \A key, f, value : FieldOf(from, to, key, f, value)
               => (\E v \in from..later : Effective(past'[v].cfg, key, f) = value)
          /\ \A key, ci : IdentityOf(from, to, key, ci)
               => (\E v \in from..later :
                     LET named == Effective(past'[v].cfg, key, "clock_identity")
                     IN  IF named = NullIdentity
                           THEN \E w \in from..later : ci = past'[w].port.ci
                           ELSE ci = named)
      BY <2>1, <3>1, StillThere
    <3> QED
      BY <2>1, <3>2
  <2> QED
    BY <2>2 DEF FieldOf, IdentityOf, from, later
<1>6. sender.pc = "built" => sender'.domain = Effective(sender'.held, sender'.key, "domain_number")
  BY DEF SenderSees
<1> QED
  BY <1>2, <1>3, <1>4, <1>5, <1>6 DEF SenderSees

LEMMA WireStays ==
  ASSUME ConfigInv, [Next]_vars, WireSees, UNCHANGED wire
  PROVE  WireSees'
<1> SUFFICES ASSUME wire # NoFrame PROVE WireSees'
  BY DEF WireSees
<1> DEFINE from == wire.from
           to == wire.to
<1>1. /\ from \in Nat \ {0} /\ to \in Nat /\ to <= Len(past)
      /\ Len(past) \in Nat /\ Len(past') \in Nat /\ Len(past) <= Len(past')
      /\ \A v \in 1..Len(past) : past'[v] = past[v]
  BY HistoryGrows DEF WireSees
<1>2. /\ FieldOf(from, to, wire.key, "port_number", wire.pn)
      /\ FieldOf(from, to, wire.key, "vlan_id", wire.vlan)
      /\ IdentityOf(from, to, wire.key, wire.ci)
  BY DEF WireSees
<1>3. /\ \E v \in from..to : Effective(past'[v].cfg, wire.key, "port_number") = wire.pn
      /\ \E v \in from..to : Effective(past'[v].cfg, wire.key, "vlan_id") = wire.vlan
      /\ \E v \in from..to :
           LET named == Effective(past'[v].cfg, wire.key, "clock_identity")
           IN  IF named = NullIdentity THEN \E w \in from..to : wire.ci = past'[w].port.ci
                                       ELSE wire.ci = named
  <2>1. \A v \in from..to : past'[v] = past[v]
    BY <1>1
  <2> HIDE DEF from, to
  <2>2. PICK p \in from..to : Effective(past[p].cfg, wire.key, "port_number") = wire.pn
    BY <1>2 DEF FieldOf
  <2>3. PICK q \in from..to : Effective(past[q].cfg, wire.key, "vlan_id") = wire.vlan
    BY <1>2 DEF FieldOf
  <2>4. PICK n \in from..to :
          LET named == Effective(past[n].cfg, wire.key, "clock_identity")
          IN  IF named = NullIdentity THEN \E w \in from..to : wire.ci = past[w].port.ci
                                      ELSE wire.ci = named
    BY <1>2 DEF IdentityOf
  <2>5. Effective(past'[n].cfg, wire.key, "clock_identity")
          = Effective(past[n].cfg, wire.key, "clock_identity")
    BY <2>1
  <2>6. (\E w \in from..to : wire.ci = past[w].port.ci)
          => \E w \in from..to : wire.ci = past'[w].port.ci
    BY <2>1
  <2>7. \E v \in from..to : Effective(past'[v].cfg, wire.key, "port_number") = wire.pn
    BY <2>1, <2>2
  <2>8. \E v \in from..to : Effective(past'[v].cfg, wire.key, "vlan_id") = wire.vlan
    BY <2>1, <2>3
  <2>9. LET named == Effective(past'[n].cfg, wire.key, "clock_identity")
        IN  IF named = NullIdentity THEN \E w \in from..to : wire.ci = past'[w].port.ci
                                    ELSE wire.ci = named
    BY <2>4, <2>5, <2>6
  <2> QED
    BY <2>7, <2>8, <2>9
<1>4. /\ FieldOf(wire.from, wire.to, wire.key, "port_number", wire.pn)'
      /\ FieldOf(wire.from, wire.to, wire.key, "vlan_id", wire.vlan)'
      /\ IdentityOf(wire.from, wire.to, wire.key, wire.ci)'
  BY <1>3 DEF FieldOf, IdentityOf
<1>5. /\ wire'.to \in 1..Len(past') /\ wire'.from \in Nat \ {0} /\ wire'.since \in 1..wire'.to
      /\ wire'.key # "followup" => wire'.from <= wire'.since
      /\ wire'.domain = Effective(past'[wire'.since].cfg, wire'.key, "domain_number")
  BY <1>1 DEF WireSees
<1> QED
  BY <1>4, <1>5 DEF WireSees

\* The configuration and the source port that a thread reads now.
LEMMA NowInForce ==
  ASSUME ConfigInv, NEW from \in Nat \ {0}, from <= applied
  PROVE  /\ applied \in from..Len(past) /\ Len(past) \in from..Len(past)
         /\ ConfigOf(from, cfg)
         /\ port = past[applied].port
<1>1. /\ applied \in Nat /\ applied <= Len(past) /\ Len(past) \in Nat
      /\ cfg = past[Len(past)].cfg /\ port = past[applied].port
  BY DEF ConfigInv, History
<1> QED
  BY <1>1 DEF ConfigOf

LEMMA SendKeepsFrame ==
  ASSUME ConfigInv, FrameInv, Send
  PROVE  FrameInv'
<1>1. UNCHANGED <<cfg, port, past, applied>> /\ [Next]_vars /\ SenderSees /\ WireSees
  BY DEF FrameInv, Next, Send, SendBegins, FollowUpBegins, SourceReads, SendBuilds, SendDies,
         SendFrame
<1>2. applied \in Nat \ {0}
  BY DEF ConfigInv, History
<1>0. Len(past) \in Nat \ {0} /\ applied <= Len(past) /\ cfg = past[Len(past)].cfg
  BY DEF ConfigInv, History
<1>3. CASE \E k \in MessageKeys \ {"followup"} : SendBegins(k)
  <2>1. /\ sender'.pc = "read" /\ sender'.held = cfg /\ sender'.since = Len(past)
        /\ sender'.from = applied /\ wire' = NoFrame
    BY <1>3 DEF SendBegins
  <2>2. SenderSees'
    BY <1>0, <1>1, <1>2, <2>1 DEF SenderSees
  <2> QED
    BY <2>1, <2>2 DEF FrameInv, WireSees
<1>4. CASE FollowUpBegins
  <2>1. /\ sender.pc = "gap" /\ sender'.pc = "read" /\ sender'.held = sender.held
        /\ sender'.since = sender.since /\ sender'.key = "followup"
        /\ sender'.from = applied /\ wire' = NoFrame
    BY <1>4 DEF FollowUpBegins
  <2>2. SenderSees'
    BY <1>0, <1>1, <1>2, <2>1 DEF SenderSees
  <2> QED
    BY <2>1, <2>2 DEF FrameInv, WireSees
<1>5. CASE SourceReads
  <2>1. /\ sender.pc = "read" /\ sender'.pc = "source" /\ sender'.held = sender.held
        /\ sender'.since = sender.since /\ sender'.key = sender.key
        /\ sender'.from = sender.from /\ sender'.fresh = cfg /\ wire' = wire
    BY <1>5 DEF SourceReads
  <2>2. sender.from \in Nat \ {0} /\ sender.from <= applied
    BY <1>1, <2>1 DEF SenderSees
  <2>3. ConfigOf(sender.from, cfg)
    BY <2>2, NowInForce
  <2>4. ConfigOf(sender.from, sender.fresh)'
    BY <1>1, <2>1, <2>3 DEF ConfigOf
  <2>5. SenderSees'
    BY <1>1, <2>1, <2>2, <2>4 DEF SenderSees
  <2> QED
    BY <1>1, <2>1, <2>5, WireStays DEF FrameInv
<1>6. CASE SendBuilds
  <2> DEFINE key == sender.key
             from == sender.from
  <2>1. /\ sender.pc = "source" /\ sender'.pc = "built" /\ sender'.key = key
        /\ sender'.from = from /\ sender'.since = sender.since /\ sender'.source = Source
        /\ sender'.domain = Effective(sender.held, key, "domain_number") % 256
        /\ sender'.held = sender.held /\ wire' = wire
    BY <1>6 DEF SendBuilds
  <2>2. /\ from \in Nat \ {0} /\ from <= applied /\ ConfigOf(from, sender.fresh)
        /\ sender.since \in 1..Len(past) /\ sender.held = past[sender.since].cfg
    BY <1>1, <2>1 DEF SenderSees
  <2>3. Valid(sender.held)
    <3>1. sender.since \in DOMAIN past
      BY <2>2, Grown DEF ConfigInv, History
    <3>2. Valid(past[sender.since].cfg)
      BY <3>1 DEF ConfigInv, History
    <3> QED
      BY <2>2, <3>2, Zenon
  <2>4. sender'.domain = Effective(sender.held, key, "domain_number")
    BY <2>1, <2>3, DomainFits
  <2>5. PICK w \in from..Len(past) : sender.fresh = past[w].cfg
    BY <2>2 DEF ConfigOf
  <2>6. applied \in from..Len(past) /\ port = past[applied].port
    BY <2>2, NowInForce
  <2>7. Source.pn = Effective(past[w].cfg, key, "port_number")
    BY <2>5 DEF Source
  <2>8. FieldOf(sender.from, Len(past), sender.key, "port_number", sender.source.pn)'
    BY <1>1, <2>1, <2>5, <2>7 DEF FieldOf
  <2>9. IdentityOf(from, Len(past), key, Source.ci)
    <3>1. Source.ci = IF Effective(past[w].cfg, key, "clock_identity") = NullIdentity
                        THEN past[applied].port.ci
                        ELSE Effective(past[w].cfg, key, "clock_identity")
      BY <2>5, <2>6 DEF Source
    <3> QED
      BY <2>5, <2>6, <3>1 DEF IdentityOf
  <2>10. IdentityOf(sender.from, Len(past), sender.key, sender.source.ci)'
    BY <1>1, <2>1, <2>9 DEF IdentityOf
  <2>11. SenderSees'
    <3>1. sender.key # "followup" => sender.from <= sender.since
      BY <1>1, <2>1 DEF SenderSees
    <3> QED
      BY <1>1, <2>1, <2>2, <2>4, <2>8, <2>10, <3>1 DEF SenderSees
  <2> QED
    BY <1>1, <2>1, <2>11, WireStays DEF FrameInv
<1>7. CASE SendDies
  <2>1. sender'.pc = "idle" /\ wire' = wire
    BY <1>7 DEF SendDies, IdleSender
  <2> QED
    BY <1>1, <2>1, WireStays DEF FrameInv, SenderSees
<1>8. CASE SendFrame
  <2>1. /\ sender.pc = "built"
        /\ wire' = [key |-> sender.key, ci |-> sender.source.ci, pn |-> sender.source.pn,
                    domain |-> sender.domain, vlan |-> Effective(cfg, sender.key, "vlan_id"),
                    since |-> sender.since, from |-> sender.from, to |-> Len(past)]
        /\ \/ sender' = [pc |-> "idle"]
           \/ sender' = [pc |-> "gap", key |-> "sync", held |-> sender.held,
                         since |-> sender.since]
    BY <1>8 DEF SendFrame, IdleSender, Vlan
  <2>2. /\ sender.since \in 1..Len(past) /\ sender.held = past[sender.since].cfg
        /\ sender.from \in Nat \ {0} /\ sender.from <= applied
        /\ sender.key # "followup" => sender.from <= sender.since
        /\ sender.domain = Effective(sender.held, sender.key, "domain_number")
        /\ FieldOf(sender.from, Len(past), sender.key, "port_number", sender.source.pn)
        /\ IdentityOf(sender.from, Len(past), sender.key, sender.source.ci)
    BY <1>1, <2>1 DEF SenderSees
  <2>3. FieldOf(sender.from, Len(past), sender.key, "vlan_id",
                Effective(cfg, sender.key, "vlan_id"))
    <3>1. Len(past) \in sender.from..Len(past) /\ cfg = past[Len(past)].cfg
      BY <2>2, NowInForce DEF ConfigInv, History
    <3> QED
      BY <3>1 DEF FieldOf
  <2>4. /\ wire'.from = sender.from /\ wire'.to = Len(past) /\ wire'.key = sender.key
        /\ wire'.domain = sender.domain /\ wire'.pn = sender.source.pn /\ wire'.since = sender.since
        /\ wire'.ci = sender.source.ci /\ wire'.vlan = Effective(cfg, sender.key, "vlan_id")
    BY <2>1
  <2>5. WireSees'
    BY <1>0, <1>1, <2>2, <2>3, <2>4 DEF WireSees, FieldOf, IdentityOf
  <2>6. SenderSees'
    BY <1>1, <2>1, <2>2 DEF SenderSees
  <2> QED
    BY <2>5, <2>6 DEF FrameInv
<1> QED
  BY <1>3, <1>4, <1>5, <1>6, <1>7, <1>8 DEF Send

LEMMA InitFrame == Init => FrameInv
  BY DEF Init, FrameInv, SenderSees, WireSees, IdleSender

LEMMA NextKeepsFrame ==
  ASSUME ConfigInv, FrameInv, [Next]_vars
  PROVE  FrameInv'
<1>1. CASE Send
  BY <1>1, SendKeepsFrame
<1>2. ASSUME UNCHANGED <<sender, wire>> PROVE FrameInv'
  BY <1>2, SenderStays, WireStays DEF FrameInv
<1>3. CASE (\E u \in Updaters : Update(u)) \/ Hear \/ UNCHANGED vars
  <2>1. UNCHANGED <<sender, wire>>
    BY <1>3 DEF Update, UpdateCopies, UpdateDoesNothing, UpdateValidates, UpdateStores,
                UpdateSetsPort, Hear, HearReads, HearDecides, vars
  <2> QED
    BY <1>2, <2>1
<1> QED
  BY <1>1, <1>3 DEF Next

\* Identity, port number and VLAN of a frame were in force while it was made, although
\* the thread that sends reads them one after the other without the lock; its domain
\* number was in force when it, or the Sync of a Follow_Up, was begun.
THEOREM FramesAreCurrent == Spec => []FrameCurrent
<1> DEFINE Both == ConfigInv /\ FrameInv
<1>1. Init => Both
  BY InitConfig, InitFrame
<1>2. Both /\ [Next]_vars => Both'
  BY NextKeepsConfig, NextKeepsFrame
<1>3. Both => FrameCurrent
  <2> SUFFICES ASSUME WireSees, wire # NoFrame PROVE FrameCurrent
    BY DEF FrameInv, FrameCurrent
  <2> DEFINE window == {past[v] : v \in wire.from..wire.to}
  <2>1. /\ \E p \in window : Effective(p.cfg, wire.key, "port_number") = wire.pn
        /\ \E p \in window : Effective(p.cfg, wire.key, "vlan_id") = wire.vlan
    BY DEF WireSees, FieldOf
  <2>2. \E p \in window : wire.ci \in {p.port.ci, Effective(p.cfg, wire.key, "clock_identity")}
    <3>1. PICK v \in wire.from..wire.to :
            LET named == Effective(past[v].cfg, wire.key, "clock_identity")
            IN  IF named = NullIdentity THEN \E w \in wire.from..wire.to : wire.ci = past[w].port.ci
                                        ELSE wire.ci = named
      BY DEF WireSees, IdentityOf
    <3>2. CASE \E w \in wire.from..wire.to : wire.ci = past[w].port.ci
      BY <3>2
    <3>3. CASE wire.ci = Effective(past[v].cfg, wire.key, "clock_identity")
      BY <3>3
    <3> QED
      BY <3>1, <3>2, <3>3
  <2>3. /\ wire.domain = Effective(past[wire.since].cfg, wire.key, "domain_number")
        /\ wire.key # "followup" => wire.since \in wire.from..wire.to
    BY DEF WireSees
  <2> HIDE DEF window
  <2> QED
    BY <2>1, <2>2, <2>3 DEF FrameCurrent, window
<1> QED
  BY <1>1, <1>2, <1>3, PTL DEF Spec

-----------------------------------------------------------------------------
(***************************************************************************)
(* What the receiver makes of the master's own frames.                     *)
(***************************************************************************)
\* A frame is judged after it was sent and before the next is begun, by a
\* configuration read in between.
EchoInv ==
  /\ sender.pc \in {"read", "source", "built"} => wire = NoFrame
  /\ sender.pc \in {"read", "source", "built", "gap"} => sender.key \in MessageKeys
  /\ wire = NoFrame => rx.pc = "idle"
  /\ wire # NoFrame => wire.key \in MessageKeys /\ wire.from <= applied
  /\ rx.pc = "read" => ConfigOf(wire.from, rx.cfg)
  /\ NoEcho

\* No configuration since the frame was begun has other identities.
Steady(from) == \A v \in from + 1..Len(past) : Identities(past[v]) = Identities(past[from])

\* Under identities that stay, the one that a frame carries is one by which the receiver
\* knows the master, whatever else is updated.
LEMMA OwnIsKnown ==
  ASSUME ConfigInv, FrameInv, EchoInv, rx.pc = "read", Steady(wire.from)
  PROVE  Verdict(wire, rx.cfg) # "foreign"
<1> DEFINE key == wire.key
           from == wire.from
           last == Len(past)
           Named(v) == Effective(past[v].cfg, key, "clock_identity")
           ids == Identities(past[from])
           one == ids[2][key]
<1>1. key \in MessageKeys /\ from <= applied /\ ConfigOf(from, rx.cfg)
  BY DEF EchoInv
<1>2. from \in Nat \ {0} /\ wire.to \in 1..last /\ IdentityOf(from, wire.to, key, wire.ci)
  BY DEF EchoInv, FrameInv, WireSees
<1>3. last \in Nat /\ applied \in from..last /\ port = past[applied].port
  BY <1>1, <1>2 DEF ConfigInv, History
<1>4. \A v \in from..last : Identities(past[v]) = ids
  BY <1>2, <1>3 DEF Steady
<1>5. \A v \in from..last :
        /\ past[v].port.ci = ids[1]
        /\ one = IF Named(v) = NullIdentity THEN ids[1] ELSE Named(v)
  <2> TAKE v \in from..last
  <2>1. Identities(past[v])[1] = past[v].port.ci
    BY DEF Identities
  <2>2. Identities(past[v])[2][key] =
          IF Named(v) = NullIdentity THEN past[v].port.ci ELSE Named(v)
    BY <1>1 DEF Identities
  <2>3. Identities(past[v]) = ids
    BY <1>4
  <2> HIDE DEF ids, Named
  <2> QED
    BY <2>1, <2>2, <2>3
<1> HIDE DEF ids
<1>6. wire.ci = one
  <2>1. PICK v \in from..wire.to :
          IF Named(v) = NullIdentity THEN \E w \in from..wire.to : wire.ci = past[w].port.ci
                                     ELSE wire.ci = Named(v)
    BY <1>2 DEF IdentityOf
  <2>2. \A w \in from..wire.to : w \in from..last
    BY <1>2, <1>3
  <2> HIDE DEF Named
  <2> QED
    BY <1>5, <2>1, <2>2
<1>7. PICK u \in from..last : rx.cfg = past[u].cfg
  BY <1>1 DEF ConfigOf
<1>8. port.ci = ids[1]
  BY <1>3, <1>5
<1>9. one \in OwnIdentities(rx.cfg)
  <2>1. one = IF Named(u) = NullIdentity THEN port.ci ELSE Named(u)
    BY <1>5, <1>7, <1>8
  <2>2. Named(u) = Effective(rx.cfg, key, "clock_identity")
    BY <1>7
  <2> QED
    BY <1>1, <2>1, <2>2 DEF OwnIdentities
<1> QED
  BY <1>6, <1>9 DEF Verdict

\* A step that neither sends nor hears: the history may grow behind the frame.
LEMMA UpdatesKeepEcho ==
  ASSUME ConfigInv, FrameInv, EchoInv, [Next]_vars, UNCHANGED <<sender, wire, rx>>
  PROVE  EchoInv'
<1>1. /\ Len(past) \in Nat /\ Len(past') \in Nat /\ Len(past) <= Len(past')
      /\ applied \in Nat /\ applied' \in Nat /\ applied <= applied'
      /\ \A v \in 1..Len(past) : past'[v] = past[v]
  BY HistoryGrows
<1>2. wire # NoFrame => wire.from \in Nat \ {0}
  BY DEF FrameInv, WireSees
<1>3. wire' # NoFrame => wire'.key \in MessageKeys /\ wire'.from <= applied'
  BY <1>1, <1>2 DEF EchoInv
<1>4. ASSUME rx.pc = "read" PROVE ConfigOf(wire.from, rx.cfg)'
  <2>1. wire # NoFrame /\ ConfigOf(wire.from, rx.cfg)
    BY <1>4 DEF EchoInv
  <2>2. PICK v \in wire.from..Len(past) : rx.cfg = past[v].cfg
    BY <2>1 DEF ConfigOf
  <2>3. v \in wire.from..Len(past') /\ past'[v] = past[v]
    BY <1>1, <1>2, <2>1
  <2> QED
    BY <2>2, <2>3 DEF ConfigOf
<1>5. NoEcho'
  <2> SUFFICES ASSUME rx.pc = "foreign"
               PROVE  \E v \in wire.from + 1..Len(past') :
                        Identities(past'[v]) # Identities(past'[wire.from])
    BY DEF NoEcho, Identities
  <2>1. PICK v \in wire.from + 1..Len(past) : Identities(past[v]) # Identities(past[wire.from])
    BY DEF EchoInv, NoEcho
  <2>2. wire.from \in Nat \ {0}
    BY <1>2 DEF EchoInv
  <2>3. v \in wire.from + 1..Len(past') /\ past'[v] = past[v] /\ past'[wire.from] = past[wire.from]
    BY <1>1, <2>1, <2>2
  <2> QED
    BY <2>1, <2>3
<1> QED
  BY <1>3, <1>4, <1>5 DEF EchoInv

LEMMA SendKeepsEcho ==
  ASSUME ConfigInv, FrameInv, EchoInv, Send
  PROVE  EchoInv'
<1>1. UNCHANGED <<past, applied>>
  BY OthersKeepConfig
<1>2. ASSUME wire' = NoFrame, rx' = IdleRx,
             sender'.pc = "read", sender'.key \in MessageKeys
      PROVE  EchoInv'
  BY <1>2 DEF EchoInv, NoEcho, IdleRx
<1>3. CASE \E k \in MessageKeys \ {"followup"} : SendBegins(k)
  BY <1>2, <1>3 DEF SendBegins
<1>4. CASE FollowUpBegins
  <2>1. /\ wire' = NoFrame /\ rx' = IdleRx
        /\ sender'.pc = "read" /\ sender'.key = "followup"
    BY <1>4 DEF FollowUpBegins
  <2> QED
    BY <1>2, <2>1 DEF MessageKeys
<1>5. CASE SourceReads \/ SendBuilds
  <2>1. /\ sender.pc \in {"read", "source"} /\ sender'.pc \in {"source", "built"}
        /\ sender'.key = sender.key /\ UNCHANGED <<wire, rx>>
    BY <1>5 DEF SourceReads, SendBuilds
  <2> QED
    BY <1>1, <2>1 DEF EchoInv, NoEcho, ConfigOf
<1>6. CASE SendDies
  <2>1. sender'.pc = "idle" /\ UNCHANGED <<wire, rx>>
    BY <1>6 DEF SendDies, IdleSender
  <2> QED
    BY <1>1, <2>1 DEF EchoInv, NoEcho, ConfigOf
<1>7. CASE SendFrame
  <2>1. /\ sender.pc = "built" /\ rx' = rx
        /\ wire'.key = sender.key /\ wire'.from = sender.from
        /\ \/ sender'.pc = "idle"
           \/ sender'.pc = "gap" /\ sender'.key = "sync"
    BY <1>7 DEF SendFrame, IdleSender
  <2>2. rx.pc = "idle" /\ sender.key \in MessageKeys /\ sender.from <= applied
    BY <2>1 DEF EchoInv, FrameInv, SenderSees
  <2>3. wire' # NoFrame
    <3>1. wire'.key # "none"
      BY <2>1, <2>2 DEF MessageKeys
    <3> QED
      BY <3>1 DEF NoFrame
  <2> QED
    BY <1>1, <2>1, <2>2, <2>3 DEF EchoInv, NoEcho, MessageKeys
<1> QED
  BY <1>3, <1>4, <1>5, <1>6, <1>7 DEF Send

LEMMA HearKeepsEcho ==
  ASSUME ConfigInv, FrameInv, EchoInv, Hear
  PROVE  EchoInv'
<1>1. UNCHANGED <<past, applied>>
  BY OthersKeepConfig
<1>2. CASE HearReads
  <2>1. /\ wire # NoFrame /\ rx' = [pc |-> "read", cfg |-> cfg]
        /\ UNCHANGED <<sender, wire>>
    BY <1>2 DEF HearReads
  <2>2. wire.from \in Nat \ {0} /\ wire.from <= applied
    BY <2>1 DEF EchoInv, FrameInv, WireSees
  <2>3. ConfigOf(wire.from, cfg)
    BY <2>2, NowInForce
  <2>4. ConfigOf(wire.from, rx.cfg)'
    BY <1>1, <2>1, <2>3 DEF ConfigOf
  <2> QED
    BY <1>1, <2>1, <2>4 DEF EchoInv, NoEcho
<1>3. CASE HearDecides
  <2>1. /\ rx.pc = "read" /\ rx'.pc = Verdict(wire, rx.cfg)
        /\ UNCHANGED <<sender, wire>>
    BY <1>3 DEF HearDecides
  <2>2. wire # NoFrame
    BY <2>1 DEF EchoInv
  <2>3. rx'.pc = "foreign" => ~Steady(wire.from)
    BY <2>1, OwnIsKnown
  <2>4. rx'.pc # "read"
    BY <2>1 DEF Verdict
  <2> QED
    BY <1>1, <2>1, <2>2, <2>3, <2>4 DEF EchoInv, NoEcho, Steady, Identities
<1> QED
  BY <1>2, <1>3 DEF Hear

\* The master knows its own frames, whatever overrides there are and whatever is updated
\* while a frame is sent and heard, as long as no update changes an identity.
THEOREM NoEchoEver == Spec => []NoEcho
<1> DEFINE All == ConfigInv /\ FrameInv /\ EchoInv
<1>1. Init => All
  <2>1. Init => EchoInv
    BY DEF Init, EchoInv, NoEcho, IdleSender, IdleRx
  <2> QED
    BY <2>1, InitConfig, InitFrame
<1>2. All /\ [Next]_vars => All'
  <2> SUFFICES ASSUME ConfigInv, FrameInv, EchoInv, [Next]_vars PROVE EchoInv'
    BY NextKeepsConfig, NextKeepsFrame
  <2>1. CASE (\E u \in Updaters : Update(u)) \/ UNCHANGED vars
    <3>1. UNCHANGED <<sender, wire, rx>>
      BY <2>1 DEF Update, UpdateCopies, UpdateDoesNothing, UpdateValidates, UpdateStores,
                  UpdateSetsPort, vars
    <3> QED
      BY <3>1, UpdatesKeepEcho
  <2> QED
    BY <2>1, SendKeepsEcho, HearKeepsEcho DEF Next
<1>3. All => NoEcho
  BY DEF EchoInv
<1> QED
  BY <1>1, <1>2, <1>3, PTL DEF Spec

-----------------------------------------------------------------------------
(***************************************************************************)
(* Types, and that no frame carries an identity which is none.             *)
(***************************************************************************)
Steps ==
  /\ \A u \in Updaters : updater[u].pc \in {"idle", "validate", "store", "port"}
  /\ sender.pc \in {"idle", "read", "source", "built", "gap"}
  /\ rx.pc \in {"idle", "read", "own", "foreign", "other_domain"}
  /\ alive \subseteq {"tx", "resp"}
  /\ Len(past) <= MaxUpdates + 1

\* What is made of an identity that is missing is one.
Names ==
  /\ IsIdentity(port.ci) /\ port.pn \in Uint16
  /\ sender.pc = "built" => IsIdentity(sender.source.ci)
  /\ wire = NoFrame \/ IsIdentity(wire.ci)

\* An identity that has been validated is one, or missing, overridden or not.
LEMMA IdentityFits ==
  ASSUME NEW c, Valid(c), NEW key
  PROVE  LET ci == Effective(c, key, "clock_identity") IN ci = NullIdentity \/ IsIdentity(ci)
<1>1. c.clock_identity \notin {Empty, Short, AllOnes}
  BY DEF Valid, ValidIdentity
<1>2. ASSUME key \in DOMAIN c.message_overrides,
             "clock_identity" \in DOMAIN c.message_overrides[key]
      PROVE  c.message_overrides[key]["clock_identity"] \notin {Empty, Short, AllOnes}
  BY <1>2 DEF Valid, ValidOverride, ValidIdentity
<1>3. Effective(c, key, "clock_identity") \notin {Empty, Short, AllOnes}
  BY <1>1, <1>2 DEF Effective
<1> QED
  BY <1>3 DEF IsIdentity

\* What a thread that sends has read is an entry of the history.
LEMMA ReadIsPast ==
  ASSUME ConfigInv, NEW from \in Nat \ {0}, NEW c, ConfigOf(from, c)
  PROVE  Valid(c)
<1>1. PICK v \in from..Len(past) : c = past[v].cfg
  BY DEF ConfigOf
<1>2. v \in DOMAIN past
  BY <1>1, Grown DEF ConfigInv, History
<1>3. Valid(past[v].cfg)
  BY <1>2 DEF ConfigInv, History
<1> QED
  BY <1>1, <1>3, Zenon

LEMMA PortFits ==
  ASSUME NEW c, Valid(c), NEW identity, IsIdentity(identity)
  PROVE  IsIdentity(PortOf(c, identity).ci) /\ PortOf(c, identity).pn \in Uint16
  BY DEF Valid, ValidIdentity, PortOf, IsIdentity

LEMMA StepsStay ==
  ASSUME ConfigInv, Steps, [Next]_vars
  PROVE  Steps'
<1>1. CASE UNCHANGED vars
  BY <1>1 DEF Steps, vars
<1>2. ASSUME NEW u \in Updaters, NEW state, Updater(u, state),
             state.pc \in {"idle", "validate", "store", "port"},
             UNCHANGED <<sender, rx, alive>>, Len(past') <= MaxUpdates + 1
      PROVE  Steps'
  BY <1>2 DEF Steps, Updater, ConfigInv, Updates
<1>3. ASSUME NEW u \in Updaters, Update(u) PROVE Steps'
  <2>1. CASE UpdateCopies(u)
    <3>1. PICK state : Updater(u, state) /\ state.pc = "validate"
      BY <2>1 DEF UpdateCopies
    <3> QED
      BY <1>2, <2>1, <3>1 DEF UpdateCopies, Steps
  <2>2. CASE UpdateDoesNothing(u)
    BY <1>1, <2>2 DEF UpdateDoesNothing
  <2>3. CASE UpdateValidates(u)
    <3>1. PICK state : Updater(u, state) /\ state.pc \in {"store", "idle"}
      BY <2>3 DEF UpdateValidates, IdleUpdater
    <3> QED
      BY <1>2, <2>3, <3>1 DEF UpdateValidates, Steps
  <2>4. CASE UpdateStores(u)
    <3>1. Len(past') = Len(past) + 1 /\ Len(past) \in Nat /\ Len(past) <= MaxUpdates
      BY <2>4, Grown, StoringKeepsConfig DEF UpdateStores, ConfigInv, History
    <3>2. Len(past') <= MaxUpdates + 1
      BY <3>1, UpdatersAssumption
    <3> QED
      BY <1>2, <2>4, <3>2 DEF UpdateStores
  <2>5. CASE UpdateSetsPort(u)
    BY <1>2, <2>5 DEF UpdateSetsPort, IdleUpdater, Steps
  <2> QED
    BY <1>3, <2>1, <2>2, <2>3, <2>4, <2>5 DEF Update
<1>4. CASE Send
  <2>1. UNCHANGED <<updater, past>> /\ alive' \subseteq alive
    BY <1>4 DEF Send, SendBegins, FollowUpBegins, SourceReads, SendBuilds, SendDies, SendFrame
  <2>2. sender'.pc \in {"idle", "read", "source", "built", "gap"}
    BY <1>4 DEF Send, SendBegins, FollowUpBegins, SourceReads, SendBuilds, SendDies, SendFrame,
       IdleSender
  <2>3. rx' = rx \/ rx'.pc = "idle"
    BY <1>4 DEF Send, SendBegins, FollowUpBegins, SourceReads, SendBuilds, SendDies, SendFrame,
       IdleRx
  <2> QED
    BY <2>1, <2>2, <2>3 DEF Steps
<1>5. CASE Hear
  <2>1. rx'.pc \in {"read", "own", "foreign", "other_domain"}
    BY <1>5 DEF Hear, HearReads, HearDecides, Verdict
  <2> QED
    BY <1>5, <2>1 DEF Hear, HearReads, HearDecides, Steps
<1> QED
  BY <1>1, <1>3, <1>4, <1>5 DEF Next

LEMMA NamesStay ==
  ASSUME ConfigInv, FrameInv, Names, [Next]_vars
  PROVE  Names'
<1>1. ASSUME UNCHANGED <<port, wire>>, sender' = sender \/ sender'.pc # "built" PROVE Names'
  BY <1>1 DEF Names
<1>2. ASSUME NEW u \in Updaters, UpdateSetsPort(u) PROVE Names'
  <2>1. updater[u].pc = "port" /\ port' = PortOf(updater[u].new, port.ci)
    BY <1>2 DEF UpdateSetsPort
  <2>2. updater[u].new = cfg /\ Valid(cfg)
    <3>1. cfg = past[Len(past)].cfg /\ Valid(past[Len(past)].cfg)
      BY Grown DEF ConfigInv, History
    <3> QED
      BY <2>1, <3>1, Zenon DEF ConfigInv, Updates
  <2>3. IsIdentity(port'.ci) /\ port'.pn \in Uint16
    BY <2>1, <2>2, PortFits DEF Names
  <2> QED
    BY <1>2, <2>3 DEF UpdateSetsPort, Names
<1>3. ASSUME NEW u \in Updaters, Update(u) PROVE Names'
  BY <1>1, <1>2, <1>3 DEF Update, UpdateCopies, UpdateDoesNothing, UpdateValidates,
     UpdateStores, vars
<1>4. CASE SendBuilds
  <2>1. Valid(sender.fresh)
    BY <1>4, ReadIsPast DEF SendBuilds, FrameInv, SenderSees
  <2>2. IsIdentity(Source.ci)
    BY <2>1, IdentityFits DEF Source, Names
  <2> QED
    BY <1>4, <2>2 DEF SendBuilds, Names
<1>5. CASE SendFrame
  <2>1. wire'.ci = sender.source.ci /\ sender'.pc # "built" /\ port' = port
    BY <1>5 DEF SendFrame, IdleSender
  <2>2. IsIdentity(wire'.ci)
    BY <1>5, <2>1 DEF SendFrame, Names
  <2> QED
    BY <2>1, <2>2 DEF Names
<1>6. CASE \/ \E k \in MessageKeys \ {"followup"} : SendBegins(k)
           \/ FollowUpBegins
  <2>1. wire' = NoFrame /\ port' = port /\ sender'.pc = "read"
    BY <1>6 DEF SendBegins, FollowUpBegins
  <2> QED
    BY <2>1 DEF Names, NoFrame
<1>7. CASE SourceReads \/ SendDies \/ Hear \/ UNCHANGED vars
  BY <1>1, <1>7 DEF SourceReads, SendDies, IdleSender, Hear, HearReads, HearDecides, vars
<1> QED
  BY <1>3, <1>4, <1>5, <1>6, <1>7 DEF Next, Send

LEMMA InitAll == Init => ConfigInv /\ FrameInv /\ Steps /\ Names
<1> SUFFICES ASSUME Init PROVE Steps /\ Names
  BY InitConfig, InitFrame
<1>1. Steps
  <2>1. Len(past) = 1 /\ 1 <= MaxUpdates + 1
    BY UpdatersAssumption DEF Init
  <2> QED
    BY <2>1 DEF Init, Steps, IdleUpdater, IdleSender, IdleRx
<1>2. IsIdentity(FromMac)
  BY DEF IsIdentity, FromMac, NullIdentity, Empty, Short, AllOnes
<1>3. Valid(cfg) /\ port = PortOf(cfg, FromMac)
  BY DEF Init
<1>4. IsIdentity(port.ci) /\ port.pn \in Uint16
  BY <1>2, <1>3, PortFits
<1>5. sender.pc # "built" /\ wire = NoFrame
  BY DEF Init, IdleSender
<1> QED
  BY <1>1, <1>4, <1>5 DEF Names

\* The configuration in force has an identity and a domain that validate() admits,
\* whichever update came last, and neither the source port nor a frame ever carries the
\* identity that stands for none: _source_for() reads configuration and source port one
\* after the other, while HTTP threads replace both.
THEOREM TypeCorrect == Spec => []TypeOK
<1> DEFINE All == ConfigInv /\ FrameInv /\ Steps /\ Names
<1>1. Init => All
  BY InitAll
<1>2. All /\ [Next]_vars => All'
  BY NextKeepsConfig, NextKeepsFrame, StepsStay, NamesStay
<1>3. All => TypeOK
  <2> SUFFICES ASSUME ConfigInv, Steps, Names PROVE TypeOK
    OBVIOUS
  <2>1. Len(past) \in Nat \ {0} /\ applied \in 1..Len(past)
    <3>1. /\ Len(past) \in Nat \ {0} /\ applied \in Nat \ {0}
          /\ applied = Len(past) \/ applied = Len(past) - 1
      BY DEF ConfigInv, History
    <3> QED
      BY <3>1
  <2>2. Len(past) \in 1..MaxUpdates + 1
    BY <2>1, UpdatersAssumption DEF Steps
  <2>3. Valid(cfg)
    <3>1. cfg = past[Len(past)].cfg /\ Valid(past[Len(past)].cfg)
      BY Grown DEF ConfigInv, History
    <3> QED
      BY <3>1, Zenon
  <2>4. /\ cfg.clock_identity = NullIdentity \/ IsIdentity(cfg.clock_identity)
        /\ cfg.domain_number \in DomainRange[cfg.profile]
    BY <2>3 DEF Valid, ValidIdentity, IsIdentity
  <2>5. lock \in Updaters \cup {Nobody}
    BY DEF ConfigInv, Updates
  <2> QED
    BY <2>1, <2>2, <2>4, <2>5 DEF TypeOK, Steps, Names
<1> QED
  BY <1>1, <1>2, <1>3, PTL DEF Spec

-----------------------------------------------------------------------------
(***************************************************************************)
(* What ends a thread that sends.                                          *)
(***************************************************************************)
\* A port number or a VLAN that has been validated fits its field, overridden or not.
LEMMA NumbersFit ==
  ASSUME NEW c, Valid(c), NEW key
  PROVE  /\ Effective(c, key, "port_number") \in Uint16
         /\ Effective(c, key, "vlan_id") \in Uint12 \cup {Null}
<1>1. c.port_number \in Uint16 /\ c.vlan_id \in Uint12 \cup {Null}
  BY DEF Valid
<1>2. ASSUME key \in DOMAIN c.message_overrides,
             "port_number" \in DOMAIN c.message_overrides[key]
      PROVE  c.message_overrides[key]["port_number"] \in Uint16
  BY <1>2 DEF Valid, ValidOverride
<1>3. ASSUME key \in DOMAIN c.message_overrides,
             "vlan_id" \in DOMAIN c.message_overrides[key]
      PROVE  c.message_overrides[key]["vlan_id"] \in Uint12 \cup {Null}
  BY <1>3 DEF Valid, ValidOverride
<1> QED
  BY <1>1, <1>2, <1>3 DEF Effective

\* A thread ends in the one way: at an Announce whose priority1 fits no octet.
LEMMA OnlyPriorityKills ==
  ASSUME ConfigInv, FrameInv, Names, SendDies
  PROVE  /\ sender.key = "announce" /\ sender.held.priority1 \notin Uint8
         /\ alive' = alive \ {"tx"}
<1>1. Valid(cfg)
  <2>1. cfg = past[Len(past)].cfg /\ Valid(past[Len(past)].cfg)
    BY Grown DEF ConfigInv, History
  <2> QED
    BY <2>1, Zenon
<1>2. sender.pc = "built" => Tags
  BY <1>1, NumbersFit DEF Tags, Vlan
<1>3. sender.pc = "source" /\ ~Packs
  BY <1>2 DEF SendDies
<1>4. Valid(sender.fresh)
  BY <1>3, ReadIsPast DEF FrameInv, SenderSees
<1>5. Source.pn \in Uint16
  BY <1>4, NumbersFit DEF Source
<1>6. IsIdentity(Source.ci)
  BY <1>4, IdentityFits DEF Source, Names
<1>7. Source.ci # Short
  BY <1>6 DEF IsIdentity
<1>8. sender.key = "announce" /\ sender.held.priority1 \notin Uint8
  BY <1>3, <1>5, <1>7 DEF Packs, Identifies
<1> QED
  BY <1>8 DEF SendDies, ThreadOf

\* Whatever is updated, and whenever, the RESP thread dies of no field, and the TX thread
\* of none but the priority1 of an Announce, which validate() does not look at.
THEOREM HeadersAlwaysFit == Spec => HeadersFit
<1> DEFINE All == ConfigInv /\ FrameInv /\ Steps /\ Names
<1>1. Init => All
  BY InitAll
<1>2. All /\ [Next]_vars => All'
  BY NextKeepsConfig, NextKeepsFrame, StepsStay, NamesStay
<1>3. All /\ [Next]_vars =>
        [\A t \in alive \ alive' :
           t = "tx" /\ sender.key = "announce" /\ sender.held.priority1 \notin Uint8]_vars
  <2> SUFFICES ASSUME All, Next, NEW t \in alive \ alive'
               PROVE  t = "tx" /\ sender.key = "announce" /\ sender.held.priority1 \notin Uint8
    OBVIOUS
  <2>1. SendDies
    BY DEF Next, Update, UpdateCopies, UpdateDoesNothing, UpdateValidates, UpdateStores,
           UpdateSetsPort, Send, SendBegins, FollowUpBegins, SourceReads, SendBuilds,
           SendFrame, Hear, HearReads, HearDecides, vars
  <2> QED
    BY <2>1, OnlyPriorityKills
<1> QED
  BY <1>1, <1>2, <1>3, PTL DEF Spec, HeadersFit

=============================================================================
