---------------------------- MODULE RunningConfig ---------------------------
(***************************************************************************)
(* The configuration of an L2 master (l2master/config.py) from the file,   *)
(* the command line and the web to the fields of the frames: how it is     *)
(* built and validated, how HTTP threads replace it while the master runs  *)
(* (master.py, apply_runtime_update), how a thread that sends reads it     *)
(* several times for one frame, and how the receiver tells the master's    *)
(* own frames from those of others.                                        *)
(*                                                                         *)
(* Of the fields that a message type may override, dst_mac, vlan_pcp and   *)
(* transport_specific are left out: they go the way of vlan_id and of      *)
(* domain_number.  A null number is -1, which is no value of any input.    *)
(* When to send is the module TxLoop's.                                    *)
(***************************************************************************)
EXTENDS Integers, Sequences, TLC

CONSTANTS
  Updaters,   \* HTTP threads that call update_l2_master_lab()
  Files,      \* inputs: configuration files,
  Arguments,  \* options of the command line,
  Changes,    \* and bodies of an update, each a partial configuration
  MaxUpdates  \* bound: updates that succeed

ASSUME UpdatersAssumption == "nobody" \notin Updaters /\ MaxUpdates \in Nat

MessageKeys == {"announce", "sync", "followup", "delayresp"}
Common == {"domain_number", "clock_identity", "port_number", "vlan_id"}
Fields == Common \cup {"profile", "priority1", "header_link", "message_overrides"}

Null == -1
NullIdentity == "null"
Empty == ""            \* the string, which a form sends for an identity left out
AllOnes == "ff"
Short == "short"       \* an identity of another length than eight octets
FromMac == "mac"       \* clock_identity_from_mac()
NoOverrides == [k \in {} |-> 0]
Nobody == "nobody"

DomainRange == [g82751 |-> 24..43, v1588 |-> 0..127]
DefaultDomain == [g82751 |-> 43, v1588 |-> 0]
Uint8 == 0..255
Uint12 == 0..4095
Uint16 == 0..65535

VARIABLES
  cfg,        \* self.cfg
  port,       \* self.source_port
  lock,       \* self._lock, where it is held over two steps
  updater,    \* of each HTTP thread: where it is, and new_cfg
  sender,     \* a thread that sends: where it is, and what it has read
  alive,      \* the sending threads that have not died of an exception
  wire,       \* the last frame sent, or NoFrame
  rx,         \* the receiver and that frame, looped back
  past,       \* history: each configuration so far, with its source port
  applied     \* history: the updates that are complete, the start counted

vars == <<cfg, port, lock, updater, sender, alive, wire, rx, past, applied>>

-----------------------------------------------------------------------------
(***************************************************************************)
(* config.py: from a dictionary to a configuration.                        *)
(***************************************************************************)
Default(profile) ==
  [profile |-> profile, domain_number |-> DefaultDomain[profile],
   clock_identity |-> NullIdentity, port_number |-> 1, vlan_id |-> Null,
   priority1 |-> 128, header_link |-> TRUE, message_overrides |-> NoOverrides]

Restricted(f, S) == [x \in DOMAIN f \cap S |-> f[x]]

NotEmpty(d) == {f \in DOMAIN d : f = "clock_identity" => d[f] # Empty}

\* _parse_message_overrides(): an empty identity is dropped, and so is a table
\* of which nothing is left.
ParsedOverrides(table) ==
  LET parsed == [k \in DOMAIN table |-> Restricted(table[k], NotEmpty(table[k]))]
  IN  Restricted(parsed, {k \in DOMAIN parsed : DOMAIN parsed[k] # {}})

\* The fields of a dictionary.
Parsed(data) ==
  [f \in DOMAIN data |->
     IF f = "message_overrides" THEN ParsedOverrides(data[f]) ELSE data[f]]

\* patch_from_dict(): what is left of the body of an update.
Patch(change) == Parsed(Restricted(change, NotEmpty(change)))

\* config_from_dict() of the file under the options, before it is validated.
FromDict(file, arguments) ==
  LET data == arguments @@ file
      profile == IF "profile" \in DOMAIN data THEN data.profile ELSE "g82751"
  IN  Parsed(data) @@ Default(profile)

-----------------------------------------------------------------------------
\* Mutant of ValidIdentity: an identity of ones is let through.
AnyIdentity(ci) == ci \notin {Empty, Short}

\* A short one is refused already where its digits are parsed.
ValidIdentity(ci) == ci \notin {Empty, Short, AllOnes}

\* Mutant of ValidOverride: the table is taken as it is.
AnyOverride(f, v) == TRUE

\* _validate_override_value(); a null domain or port number is refused.
ValidOverride(f, v) ==
  CASE f = "domain_number" -> v \in Uint8
    [] f = "clock_identity" -> ValidIdentity(v)
    [] f = "port_number" -> v \in Uint16
    [] f = "vlan_id" -> v \in Uint12 \cup {Null}

\* validate(); priority1 is not looked at.
Valid(c) ==
  /\ c.profile \in DOMAIN DomainRange /\ c.domain_number \in DomainRange[c.profile]
  /\ ValidIdentity(c.clock_identity)
  /\ c.port_number \in Uint16
  /\ c.vlan_id \in Uint12 \cup {Null}
  /\ \A k \in DOMAIN c.message_overrides : \A f \in DOMAIN c.message_overrides[k] :
       f \in Common /\ ValidOverride(f, c.message_overrides[k][f])

\* effective(): the shared value, or that of the message type.
Effective(c, k, f) ==
  IF ~c.header_link /\ k \in DOMAIN c.message_overrides /\ f \in DOMAIN c.message_overrides[k]
    THEN c.message_overrides[k][f]
    ELSE c[f]

\* The source port of a configuration; without an identity the old one stays.
PortOf(c, identity) ==
  [ci |-> IF c.clock_identity = NullIdentity THEN identity ELSE c.clock_identity,
   pn |-> c.port_number]

-----------------------------------------------------------------------------
NoFrame == [key |-> "none"]
IdleUpdater == [pc |-> "idle"]
IdleSender == [pc |-> "idle"]
IdleRx == [pc |-> "idle"]

\* One that a frame may carry.
IsIdentity(ci) == ci \notin {NullIdentity, Empty, Short, AllOnes}

TypeOK ==
  /\ cfg.clock_identity = NullIdentity \/ IsIdentity(cfg.clock_identity)
  /\ cfg.domain_number \in DomainRange[cfg.profile]
  /\ IsIdentity(port.ci) /\ port.pn \in Uint16
  /\ lock \in Updaters \cup {Nobody}
  /\ \A u \in Updaters : updater[u].pc \in {"idle", "validate", "store", "port"}
  /\ sender.pc \in {"idle", "read", "source", "built", "gap"}
  /\ wire = NoFrame \/ IsIdentity(wire.ci)
  /\ rx.pc \in {"idle", "read", "own", "foreign", "other_domain"}
  /\ Len(past) \in 1..MaxUpdates + 1 /\ applied \in 1..Len(past)
  /\ alive \subseteq {"tx", "resp"}

Init ==
  /\ \E file \in Files, arguments \in Arguments :
       cfg = FromDict(file, arguments) /\ Valid(cfg)
  /\ port = PortOf(cfg, FromMac)
  /\ lock = Nobody
  /\ updater = [u \in Updaters |-> IdleUpdater]
  /\ sender = IdleSender /\ alive = {"tx", "resp"} /\ wire = NoFrame /\ rx = IdleRx
  /\ past = <<[cfg |-> cfg, port |-> port]>> /\ applied = 1

-----------------------------------------------------------------------------
(***************************************************************************)
(* update_l2_master_lab() and apply_runtime_update().                      *)
(***************************************************************************)
Updater(u, state) == updater' = [updater EXCEPT ![u] = state]

\* The copy is made under the lock, and validated without it.
UpdateCopies(u) ==
  /\ updater[u].pc = "idle" /\ lock = Nobody
  /\ Len(past) <= MaxUpdates
  /\ \E change \in Changes :
       LET patch == Patch(change) IN
         /\ DOMAIN patch # {}
         /\ "profile" \notin DOMAIN patch
         /\ Updater(u, [pc |-> "validate", new |-> patch @@ cfg])
  /\ UNCHANGED <<cfg, port, lock, sender, alive, wire, rx, past, applied>>

\* Nothing to change, or a field that cannot be changed while the master runs.
UpdateDoesNothing(u) ==
  /\ updater[u].pc = "idle"
  /\ \E change \in Changes :
       DOMAIN Patch(change) = {} \/ "profile" \in DOMAIN Patch(change)
  /\ UNCHANGED vars

UpdateValidates(u) ==
  /\ updater[u].pc = "validate"
  /\ Updater(u, IF Valid(updater[u].new) THEN [pc |-> "store", new |-> updater[u].new] ELSE IdleUpdater)
  /\ UNCHANGED <<cfg, port, lock, sender, alive, wire, rx, past, applied>>

\* Mutant of HoldsOn: the lock is given back between the two assignments.
LetsGo(u) == UNCHANGED lock

HoldsOn(u) == lock' = u

UpdateStores(u) ==
  /\ updater[u].pc = "store" /\ lock = Nobody
  /\ Len(past) <= MaxUpdates
  /\ cfg' = updater[u].new
  /\ past' = Append(past, [cfg |-> cfg', port |-> PortOf(cfg', port.ci)])
  /\ HoldsOn(u)
  /\ Updater(u, [pc |-> "port", new |-> updater[u].new])
  /\ UNCHANGED <<port, sender, alive, wire, rx, applied>>

UpdateSetsPort(u) ==
  /\ updater[u].pc = "port"
  /\ port' = PortOf(updater[u].new, port.ci)
  /\ applied' = applied + 1
  /\ lock' = Nobody
  /\ Updater(u, IdleUpdater)
  /\ UNCHANGED <<cfg, sender, alive, wire, rx, past>>

Update(u) ==
  UpdateCopies(u) \/ UpdateDoesNothing(u) \/ UpdateValidates(u) \/ UpdateStores(u) \/ UpdateSetsPort(u)

-----------------------------------------------------------------------------
(***************************************************************************)
(* The TX and the RESP thread: one of them, and one frame, at a time, for  *)
(* nothing that one of them reads is written by the other.                 *)
(***************************************************************************)
ThreadOf(k) == IF k = "delayresp" THEN "resp" ELSE "tx"

\* _send_announce(), _send_sync_pair() and _send_delay_resp(): the configuration is
\* held from here on.  (History: which one it is, and which update was the last that
\* was complete when the frame was begun.)
SendBegins(k) ==
  /\ sender.pc = "idle" /\ rx.pc # "read"
  /\ ThreadOf(k) \in alive
  /\ sender' = [pc |-> "read", key |-> k, held |-> cfg, since |-> Len(past), from |-> applied]
  /\ wire' = NoFrame /\ rx' = IdleRx
  /\ UNCHANGED <<cfg, port, lock, updater, alive, past, applied>>

\* The gap between a Sync and its Follow_Up is over; the configuration held is that
\* of the Sync.
FollowUpBegins ==
  /\ sender.pc = "gap" /\ rx.pc # "read"
  /\ sender' = [pc |-> "read", key |-> "followup", held |-> sender.held,
                since |-> sender.since, from |-> applied]
  /\ wire' = NoFrame /\ rx' = IdleRx
  /\ UNCHANGED <<cfg, port, lock, updater, alive, past, applied>>

\* _source_for() reads the configuration afresh ...
SourceReads ==
  /\ sender.pc = "read"
  /\ sender' = [pc |-> "source", key |-> sender.key, held |-> sender.held,
                since |-> sender.since, from |-> sender.from, fresh |-> cfg]
  /\ UNCHANGED <<cfg, port, lock, updater, alive, wire, rx, past, applied>>

\* Mutant of Source: the source port is the one the master was started with.
SourceOfStart ==
  LET ci == Effective(sender.fresh, sender.key, "clock_identity")
  IN  [ci |-> IF ci = NullIdentity THEN past[1].port.ci ELSE ci,
       pn |-> Effective(sender.fresh, sender.key, "port_number")]

\* ... and then, where it names no identity, the source port.
Source ==
  LET ci == Effective(sender.fresh, sender.key, "clock_identity")
  IN  [ci |-> IF ci = NullIdentity THEN port.ci ELSE ci,
       pn |-> Effective(sender.fresh, sender.key, "port_number")]

\* What a PortIdentity takes, what struct.pack() does, and what build_ethernet_frame()
\* does; the other fields are masked to their width.
Identifies == Source.ci # Short /\ Source.pn \in Uint16

Packs ==
  /\ Identifies
  /\ sender.key = "announce" => sender.held.priority1 \in Uint8

Vlan == Effective(cfg, sender.key, "vlan_id")

Tags == Vlan \in Uint12 \cup {Null}

SendBuilds ==
  /\ sender.pc = "source" /\ Packs
  /\ sender' = [pc |-> "built", key |-> sender.key, held |-> sender.held,
                since |-> sender.since, from |-> sender.from, source |-> Source,
                domain |-> Effective(sender.held, sender.key, "domain_number") % 256]
  /\ UNCHANGED <<cfg, port, lock, updater, alive, wire, rx, past, applied>>

\* The thread ends with the exception.
SendDies ==
  /\ (sender.pc = "source" /\ ~Packs) \/ (sender.pc = "built" /\ ~Tags)
  /\ alive' = alive \ {ThreadOf(sender.key)}
  /\ sender' = IdleSender
  /\ UNCHANGED <<cfg, port, lock, updater, wire, rx, past, applied>>

\* _send_frame() reads the configuration once more, for the Ethernet header.
SendFrame ==
  /\ sender.pc = "built" /\ Tags
  /\ wire' = [key |-> sender.key, ci |-> sender.source.ci, pn |-> sender.source.pn,
              domain |-> sender.domain, vlan |-> Vlan,
              since |-> sender.since, from |-> sender.from, to |-> Len(past)]
  /\ sender' = IF sender.key = "sync"
                 THEN [pc |-> "gap", key |-> "sync", held |-> sender.held, since |-> sender.since]
                 ELSE IdleSender
  /\ UNCHANGED <<cfg, port, lock, updater, alive, rx, past, applied>>

Send ==
  \/ \E k \in MessageKeys \ {"followup"} : SendBegins(k)
  \/ FollowUpBegins \/ SourceReads \/ SendBuilds \/ SendDies \/ SendFrame

-----------------------------------------------------------------------------
(***************************************************************************)
(* _handle_frame(), given a frame of the master's own.                     *)
(***************************************************************************)
HearReads ==
  /\ wire # NoFrame /\ rx.pc = "idle"
  /\ rx' = [pc |-> "read", cfg |-> cfg]
  /\ UNCHANGED <<cfg, port, lock, updater, sender, alive, wire, past, applied>>

\* Mutant of OwnIdentities: the identities of single message types are forgotten.
OwnIdentitiesShared(c) == {port.ci, c.clock_identity}

OwnIdentities(c) == {port.ci} \cup {Effective(c, k, "clock_identity") : k \in MessageKeys}

Verdict(frame, c) ==
  IF frame.domain \notin {Effective(c, k, "domain_number") : k \in MessageKeys} THEN "other_domain"
  ELSE IF frame.ci \in OwnIdentities(c) THEN "own" ELSE "foreign"

HearDecides ==
  /\ rx.pc = "read"
  /\ rx' = [pc |-> Verdict(wire, rx.cfg)]
  /\ UNCHANGED <<cfg, port, lock, updater, sender, alive, wire, past, applied>>

Hear == HearReads \/ HearDecides

Next == (\E u \in Updaters : Update(u)) \/ Send \/ Hear

Spec == Init /\ [][Next]_vars

-----------------------------------------------------------------------------
(***************************************************************************)
(* What the configuration promises to those who read it.                   *)
(***************************************************************************)
\* The source port is that of the configuration in force, however two updates
\* interleave: it is the one a frame without an override carries, and the one by
\* which the receiver knows its own frames.
IdentityAgrees ==
  lock = Nobody => port.pn = cfg.port_number /\ cfg.clock_identity \in {NullIdentity, port.ci}

\* An update reaches the next frame whole or not yet: identity, port number and VLAN of
\* a frame come from configurations that were in force while it was made, from the last
\* update complete when it was begun to the last one stored when it was sent.  Its
\* domain number comes from the one configuration its thread held, read when the frame
\* was begun; a Follow_Up has that of its Sync, whatever has been updated since, although
\* apply_runtime_update() says of an update that it "takes effect from the next Announce /
\* Sync / Follow_Up / Delay_Resp".
FrameCurrent ==
  wire # NoFrame =>
    LET window == {past[v] : v \in wire.from..wire.to} IN
    /\ wire.domain = Effective(past[wire.since].cfg, wire.key, "domain_number")
    /\ wire.key # "followup" => wire.since \in wire.from..wire.to
    /\ \E p \in window : Effective(p.cfg, wire.key, "port_number") = wire.pn
    /\ \E p \in window : Effective(p.cfg, wire.key, "vlan_id") = wire.vlan
    /\ \E p \in window : wire.ci \in {p.port.ci, Effective(p.cfg, wire.key, "clock_identity")}

\* Whatever the updates, and whenever they come, only one field ends a thread that sends:
\* an Announce's priority1, which validate() does not look at and which fits no octet.
\* It ends the TX thread; the RESP thread is ended by nothing.
HeadersFit ==
  [][\A t \in alive \ alive' :
       t = "tx" /\ sender.key = "announce" /\ sender.held.priority1 \notin Uint8]_vars

\* The identities of a configuration: of its source port and of each kind of frame.
Identities(p) ==
  LET of(k) == Effective(p.cfg, k, "clock_identity")
  IN  <<p.port.ci, [k \in MessageKeys |-> IF of(k) = NullIdentity THEN p.port.ci ELSE of(k)]>>

\* The master takes a frame of its own for one of another master only if an update has
\* changed an identity between the beginning of the frame and its hearing; an update of
\* anything else, at any point of the sending or the hearing, does not mislead it.
NoEcho ==
  rx.pc = "foreign" =>
    \E v \in wire.from + 1..Len(past) : Identities(past[v]) # Identities(past[wire.from])

=============================================================================
