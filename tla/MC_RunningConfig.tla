-------------------------- MODULE MC_RunningConfig --------------------------
(* TLC instance of RunningConfig: the inputs.                                *)
EXTENDS RunningConfig

\* The second is admissible with the option only, the first only without.
MC_Files ==
  {[domain_number |-> 24],
   [profile |-> "v1588", domain_number |-> 200, clock_identity |-> "A"]}

MC_Arguments == {NoOverrides, [domain_number |-> 100]}

\* Overrides of all four kinds, a null identity and a null tag among them.
Unlinked ==
  [header_link |-> FALSE,
   message_overrides |->
     [sync |-> [clock_identity |-> "B"], followup |-> [clock_identity |-> NullIdentity],
      announce |-> [vlan_id |-> Null, clock_identity |-> Empty],
      delayresp |-> [domain_number |-> 255, port_number |-> 3]]]

TooWide ==
  [header_link |-> FALSE,
   message_overrides |->
     [sync |-> [port_number |-> 65536], announce |-> [clock_identity |-> Short]]]

MC_Changes ==
  {Unlinked, TooWide,
   [clock_identity |-> "B", port_number |-> 2], [clock_identity |-> NullIdentity],
   [clock_identity |-> AllOnes], [priority1 |-> Null],
   [clock_identity |-> Empty, vlan_id |-> 7, domain_number |-> 30],
   [profile |-> "v1588"]}

Symmetry == Permutations(Updaters)

=============================================================================
