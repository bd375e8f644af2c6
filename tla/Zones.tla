-------------------------------- MODULE Zones --------------------------------
(***************************************************************************)
(* DNS names, the zones of a configuration, and how a query is routed and  *)
(* answered: the pure part of src/config.rs and                            *)
(* src/dns/request_handler.rs.  A name is the sequence of its lower-case   *)
(* labels, the most specific first; <<>> is the root.                      *)
(***************************************************************************)
EXTENDS Integers, Sequences, FiniteSets

CONSTANTS
    Networks,     \* ZcashNetwork
    Labels,       \* lower-case labels
    MaxLabels,    \* bound: the longest name the DNS library accepts
    Hostmaster,   \* the label of the SOA mailbox
    NoZone        \* the configuration has no zone for a network

ASSUME ZonesAssumption == MaxLabels \in Nat \ {0} /\ Hostmaster \in Labels

\* Name::from_ascii accepts a name that is short enough.
IsName(name) == Len(name) <= MaxLabels

\* LowerName::zone_of: name is domain or lies under it.
ZoneOf(domain, name) ==
    /\ Len(domain) <= Len(name)
    /\ \A i \in 1..Len(domain) : name[Len(name) - Len(domain) + i] = domain[i]
-----------------------------------------------------------------------------
(* Configuration.  A zone is [domain, nameservers], the primary nameserver *)
(* first.                                                                  *)

ZoneConfigs == [domain : Seq(Labels), nameservers : Seq(Seq(Labels)) \ {<<>>}]

Distinct(names) == \A i, j \in DOMAIN names : names[i] = names[j] => i = j

\* Variant of ValidZone: the additional nameservers are not checked.
ValidPrimary(zone) ==
    /\ IsName(zone.domain)
    /\ IsName(zone.nameservers[1]) /\ ~ZoneOf(zone.domain, zone.nameservers[1])

\* ZoneConfig::validated_domain
ValidZone(zone) ==
    /\ IsName(zone.domain)
    /\ \A i \in DOMAIN zone.nameservers :
          IsName(zone.nameservers[i]) /\ ~ZoneOf(zone.domain, zone.nameservers[i])
    /\ Distinct(zone.nameservers)

Configured(config) == {n \in Networks : config[n] # NoZone}

\* Variant of DisjointZones: only equal domains are rejected.
DistinctDomains(config) ==
    \A m, n \in Configured(config) :
        m # n => config[m].domain # config[n].domain

\* ensure_zones_are_disjoint
DisjointZones(config) ==
    \A m, n \in Configured(config) :
        m # n => /\ ~ZoneOf(config[m].domain, config[n].domain)
                 /\ ~ZoneOf(config[n].domain, config[m].domain)

\* SeederConfig::validate
Validate(config) ==
    /\ Configured(config) # {}
    /\ \A n \in Configured(config) : ValidZone(config[n])
    /\ DisjointZones(config)

\* ZoneRecords::new: the SOA mailbox is one label longer than the domain.
BuildsRecords(zone) == IsName(<<Hostmaster>> \o zone.domain)

\* SeedZone::new: the zone is checked again and its records are built.
BuildsZone(zone) ==
    /\ IsName(zone.domain)
    /\ \A i \in DOMAIN zone.nameservers :
          IsName(zone.nameservers[i]) /\ ~ZoneOf(zone.domain, zone.nameservers[i])
    /\ Distinct(zone.nameservers)
    /\ BuildsRecords(zone)
-----------------------------------------------------------------------------
(* Routing and answers.                                                    *)

\* matching_zone: the zones with the longest domain among those that contain the
\* name; the code takes the last of them.
MatchingZones(config, served, name) ==
    LET matches == {n \in served : ZoneOf(config[n].domain, name)}
    IN  {n \in matches :
            \A m \in matches : Len(config[m].domain) <= Len(config[n].domain)}

RecordTypes == {"A", "AAAA", "NS", "SOA", "other"}

\* Variant of ResolveAnswer: names below the domain are answered as the domain.
ResolveBelow(zone, name, record_type, peers) ==
    CASE record_type = "A" /\ peers.ipv4 # {}    -> [kind |-> "peers", peers |-> peers.ipv4]
      [] record_type = "AAAA" /\ peers.ipv6 # {} -> [kind |-> "peers", peers |-> peers.ipv6]
      [] record_type = "NS"                      -> [kind |-> "ns", peers |-> {}]
      [] record_type = "SOA"                     -> [kind |-> "soa", peers |-> {}]
      [] OTHER                                   -> [kind |-> "nodata", peers |-> {}]

\* resolve_answer: only the domain itself has records; an empty peer list is a
\* negative answer.
ResolveAnswer(zone, name, record_type, peers) ==
    IF Len(name) # Len(zone.domain) THEN [kind |-> "nodata", peers |-> {}] ELSE
    CASE record_type = "A" /\ peers.ipv4 # {}    -> [kind |-> "peers", peers |-> peers.ipv4]
      [] record_type = "AAAA" /\ peers.ipv6 # {} -> [kind |-> "peers", peers |-> peers.ipv6]
      [] record_type = "NS"                      -> [kind |-> "ns", peers |-> {}]
      [] record_type = "SOA"                     -> [kind |-> "soa", peers |-> {}]
      [] OTHER                                   -> [kind |-> "nodata", peers |-> {}]

\* response_records_for_answer: what the sections of the response hold.
ResponseRecords(answer) ==
    [answers   |-> CASE answer.kind = "peers" -> answer.peers
                     [] answer.kind \in {"ns", "soa"} -> {answer.kind}
                     [] OTHER -> {},
     authority |-> IF answer.kind = "nodata" THEN {"soa"} ELSE {}]
=============================================================================
