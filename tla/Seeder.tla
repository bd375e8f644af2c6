------------------------------- MODULE Seeder -------------------------------
(***************************************************************************)
(* The seeder process: how src/seeder.rs starts it from a configuration,   *)
(* one crawler and zone per network, and how its DNS handler               *)
(* (src/dns/request_handler.rs) answers queries from the snapshots that    *)
(* each network's address cache publishes meanwhile.  The rate limiter's   *)
(* verdict on a client is a nondeterministic choice.                       *)
(***************************************************************************)
EXTENDS Zones

CONSTANTS
    Configs,      \* configurations the process may be given
    QueryNames,   \* names clients ask for
    Snapshots,    \* Networks -> snapshots its address cache may publish
    Order         \* the networks in BTreeMap order, as a sequence

EmptySnapshot == [ipv4 |-> {}, ipv6 |-> {}]

ASSUME SeederAssumption ==
    /\ Configs \subseteq [Networks -> ZoneConfigs \cup {NoZone}]
    /\ QueryNames \subseteq Seq(Labels)
    /\ \A i, j \in DOMAIN Order : Order[i] = Order[j] => i = j
    /\ {Order[i] : i \in DOMAIN Order} = Networks
    /\ \A n \in Networks : EmptySnapshot \in Snapshots[n]

VARIABLES
    config,     \* the resolved configuration
    phase,      \* how far run() has come
    spawned,    \* networks whose crawler runs and whose zone was built
    snapshot,   \* each network's watch channel
    published,  \* history: what each network ever published
    request,    \* the query being handled, or NoRequest
    response    \* the last response sent, or NoResponse

vars == <<config, phase, spawned, snapshot, published, request, response>>

NoRequest == [stage |-> "none"]
NoResponse == [rcode |-> "none"]

AllSnapshots == UNION {Snapshots[n] : n \in Networks}
Phases == {"load", "bind", "crawlers", "health", "serving", "failed", "stopped"}

Init ==
    /\ config \in Configs
    /\ phase = "load" /\ spawned = {}
    /\ snapshot = [n \in Networks |-> EmptySnapshot]
    /\ published = [n \in Networks |-> {EmptySnapshot}]
    /\ request = NoRequest /\ response = NoResponse
-----------------------------------------------------------------------------
(* Startup and shutdown.                                                   *)

\* load_with_env: the sources deserialize and the rate limits are not zero
\* (well_formed), and the zones are valid.
LoadConfig(well_formed) ==
    /\ phase = "load"
    /\ phase' = IF well_formed /\ Validate(config) THEN "bind" ELSE "failed"
    /\ UNCHANGED <<config, spawned, snapshot, published, request, response>>

\* The metrics endpoint, when configured, and both DNS sockets are bound before
\* any crawler runs.
BindDnsSockets(bound) ==
    /\ phase = "bind"
    /\ phase' = IF bound THEN "crawlers" ELSE "failed"
    /\ UNCHANGED <<config, spawned, snapshot, published, request, response>>

\* The next configured network, in order, that has no crawler yet.
NextNetwork(n) ==
    /\ n \in Configured(config) \ spawned
    /\ \A i, j \in DOMAIN Order :
          Order[i] = n /\ j < i => Order[j] \notin Configured(config) \ spawned

\* spawn_network_crawler, whose last step builds the zone; an error ends run().
SpawnNetworkCrawler(n) ==
    /\ phase = "crawlers" /\ NextNetwork(n)
    /\ \/ /\ BuildsZone(config[n])
          /\ spawned' = spawned \cup {n}
          /\ phase' = "crawlers"
       \/ /\ ~BuildsZone(config[n])
          /\ spawned' = {}
          /\ phase' = "failed"
    /\ UNCHANGED <<config, snapshot, published, request, response>>

\* Variant of CrawlersSpawned: the first network is enough to go on.
SomeCrawlerSpawned ==
    /\ phase = "crawlers" /\ spawned # {}
    /\ phase' = "health"
    /\ UNCHANGED <<config, spawned, snapshot, published, request, response>>

CrawlersSpawned ==
    /\ phase = "crawlers" /\ spawned = Configured(config)
    /\ phase' = "health"
    /\ UNCHANGED <<config, spawned, snapshot, published, request, response>>

\* Variant of BindHealth: the crawlers outlive the failed start.
BindHealthKeepsGuards(bound) ==
    /\ phase = "health"
    /\ phase' = IF bound THEN "serving" ELSE "failed"
    /\ UNCHANGED <<config, spawned, snapshot, published, request, response>>

\* The rate limiter is built, and the health endpoint, when configured, is bound
\* before DNS is served; an error drops the guards of the crawlers.
BindHealth(bound) ==
    /\ phase = "health"
    /\ phase' = IF bound THEN "serving" ELSE "failed"
    /\ spawned' = IF bound THEN spawned ELSE {}
    /\ UNCHANGED <<config, snapshot, published, request, response>>

\* A signal, or the DNS server stopped: the guards are dropped.
Shutdown ==
    /\ phase = "serving"
    /\ phase' = "stopped" /\ spawned' = {} /\ request' = NoRequest
    /\ UNCHANGED <<config, snapshot, published, response>>

\* An address cache publishes a snapshot of its own network's peers.
Publish(n, s) ==
    /\ n \in spawned /\ s # snapshot[n]
    /\ snapshot' = [snapshot EXCEPT ![n] = s]
    /\ published' = [published EXCEPT ![n] = @ \cup {s}]
    /\ UNCHANGED <<config, phase, spawned, request, response>>
-----------------------------------------------------------------------------
(* One request.                                                            *)

\* A request arrives; over its client's budget it is dropped without a response.
\* A message may carry no query.
Receive(has_query, name, record_type, within_budget) ==
    /\ phase = "serving" /\ request = NoRequest
    /\ request' = IF within_budget
                  THEN [stage |-> "route", has_query |-> has_query,
                        name |-> name, record_type |-> record_type]
                  ELSE NoRequest
    /\ response' = NoResponse
    /\ UNCHANGED <<config, phase, spawned, snapshot, published>>

Respond(records, rcode) ==
    request' = [stage |-> "send", name |-> request.name,
                record_type |-> request.record_type, has_query |-> request.has_query,
                rcode |-> rcode, records |-> records]

NoRecords == [answers |-> {}, authority |-> {}]

\* The query is routed and the snapshot of the matching zone cloned.
MatchZone ==
    /\ request.stage = "route"
    /\ \/ ~request.has_query /\ Respond(NoRecords, "noerror")
       \/ /\ request.has_query
          /\ MatchingZones(config, spawned, request.name) = {}
          /\ Respond(NoRecords, "refused")
       \/ /\ request.has_query
          /\ \E n \in MatchingZones(config, spawned, request.name) :
                request' = [stage |-> "resolve", has_query |-> TRUE,
                            name |-> request.name, record_type |-> request.record_type,
                            zone |-> n, servable_peers |-> snapshot[n]]
    /\ UNCHANGED <<config, phase, spawned, snapshot, published, response>>

Family(peers, record_type) == IF record_type = "A" THEN peers.ipv4 ELSE peers.ipv6

\* Variant of Answer: the records are built from the channel, not from the clone
\* by which the answer was chosen.
AnswerBorrowsAgain ==
    /\ request.stage = "resolve"
    /\ LET answer == ResolveAnswer(config[request.zone], request.name,
                                   request.record_type, request.servable_peers)
           peers  == Family(snapshot[request.zone], request.record_type)
       IN  Respond(ResponseRecords([answer EXCEPT !.peers = peers]), "noerror")
    /\ UNCHANGED <<config, phase, spawned, snapshot, published, response>>

\* The answer is computed from the clone, whatever is published meanwhile.
Answer ==
    /\ request.stage = "resolve"
    /\ Respond(ResponseRecords(ResolveAnswer(config[request.zone], request.name,
                    request.record_type, request.servable_peers)), "noerror")
    /\ UNCHANGED <<config, phase, spawned, snapshot, published, response>>

\* The response is sent, or sending fails and only a counter says so.
SendResponse(sent) ==
    /\ request.stage = "send"
    /\ response' = IF sent THEN request ELSE NoResponse
    /\ request' = NoRequest
    /\ UNCHANGED <<config, phase, spawned, snapshot, published>>

Next ==
    \/ \E well_formed \in BOOLEAN : LoadConfig(well_formed)
    \/ \E bound \in BOOLEAN : BindDnsSockets(bound)
    \/ \E n \in Networks : SpawnNetworkCrawler(n)
    \/ CrawlersSpawned
    \/ \E bound \in BOOLEAN : BindHealth(bound)
    \/ Shutdown
    \/ \E n \in Networks : \E s \in Snapshots[n] : Publish(n, s)
    \/ \E has_query, within_budget \in BOOLEAN, name \in QueryNames,
          record_type \in RecordTypes :
          Receive(has_query, name, record_type, within_budget)
    \/ MatchZone
    \/ Answer
    \/ \E sent \in BOOLEAN : SendResponse(sent)

Spec == Init /\ [][Next]_vars
-----------------------------------------------------------------------------
(* Properties.                                                             *)

\* The parts of the process fit its phase: a process that ended, or has
\* not come so far, has no crawler; only one that serves has a request; a cache
\* publishes its own network's peers.
TypeOK ==
    /\ config \in Configs /\ phase \in Phases
    /\ spawned \subseteq Configured(config)
    /\ phase \in {"load", "bind", "failed", "stopped"} => spawned = {}
    /\ snapshot \in [Networks -> AllSnapshots]
    /\ published \in [Networks -> SUBSET AllSnapshots]
    /\ \A n \in Networks : snapshot[n] \in published[n] /\ published[n] \subseteq Snapshots[n]
    /\ request.stage \in {"none", "route", "resolve", "send"}
    /\ request.stage = "resolve" => request.zone \in spawned
    /\ request # NoRequest => request.name \in QueryNames
    /\ phase # "serving" => request = NoRequest

\* Once the process serves, a name belongs to at most one network's zone, so
\* neither the tie-break nor the order of the zones decides an answer.
OneZonePerName ==
    phase = "serving" =>
        \A name \in QueryNames : \A m, n \in spawned :
            ZoneOf(config[m].domain, name) /\ ZoneOf(config[n].domain, name) => m = n

Sent == response # NoResponse

\* What a snapshot of zone says to a query for name: its addresses of the family
\* asked for, at the domain itself, and if there are none a negative answer.
SaidBy(s, zone, name, record_type) ==
    LET peers == IF name = zone.domain THEN Family(s, record_type) ELSE {}
    IN  [answers   |-> peers,
         authority |-> IF peers = {} THEN {"soa"} ELSE {}]

\* The sections of a response to an address query are what one snapshot of the
\* network in whose zone the name lies has to say; a name in no zone gets none.
OneSnapshot(r) ==
    r.has_query /\ r.record_type \in {"A", "AAAA"} =>
        IF r.rcode = "refused" THEN r.records = NoRecords
        ELSE \E n \in Configured(config) :
                /\ ZoneOf(config[n].domain, r.name)
                /\ \E s \in published[n] :
                      r.records = SaidBy(s, config[n], r.name, r.record_type)

\* Peers of two networks, or of two refreshes, never mix in a response, whatever
\* is published while it is handled; an answer is negative exactly if that same
\* snapshot has no peer; and no name below a zone's is given peers.
PeersOfOneSnapshot == Sent => OneSnapshot(response)

RefusedOutside(r) ==
    r.has_query =>
        (r.rcode = "refused" <=>
            \A n \in Configured(config) : ~ZoneOf(config[n].domain, r.name))

\* Only names outside every configured zone are refused: no query is handled
\* before every configured network's zone is in place.
RefusedOnlyOutside == Sent => RefusedOutside(response)

\* A configuration that passed validation fails to start, with crawlers already
\* running, for one reason only: a domain so long that its mailbox is no name.
ValidatedZonesBuild ==
    \A n \in Networks :
        phase = "crawlers" /\ NextNetwork(n) /\ ~BuildsZone(config[n])
            => Len(config[n].domain) = MaxLabels
=============================================================================
