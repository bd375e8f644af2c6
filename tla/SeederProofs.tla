---------------------------- MODULE SeederProofs ----------------------------
(***************************************************************************)
(* What the seeder promises of its zones and answers, for every set of     *)
(* networks, every configuration and every snapshot.                       *)
(***************************************************************************)
EXTENDS Seeder, SequenceTheorems, TLAPS

\* Two domains that contain the same name are nested: both are suffixes of it.
LEMMA CommonName ==
    ASSUME NEW a \in Seq(Labels), NEW b \in Seq(Labels), NEW name \in Seq(Labels),
           ZoneOf(a, name), ZoneOf(b, name), Len(a) <= Len(b)
    PROVE  ZoneOf(a, b)
<1>0. Len(a) \in Nat /\ Len(b) \in Nat /\ Len(name) \in Nat
      BY LenProperties
<1>1. SUFFICES ASSUME NEW i \in 1..Len(a)
               PROVE  b[Len(b) - Len(a) + i] = a[i]
      BY DEF ZoneOf
<1>2. DEFINE j == Len(b) - Len(a) + i
<1>3. j \in 1..Len(b) /\ Len(name) - Len(b) + j = Len(name) - Len(a) + i
      BY <1>0
<1>4. name[Len(name) - Len(b) + j] = b[j]
      BY <1>3 DEF ZoneOf
<1>5. name[Len(name) - Len(a) + i] = a[i]
      BY DEF ZoneOf
<1> QED BY <1>3, <1>4, <1>5

\* ensure_zones_are_disjoint does what its comment says: in a configuration that
\* passes it, no name at all lies in the zones of two networks.
THEOREM DisjointZonesRouteOnce ==
    ASSUME NEW cfg \in Configs, DisjointZones(cfg),
           NEW m \in Configured(cfg), NEW n \in Configured(cfg),
           NEW name \in Seq(Labels),
           ZoneOf(cfg[m].domain, name), ZoneOf(cfg[n].domain, name)
    PROVE  m = n
<1>1. cfg[m].domain \in Seq(Labels) /\ cfg[n].domain \in Seq(Labels)
      BY SeederAssumption DEF Configured, ZoneConfigs
<1>2. Len(cfg[m].domain) \in Nat /\ Len(cfg[n].domain) \in Nat
      BY <1>1, LenProperties
<1>3. ZoneOf(cfg[m].domain, cfg[n].domain) \/ ZoneOf(cfg[n].domain, cfg[m].domain)
  <2>1. CASE Len(cfg[m].domain) <= Len(cfg[n].domain)
        BY <2>1, <1>1, CommonName
  <2>2. CASE Len(cfg[n].domain) <= Len(cfg[m].domain)
        BY <2>2, <1>1, CommonName
  <2> QED BY <1>2, <2>1, <2>2
<1> QED BY <1>3 DEF DisjointZones
-----------------------------------------------------------------------------
\* What holds between the phases: a configuration is validated before anything
\* is started, and DNS is served only when every configured zone is in place.
StartupInv ==
    /\ phase \in {"bind", "crawlers", "health", "serving"} => Validate(config)
    /\ phase \in {"health", "serving"} => spawned = Configured(config)

\* The clone a routed request holds is a snapshot of the network whose zone its
\* name lies in.
Cloned(r) ==
    /\ r.has_query
    /\ r.zone \in Configured(config) /\ ZoneOf(config[r.zone].domain, r.name)
    /\ r.servable_peers \in published[r.zone]

\* The clone, and the answer computed from it, are right when they are made and
\* stay right until the response is sent, whatever is published meanwhile.
AnswerInv ==
    /\ request.stage = "resolve" => Cloned(request)
    /\ request.stage = "send" => OneSnapshot(request) /\ RefusedOutside(request)
    /\ Sent => OneSnapshot(response) /\ RefusedOutside(response)

\* The initial state has the right types.
LEMMA InitType == Init => TypeOK
<1>1. ASSUME Init PROVE TypeOK
  <2> USE <1>1
  <2>1. \A n \in Networks : EmptySnapshot \in Snapshots[n]
        BY SeederAssumption
  <2>2. snapshot \in [Networks -> AllSnapshots]
        BY <2>1 DEF Init, AllSnapshots
  <2>3. published \in [Networks -> SUBSET AllSnapshots]
        BY <2>1 DEF Init, AllSnapshots
  <2> QED BY <2>1, <2>2, <2>3 DEF Init, TypeOK, Phases, NoRequest, Configured
<1> QED BY <1>1

\* Every step keeps the types.
LEMMA NextType == TypeOK /\ [Next]_vars => TypeOK'
<1> SUFFICES ASSUME TypeOK, [Next]_vars PROVE TypeOK'
    OBVIOUS
<1> USE DEF TypeOK
<1>1. ASSUME NEW w \in BOOLEAN, LoadConfig(w) PROVE TypeOK'
      BY <1>1 DEF LoadConfig, Phases
<1>2. ASSUME NEW b \in BOOLEAN, BindDnsSockets(b) PROVE TypeOK'
      BY <1>2 DEF BindDnsSockets, Phases
<1>3. ASSUME NEW n \in Networks, SpawnNetworkCrawler(n) PROVE TypeOK'
      BY <1>3 DEF SpawnNetworkCrawler, NextNetwork, Phases, NoRequest
<1>4. CASE CrawlersSpawned
      BY <1>4 DEF CrawlersSpawned, Phases
<1>5. ASSUME NEW b \in BOOLEAN, BindHealth(b) PROVE TypeOK'
      BY <1>5 DEF BindHealth, Phases, NoRequest
<1>6. CASE Shutdown
      BY <1>6 DEF Shutdown, Phases, NoRequest
<1>7. ASSUME NEW n \in Networks, NEW s \in Snapshots[n], Publish(n, s) PROVE TypeOK'
  <2>1. /\ snapshot' \in [Networks -> AllSnapshots]
        /\ published' \in [Networks -> SUBSET AllSnapshots]
        BY <1>7 DEF Publish, AllSnapshots
  <2>2. \A k \in Networks : snapshot'[k] \in published'[k]
        BY <1>7 DEF Publish
  <2>3. \A k \in Networks : published'[k] \subseteq Snapshots[k]
        BY <1>7 DEF Publish
  <2> QED BY <1>7, <2>1, <2>2, <2>3 DEF Publish
<1>8. ASSUME NEW q \in BOOLEAN, NEW w \in BOOLEAN, NEW name \in QueryNames,
             NEW t \in RecordTypes, Receive(q, name, t, w)
      PROVE TypeOK'
      BY <1>8 DEF Receive, NoRequest
<1>9. CASE MatchZone
  <2>1. request # NoRequest
        BY <1>9 DEF MatchZone, NoRequest
  <2>2. \/ request'.stage = "send" /\ request'.name = request.name
        \/ /\ request'.stage = "resolve" /\ request'.name = request.name
           /\ request'.zone \in spawned
        BY <1>9 DEF MatchZone, Respond, MatchingZones
  <2> QED BY <1>9, <2>1, <2>2 DEF MatchZone, NoRequest
<1>10. CASE Answer
      BY <1>10 DEF Answer, Respond, NoRequest
<1>11. ASSUME NEW b \in BOOLEAN, SendResponse(b) PROVE TypeOK'
      BY <1>11 DEF SendResponse, NoRequest
<1>12. CASE UNCHANGED vars
      BY <1>12 DEF vars
<1> QED BY <1>1, <1>2, <1>3, <1>4, <1>5, <1>6, <1>7, <1>8, <1>9, <1>10, <1>11, <1>12 DEF Next

\* TypeOK holds in every reachable state of every seeder.
THEOREM TypeCorrect == Spec => []TypeOK
<1>1. Init => TypeOK
      BY InitType
<1>2. TypeOK /\ [Next]_vars => TypeOK'
      BY NextType
<1> QED BY <1>1, <1>2, PTL DEF Spec
-----------------------------------------------------------------------------
\* Every step keeps StartupInv.
LEMMA NextStartup == TypeOK /\ StartupInv /\ [Next]_vars => StartupInv'
<1> SUFFICES ASSUME TypeOK, StartupInv, [Next]_vars PROVE StartupInv'
    OBVIOUS
<1> USE DEF StartupInv
<1>1. ASSUME NEW w \in BOOLEAN, LoadConfig(w) PROVE StartupInv'
      BY <1>1 DEF LoadConfig
<1>2. ASSUME NEW b \in BOOLEAN, BindDnsSockets(b) PROVE StartupInv'
      BY <1>2 DEF BindDnsSockets
<1>3. ASSUME NEW n \in Networks, SpawnNetworkCrawler(n) PROVE StartupInv'
      BY <1>3 DEF SpawnNetworkCrawler
<1>4. CASE CrawlersSpawned
      BY <1>4 DEF CrawlersSpawned
<1>5. ASSUME NEW b \in BOOLEAN, BindHealth(b) PROVE StartupInv'
      BY <1>5 DEF BindHealth
<1>6. CASE Shutdown
      BY <1>6 DEF Shutdown
<1>7. ASSUME NEW n \in Networks, NEW s \in Snapshots[n], Publish(n, s) PROVE StartupInv'
      BY <1>7 DEF Publish
<1>8. ASSUME NEW q \in BOOLEAN, NEW w \in BOOLEAN, NEW name \in QueryNames,
             NEW t \in RecordTypes, Receive(q, name, t, w)
      PROVE StartupInv'
      BY <1>8 DEF Receive
<1>9. CASE MatchZone \/ Answer
      BY <1>9 DEF MatchZone, Answer
<1>10. ASSUME NEW b \in BOOLEAN, SendResponse(b) PROVE StartupInv'
      BY <1>10 DEF SendResponse
<1>11. CASE UNCHANGED vars
      BY <1>11 DEF vars
<1> QED BY <1>1, <1>2, <1>3, <1>4, <1>5, <1>6, <1>7, <1>8, <1>9, <1>10, <1>11 DEF Next

\* While the process serves, the zones it built are disjoint.
LEMMA ServesDisjointZones ==
    ASSUME TypeOK, StartupInv, phase = "serving",
           NEW name \in QueryNames, NEW m \in spawned, NEW n \in spawned,
           ZoneOf(config[m].domain, name), ZoneOf(config[n].domain, name)
    PROVE  m = n
<1>1. config \in Configs /\ DisjointZones(config)
      BY DEF TypeOK, StartupInv, Validate
<1>2. m \in Configured(config) /\ n \in Configured(config)
      BY DEF TypeOK
<1>3. name \in Seq(Labels)
      BY SeederAssumption
<1> QED BY <1>1, <1>2, <1>3, DisjointZonesRouteOnce

\* A query is routed to nobody exactly if no configured zone contains its name:
\* the longest match is the only one, so it exists as soon as there is a match.
LEMMA RoutesOrRefuses ==
    ASSUME TypeOK, StartupInv, phase = "serving", NEW name \in QueryNames
    PROVE  MatchingZones(config, spawned, name) = {}
             <=> \A n \in Configured(config) : ~ZoneOf(config[n].domain, name)
<1>1. spawned = Configured(config)
      BY DEF StartupInv
<1>2. ASSUME NEW n \in Configured(config), ZoneOf(config[n].domain, name)
      PROVE  n \in MatchingZones(config, spawned, name)
  <2>1. \A m \in spawned : ZoneOf(config[m].domain, name) => m = n
        BY <1>1, <1>2, ServesDisjointZones
  <2>2. Len(config[n].domain) \in Nat
        BY <1>2, SeederAssumption, LenProperties DEF TypeOK, Configured, ZoneConfigs
  <2> QED BY <1>1, <1>2, <2>1, <2>2 DEF MatchingZones
<1> QED BY <1>1, <1>2 DEF MatchingZones

\* A name that lies in a zone and is as long as its domain is the domain.
LEMMA SameLengthIsDomain ==
    ASSUME NEW domain \in Seq(Labels), NEW name \in Seq(Labels),
           ZoneOf(domain, name), Len(name) = Len(domain)
    PROVE  domain = name
<1>1. Len(domain) \in Nat
      BY LenProperties
<1>2. \A i \in 1..Len(domain) : name[i] = domain[i]
      BY <1>1 DEF ZoneOf
<1> QED BY <1>2, SeqEqual

\* A routed request is refused rightly, or holds a snapshot of the right zone.
LEMMA MatchIsRight ==
    ASSUME TypeOK, StartupInv, MatchZone
    PROVE  \/ request'.stage = "resolve" /\ Cloned(request')
           \/ /\ request'.stage = "send"
              /\ OneSnapshot(request') /\ RefusedOutside(request')
<1>0. phase = "serving" /\ request.name \in QueryNames /\ request.stage = "route"
  <2>1. request # NoRequest
        BY DEF MatchZone, NoRequest
  <2> QED BY <2>1 DEF TypeOK, MatchZone
<1>1. CASE ~request.has_query /\ Respond(NoRecords, "noerror")
      BY <1>1 DEF Respond, OneSnapshot, RefusedOutside
<1>2. CASE /\ request.has_query
           /\ MatchingZones(config, spawned, request.name) = {}
           /\ Respond(NoRecords, "refused")
      BY <1>0, <1>2, RoutesOrRefuses DEF Respond, OneSnapshot, RefusedOutside
<1>3. ASSUME NEW n \in MatchingZones(config, spawned, request.name),
             request' = [stage |-> "resolve", has_query |-> TRUE,
                         name |-> request.name, record_type |-> request.record_type,
                         zone |-> n, servable_peers |-> snapshot[n]]
      PROVE  request'.stage = "resolve" /\ Cloned(request')
  <2>1. n \in Configured(config) /\ ZoneOf(config[n].domain, request.name)
        BY <1>3 DEF MatchingZones, TypeOK
  <2>2. snapshot[n] \in published[n]
        BY <2>1 DEF TypeOK, Configured
  <2> QED BY <1>3, <2>1, <2>2 DEF Cloned
<1> QED BY <1>1, <1>2, <1>3 DEF MatchZone

\* An answer computed from a clone is what that snapshot has to say.
LEMMA AnswerIsRight ==
    ASSUME TypeOK, Cloned(request), Answer
    PROVE  OneSnapshot(request') /\ RefusedOutside(request')
<1> DEFINE n      == request.zone
           s      == request.servable_peers
           answer == ResolveAnswer(config[n], request.name, request.record_type, s)
<1>0. /\ n \in Configured(config) /\ ZoneOf(config[n].domain, request.name)
      /\ s \in published[n] /\ request.name \in QueryNames
  <2>1. request # NoRequest
        BY DEF Answer, NoRequest
  <2> QED BY <2>1 DEF TypeOK, Cloned
<1>1. /\ request'.name = request.name /\ request'.has_query = request.has_query
      /\ request'.record_type = request.record_type
      /\ request'.rcode = "noerror"
      /\ request'.records = ResponseRecords(answer)
      BY DEF Answer, Respond
<1>2. RefusedOutside(request')
      BY <1>0, <1>1 DEF RefusedOutside
<1>3. config[n].domain = request.name <=> Len(request.name) = Len(config[n].domain)
  <2>1. config[n].domain \in Seq(Labels) /\ request.name \in Seq(Labels)
        BY <1>0, SeederAssumption DEF TypeOK, Configured, ZoneConfigs
  <2> QED BY <1>0, <2>1, SameLengthIsDomain
<1>4. ASSUME request.record_type \in {"A", "AAAA"}
      PROVE  ResponseRecords(answer) = SaidBy(s, config[n], request.name, request.record_type)
  <2> DEFINE peers == IF request.name = config[n].domain
                      THEN Family(s, request.record_type) ELSE {}
  <2>1. answer = IF peers = {} THEN [kind |-> "nodata", peers |-> {}]
                 ELSE [kind |-> "peers", peers |-> peers]
    <3>1. CASE Len(request.name) # Len(config[n].domain)
          BY <1>3, <3>1 DEF ResolveAnswer
    <3>2. CASE request.record_type = "A" /\ Len(request.name) = Len(config[n].domain)
          BY <1>3, <3>2 DEF ResolveAnswer, Family
    <3>3. CASE request.record_type = "AAAA" /\ Len(request.name) = Len(config[n].domain)
          BY <1>3, <3>3 DEF ResolveAnswer, Family
    <3> QED BY <1>4, <3>1, <3>2, <3>3
  <2>2. SaidBy(s, config[n], request.name, request.record_type)
          = [answers |-> peers, authority |-> IF peers = {} THEN {"soa"} ELSE {}]
        BY DEF SaidBy
  <2> HIDE DEF answer, peers
  <2>3. CASE peers = {}
        BY <2>1, <2>2, <2>3 DEF ResponseRecords
  <2>4. CASE peers # {}
        BY <2>1, <2>2, <2>4 DEF ResponseRecords
  <2> QED BY <2>3, <2>4
<1> HIDE DEF answer
<1>5. OneSnapshot(request')
      BY <1>0, <1>1, <1>4 DEF OneSnapshot
<1> QED BY <1>2, <1>5

\* What is published only grows and the configuration never changes, so an
\* answer that is right stays right.
LEMMA RightStaysRight ==
    ASSUME TypeOK, [Next]_vars
    PROVE  /\ config' = config
           /\ \A n \in Networks : published[n] \subseteq published'[n]
<1>1. ASSUME NEW n \in Networks, NEW s \in Snapshots[n], Publish(n, s)
      PROVE  config' = config /\ \A k \in Networks : published[k] \subseteq published'[k]
      BY <1>1 DEF Publish, TypeOK
<1>2. CASE config' = config /\ published' = published
      BY <1>2
<1> QED BY <1>1, <1>2 DEF Next, vars, LoadConfig, BindDnsSockets, SpawnNetworkCrawler,
           CrawlersSpawned, BindHealth, Shutdown, Receive, MatchZone, Answer, SendResponse

\* Every step keeps AnswerInv.
LEMMA NextAnswer ==
    TypeOK /\ StartupInv /\ AnswerInv /\ [Next]_vars => AnswerInv'
<1> SUFFICES ASSUME TypeOK, StartupInv, AnswerInv, [Next]_vars PROVE AnswerInv'
    OBVIOUS
<1>0. /\ config' = config
      /\ \A n \in Networks : published[n] \subseteq published'[n]
      BY RightStaysRight
<1>1. ASSUME NEW r, OneSnapshot(r) PROVE OneSnapshot(r)'
      BY <1>0, <1>1 DEF OneSnapshot, SaidBy, Configured
<1>2. ASSUME NEW r, RefusedOutside(r) PROVE RefusedOutside(r)'
      BY <1>0, <1>2 DEF RefusedOutside, Configured
<1>a. ASSUME NEW r, Cloned(r) PROVE Cloned(r)'
      BY <1>0, <1>a DEF Cloned, Configured
<1>3. CASE request' = request /\ response' = response
      BY <1>1, <1>2, <1>3, <1>a DEF AnswerInv, Sent
<1>4. CASE Shutdown
      BY <1>1, <1>2, <1>4 DEF Shutdown, AnswerInv, Sent, NoRequest
<1>5. ASSUME NEW q \in BOOLEAN, NEW w \in BOOLEAN, NEW name \in QueryNames,
             NEW t \in RecordTypes, Receive(q, name, t, w)
      PROVE AnswerInv'
      BY <1>5 DEF Receive, AnswerInv, Sent, NoRequest
<1>6. CASE MatchZone \/ Answer
  <2>1. \/ request'.stage = "resolve" /\ Cloned(request')
        \/ /\ request'.stage = "send"
           /\ OneSnapshot(request') /\ RefusedOutside(request')
    <3>1. CASE MatchZone
          BY <3>1, MatchIsRight
    <3>2. CASE Answer
      <4>1. Cloned(request) /\ request'.stage = "send"
            BY <3>2 DEF Answer, AnswerInv, Respond
      <4> QED BY <3>2, <4>1, AnswerIsRight
    <3> QED BY <1>6, <3>1, <3>2
  <2>2. UNCHANGED <<config, published, response>>
        BY <1>6 DEF MatchZone, Answer
  <2>3. request'.stage = "resolve" => Cloned(request)'
        BY <2>1, <2>2 DEF Cloned, Configured
  <2>4. request'.stage = "send" => OneSnapshot(request)' /\ RefusedOutside(request)'
        BY <2>1, <2>2 DEF OneSnapshot, SaidBy, RefusedOutside, Configured
  <2> QED BY <1>1, <1>2, <2>2, <2>3, <2>4 DEF AnswerInv, Sent
<1>7. ASSUME NEW b \in BOOLEAN, SendResponse(b) PROVE AnswerInv'
  <2>1. request' = NoRequest /\ response' \in {request, NoResponse}
        BY <1>7 DEF SendResponse
  <2>2. OneSnapshot(request) /\ RefusedOutside(request)
        BY <1>7 DEF SendResponse, AnswerInv
  <2>3. response' # NoResponse => OneSnapshot(response)' /\ RefusedOutside(response)'
        BY <1>1, <1>2, <2>1, <2>2 DEF OneSnapshot, RefusedOutside
  <2> QED BY <2>1, <2>3 DEF AnswerInv, Sent, NoRequest, NoResponse
<1> QED BY <1>3, <1>4, <1>5, <1>6, <1>7 DEF Next, vars, LoadConfig, BindDnsSockets,
           SpawnNetworkCrawler, CrawlersSpawned, BindHealth, Publish

\* Startup and answers are right in every reachable state.
LEMMA SeederInvariant == Spec => [](TypeOK /\ StartupInv /\ AnswerInv)
<1>1. Init => TypeOK /\ StartupInv /\ AnswerInv
  <2>1. Init => StartupInv /\ AnswerInv
        BY DEF Init, StartupInv, AnswerInv, Sent, NoRequest
  <2> QED BY <2>1, InitType
<1>2. (TypeOK /\ StartupInv /\ AnswerInv) /\ [Next]_vars
        => (TypeOK /\ StartupInv /\ AnswerInv)'
      BY NextType, NextStartup, NextAnswer
<1> QED BY <1>1, <1>2, PTL DEF Spec

\* No configuration that starts serving lets a name lie in two zones: the order
\* of the zones and the tie-break of matching_zone never decide an answer.
THEOREM OneZonePerNameHolds == Spec => []OneZonePerName
<1>1. TypeOK /\ StartupInv => OneZonePerName
      BY ServesDisjointZones DEF OneZonePerName
<1> QED BY <1>1, SeederInvariant, PTL

\* Every response to an address query says what one snapshot of the network whose
\* zone the name lies in says, answer and authority section alike, for any
\* interleaving of refreshes and requests.
THEOREM PeersOfOneSnapshotHolds == Spec => []PeersOfOneSnapshot
<1>1. AnswerInv => PeersOfOneSnapshot
      BY DEF AnswerInv, PeersOfOneSnapshot
<1> QED BY <1>1, SeederInvariant, PTL

\* A name in a configured zone is never refused, from the first query served.
THEOREM RefusedOnlyOutsideHolds == Spec => []RefusedOnlyOutside
<1>1. AnswerInv => RefusedOnlyOutside
      BY DEF AnswerInv, RefusedOnlyOutside
<1> QED BY <1>1, SeederInvariant, PTL

\* A validated zone fails to build only for the length of its mailbox.
THEOREM ValidatedZonesBuildHolds == Spec => []ValidatedZonesBuild
<1>1. ASSUME TypeOK, StartupInv PROVE ValidatedZonesBuild
  <2> SUFFICES ASSUME NEW n \in Networks, phase = "crawlers", NextNetwork(n),
                      ~BuildsZone(config[n])
               PROVE  Len(config[n].domain) = MaxLabels
      BY DEF ValidatedZonesBuild
  <2>1. n \in Configured(config) /\ ValidZone(config[n])
        BY <1>1 DEF StartupInv, Validate, NextNetwork
  <2>2. config[n].domain \in Seq(Labels)
        BY <1>1, <2>1, SeederAssumption DEF TypeOK, Configured, ZoneConfigs
  <2>3. Len(config[n].domain) <= MaxLabels
        BY <2>1 DEF ValidZone, IsName
  <2>4. ~(Len(<<Hostmaster>> \o config[n].domain) <= MaxLabels)
        BY <2>1 DEF ValidZone, BuildsZone, BuildsRecords, IsName
  <2>5. Len(<<Hostmaster>> \o config[n].domain) = 1 + Len(config[n].domain)
        BY <2>2, ZonesAssumption
  <2>6. Len(config[n].domain) \in Nat
        BY <2>2, LenProperties
  <2> QED BY <2>3, <2>4, <2>5, <2>6, ZonesAssumption
<1>2. TypeOK /\ StartupInv => ValidatedZonesBuild
      BY <1>1
<1> QED BY <1>2, SeederInvariant, PTL
=============================================================================
