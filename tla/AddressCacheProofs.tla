------------------------- MODULE AddressCacheProofs -------------------------
(* Theorems about AddressCache for every set of peers, every cap and every *)
(* pair of versions.                                                       *)
EXTENDS AddressCache, FiniteSetTheorems, TLAPS

-----------------------------------------------------------------------------
(* Counting.                                                               *)

\* A finite set counted in two parts.
LEMMA Split ==
    ASSUME NEW S, IsFiniteSet(S), NEW A, NEW B, A \cup B = S, A \cap B = {}
    PROVE  /\ IsFiniteSet(A) /\ IsFiniteSet(B)
           /\ Cardinality(A) \in Nat /\ Cardinality(B) \in Nat
           /\ Cardinality(S) = Cardinality(A) + Cardinality(B)
<1>1. IsFiniteSet(A) /\ IsFiniteSet(B)
  BY FS_Subset
<1>2. Cardinality(A) \in Nat /\ Cardinality(B) \in Nat
  BY <1>1, FS_CardinalityType
<1>3. Cardinality(A \cup B) = Cardinality(A) + Cardinality(B) - Cardinality({})
  BY <1>1, FS_Union
<1>4. Cardinality({}) = 0
  BY FS_EmptySet
<1>5. Cardinality(S) = Cardinality(A) + Cardinality(B) - 0
  BY <1>3, <1>4
<1> QED BY <1>1, <1>2, <1>5

\* Truncation keeps at most the cap.
LEMMA CappedBound ==
    ASSUME NEW n \in Nat
    PROVE  /\ Capped(n) \in Nat /\ Capped(n) <= MAX_DNS_RESPONSE_PEERS /\ Capped(n) <= n
           /\ Capped(n) = n \/ Capped(n) = MAX_DNS_RESPONSE_PEERS
           /\ n <= MAX_DNS_RESPONSE_PEERS => Capped(n) = n
           /\ n > MAX_DNS_RESPONSE_PEERS => Capped(n) = MAX_DNS_RESPONSE_PEERS
BY CacheAssumption DEF Capped

\* What the two tiers leave after truncation: all there is or a full answer, and
\* a fallback peer only beside the whole target tier.
LEMMA PreferredServed ==
    ASSUME NEW T, NEW F, IsFiniteSet(T \cup F), T \cap F = {}, NEW s \in VersionPreferred(T, F)
    PROVE  /\ s \subseteq T \cup F /\ IsFiniteSet(s)
           /\ Cardinality(s) <= MAX_DNS_RESPONSE_PEERS
           /\ s = T \cup F \/ Cardinality(s) = MAX_DNS_RESPONSE_PEERS
           /\ s \subseteq T \/ T \subseteq s
<1>1. /\ IsFiniteSet(T) /\ IsFiniteSet(F)
      /\ Cardinality(T) \in Nat /\ Cardinality(F) \in Nat
      /\ Cardinality(T \cup F) = Cardinality(T) + Cardinality(F)
  BY Split
<1>2. /\ s \subseteq T \cup F
      /\ Cardinality(s) = Capped(Cardinality(T) + Cardinality(F))
      /\ Cardinality(s \cap T) = Capped(Cardinality(T))
  BY DEF VersionPreferred
<1>3. IsFiniteSet(s)
  BY <1>2, FS_Subset
<1>4. Cardinality(T) + Cardinality(F) \in Nat
  BY <1>1
<1>5. Cardinality(s) <= MAX_DNS_RESPONSE_PEERS
  BY <1>2, <1>4, CappedBound
<1>6. s = T \cup F \/ Cardinality(s) = MAX_DNS_RESPONSE_PEERS
  <2>1. CASE Cardinality(s) = Cardinality(T) + Cardinality(F)
    BY <1>1, <1>2, <2>1, FS_Subset
  <2> QED BY <1>2, <1>4, <2>1, CappedBound
<1>7. s \subseteq T \/ T \subseteq s
  <2>1. CASE Cardinality(T) <= MAX_DNS_RESPONSE_PEERS
    <3>1. Cardinality(s \cap T) = Cardinality(T)
      BY <1>1, <1>2, <2>1, CappedBound
    <3>2. s \cap T = T
      BY <1>1, <3>1, FS_Subset
    <3> QED BY <3>2
  <2>2. CASE Cardinality(T) > MAX_DNS_RESPONSE_PEERS
    <3>1. Cardinality(T) + Cardinality(F) > MAX_DNS_RESPONSE_PEERS
      BY <1>1, <2>2, CacheAssumption
    <3>2. Cardinality(s \cap T) = Cardinality(s)
      BY <1>1, <1>2, <1>4, <2>2, <3>1, CappedBound
    <3>3. s \cap T = s
      BY <1>3, <3>2, FS_Subset
    <3> QED BY <3>3
  <2> QED BY <1>1, <2>1, <2>2, CacheAssumption
<1> QED BY <1>2, <1>3, <1>5, <1>6, <1>7
-----------------------------------------------------------------------------
(* The checks of classify.                                                 *)

\* The seven checks, in their order.
LEMMA Checks ==
    ASSUME NEW p, NEW minimum
    PROVE  /\ Applies("not_routable", p, minimum) <=> p \in Unroutable
           /\ Applies("wrong_port", p, minimum) <=> p \in WrongPort
           /\ Applies("not_recently_live", p, minimum) <=> ~book[p].live
           /\ Applies("outdated_version", p, minimum)
                 <=> book[p].version = 0 \/ book[p].version < minimum
           /\ Applies("not_full_node", p, minimum) <=> ~book[p].full
           /\ Applies("inbound", p, minimum) <=> book[p].inbound
           /\ Applies("misbehaving", p, minimum) <=> BanGroup[p] \in banned
BY DEF Applies

\* Their ranks.
LEMMA Ranks ==
    /\ Rank["not_routable"] = 1 /\ Rank["wrong_port"] = 2 /\ Rank["not_recently_live"] = 3
    /\ Rank["outdated_version"] = 4 /\ Rank["not_full_node"] = 5 /\ Rank["inbound"] = 6
    /\ Rank["misbehaving"] = 7
BY DEF Rank, Reasons

\* What the checks from the n-th on are asked of: the peers that passed the rest.
Passed(n, minimum) ==
    {p \in Known : \A reason \in Reasons : Rank[reason] < n => ~Applies(reason, p, minimum)}

Failed(reason, minimum) == {p \in Known : IsReason(reason, p, minimum)}

\* Each check parts the peers it is asked of into those it refuses and the rest.
LEMMA OneCheck ==
    ASSUME NEW minimum, NEW reason \in Reasons, NEW n \in Nat, Rank[reason] = n
    PROVE  /\ Failed(reason, minimum) \cup Passed(n + 1, minimum) = Passed(n, minimum)
           /\ Failed(reason, minimum) \cap Passed(n + 1, minimum) = {}
<1>1. \A other \in Reasons : Rank[other] \in Nat
  BY Ranks DEF Reasons
<1>2. \A other \in Reasons : Rank[other] = n => other = reason
  BY Ranks DEF Reasons
<1>3. ASSUME NEW p \in Failed(reason, minimum)
      PROVE  p \in Passed(n, minimum) /\ p \notin Passed(n + 1, minimum)
  <2>1. /\ p \in Known /\ Applies(reason, p, minimum)
        /\ \A other \in Reasons : Applies(other, p, minimum) => n <= Rank[other]
    BY <1>3 DEF Failed, IsReason
  <2> QED BY <1>1, <2>1 DEF Passed
<1>4. ASSUME NEW p \in Passed(n + 1, minimum) PROVE p \in Passed(n, minimum)
  BY <1>1, <1>4 DEF Passed
<1>5. ASSUME NEW p \in Passed(n, minimum), p \notin Passed(n + 1, minimum)
      PROVE  p \in Failed(reason, minimum)
  <2>1. PICK other \in Reasons : Rank[other] < n + 1 /\ Applies(other, p, minimum)
    BY <1>5 DEF Passed
  <2>2. other = reason
    BY <1>1, <1>2, <2>1 DEF Passed
  <2>3. \A q \in Reasons : Applies(q, p, minimum) => n <= Rank[q]
    BY <1>1 DEF Passed
  <2> QED BY <2>1, <2>2, <2>3 DEF Passed, Failed, IsReason
<1> QED BY <1>3, <1>4, <1>5

\* Before the first check are all peers of the book, after the last the servable.
LEMMA FirstAndLast ==
    ASSUME NEW minimum
    PROVE  /\ Passed(1, minimum) = Known
           /\ Passed(8, minimum) = {p \in Peers : Servable(p, minimum)}
<1>1. \A reason \in Reasons : ~(Rank[reason] < 1) /\ Rank[reason] < 8
  BY Ranks DEF Reasons
<1> QED BY <1>1 DEF Passed, Servable, Known

\* The gauges of a refresh count every peer of the book once.
LEMMA GaugesPartition ==
    ASSUME NEW minimum, NEW g, g = Gauges(minimum)
    PROVE  /\ g.known =
                g.servable["ipv4"] + g.servable["ipv6"]
                  + g.unservable["not_routable"] + g.unservable["wrong_port"]
                  + g.unservable["not_recently_live"] + g.unservable["outdated_version"]
                  + g.unservable["not_full_node"] + g.unservable["inbound"]
                  + g.unservable["misbehaving"]
<1> DEFINE P(n) == Passed(n, minimum)
           C(reason) == Cardinality(Failed(reason, minimum))
           V(f) == {p \in Peers : Family[p] = f /\ Servable(p, minimum)}
<1>1. IsFiniteSet(P(1)) /\ P(1) = Known /\ Cardinality(P(1)) \in Nat
  <2>1. P(1) = Known
    BY FirstAndLast
  <2>2. IsFiniteSet(Known)
    BY FS_Subset, CacheAssumption DEF Known
  <2> QED BY <2>1, <2>2, FS_CardinalityType
<1>2. ASSUME NEW reason \in Reasons, NEW n \in Nat, Rank[reason] = n, IsFiniteSet(P(n))
      PROVE  /\ IsFiniteSet(P(n + 1)) /\ C(reason) \in Nat /\ Cardinality(P(n + 1)) \in Nat
             /\ Cardinality(P(n)) = C(reason) + Cardinality(P(n + 1))
  <2>1. /\ Failed(reason, minimum) \cup Passed(n + 1, minimum) = Passed(n, minimum)
        /\ Failed(reason, minimum) \cap Passed(n + 1, minimum) = {}
    BY <1>2, OneCheck
  <2> HIDE DEF Failed, Passed
  <2> QED BY <1>2, <2>1, Split
<1>3. /\ IsFiniteSet(P(8)) /\ Cardinality(P(8)) \in Nat
      /\ \A reason \in Reasons : C(reason) \in Nat
      /\ Cardinality(P(1)) = C("not_routable") + C("wrong_port") + C("not_recently_live")
            + C("outdated_version") + C("not_full_node") + C("inbound") + C("misbehaving")
            + Cardinality(P(8))
  <2> HIDE DEF P, C
  <2>1. /\ "not_routable" \in Reasons /\ "wrong_port" \in Reasons
        /\ "not_recently_live" \in Reasons /\ "outdated_version" \in Reasons
        /\ "not_full_node" \in Reasons /\ "inbound" \in Reasons /\ "misbehaving" \in Reasons
    BY DEF Reasons
  <2>2. /\ IsFiniteSet(P(2)) /\ C("not_routable") \in Nat /\ Cardinality(P(2)) \in Nat
        /\ Cardinality(P(1)) = C("not_routable") + Cardinality(P(2))
    BY <1>1, <1>2, <2>1, Ranks
  <2>3. /\ IsFiniteSet(P(3)) /\ C("wrong_port") \in Nat /\ Cardinality(P(3)) \in Nat
        /\ Cardinality(P(2)) = C("wrong_port") + Cardinality(P(3))
    BY <1>2, <2>1, <2>2, Ranks
  <2>4. /\ IsFiniteSet(P(4)) /\ C("not_recently_live") \in Nat /\ Cardinality(P(4)) \in Nat
        /\ Cardinality(P(3)) = C("not_recently_live") + Cardinality(P(4))
    BY <1>2, <2>1, <2>3, Ranks
  <2>5. /\ IsFiniteSet(P(5)) /\ C("outdated_version") \in Nat /\ Cardinality(P(5)) \in Nat
        /\ Cardinality(P(4)) = C("outdated_version") + Cardinality(P(5))
    BY <1>2, <2>1, <2>4, Ranks
  <2>6. /\ IsFiniteSet(P(6)) /\ C("not_full_node") \in Nat /\ Cardinality(P(6)) \in Nat
        /\ Cardinality(P(5)) = C("not_full_node") + Cardinality(P(6))
    BY <1>2, <2>1, <2>5, Ranks
  <2>7. /\ IsFiniteSet(P(7)) /\ C("inbound") \in Nat /\ Cardinality(P(7)) \in Nat
        /\ Cardinality(P(6)) = C("inbound") + Cardinality(P(7))
    BY <1>2, <2>1, <2>6, Ranks
  <2>8. /\ IsFiniteSet(P(8)) /\ C("misbehaving") \in Nat /\ Cardinality(P(8)) \in Nat
        /\ Cardinality(P(7)) = C("misbehaving") + Cardinality(P(8))
    BY <1>2, <2>1, <2>7, Ranks
  <2>9. \A reason \in Reasons : C(reason) \in Nat
    BY <2>2, <2>3, <2>4, <2>5, <2>6, <2>7, <2>8 DEF Reasons
  <2> QED BY <2>2, <2>3, <2>4, <2>5, <2>6, <2>7, <2>8, <2>9
<1>4. /\ Cardinality(V("ipv4")) \in Nat /\ Cardinality(V("ipv6")) \in Nat
      /\ Cardinality(P(8)) = Cardinality(V("ipv4")) + Cardinality(V("ipv6"))
  <2>1. V("ipv4") \cup V("ipv6") = P(8) /\ V("ipv4") \cap V("ipv6") = {}
    BY FirstAndLast, CacheAssumption DEF Families
  <2>2. IsFiniteSet(P(8))
    BY <1>3
  <2> SUFFICES ASSUME NEW S, NEW A, NEW B, IsFiniteSet(S), A \cup B = S, A \cap B = {}
               PROVE  /\ Cardinality(A) \in Nat /\ Cardinality(B) \in Nat
                      /\ Cardinality(S) = Cardinality(A) + Cardinality(B)
    BY <2>1, <2>2
  <2> QED BY Split
<1>5. /\ g.known = Cardinality(P(1))
      /\ g.servable["ipv4"] = Cardinality(V("ipv4"))
      /\ g.servable["ipv6"] = Cardinality(V("ipv6"))
      /\ \A reason \in Reasons : g.unservable[reason] = C(reason)
  BY <1>1 DEF Gauges, Families, Failed
<1>6. \A reason \in {"not_routable", "wrong_port", "not_recently_live", "outdated_version",
                     "not_full_node", "inbound", "misbehaving"} :
          g.unservable[reason] = C(reason) /\ C(reason) \in Nat
  BY <1>3, <1>5 DEF Reasons
<1> HIDE DEF P, C, V
<1> QED BY <1>3, <1>4, <1>5, <1>6
-----------------------------------------------------------------------------
(* One refresh.                                                            *)

ServableIn(f, minimum) == {p \in Peers : Family[p] = f /\ Servable(p, minimum)}
TargetTier(f, minimum) == {p \in ServableIn(f, minimum) : book[p].version >= TargetVersion}

\* What a family's list holds: servable peers as they were classified, all of them
\* or a full answer, fallback peers only beside the whole target tier.
LEMMA ListOf ==
    ASSUME TypeOK, NEW f \in Families, NEW minimum \in Nat,
           NEW list \in ServablePeers(f, minimum)
    PROVE  \E s \in SUBSET ServableIn(f, minimum) :
              /\ list = {Entry(p) : p \in s}
              /\ IsFiniteSet(s) /\ Cardinality(s) <= MAX_DNS_RESPONSE_PEERS
              /\ s = ServableIn(f, minimum) \/ Cardinality(s) = MAX_DNS_RESPONSE_PEERS
              /\ s \subseteq TargetTier(f, minimum) \/ TargetTier(f, minimum) \subseteq s
<1> DEFINE S == ServableIn(f, minimum)
           T == TargetTier(f, minimum)
<1>1. PICK s \in VersionPreferred(T, S \ T) : list = {Entry(p) : p \in s}
  BY DEF ServablePeers, ServableIn, TargetTier
<1>2. T \cup (S \ T) = S /\ T \cap (S \ T) = {}
  BY DEF TargetTier
<1>3. IsFiniteSet(S)
  BY FS_Subset, CacheAssumption DEF ServableIn
<1> HIDE DEF S, T
<1>4. IsFiniteSet(T \cup (S \ T))
  BY <1>2, <1>3
<1>5. /\ s \subseteq T \cup (S \ T) /\ IsFiniteSet(s)
      /\ Cardinality(s) <= MAX_DNS_RESPONSE_PEERS
      /\ s = T \cup (S \ T) \/ Cardinality(s) = MAX_DNS_RESPONSE_PEERS
      /\ s \subseteq T \/ T \subseteq s
  BY <1>2, <1>4, PreferredServed
<1> QED BY <1>1, <1>2, <1>5 DEF S, T

\* A servable peer has negotiated a version the floor allows.
LEMMA ServableVersion ==
    ASSUME TypeOK, NEW minimum \in Nat, NEW p \in Peers, Servable(p, minimum)
    PROVE  /\ book[p] \in Meta /\ Entry(p) \in Entries
           /\ Entry(p).version >= minimum /\ Entry(p).peer = p
<1>1. book[p] \in Meta
  BY DEF TypeOK, Servable, Known
<1>2. "outdated_version" \in Reasons
  BY DEF Reasons
<1>3. ~(book[p].version < minimum)
  BY <1>2, Checks DEF Servable
<1>4. book[p].version \in 0..TargetVersion /\ book[p].version \in Nat
  BY <1>1, CacheAssumption DEF Meta
<1>5. Entry(p) = [peer |-> p, version |-> book[p].version]
  BY DEF Entry
<1> QED BY <1>1, <1>3, <1>4, <1>5 DEF Entries

\* A family's list is one of entries, within the cap and above the floor.
LEMMA ListType ==
    ASSUME TypeOK, NEW f \in Families, NEW minimum \in Nat,
           NEW list \in ServablePeers(f, minimum)
    PROVE  /\ list \subseteq Entries /\ Cardinality(list) <= MAX_DNS_RESPONSE_PEERS
           /\ \A e \in list : e.version >= minimum
<1>1. PICK s \in SUBSET ServableIn(f, minimum) :
              /\ list = {Entry(p) : p \in s}
              /\ IsFiniteSet(s) /\ Cardinality(s) <= MAX_DNS_RESPONSE_PEERS
  BY ListOf
<1>2. \A p \in s : p \in Peers /\ Servable(p, minimum)
  BY DEF ServableIn
<1>3. list \subseteq Entries /\ \A e \in list : e.version >= minimum
  BY <1>1, <1>2, ServableVersion
<1>4. Cardinality(list) <= Cardinality(s) /\ IsFiniteSet(list)
  <2> DEFINE h == [p \in s |-> Entry(p)]
  <2>1. h \in Surjection(s, list)
    BY <1>1 DEF Surjection
  <2> HIDE DEF h
  <2> QED BY <1>1, <2>1, FS_Surjection
<1>5. Cardinality(list) \in Nat /\ Cardinality(s) \in Nat
  BY <1>1, <1>4, FS_CardinalityType
<1> QED BY <1>1, <1>3, <1>4, <1>5, CacheAssumption
-----------------------------------------------------------------------------
(* The inductive invariant.                                                *)

\* What a refresh has computed is within the cap and above the floor it read.
ResultFits ==
    \A f \in Families :
        /\ Cardinality(result[f]) <= MAX_DNS_RESPONSE_PEERS
        /\ pc = "send" => \A e \in result[f] : e.version >= minimum_version

\* Once a snapshot has been sent after the rise, every refresh has read the floor
\* after it.
ReadAfterRise ==
    /\ sends >= 1 => floor = TargetVersion
    /\ sends >= 1 /\ pc \in {"lock", "send"} => minimum_version = TargetVersion

CacheInv ==
    TypeOK /\ ResultFits /\ ReadAfterRise /\ FloorReachesSnapshots /\ GaugesAccountForBook

\* An empty list is within every cap.
LEMMA EmptyFits == Cardinality({}) <= MAX_DNS_RESPONSE_PEERS
BY FS_EmptySet, CacheAssumption

\* It holds when the task is spawned.
LEMMA CacheInit == Init => CacheInv
<1> SUFFICES ASSUME Init PROVE CacheInv
  OBVIOUS
<1>1. result = NoEntries /\ snapshot = NoEntries
  BY DEF Init
<1>2. \A f \in Families : NoEntries[f] = {}
  BY DEF NoEntries
<1>3. TypeOK
  <2>1. NoEntries \in [Families -> SUBSET Entries]
    BY DEF NoEntries
  <2>2. \A f \in Families : Cardinality(snapshot[f]) <= MAX_DNS_RESPONSE_PEERS
    BY <1>1, <1>2, EmptyFits
  <2>3. poisoned \in BOOLEAN /\ receivers \in BOOLEAN
    BY Zenon DEF Init
  <2>4. /\ book \in [Peers -> Meta \cup {Absent}] /\ banned \subseteq BanGroups
        /\ floor \in {PreviousFloor, TargetVersion} /\ sends \in 0..2
        /\ pc \in {"sleep", "lock", "send", "ended"}
        /\ minimum_version \in {0, PreviousFloor, TargetVersion}
    BY DEF Init
  <2> QED BY <1>1, <2>1, <2>2, <2>3, <2>4 DEF TypeOK
<1>4. ResultFits
  BY <1>1, <1>2, EmptyFits DEF ResultFits, Init
<1>5. ReadAfterRise /\ FloorReachesSnapshots
  BY DEF Init, ReadAfterRise, FloorReachesSnapshots
<1>6. GaugesAccountForBook
  BY DEF Init, GaugesAccountForBook, Families, Reasons
<1> QED BY <1>3, <1>4, <1>5, <1>6 DEF CacheInv

\* Every step keeps it.
LEMMA CacheNext ==
    ASSUME CacheInv, [Next]_vars
    PROVE  CacheInv'
<1>0. /\ TypeOK /\ ResultFits /\ ReadAfterRise /\ FloorReachesSnapshots /\ GaugesAccountForBook
      /\ minimum_version \in Nat /\ floor \in Nat
  BY CacheAssumption DEF CacheInv, TypeOK
<1> USE DEF world, task
\* Steps of the book, which the task does not see before it classifies.
<1>a. ASSUME UNCHANGED <<floor, pc, minimum_version, result, snapshot, gauges, receivers, sends>>,
             book' \in [Peers -> Meta \cup {Absent}], banned' \subseteq BanGroups,
             poisoned' \in BOOLEAN
      PROVE  CacheInv'
  <2>1. TypeOK'
    BY <1>0, <1>a DEF TypeOK
  <2>2. ResultFits' /\ ReadAfterRise' /\ FloorReachesSnapshots' /\ GaugesAccountForBook'
    BY <1>0, <1>a DEF ResultFits, ReadAfterRise, FloorReachesSnapshots, GaugesAccountForBook
  <2> QED BY <2>1, <2>2 DEF CacheInv
<1>1. ASSUME ReadFloor PROVE CacheInv'
  <2>1. /\ pc = "sleep" /\ pc' = "lock" /\ minimum_version' = floor
        /\ UNCHANGED <<book, banned, poisoned, floor, result, snapshot, gauges, receivers, sends>>
    BY <1>1 DEF ReadFloor
  <2>2. TypeOK' /\ ResultFits' /\ ReadAfterRise'
    BY <1>0, <2>1 DEF TypeOK, ResultFits, ReadAfterRise
  <2>3. FloorReachesSnapshots' /\ GaugesAccountForBook'
    BY <1>0, <2>1 DEF FloorReachesSnapshots, GaugesAccountForBook
  <2> QED BY <2>2, <2>3 DEF CacheInv
<1>2. ASSUME Classify PROVE CacheInv'
  <2>1. /\ pc = "lock" /\ pc' = "send" /\ gauges' = Gauges(minimum_version)
        /\ UNCHANGED <<book, banned, poisoned, floor, minimum_version, snapshot, receivers, sends>>
    BY <1>2 DEF Classify
  <2>2. PICK ipv4 \in ServablePeers("ipv4", minimum_version),
             ipv6 \in ServablePeers("ipv6", minimum_version) :
             result' = [f \in Families |-> IF f = "ipv4" THEN ipv4 ELSE ipv6]
    BY <1>2 DEF Classify
  <2>3. \A f \in Families : result'[f] \in ServablePeers(f, minimum_version)
    BY <2>2 DEF Families
  <2>4. \A f \in Families :
           /\ result'[f] \subseteq Entries
           /\ Cardinality(result'[f]) <= MAX_DNS_RESPONSE_PEERS
           /\ \A e \in result'[f] : e.version >= minimum_version
    BY <1>0, <2>3, ListType
  <2>5. result' \in [Families -> SUBSET Entries]
    BY <2>2, <2>4 DEF Families
  <2>6. TypeOK' /\ ReadAfterRise'
    BY <1>0, <2>1, <2>5 DEF TypeOK, ReadAfterRise
  <2>7. ResultFits' /\ FloorReachesSnapshots'
    BY <1>0, <2>1, <2>4 DEF ResultFits, FloorReachesSnapshots
  <2>8. GaugesAccountForBook'
    BY <2>1, GaugesPartition DEF GaugesAccountForBook
  <2> QED BY <2>6, <2>7, <2>8 DEF CacheInv
<1>3. ASSUME Send PROVE CacheInv'
  <2>1. /\ pc = "send" /\ result' = NoEntries /\ minimum_version' = 0
        /\ UNCHANGED <<book, banned, poisoned, floor, gauges, receivers>>
    BY <1>3 DEF Send
  <2>2. /\ result' \in [Families -> SUBSET Entries]
        /\ \A f \in Families : result'[f] = {}
    BY <2>1 DEF NoEntries
  <2>3. ResultFits'
    BY <2>2, EmptyFits DEF ResultFits
  <2>4. GaugesAccountForBook'
    BY <1>0, <2>1 DEF GaugesAccountForBook
  <2>5. CASE receivers
    <3>1. /\ snapshot' = result /\ pc' = "sleep"
          /\ sends' = IF floor = TargetVersion /\ sends < 2 THEN sends + 1 ELSE sends
      BY <1>3, <2>5 DEF Send
    <3>2. sends \in 0..2 /\ sends' \in 0..2 /\ (sends' >= 1 => floor = TargetVersion)
          /\ (sends' = 2 => sends >= 1)
      BY <1>0, <3>1 DEF TypeOK, ReadAfterRise
    <3>3. TypeOK' /\ ReadAfterRise'
      BY <1>0, <2>1, <2>2, <3>1, <3>2 DEF TypeOK, ReadAfterRise, ResultFits
    <3>4. FloorReachesSnapshots'
      BY <1>0, <2>1, <3>1, <3>2 DEF FloorReachesSnapshots, ResultFits, ReadAfterRise
    <3> QED BY <2>3, <2>4, <3>3, <3>4 DEF CacheInv
  <2>6. CASE ~receivers
    <3>1. pc' = "ended" /\ UNCHANGED <<snapshot, sends>>
      BY <1>3, <2>6 DEF Send
    <3>2. TypeOK' /\ ReadAfterRise' /\ FloorReachesSnapshots'
      BY <1>0, <2>1, <2>2, <3>1 DEF TypeOK, ReadAfterRise, FloorReachesSnapshots
    <3> QED BY <2>3, <2>4, <3>2 DEF CacheInv
  <2> QED BY <2>5, <2>6
<1>4. ASSUME NEW p \in Peers, NEW meta \in Handshakes \cup {Absent}, UpdateBook(p, meta)
      PROVE  CacheInv'
  <2>1. book' \in [Peers -> Meta \cup {Absent}]
    BY <1>0, <1>4, CacheAssumption DEF UpdateBook, TypeOK
  <2> QED BY <1>0, <1>4, <1>a, <2>1 DEF UpdateBook, TypeOK
<1>5. ASSUME NEW p \in Peers, Expire(p) PROVE CacheInv'
  <2>1. book[p] \in Meta
    BY <1>0, <1>5 DEF Expire, Known, TypeOK
  <2>2. book' = [book EXCEPT ![p] = [book[p] EXCEPT !.live = FALSE]]
    BY <1>5 DEF Expire
  <2>3. [book[p] EXCEPT !.live = FALSE] \in Meta
    BY <2>1 DEF Meta
  <2>4. book' \in [Peers -> Meta \cup {Absent}]
    BY <1>0, <2>2, <2>3 DEF TypeOK
  <2> QED BY <1>0, <1>5, <1>a, <2>4 DEF Expire, TypeOK
<1>6. ASSUME NEW g \in BanGroups, Ban(g) PROVE CacheInv'
  BY <1>0, <1>6, <1>a DEF Ban, TypeOK
<1>7. ASSUME Poison PROVE CacheInv'
  <2>1. poisoned' \in BOOLEAN
    BY <1>7 DEF Poison
  <2> QED BY <1>0, <1>7, <1>a, <2>1 DEF Poison, TypeOK
<1>8. ASSUME ConfirmActivation PROVE CacheInv'
  <2>1. /\ floor < TargetVersion /\ floor' = TargetVersion
        /\ UNCHANGED <<book, banned, poisoned, pc, minimum_version, result, snapshot,
                       gauges, receivers, sends>>
    BY <1>8 DEF ConfirmActivation
  <2>2. ~(sends >= 1)
    BY <1>0, <2>1 DEF ReadAfterRise
  <2>3. TypeOK' /\ ReadAfterRise' /\ ResultFits'
    BY <1>0, <2>1, <2>2 DEF TypeOK, ReadAfterRise, ResultFits
  <2>4. FloorReachesSnapshots' /\ GaugesAccountForBook'
    BY <1>0, <2>1, <2>2 DEF FloorReachesSnapshots, GaugesAccountForBook
  <2> QED BY <2>3, <2>4 DEF CacheInv
<1>9. ASSUME DropReceivers PROVE CacheInv'
  <2>1. receivers' \in BOOLEAN
    BY <1>9 DEF DropReceivers
  <2>2. UNCHANGED <<book, banned, poisoned, floor, pc, minimum_version, result, snapshot,
                    gauges, sends>>
    BY <1>9 DEF DropReceivers
  <2>3. TypeOK' /\ ReadAfterRise' /\ ResultFits' /\ FloorReachesSnapshots' /\ GaugesAccountForBook'
    BY <1>0, <2>1, <2>2
    DEF TypeOK, ReadAfterRise, ResultFits, FloorReachesSnapshots, GaugesAccountForBook
  <2> QED BY <2>3 DEF CacheInv
<1>10. ASSUME UNCHANGED vars PROVE CacheInv'
  BY <1>0, <1>10, <1>a DEF vars, TypeOK
<1> QED BY <1>1, <1>2, <1>3, <1>4, <1>5, <1>6, <1>7, <1>8, <1>9, <1>10 DEF Next
-----------------------------------------------------------------------------
\* The invariant is one of the specification.
LEMMA CacheInvHolds == Spec => []CacheInv
BY CacheInit, CacheNext, PTL DEF Spec

\* No snapshot is ever larger than the cap, whatever the book holds.
THEOREM CacheTypeCorrect == Spec => []TypeOK
<1>1. CacheInv => TypeOK
  BY DEF CacheInv
<1> QED BY <1>1, CacheInvHolds, PTL

\* At most one snapshot computed with the old floor is sent after the rise.
THEOREM FloorReachesSnapshotsHolds == Spec => []FloorReachesSnapshots
<1>1. CacheInv => FloorReachesSnapshots
  BY DEF CacheInv
<1> QED BY <1>1, CacheInvHolds, PTL

\* Every peer of the book is counted by one gauge: classify returns one reason, the
\* first that applies, or none, and record_peer_metrics sets every gauge.
THEOREM GaugesAccountForBookHolds == Spec => []GaugesAccountForBook
<1>1. CacheInv => GaugesAccountForBook
  BY DEF CacheInv
<1> QED BY <1>1, CacheInvHolds, PTL

\* A refresh prefers the target version and answers as fully as the book allows.
THEOREM TargetVersionFirstHolds == Spec => TargetVersionFirst
<1> DEFINE Preferred ==
      pc = "lock" /\ pc' = "send"
        => \A f \in Families :
             LET servable == {p \in Peers : Family[p] = f /\ Servable(p, minimum_version)}
                 served   == {e.peer : e \in result'[f]}
             IN  /\ served \subseteq servable
                 /\ \/ servable = served
                    \/ Cardinality(served) = MAX_DNS_RESPONSE_PEERS
                 /\ \/ \A p \in served : book[p].version >= TargetVersion
                    \/ \A p \in servable \ served : book[p].version < TargetVersion
<1>1. ASSUME CacheInv, [Next]_vars PROVE Preferred \/ UNCHANGED vars
  <2> SUFFICES ASSUME pc = "lock", pc' = "send", NEW f \in Families
               PROVE  LET served == {e.peer : e \in result'[f]}
                      IN  /\ served \subseteq ServableIn(f, minimum_version)
                          /\ \/ ServableIn(f, minimum_version) = served
                             \/ Cardinality(served) = MAX_DNS_RESPONSE_PEERS
                          /\ \/ \A p \in served : book[p].version >= TargetVersion
                             \/ \A p \in ServableIn(f, minimum_version) \ served :
                                   book[p].version < TargetVersion
    BY DEF ServableIn
  <2>1. TypeOK /\ minimum_version \in Nat
    BY <1>1, CacheAssumption DEF CacheInv, TypeOK
  <2>2. Classify
    BY <1>1 DEF Next, ReadFloor, Send, UpdateBook, Expire, Ban, Poison,
       ConfirmActivation, DropReceivers, vars, task
  <2>3. result'[f] \in ServablePeers(f, minimum_version)
    BY <2>2 DEF Classify, Families
  <2>4. PICK s \in SUBSET ServableIn(f, minimum_version) :
              /\ result'[f] = {Entry(p) : p \in s}
              /\ IsFiniteSet(s) /\ Cardinality(s) <= MAX_DNS_RESPONSE_PEERS
              /\ \/ s = ServableIn(f, minimum_version)
                 \/ Cardinality(s) = MAX_DNS_RESPONSE_PEERS
              /\ \/ s \subseteq TargetTier(f, minimum_version)
                 \/ TargetTier(f, minimum_version) \subseteq s
    BY <2>1, <2>3, ListOf
  <2>5. {e.peer : e \in result'[f]} = s
    <3>1. \A p \in s : Entry(p).peer = p
      BY DEF Entry
    <3>2. \A p \in s : Entry(p) \in result'[f]
      BY <2>4
    <3>3. \A e \in result'[f] : \E p \in s : e = Entry(p)
      BY <2>4
    <3> QED BY <3>1, <3>2, <3>3
  <2>6. \A p \in ServableIn(f, minimum_version) : book[p].version \in Nat
    BY <2>1, ServableVersion, CacheAssumption DEF ServableIn, Meta
  <2>7. \/ \A p \in s : book[p].version >= TargetVersion
        \/ \A p \in ServableIn(f, minimum_version) \ s : book[p].version < TargetVersion
    <3>1. CASE s \subseteq TargetTier(f, minimum_version)
      BY <3>1 DEF TargetTier
    <3>2. CASE TargetTier(f, minimum_version) \subseteq s
      BY <2>6, <3>2, CacheAssumption DEF TargetTier
    <3> QED BY <2>4, <3>1, <3>2
  <2> QED BY <2>4, <2>5, <2>7
<1> QED BY <1>1, CacheInvHolds, PTL DEF Spec, TargetVersionFirst
-----------------------------------------------------------------------------
(* What EventuallyAccurate rests on.                                       *)

\* A refresh sends its snapshot.
Sent == pc = "send" /\ pc' = "sleep"

\* The snapshot the refresh under way has computed holds the peer.
Listed(p) == \E f \in Families : \E e \in result[f] : e.peer = p

\* The refresh under way, if there is one, read the floor in force.
Fresh == pc = "lock" => minimum_version = floor

\* What it has computed, if anything, is right about a peer to be removed.
Leaving(p) == Fresh /\ (pc = "send" => ~Listed(p))

\* What it has computed, if anything, is right about a peer to be served.
Entering(p) == Fresh /\ (pc = "send" => Listed(p))

\* A refresh that read the floor in force lists no unservable peer, and every
\* servable one of a family that fits under the cap.
LEMMA ClassifyAccurate ==
    ASSUME CacheInv, Classify, Fresh, NEW p \in Peers
    PROVE  /\ ~Servable(p, floor) => ~Listed(p)'
           /\ Servable(p, floor) /\ Fits(Family[p]) => Listed(p)'
<1>1. TypeOK /\ minimum_version = floor /\ floor \in Nat
  BY CacheAssumption DEF CacheInv, TypeOK, Fresh, Classify
<1>2. \A f \in Families : result'[f] \in ServablePeers(f, floor)
  BY <1>1 DEF Classify, Families
<1>3. ASSUME NEW f \in Families
      PROVE  \E s \in SUBSET ServableIn(f, floor) :
              /\ result'[f] = {Entry(q) : q \in s}
              /\ IsFiniteSet(s)
              /\ s = ServableIn(f, floor) \/ Cardinality(s) = MAX_DNS_RESPONSE_PEERS
  BY <1>1, <1>2, ListOf
<1>4. \A q : Entry(q).peer = q
  BY DEF Entry
<1>5. ASSUME ~Servable(p, floor), Listed(p)' PROVE FALSE
  <2>1. PICK f \in Families : \E e \in result'[f] : e.peer = p
    BY <1>5 DEF Listed
  <2>2. PICK s \in SUBSET ServableIn(f, floor) : result'[f] = {Entry(q) : q \in s}
    BY <1>3
  <2>3. p \in s
    BY <2>1, <2>2, <1>4
  <2> QED BY <1>5, <2>3 DEF ServableIn
<1>6. ASSUME Servable(p, floor), Fits(Family[p]) PROVE Listed(p)'
  <2>1. Family[p] \in Families
    BY CacheAssumption
  <2> DEFINE f == Family[p]
             S == ServableIn(f, floor)
  <2>2. IsFiniteSet(S) /\ Cardinality(S) <= MAX_DNS_RESPONSE_PEERS /\ p \in S
    BY <1>6, FS_Subset, CacheAssumption DEF ServableIn, Fits
  <2>3. PICK s \in SUBSET S :
              /\ result'[f] = {Entry(q) : q \in s}
              /\ IsFiniteSet(s)
              /\ s = S \/ Cardinality(s) = MAX_DNS_RESPONSE_PEERS
    BY <1>3, <2>1
  <2> HIDE DEF S
  <2>4. s = S
    <3>1. Cardinality(s) \in Nat /\ Cardinality(S) \in Nat /\ Cardinality(s) <= Cardinality(S)
      BY <2>2, <2>3, FS_CardinalityType, FS_Subset
    <3>2. CASE Cardinality(s) = MAX_DNS_RESPONSE_PEERS
      <4>1. Cardinality(s) = Cardinality(S)
        BY <2>2, <3>1, <3>2, CacheAssumption
      <4> QED BY <2>2, <2>3, <4>1, FS_Subset
    <3> QED BY <2>3, <3>2
  <2>5. Entry(p) \in result'[f]
    BY <2>2, <2>3, <2>4
  <2> QED BY <1>4, <2>1, <2>5 DEF Listed
<1> QED BY <1>5, <1>6

\* While the floor stays, only the refresh itself moves what it computed, and
\* only a snapshot sent moves what DNS serves.
LEMMA CacheAlone ==
    ASSUME CacheInv, [Next]_vars, floor' = floor, Fresh, NEW p \in Peers
    PROVE  /\ Fresh'
           /\ pc' = "send" => Classify \/ (pc = "send" /\ (Listed(p)' <=> Listed(p)))
           /\ Sent => (Served(p)' <=> Listed(p))
           /\ ~Sent => (Served(p)' <=> Served(p))
<1> USE DEF Fresh, Sent, Listed, Served
<1>1. CASE ReadFloor
  BY <1>1 DEF ReadFloor
<1>2. CASE Classify
  <2>1. pc = "lock" /\ pc' = "send" /\ snapshot' = snapshot
    BY <1>2 DEF Classify
  <2>2. ~Sent /\ (Served(p)' <=> Served(p))
    BY <2>1
  <2> QED BY <1>2, <2>1, <2>2
<1>3. CASE Send
  BY <1>3 DEF Send
<1>4. CASE \/ \E q \in Peers, meta \in Handshakes \cup {Absent} : UpdateBook(q, meta)
           \/ \E q \in Peers : Expire(q)
           \/ \E g \in BanGroups : Ban(g)
           \/ Poison \/ ConfirmActivation \/ DropReceivers
           \/ UNCHANGED vars
  <2>1. UNCHANGED <<pc, minimum_version, result, snapshot>>
    BY <1>4 DEF UpdateBook, Expire, Ban, Poison, ConfirmActivation, DropReceivers,
       vars, task
  <2> QED BY <2>1
<1> QED BY <1>1, <1>2, <1>3, <1>4 DEF Next

\* From the first sleep after a peer stopped being servable for good, with the
\* floor at rest, every refresh publishes a snapshot without it, and once it is
\* out of the answers it stays out, whatever else zebra-network records.
THEOREM UnservableLeaves ==
    ASSUME NEW p \in Peers
    PROVE  Spec =>
             [](pc = "sleep" /\ []~Servable(p, floor) /\ [][floor' = floor]_vars
                  => /\ [][Sent => ~Served(p)']_vars
                     /\ [](~Served(p) => []~Served(p)))
<1>1. pc = "sleep" => Leaving(p)
  BY DEF Leaving, Fresh
<1>2. CacheInv /\ [Next]_vars /\ [floor' = floor]_vars /\ ~Servable(p, floor) /\ Leaving(p)
        => /\ Leaving(p)'
           /\ Sent => ~Served(p)'
           /\ ~Served(p) => ~Served(p)'
  <2> SUFFICES ASSUME CacheInv, [Next]_vars, [floor' = floor]_vars,
                      ~Servable(p, floor), Leaving(p)
               PROVE  /\ Leaving(p)'
                      /\ Sent => ~Served(p)'
                      /\ ~Served(p) => ~Served(p)'
    OBVIOUS
  <2>1. floor' = floor /\ Fresh /\ (pc = "send" => ~Listed(p))
    BY DEF vars, Leaving
  <2>2. Classify => ~Listed(p)'
    BY <2>1, ClassifyAccurate
  <2> QED BY <2>1, <2>2, CacheAlone DEF Leaving, Sent
<1> QED BY <1>1, <1>2, CacheInvHolds, PTL DEF Spec

\* Likewise for a peer that is servable for good and whose family fits under the
\* cap: every refresh publishes a snapshot with it, and it stays in the answers.
THEOREM ServableEnters ==
    ASSUME NEW p \in Peers
    PROVE  Spec =>
             [](pc = "sleep" /\ [](Servable(p, floor) /\ Fits(Family[p])) /\ [][floor' = floor]_vars
                  => /\ [][Sent => Served(p)']_vars
                     /\ [](Served(p) => []Served(p)))
<1>1. pc = "sleep" => Entering(p)
  BY DEF Entering, Fresh
<1>2. CacheInv /\ [Next]_vars /\ [floor' = floor]_vars
          /\ Servable(p, floor) /\ Fits(Family[p]) /\ Entering(p)
        => /\ Entering(p)'
           /\ Sent => Served(p)'
           /\ Served(p) => Served(p)'
  <2> SUFFICES ASSUME CacheInv, [Next]_vars, [floor' = floor]_vars,
                      Servable(p, floor), Fits(Family[p]), Entering(p)
               PROVE  /\ Entering(p)'
                      /\ Sent => Served(p)'
                      /\ Served(p) => Served(p)'
    OBVIOUS
  <2>1. floor' = floor /\ Fresh /\ (pc = "send" => Listed(p))
    BY DEF vars, Entering
  <2>2. Classify => Listed(p)'
    BY <2>1, ClassifyAccurate
  <2> QED BY <2>1, <2>2, CacheAlone DEF Entering, Sent
<1> QED BY <1>1, <1>2, CacheInvHolds, PTL DEF Spec
=============================================================================
