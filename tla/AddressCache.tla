---------------------------- MODULE AddressCache ----------------------------
(***************************************************************************)
(* One network's served-address cache: the background task of              *)
(* src/crawl/address_cache.rs, which every few seconds reads the protocol  *)
(* floor from the chain tip, classifies every peer of zebra-network's      *)
(* address book (src/crawl/servability.rs) and publishes a capped snapshot *)
(* that DNS queries and the readiness probe read without a lock.  It runs  *)
(* beside zebra-network, which changes the book, and the activation        *)
(* observer, which raises the tip.                                         *)
(***************************************************************************)
EXTENDS Integers, FiniteSets

CONSTANTS
    Peers,                   \* addresses the book may hold
    Family,                  \* Peers -> {"ipv4", "ipv6"}
    Unroutable,              \* loopback, unspecified and multicast addresses
    WrongPort,               \* addresses not on the network's default port
    BanGroup,                \* Peers -> the group zebra-network bans together
    PreviousFloor,           \* protocol version before the compiled target
    TargetVersion,           \* required version of the compiled target
    Handshakes,              \* what the book may learn of a peer: see Meta
    MAX_DNS_RESPONSE_PEERS,  \* cap of a snapshot, per family
    Absent                   \* the book does not hold the peer

Families == {"ipv4", "ipv6"}
BanGroups == {BanGroup[p] : p \in Peers}

\* A book entry as the cache sees it: whether was_recently_live, the negotiated
\* version (0 when there is none), NODE_NETWORK and is_inbound.
Meta == [live : BOOLEAN, version : 0..TargetVersion, full : BOOLEAN, inbound : BOOLEAN]

ASSUME CacheAssumption ==
    /\ IsFiniteSet(Peers)
    /\ Family \in [Peers -> Families]
    /\ Unroutable \subseteq Peers /\ WrongPort \subseteq Peers
    /\ PreviousFloor \in Nat \ {0} /\ TargetVersion \in Nat
    /\ PreviousFloor < TargetVersion
    /\ Handshakes \subseteq Meta
    /\ MAX_DNS_RESPONSE_PEERS \in Nat
    /\ Absent \notin Meta

VARIABLES
    book,             \* address book: Peers -> Meta, or Absent
    banned,           \* ban groups of misbehaving peers
    poisoned,         \* a thread panicked while it held the book's mutex
    floor,            \* version floor derived from the chain tip
    pc,               \* where the updater task is
    minimum_version,  \* the floor it read
    result,           \* the snapshot it computed
    snapshot,         \* the watch channel: family -> entries served
    gauges,           \* PEERS_KNOWN, PEERS_SERVABLE, PEERS_UNSERVABLE
    receivers,        \* whether a receiver of the watch channel is alive
    sends             \* history: snapshots sent since the floor rose, up to 2

world == <<book, banned, poisoned>>
task  == <<pc, minimum_version, result>>
vars  == <<book, banned, poisoned, floor, pc, minimum_version, result,
           snapshot, gauges, receivers, sends>>
-----------------------------------------------------------------------------
(* Servability.                                                            *)

\* The reasons of UnservableReason that apply to a peer of the book.
Reasons == {"not_routable", "wrong_port", "not_recently_live", "outdated_version",
            "not_full_node", "inbound", "misbehaving"}

Applies(reason, p, minimum) ==
    CASE reason = "not_routable"      -> p \in Unroutable
      [] reason = "wrong_port"        -> p \in WrongPort
      [] reason = "not_recently_live" -> ~book[p].live
      [] reason = "outdated_version"  -> book[p].version = 0 \/ book[p].version < minimum
      [] reason = "not_full_node"     -> ~book[p].full
      [] reason = "inbound"           -> book[p].inbound
      [] reason = "misbehaving"       -> BanGroup[p] \in banned

\* The order of the checks in classify.
Rank == [reason \in Reasons |->
    CASE reason = "not_routable" -> 1 [] reason = "wrong_port" -> 2
      [] reason = "not_recently_live" -> 3 [] reason = "outdated_version" -> 4
      [] reason = "not_full_node" -> 5 [] reason = "inbound" -> 6
      [] reason = "misbehaving" -> 7]

Known == {p \in Peers : book[p] # Absent}

Servable(p, minimum) ==
    p \in Known /\ \A reason \in Reasons : ~Applies(reason, p, minimum)

\* classify's error: the first check that fails.
IsReason(reason, p, minimum) ==
    /\ Applies(reason, p, minimum)
    /\ \A other \in Reasons : Applies(other, p, minimum) => Rank[reason] <= Rank[other]
-----------------------------------------------------------------------------
(* One refresh.                                                            *)

Capped(n) == IF n <= MAX_DNS_RESPONSE_PEERS THEN n ELSE MAX_DNS_RESPONSE_PEERS

\* Variants of VersionPreferred: each tier truncated by itself, one shuffle of
\* both tiers.
TiersTruncated(target, fallback) ==
    {s \in SUBSET (target \cup fallback) :
        /\ Cardinality(s \cap target) = Capped(Cardinality(target))
        /\ Cardinality(s \cap fallback) = Capped(Cardinality(fallback))}
AnyVersion(target, fallback) ==
    {s \in SUBSET (target \cup fallback) :
        Cardinality(s) = Capped(Cardinality(target) + Cardinality(fallback))}

\* shuffled_version_preferred_peers: each tier is shuffled, the target tier comes
\* first, and the whole is truncated.
VersionPreferred(target, fallback) ==
    LET first == Capped(Cardinality(target))
        size  == Capped(Cardinality(target) + Cardinality(fallback))
    IN  {s \in SUBSET (target \cup fallback) :
            /\ Cardinality(s) = size
            /\ Cardinality(s \cap target) = first}

\* An entry keeps the version the peer was classified with, for the properties;
\* the code keeps the address alone.
Entry(p) == [peer |-> p, version |-> book[p].version]

ServablePeers(f, minimum) ==
    LET servable == {p \in Peers : Family[p] = f /\ Servable(p, minimum)}
        target   == {p \in servable : book[p].version >= TargetVersion}
    IN  {{Entry(p) : p \in s} : s \in VersionPreferred(target, servable \ target)}

\* Variant of Gauges: a reason no peer has keeps the value it had.
GaugesNotReset(minimum) ==
    [known      |-> Cardinality(Known),
     servable   |-> [f \in Families |->
        Cardinality({p \in Peers : Family[p] = f /\ Servable(p, minimum)})],
     unservable |-> [reason \in Reasons |->
        LET n == Cardinality({p \in Known : IsReason(reason, p, minimum)})
        IN  IF n = 0 THEN gauges.unservable[reason] ELSE n]]

\* The gauges, every reason's among them, are set on every refresh.
Gauges(minimum) ==
    [known      |-> Cardinality(Known),
     servable   |-> [f \in Families |->
        Cardinality({p \in Peers : Family[p] = f /\ Servable(p, minimum)})],
     unservable |-> [reason \in Reasons |->
        Cardinality({p \in Known : IsReason(reason, p, minimum)})]]

NoEntries == [f \in Families |-> {}]

Init ==
    /\ book = [p \in Peers |-> Absent] /\ banned = {} /\ poisoned = FALSE
    /\ floor = PreviousFloor
    /\ pc = "sleep" /\ minimum_version = 0 /\ result = NoEntries
    /\ snapshot = NoEntries
    /\ gauges = [known |-> 0, servable |-> [f \in Families |-> 0],
                 unservable |-> [reason \in Reasons |-> 0]]
    /\ receivers = TRUE /\ sends = 0

\* Variant of ReadFloor: the floor is read once, by the first refresh.
ReadFloorOnce ==
    /\ pc = "sleep"
    /\ minimum_version' = PreviousFloor
    /\ pc' = "lock"
    /\ UNCHANGED <<world, floor, result, snapshot, gauges, receivers, sends>>

\* The sleep ends and the floor is read, before the book is locked.
ReadFloor ==
    /\ pc = "sleep"
    /\ minimum_version' = floor
    /\ pc' = "lock"
    /\ UNCHANGED <<world, floor, result, snapshot, gauges, receivers, sends>>

\* Variant of Classify: a poisoned lock ends the task.
ClassifyPanics ==
    /\ pc = "lock"
    /\ \/ /\ ~poisoned
          /\ \E ipv4 \in ServablePeers("ipv4", minimum_version),
                ipv6 \in ServablePeers("ipv6", minimum_version) :
                result' = [f \in Families |-> IF f = "ipv4" THEN ipv4 ELSE ipv6]
          /\ gauges' = Gauges(minimum_version)
          /\ pc' = "send"
       \/ poisoned /\ pc' = "ended" /\ UNCHANGED <<result, gauges>>
    /\ UNCHANGED <<world, floor, minimum_version, snapshot, receivers, sends>>

\* The book is locked (a poisoned lock is recovered), classified and unlocked.
Classify ==
    /\ pc = "lock"
    /\ \E ipv4 \in ServablePeers("ipv4", minimum_version),
          ipv6 \in ServablePeers("ipv6", minimum_version) :
          result' = [f \in Families |-> IF f = "ipv4" THEN ipv4 ELSE ipv6]
    /\ gauges' = Gauges(minimum_version)
    /\ pc' = "send"
    /\ UNCHANGED <<world, floor, minimum_version, snapshot, receivers, sends>>

\* The snapshot is sent, or the task ends because nobody receives it.
Send ==
    /\ pc = "send"
    /\ result' = NoEntries /\ minimum_version' = 0
    /\ \/ /\ receivers
          /\ snapshot' = result /\ pc' = "sleep"
          /\ sends' = IF floor = TargetVersion /\ sends < 2 THEN sends + 1 ELSE sends
       \/ /\ ~receivers
          /\ pc' = "ended" /\ UNCHANGED <<snapshot, sends>>
    /\ UNCHANGED <<world, floor, gauges, receivers>>
-----------------------------------------------------------------------------
(* What runs beside it.                                                    *)

\* zebra-network records a handshake or a failure, or drops the entry.
UpdateBook(p, meta) ==
    /\ book[p] # meta
    /\ book' = [book EXCEPT ![p] = meta]
    /\ UNCHANGED <<banned, poisoned, floor, task, snapshot, gauges, receivers, sends>>

\* Time passes and a peer is no longer recently live.
Expire(p) ==
    /\ p \in Known /\ book[p].live
    /\ book' = [book EXCEPT ![p].live = FALSE]
    /\ UNCHANGED <<banned, poisoned, floor, task, snapshot, gauges, receivers, sends>>

Ban(g) ==
    /\ g \notin banned
    /\ banned' = banned \cup {g}
    /\ UNCHANGED <<book, poisoned, floor, task, snapshot, gauges, receivers, sends>>

Poison ==
    /\ ~poisoned
    /\ poisoned' = TRUE
    /\ UNCHANGED <<book, banned, floor, task, snapshot, gauges, receivers, sends>>

\* The activation observer raises the tip.
ConfirmActivation ==
    /\ floor < TargetVersion
    /\ floor' = TargetVersion
    /\ UNCHANGED <<world, task, snapshot, gauges, receivers, sends>>

\* The DNS server and the health endpoint are gone.
DropReceivers ==
    /\ receivers
    /\ receivers' = FALSE
    /\ UNCHANGED <<world, floor, task, snapshot, gauges, sends>>

Next ==
    \/ ReadFloor
    \/ Classify
    \/ Send
    \/ \E p \in Peers, meta \in Handshakes \cup {Absent} : UpdateBook(p, meta)
    \/ \E p \in Peers : Expire(p)
    \/ \E g \in BanGroups : Ban(g)
    \/ Poison
    \/ ConfirmActivation
    \/ DropReceivers

\* tokio wakes the task and the mutex is never held for ever.
Fairness == WF_vars(ReadFloor) /\ WF_vars(Classify) /\ WF_vars(Send)

Spec == Init /\ [][Next]_vars
LiveSpec == Spec /\ Fairness
-----------------------------------------------------------------------------
(* Properties.                                                             *)

Entries == [peer : Peers, version : 0..TargetVersion]

\* Every variable has its type, and no snapshot is larger than the cap.
TypeOK ==
    /\ book \in [Peers -> Meta \cup {Absent}]
    /\ banned \subseteq BanGroups /\ poisoned \in BOOLEAN
    /\ floor \in {PreviousFloor, TargetVersion}
    /\ pc \in {"sleep", "lock", "send", "ended"}
    /\ minimum_version \in {0, PreviousFloor, TargetVersion}
    /\ result \in [Families -> SUBSET Entries]
    /\ snapshot \in [Families -> SUBSET Entries]
    /\ \A f \in Families : Cardinality(snapshot[f]) <= MAX_DNS_RESPONSE_PEERS
    /\ receivers \in BOOLEAN /\ sends \in 0..2

\* The floor's rise reaches DNS: at most one snapshot sent after it, that of a
\* refresh already under way, may hold peers below the new floor, whatever
\* zebra-network still records of them; the one after it and all later ones
\* hold none.
FloorReachesSnapshots ==
    floor = TargetVersion /\ sends = 2
        => \A f \in Families : \A e \in snapshot[f] : e.version >= floor

\* While a fallback peer is served every servable peer at the target version of
\* its family is, and no more are served than the cap; an answer is short only
\* when the book is.
TargetVersionFirst ==
    [][pc = "lock" /\ pc' = "send"
        => \A f \in Families :
             LET servable == {p \in Peers : Family[p] = f /\ Servable(p, minimum_version)}
                 served   == {e.peer : e \in result'[f]}
             IN  /\ served \subseteq servable
                 /\ \/ servable = served
                    \/ Cardinality(served) = MAX_DNS_RESPONSE_PEERS
                 /\ \/ \A p \in served : book[p].version >= TargetVersion
                    \/ \A p \in servable \ served : book[p].version < TargetVersion]_vars

\* The gauges of one refresh account for every peer of the book once: no
\* reason's gauge survives from an earlier refresh.
GaugesAccountForBook ==
    LET unservable == gauges.unservable
    IN  gauges.known =
            gauges.servable["ipv4"] + gauges.servable["ipv6"]
              + unservable["not_routable"] + unservable["wrong_port"]
              + unservable["not_recently_live"] + unservable["outdated_version"]
              + unservable["not_full_node"] + unservable["inbound"]
              + unservable["misbehaving"]

\* A peer that stops being servable for good (it is banned, goes quiet, or the
\* floor rose above its version) leaves the answers for good, and servable
\* peers that fit under the cap enter them, poisoned mutex or not.
Served(p) == \E f \in Families : \E e \in snapshot[f] : e.peer = p

Fits(f) ==
    Cardinality({p \in Peers : Family[p] = f /\ Servable(p, floor)}) <= MAX_DNS_RESPONSE_PEERS

EventuallyAccurate ==
    \A p \in Peers :
        /\ []receivers /\ <>[]~Servable(p, floor) => <>[]~Served(p)
        /\ []receivers /\ <>[](Servable(p, floor) /\ Fits(Family[p])) => <>[]Served(p)

\* What the upgrade runbook says of a confirmation: the next refresh removes
\* the peers below the new floor from DNS (ADR 0007: immediately).
NextRefreshRemoves ==
    floor = TargetVersion /\ sends >= 1
        => \A f \in Families : \A e \in snapshot[f] : e.version >= floor
=============================================================================
