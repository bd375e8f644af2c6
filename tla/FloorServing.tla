---------------------------- MODULE FloorServing ----------------------------
(***************************************************************************)
(* The floor of one network end to end: the promise of the activation      *)
(* observer (ProtocolFloor) composed with the served-address cache across  *)
(* crashes, restarts and releases.  Versions are upgrades of the           *)
(* activation table, as in ProtocolFloor; every other check of the cache   *)
(* is in AddressCache, so a peer here is its version alone.                *)
(***************************************************************************)
EXTENDS ServedFloor

CONSTANTS
    N,                  \* upgrades any release will ever compile in
    CacheEnabled,       \* whether a decision can be made durable
    AllowRollback,      \* whether an older release may be installed again
    Peers

VARIABLES
    installed, running, floor, decided,   \* as in ProtocolFloor
    book,              \* Peers -> negotiated version, NoVersion before one
    pc,                \* the cache task: "down", "sleep" or "classify"
    minimum_version    \* the floor the refresh under way has read

promise == <<installed, running, floor, decided>>
cache   == <<book, pc, minimum_version, snapshot>>
vars    == <<installed, running, floor, decided, book, pc, minimum_version, snapshot, held>>

\* Attestation is run beside a stopped seeder, as documented.
Promise == INSTANCE ProtocolFloor WITH OnlineAttest <- FALSE

NoVersion == -1
NoBook == [p \in Peers |-> NoVersion]

AtMost(a, b) == IF a <= b THEN a ELSE b
AtLeast(a, b) == IF a >= b THEN a ELSE b

\* The floor the installed release would start with.
NextFloor == IF CacheEnabled /\ decided = installed THEN installed ELSE installed - 1

CacheInit ==
    /\ book = NoBook /\ pc = "down" /\ minimum_version = 0
    /\ snapshot = {} /\ held = 0

Init == Promise!Init /\ CacheInit

\* spawn_network_crawler: the record is read before the crawler and the cache
\* start; the peer cache on disk holds addresses and no versions.  A record that
\* cannot be read releases DNS from the floor it was held to.
CacheStarts(readable) ==
    /\ book' = NoBook /\ pc' = "sleep" /\ minimum_version' = 0 /\ snapshot' = {}
    /\ held' = IF readable THEN held ELSE AtMost(held, floor')

Boot(readable) == Promise!Boot(readable) /\ CacheStarts(readable)

\* The process ends at any point, its snapshot with it.
CacheEnds ==
    /\ book' = NoBook /\ pc' = "down" /\ minimum_version' = 0 /\ snapshot' = {}
    /\ UNCHANGED held

Halt == Promise!Halt /\ CacheEnds

\* zebra-network records a handshake.
Handshake(p, v) ==
    /\ running # 0 /\ book[p] # v
    /\ book' = [book EXCEPT ![p] = v]
    /\ UNCHANGED <<promise, pc, minimum_version, snapshot, held>>

ReadFloor ==
    /\ pc = "sleep"
    /\ minimum_version' = floor /\ pc' = "classify"
    /\ UNCHANGED <<promise, book, snapshot, held>>

Refresh ==
    /\ pc = "classify"
    /\ snapshot' = {<<p, book[p]>> :
            p \in {q \in Peers : book[q] # NoVersion /\ book[q] >= minimum_version}}
    /\ held' = AtLeast(held, minimum_version)
    /\ minimum_version' = 0 /\ pc' = "sleep"
    /\ UNCHANGED <<promise, book>>

\* The observer's decision and rise, and a release installed, leave the cache
\* alone; so does the operator, who releases DNS by deleting the record.
Decide == (Promise!Decide \/ Promise!Raise) /\ UNCHANGED <<cache, held>>

Released == held' = AtMost(held, NextFloor') /\ UNCHANGED cache

Operate == Promise!Operate /\ Released

Install(r) == Promise!Install(r) /\ UNCHANGED <<cache, held>>

Next ==
    \/ \E readable \in BOOLEAN : Boot(readable)
    \/ Halt
    \/ \E p \in Peers, v \in 0..N : Handshake(p, v)
    \/ ReadFloor
    \/ Refresh
    \/ Decide
    \/ Operate
    \/ \E r \in 1..N : Install(r)

Spec == Init /\ [][Next]_vars
=============================================================================
