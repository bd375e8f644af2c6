------------------------------- MODULE Health -------------------------------
(***************************************************************************)
(* The health and readiness endpoint, src/health.rs: one task per          *)
(* connection reads a request under a timeout and, for /ready, borrows the *)
(* zones' watch channels one after the other while the address caches go   *)
(* on publishing.  The caches are reduced to the number of peers in their  *)
(* snapshots, the books to the number of servable peers they hold.         *)
(***************************************************************************)
EXTENDS Integers

CONSTANTS
    NumZones,                \* configured zones, in the order they are read
    Conns,                   \* connections that may be open at once
    READY_THRESHOLD,         \* health.ready_threshold
    MAX_DNS_RESPONSE_PEERS,  \* cap of a snapshot, per family
    MaxServable              \* bound: servable peers of a family in a book

ASSUME HealthAssumption ==
    /\ NumZones \in Nat \ {0} /\ READY_THRESHOLD \in Nat
    /\ MAX_DNS_RESPONSE_PEERS \in Nat /\ MaxServable \in Nat

Zones == 1..NumZones
Counts(max) == [ipv4 : 0..max, ipv6 : 0..max]
NoPeers == [ipv4 |-> 0, ipv6 |-> 0]

VARIABLES
    servable,  \* servable peers of each zone's book, per family
    snapshot,  \* peers in each zone's watch channel, per family
    conn,      \* the task of each connection
    met,       \* history: zones at the threshold at some moment of a probe
    missed     \* history: zones below the threshold at some moment of it

vars == <<servable, snapshot, conn, met, missed>>

Closed == [pc |-> "closed", zone |-> 0, all_ready |-> FALSE, status |-> 0]

\* Variant of Total: only the IPv4 list is counted.
TotalIpv4(counts) == counts.ipv4

\* ServablePeers::total
Total(counts) == counts.ipv4 + counts.ipv6

Ready(z) == Total(snapshot[z]) >= READY_THRESHOLD

Init ==
    /\ servable = [z \in Zones |-> NoPeers]
    /\ snapshot = [z \in Zones |-> NoPeers]
    /\ conn = [c \in Conns |-> Closed]
    /\ met = [c \in Conns |-> {}] /\ missed = [c \in Conns |-> {}]
-----------------------------------------------------------------------------
(* The books and the caches.                                               *)

ChangeBook(z, counts) ==
    /\ counts # servable[z]
    /\ servable' = [servable EXCEPT ![z] = counts]
    /\ UNCHANGED <<snapshot, conn, met, missed>>

\* Variant of Capped: the cap is one too high.
CappedOneOver(n) ==
    IF n <= MAX_DNS_RESPONSE_PEERS THEN n ELSE MAX_DNS_RESPONSE_PEERS + 1

\* A family's list is truncated to the cap.
Capped(n) == IF n <= MAX_DNS_RESPONSE_PEERS THEN n ELSE MAX_DNS_RESPONSE_PEERS

\* The peers of a refresh, cut to the cap in each family.
CappedPeers(counts) == [ipv4 |-> Capped(counts.ipv4), ipv6 |-> Capped(counts.ipv6)]

\* A zone's address cache publishes.
Refresh(z) ==
    /\ snapshot[z] # CappedPeers(servable[z])
    /\ snapshot' = [snapshot EXCEPT ![z] = CappedPeers(servable[z])]
    /\ met' = [c \in Conns |->
                 met[c] \cup {x \in {z} : conn[c].pc = "zones" /\ Ready(z)'}]
    /\ missed' = [c \in Conns |->
                 missed[c] \cup {x \in {z} : conn[c].pc = "zones" /\ ~Ready(z)'}]
    /\ UNCHANGED <<servable, conn>>
-----------------------------------------------------------------------------
(* serve_connection.                                                       *)

Accept(c) ==
    /\ conn[c].pc = "closed"
    /\ conn' = [conn EXCEPT ![c] = [Closed EXCEPT !.pc = "read"]]
    /\ UNCHANGED <<servable, snapshot, met, missed>>

\* A request arrives; what is neither /health nor /ready nor / is not found.
Read(c, path) ==
    /\ conn[c].pc = "read"
    /\ conn' = [conn EXCEPT ![c] =
         CASE path = "health" -> [@ EXCEPT !.pc = "write", !.status = 200]
           [] path = "ready"  -> [@ EXCEPT !.pc = "zones", !.zone = 1, !.all_ready = TRUE]
           [] path = "other"  -> [@ EXCEPT !.pc = "write", !.status = 404]]
    /\ met' = [met EXCEPT ![c] = IF path = "ready" THEN {z \in Zones : Ready(z)} ELSE {}]
    /\ missed' = [missed EXCEPT ![c] = IF path = "ready" THEN {z \in Zones : ~Ready(z)} ELSE {}]
    /\ UNCHANGED <<servable, snapshot>>

Close(c) ==
    /\ conn' = [conn EXCEPT ![c] = Closed]
    /\ met' = [met EXCEPT ![c] = {}] /\ missed' = [missed EXCEPT ![c] = {}]
    /\ UNCHANGED <<servable, snapshot>>

\* Variant of ReadFails: a read waits for ever.
ReadNeverFails(c) == FALSE

\* The read fails or CONNECTION_IO_TIMEOUT passes.
ReadFails(c) == conn[c].pc = "read" /\ Close(c)

\* Variant of ReadZone: the last zone alone decides.
ReadZoneForgets(c) ==
    /\ conn[c].pc = "zones" /\ conn[c].zone <= NumZones
    /\ conn' = [conn EXCEPT ![c].zone = @ + 1, ![c].all_ready = Ready(conn[c].zone)]
    /\ UNCHANGED <<servable, snapshot, met, missed>>

\* readiness_response borrows the next zone's channel.
ReadZone(c) ==
    /\ conn[c].pc = "zones" /\ conn[c].zone <= NumZones
    /\ conn' = [conn EXCEPT ![c].zone = @ + 1,
                            ![c].all_ready = @ /\ Ready(conn[c].zone)]
    /\ UNCHANGED <<servable, snapshot, met, missed>>

Respond(c) ==
    /\ conn[c].pc = "zones" /\ conn[c].zone > NumZones
    /\ conn' = [conn EXCEPT ![c].pc = "write",
                            ![c].status = IF conn[c].all_ready THEN 200 ELSE 503]
    /\ UNCHANGED <<servable, snapshot, met, missed>>

\* The response is written and flushed, or either fails or times out.
Write(c) == conn[c].pc = "write" /\ Close(c)

Task(c) == ReadFails(c) \/ ReadZone(c) \/ Respond(c) \/ Write(c)

Next ==
    \/ \E z \in Zones, counts \in Counts(MaxServable) : ChangeBook(z, counts)
    \/ \E z \in Zones : Refresh(z)
    \/ \E c \in Conns :
          \/ Accept(c)
          \/ \E path \in {"health", "ready", "other"} : Read(c, path)
          \/ ReadFails(c)
          \/ ReadZone(c)
          \/ Respond(c)
          \/ Write(c)

\* tokio runs the task of a connection, whose timeouts fire whatever the client
\* does, and the caches go on refreshing.
Fairness ==
    /\ \A c \in Conns : WF_vars(Task(c))
    /\ \A z \in Zones : WF_vars(Refresh(z))

Spec == Init /\ [][Next]_vars
LiveSpec == Spec /\ Fairness
-----------------------------------------------------------------------------
(* Properties.                                                             *)

\* Every variable has its type: the parts of a snapshot within the cap and the
\* state of a connection's task as in serve_connection.
TypeOK ==
    /\ servable \in [Zones -> Counts(MaxServable)]
    /\ snapshot \in [Zones -> Counts(MAX_DNS_RESPONSE_PEERS)]
    /\ conn \in [Conns -> [pc : {"closed", "read", "zones", "write"},
                           zone : 0..(NumZones + 1), all_ready : BOOLEAN,
                           status : {0, 200, 404, 503}]]
    /\ met \in [Conns -> SUBSET Zones] /\ missed \in [Conns -> SUBSET Zones]

Probed(c) == conn[c].pc = "write" /\ conn[c].zone > 0

\* The zones are read one after the other while the caches publish, so no single
\* moment need justify an answer; but 200 is sent only if every zone was at the
\* threshold, and 503 only if one was below it, at some moment of the probe.
ReadinessWitnessed ==
    \A c \in Conns :
        /\ Probed(c) /\ conn[c].status = 200 => met[c] = Zones
        /\ Probed(c) /\ conn[c].status = 503 => missed[c] # {}

\* A connection ends whatever its client does: a silent client holds its task
\* and its descriptor no longer than the timeouts.
ConnectionsEnd ==
    \A c \in Conns : conn[c].pc # "closed" ~> conn[c].pc = "closed"

Enough ==
    \A z \in Zones :
        Capped(servable[z].ipv4) + Capped(servable[z].ipv6) >= READY_THRESHOLD

\* Once every book holds enough peers for good, counted as the snapshots count
\* them, some refresh later no probe is answered 503.
EventuallyReady ==
    <>[]Enough =>
        <>[][\A c \in Conns : conn[c].pc = "zones" /\ conn'[c].pc = "write"
                                => conn'[c].status = 200]_vars

\* What the documentation says of /ready: a probe does not find a zone short
\* whose book, as of its last refresh, holds ready_threshold servable peers.
ReadyAtThreshold ==
    \A c \in Conns : \A z \in Zones :
        /\ conn[c].pc = "zones" /\ conn[c].zone = z
        /\ snapshot[z] = CappedPeers(servable[z])
        /\ servable[z].ipv4 + servable[z].ipv6 >= READY_THRESHOLD
        => Ready(z)
=============================================================================
