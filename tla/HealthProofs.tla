---------------------------- MODULE HealthProofs ----------------------------
(* Theorems about Health, for every number of zones and connections, every *)
(* threshold and every cap.                                                *)
EXTENDS Health, TLAPS

Tasks == [pc : {"closed", "read", "zones", "write"}, zone : 0..(NumZones + 1),
          all_ready : BOOLEAN, status : {0, 200, 404, 503}]

\* A closed connection is a task that has not begun.
LEMMA ClosedTask == Closed \in Tasks
BY HealthAssumption DEF Closed, Tasks

\* What a cache publishes is within the cap, in each family.
LEMMA CappedWithin ==
    ASSUME NEW counts \in Counts(MaxServable)
    PROVE  CappedPeers(counts) \in Counts(MAX_DNS_RESPONSE_PEERS)
BY HealthAssumption DEF CappedPeers, Capped, Counts

LEMMA InitType == Init => TypeOK
BY HealthAssumption, ClosedTask DEF Init, TypeOK, Counts, NoPeers, Tasks

\* What a probe's two steps do to its own task and to no other.
LEMMA ProbeSteps ==
    ASSUME conn \in [Conns -> Tasks], NEW c \in Conns
    PROVE  /\ ReadZone(c) =>
                /\ conn' \in [Conns -> Tasks]
                /\ \A d \in Conns \ {c} : conn'[d] = conn[d]
                /\ conn'[c].pc = "zones" /\ conn'[c].status = conn[c].status
                /\ conn'[c].zone = conn[c].zone + 1
                /\ conn'[c].all_ready = (conn[c].all_ready /\ Ready(conn[c].zone))
           /\ Respond(c) =>
                /\ conn' \in [Conns -> Tasks]
                /\ \A d \in Conns \ {c} : conn'[d] = conn[d]
                /\ conn'[c].pc = "write" /\ conn'[c].zone = conn[c].zone
                /\ conn'[c].all_ready = conn[c].all_ready
                /\ conn'[c].status = IF conn[c].all_ready THEN 200 ELSE 503
<1>1. ASSUME ReadZone(c)
      PROVE  /\ conn' \in [Conns -> Tasks]
             /\ \A d \in Conns \ {c} : conn'[d] = conn[d]
             /\ conn'[c].pc = "zones" /\ conn'[c].status = conn[c].status
             /\ conn'[c].zone = conn[c].zone + 1
             /\ conn'[c].all_ready = (conn[c].all_ready /\ Ready(conn[c].zone))
  <2> DEFINE found == Ready(conn[c].zone)
             moved == [conn EXCEPT ![c].zone = @ + 1]
  <2>1. /\ conn' = [moved EXCEPT ![c].all_ready = @ /\ found]
        /\ conn[c].pc = "zones" /\ conn[c].zone <= NumZones
    BY <1>1 DEF ReadZone
  <2>2. found \in BOOLEAN
    BY DEF Ready
  <2>3. /\ moved \in [Conns -> Tasks]
        /\ \A d \in Conns \ {c} : moved[d] = conn[d]
        /\ moved[c].pc = "zones" /\ moved[c].status = conn[c].status
        /\ moved[c].zone = conn[c].zone + 1 /\ moved[c].all_ready = conn[c].all_ready
    BY <2>1, HealthAssumption DEF Tasks
  <2> HIDE DEF moved, found
  <2>4. /\ conn' \in [Conns -> Tasks]
        /\ \A d \in Conns \ {c} : conn'[d] = moved[d]
        /\ conn'[c].pc = moved[c].pc /\ conn'[c].status = moved[c].status
        /\ conn'[c].zone = moved[c].zone
        /\ conn'[c].all_ready = (moved[c].all_ready /\ found)
    BY <2>1, <2>2, <2>3 DEF Tasks
  <2> QED BY <2>3, <2>4 DEF found
<1>2. ASSUME Respond(c)
      PROVE  /\ conn' \in [Conns -> Tasks]
             /\ \A d \in Conns \ {c} : conn'[d] = conn[d]
             /\ conn'[c].pc = "write" /\ conn'[c].zone = conn[c].zone
             /\ conn'[c].all_ready = conn[c].all_ready
             /\ conn'[c].status = IF conn[c].all_ready THEN 200 ELSE 503
  <2> DEFINE code == IF conn[c].all_ready THEN 200 ELSE 503
             moved == [conn EXCEPT ![c].pc = "write"]
  <2>1. conn' = [moved EXCEPT ![c].status = code]
    BY <1>2 DEF Respond
  <2>2. code \in {200, 503}
    OBVIOUS
  <2>3. /\ moved \in [Conns -> Tasks]
        /\ \A d \in Conns \ {c} : moved[d] = conn[d]
        /\ moved[c].pc = "write" /\ moved[c].zone = conn[c].zone
        /\ moved[c].all_ready = conn[c].all_ready
    BY DEF Tasks
  <2> HIDE DEF moved, code
  <2>4. /\ conn' \in [Conns -> Tasks]
        /\ \A d \in Conns \ {c} : conn'[d] = moved[d]
        /\ conn'[c].pc = moved[c].pc /\ conn'[c].zone = moved[c].zone
        /\ conn'[c].all_ready = moved[c].all_ready /\ conn'[c].status = code
    BY <2>1, <2>2, <2>3 DEF Tasks
  <2> QED BY <2>3, <2>4 DEF code
<1> QED BY <1>1, <1>2

\* What the other steps make of the task they replace.
LEMMA TaskSteps ==
    ASSUME conn \in [Conns -> Tasks], NEW c \in Conns,
           \A d \in Conns : conn[d].pc \in {"closed", "read"} => conn[d].zone = 0
    PROVE  /\ Accept(c) =>
                /\ conn' \in [Conns -> Tasks]
                /\ \A d \in Conns \ {c} : conn'[d] = conn[d]
                /\ conn'[c].pc = "read" /\ conn'[c].zone = 0
           /\ \A path \in {"health", "ready", "other"} : Read(c, path) =>
                /\ conn' \in [Conns -> Tasks]
                /\ \A d \in Conns \ {c} : conn'[d] = conn[d]
                /\ path = "ready" => conn'[c].pc = "zones" /\ conn'[c].zone = 1 /\ conn'[c].all_ready
                /\ path # "ready" => conn'[c].pc = "write" /\ conn'[c].zone = 0
           /\ Close(c) =>
                /\ conn' \in [Conns -> Tasks]
                /\ \A d \in Conns \ {c} : conn'[d] = conn[d]
                /\ conn'[c].pc = "closed" /\ conn'[c].zone = 0
<1>1. ASSUME Accept(c)
      PROVE  /\ conn' \in [Conns -> Tasks]
             /\ \A d \in Conns \ {c} : conn'[d] = conn[d]
             /\ conn'[c].pc = "read" /\ conn'[c].zone = 0
  <2>1. conn' = [conn EXCEPT ![c] = [Closed EXCEPT !.pc = "read"]]
    BY <1>1 DEF Accept
  <2>2. [Closed EXCEPT !.pc = "read"] \in Tasks
    BY ClosedTask DEF Tasks
  <2> QED BY <2>1, <2>2 DEF Closed
<1>2. ASSUME NEW path \in {"health", "ready", "other"}, Read(c, path)
      PROVE  /\ conn' \in [Conns -> Tasks]
             /\ \A d \in Conns \ {c} : conn'[d] = conn[d]
             /\ path = "ready" => conn'[c].pc = "zones" /\ conn'[c].zone = 1 /\ conn'[c].all_ready
             /\ path # "ready" => conn'[c].pc = "write" /\ conn'[c].zone = 0
  <2>0. conn[c].zone = 0 /\ conn[c] \in Tasks
    BY <1>2 DEF Read
  <2>1. CASE path = "ready"
    <3>1. conn' = [conn EXCEPT ![c] = [@ EXCEPT !.pc = "zones", !.zone = 1, !.all_ready = TRUE]]
      BY <1>2, <2>1 DEF Read
    <3> DEFINE t1 == [conn[c] EXCEPT !.pc = "zones"]
               t2 == [t1 EXCEPT !.zone = 1]
               t3 == [t2 EXCEPT !.all_ready = TRUE]
    <3>2. t1 \in Tasks /\ t1.pc = "zones"
      BY <2>0 DEF Tasks
    <3> HIDE DEF t1
    <3>3. t2 \in Tasks /\ t2.pc = "zones" /\ t2.zone = 1
      BY <3>2, HealthAssumption DEF Tasks
    <3> HIDE DEF t2
    <3>4. t3 \in Tasks /\ t3.pc = "zones" /\ t3.zone = 1 /\ t3.all_ready
      BY <3>3 DEF Tasks
    <3>5. conn' = [conn EXCEPT ![c] = t3]
      BY <3>1 DEF t1, t2
    <3> HIDE DEF t3
    <3> QED BY <2>1, <3>4, <3>5
  <2>2. CASE path # "ready"
    <3> DEFINE code == IF path = "health" THEN 200 ELSE 404
               t1 == [conn[c] EXCEPT !.pc = "write"]
               t2 == [t1 EXCEPT !.status = code]
    <3>1. conn' = [conn EXCEPT ![c] = t2]
      <4>1. CASE path = "health"
        BY <1>2, <4>1 DEF Read
      <4>2. CASE path = "other"
        BY <1>2, <4>2 DEF Read
      <4> QED BY <2>2, <4>1, <4>2
    <3>2. t1 \in Tasks /\ t1.pc = "write" /\ t1.zone = 0
      BY <2>0 DEF Tasks
    <3> HIDE DEF t1
    <3>3. t2 \in Tasks /\ t2.pc = "write" /\ t2.zone = 0
      BY <3>2 DEF Tasks
    <3> HIDE DEF t2
    <3> QED BY <2>2, <3>1, <3>3
  <2> QED BY <2>1, <2>2
<1>3. ASSUME Close(c)
      PROVE  /\ conn' \in [Conns -> Tasks]
             /\ \A d \in Conns \ {c} : conn'[d] = conn[d]
             /\ conn'[c].pc = "closed" /\ conn'[c].zone = 0
  BY <1>3, ClosedTask DEF Close, Closed
<1> QED BY <1>1, <1>2, <1>3
-----------------------------------------------------------------------------
(* The inductive invariant.                                                *)

\* A task reads zones only in a probe, from the first on.
Begun ==
    \A c \in Conns :
        /\ conn[c].pc \in {"closed", "read"} => conn[c].zone = 0
        /\ conn[c].pc = "zones" => conn[c].zone >= 1

\* While a probe reads, every zone has been seen as it now is.
Seen ==
    \A c \in Conns : conn[c].pc = "zones" =>
        \A z \in Zones : /\ Ready(z) => z \in met[c]
                         /\ ~Ready(z) => z \in missed[c]

\* The verdict so far stands on moments of this probe.
VerdictSoFar ==
    \A c \in Conns : conn[c].pc = "zones" =>
        /\ conn[c].all_ready => \A z \in Zones : z < conn[c].zone => z \in met[c]
        /\ ~conn[c].all_ready => missed[c] # {}

ProbeInv == TypeOK /\ Begun /\ Seen /\ VerdictSoFar /\ ReadinessWitnessed

LEMMA InitProbe == Init => ProbeInv
<1> SUFFICES ASSUME Init PROVE ProbeInv
  OBVIOUS
<1>1. \A c \in Conns : conn[c] = Closed
  BY DEF Init
<1> QED BY <1>1, InitType
    DEF ProbeInv, Begun, Seen, VerdictSoFar, ReadinessWitnessed, Probed, Closed

\* Every step keeps it.  One step per action; a step of one connection leaves the
\* others as they are.
LEMMA NextProbe ==
    ASSUME ProbeInv, [Next]_vars
    PROVE  ProbeInv'
<1>0. /\ TypeOK /\ Begun /\ Seen /\ VerdictSoFar /\ ReadinessWitnessed
      /\ conn \in [Conns -> Tasks]
      /\ \A d \in Conns : conn[d].pc \in {"closed", "read"} => conn[d].zone = 0
      /\ met \in [Conns -> SUBSET Zones] /\ missed \in [Conns -> SUBSET Zones]
  BY DEF ProbeInv, TypeOK, Tasks, Begun
\* What holds of one connection.
<1> DEFINE Sound(c) ==
             /\ conn[c].pc \in {"closed", "read"} => conn[c].zone = 0
             /\ conn[c].pc = "zones" =>
                  /\ conn[c].zone >= 1
                  /\ \A z \in Zones : (Ready(z) => z \in met[c]) /\ (~Ready(z) => z \in missed[c])
                  /\ conn[c].all_ready => \A z \in Zones : z < conn[c].zone => z \in met[c]
                  /\ ~conn[c].all_ready => missed[c] # {}
             /\ Probed(c) /\ conn[c].status = 200 => met[c] = Zones
             /\ Probed(c) /\ conn[c].status = 503 => missed[c] # {}
<1>a. \A c \in Conns : Sound(c)
  BY <1>0 DEF Begun, Seen, VerdictSoFar, ReadinessWitnessed
<1>b. ASSUME TypeOK', \A c \in Conns : Sound(c)' PROVE ProbeInv'
  BY <1>b DEF ProbeInv, Begun, Seen, VerdictSoFar, ReadinessWitnessed
\* A step of connection c: the others are as sound as before.
<1>c. ASSUME NEW c \in Conns, UNCHANGED <<servable, snapshot>>,
             conn' \in [Conns -> Tasks],
             met' \in [Conns -> SUBSET Zones], missed' \in [Conns -> SUBSET Zones],
             \A d \in Conns \ {c} : conn'[d] = conn[d] /\ met'[d] = met[d] /\ missed'[d] = missed[d],
             Sound(c)'
      PROVE  ProbeInv'
  <2>1. TypeOK'
    BY <1>0, <1>c DEF TypeOK, Tasks
  <2>2. ASSUME NEW d \in Conns, d # c PROVE Sound(d)'
    <3>1. conn'[d] = conn[d] /\ met'[d] = met[d] /\ missed'[d] = missed[d]
      BY <1>c, <2>2
    <3>2. \A z \in Zones : Ready(z)' <=> Ready(z)
      BY <1>c DEF Ready
    <3> QED BY <1>a, <3>1, <3>2 DEF Probed
  <2> HIDE DEF Sound
  <2>3. \A d \in Conns : Sound(d)'
    BY <1>c, <2>2
  <2> QED BY <1>b, <2>1, <2>3
<1>1. ASSUME NEW z \in Zones, NEW counts \in Counts(MaxServable), ChangeBook(z, counts)
      PROVE  ProbeInv'
  <2>1. UNCHANGED <<snapshot, conn, met, missed>> /\ servable' \in [Zones -> Counts(MaxServable)]
    BY <1>0, <1>1 DEF ChangeBook, TypeOK
  <2>2. TypeOK'
    BY <1>0, <2>1 DEF TypeOK
  <2>3. \A c \in Conns : Sound(c)'
    BY <1>a, <2>1 DEF Probed, Ready
  <2> QED BY <1>b, <2>2, <2>3
<1>2. ASSUME NEW z \in Zones, Refresh(z) PROVE ProbeInv'
  <2>1. /\ snapshot' = [snapshot EXCEPT ![z] = CappedPeers(servable[z])]
        /\ UNCHANGED <<servable, conn>>
        /\ met' = [c \in Conns |->
                     met[c] \cup {x \in {z} : conn[c].pc = "zones" /\ Ready(z)'}]
        /\ missed' = [c \in Conns |->
                     missed[c] \cup {x \in {z} : conn[c].pc = "zones" /\ ~Ready(z)'}]
    BY <1>2 DEF Refresh
  <2>2. snapshot' \in [Zones -> Counts(MAX_DNS_RESPONSE_PEERS)]
    BY <1>0, <2>1, CappedWithin DEF TypeOK
  <2>3. met' \in [Conns -> SUBSET Zones] /\ missed' \in [Conns -> SUBSET Zones]
    BY <1>0, <2>1
  <2>4. TypeOK'
    BY <1>0, <2>1, <2>2, <2>3 DEF TypeOK
  <2>5. \A x \in Zones \ {z} : Ready(x)' <=> Ready(x)
    BY <1>0, <2>1 DEF Ready, TypeOK
  <2>6. ASSUME NEW c \in Conns PROVE Sound(c)'
    <3>1. /\ met[c] \subseteq met'[c] /\ missed[c] \subseteq missed'[c]
          /\ met'[c] \subseteq Zones
          /\ conn[c].pc = "zones" => /\ Ready(z)' => z \in met'[c]
                                     /\ ~Ready(z)' => z \in missed'[c]
          /\ conn'[c] = conn[c]
      BY <2>1, <2>3
    <3>2. CASE conn[c].pc = "zones"
      BY <1>a, <2>5, <3>1, <3>2 DEF Probed
    <3>3. CASE conn[c].pc # "zones"
      <4>1. met'[c] = met[c] /\ missed'[c] = missed[c]
        BY <1>0, <2>1, <3>3
      <4> QED BY <1>a, <3>1, <3>3, <4>1 DEF Probed
    <3> QED BY <3>2, <3>3
  <2> HIDE DEF Sound
  <2> QED BY <1>b, <2>4, <2>6
<1>3. ASSUME NEW c \in Conns, Accept(c) PROVE ProbeInv'
  <2>1. /\ conn' \in [Conns -> Tasks] /\ \A d \in Conns \ {c} : conn'[d] = conn[d]
        /\ conn'[c].pc = "read" /\ conn'[c].zone = 0
    BY <1>0, <1>3, TaskSteps
  <2>2. UNCHANGED <<servable, snapshot, met, missed>>
    BY <1>3 DEF Accept
  <2>3. Sound(c)'
    BY <2>1 DEF Probed
  <2> HIDE DEF Sound
  <2> QED BY <1>0, <1>c, <2>1, <2>2, <2>3
<1>4. ASSUME NEW c \in Conns, NEW path \in {"health", "ready", "other"}, Read(c, path)
      PROVE  ProbeInv'
  <2>1. /\ conn' \in [Conns -> Tasks] /\ \A d \in Conns \ {c} : conn'[d] = conn[d]
        /\ path = "ready" => conn'[c].pc = "zones" /\ conn'[c].zone = 1 /\ conn'[c].all_ready
        /\ path # "ready" => conn'[c].pc = "write" /\ conn'[c].zone = 0
    BY <1>0, <1>4, TaskSteps
  <2>2. /\ UNCHANGED <<servable, snapshot>>
        /\ met' \in [Conns -> SUBSET Zones] /\ missed' \in [Conns -> SUBSET Zones]
        /\ \A d \in Conns \ {c} : met'[d] = met[d] /\ missed'[d] = missed[d]
        /\ path = "ready" => /\ met'[c] = {z \in Zones : Ready(z)}
                             /\ missed'[c] = {z \in Zones : ~Ready(z)}
    BY <1>0, <1>4 DEF Read
  <2>3. \A z \in Zones : (Ready(z)' <=> Ready(z)) /\ z \in Int /\ ~(z < 1)
    BY <2>2, HealthAssumption DEF Ready, Zones
  <2>4. Sound(c)'
    <3>1. CASE path = "ready"
      BY <2>1, <2>2, <2>3, <3>1 DEF Probed
    <3>2. CASE path # "ready"
      BY <2>1, <3>2 DEF Probed
    <3> QED BY <3>1, <3>2
  <2> HIDE DEF Sound
  <2> QED BY <1>c, <2>1, <2>2, <2>4
<1>5. ASSUME NEW c \in Conns, ReadFails(c) \/ Write(c) PROVE ProbeInv'
  <2>0. Close(c)
    BY <1>5 DEF ReadFails, Write
  <2>1. /\ conn' \in [Conns -> Tasks] /\ \A d \in Conns \ {c} : conn'[d] = conn[d]
        /\ conn'[c].pc = "closed" /\ conn'[c].zone = 0
    BY <1>0, <2>0, TaskSteps
  <2>2. /\ UNCHANGED <<servable, snapshot>>
        /\ met' \in [Conns -> SUBSET Zones] /\ missed' \in [Conns -> SUBSET Zones]
        /\ \A d \in Conns \ {c} : met'[d] = met[d] /\ missed'[d] = missed[d]
    BY <1>0, <2>0 DEF Close
  <2>3. Sound(c)'
    BY <2>1 DEF Probed
  <2> HIDE DEF Sound
  <2> QED BY <1>c, <2>1, <2>2, <2>3
<1>6. ASSUME NEW c \in Conns, ReadZone(c) PROVE ProbeInv'
  <2>1. /\ conn' \in [Conns -> Tasks] /\ \A d \in Conns \ {c} : conn'[d] = conn[d]
        /\ conn'[c].pc = "zones" /\ conn'[c].zone = conn[c].zone + 1
        /\ conn'[c].all_ready = (conn[c].all_ready /\ Ready(conn[c].zone))
    BY <1>0, <1>6, ProbeSteps
  <2>2. /\ UNCHANGED <<servable, snapshot, met, missed>>
        /\ conn[c].pc = "zones" /\ conn[c].zone <= NumZones
    BY <1>6 DEF ReadZone
  <2>3. /\ conn[c].zone \in Zones /\ conn[c].zone \in Nat
        /\ conn[c].all_ready \in BOOLEAN /\ Zones \subseteq Int
    BY <1>0, <1>a, <2>2, HealthAssumption DEF Tasks, Zones
  <2>4. \A z \in Zones : Ready(z)' <=> Ready(z)
    BY <2>2 DEF Ready
  <2>5. ASSUME conn'[c].all_ready, NEW z \in Zones, z < conn'[c].zone PROVE z \in met[c]
    <3>1. conn[c].all_ready /\ Ready(conn[c].zone)
      BY <2>1, <2>5
    <3>2. CASE z < conn[c].zone
      BY <1>a, <2>2, <3>1, <3>2
    <3>3. CASE z = conn[c].zone
      BY <1>a, <2>2, <2>3, <3>1, <3>3
    <3> QED BY <2>1, <2>3, <2>5, <3>2, <3>3
  <2>6. ASSUME ~conn'[c].all_ready PROVE missed[c] # {}
    <3>1. CASE ~conn[c].all_ready
      BY <1>a, <2>2, <3>1
    <3>2. CASE conn[c].all_ready
      <4>1. ~Ready(conn[c].zone)
        BY <2>1, <2>6, <3>2
      <4>2. conn[c].zone \in missed[c]
        BY <1>a, <2>2, <2>3, <4>1
      <4> QED BY <4>2
    <3> QED BY <3>1, <3>2
  <2>7. Sound(c)'
    BY <1>a, <2>1, <2>2, <2>3, <2>4, <2>5, <2>6 DEF Probed
  <2> HIDE DEF Sound
  <2> QED BY <1>0, <1>c, <2>1, <2>2, <2>7
<1>7. ASSUME NEW c \in Conns, Respond(c) PROVE ProbeInv'
  <2>1. /\ conn' \in [Conns -> Tasks] /\ \A d \in Conns \ {c} : conn'[d] = conn[d]
        /\ conn'[c].pc = "write" /\ conn'[c].zone = conn[c].zone
        /\ conn'[c].status = IF conn[c].all_ready THEN 200 ELSE 503
    BY <1>0, <1>7, ProbeSteps
  <2>2. /\ UNCHANGED <<servable, snapshot, met, missed>>
        /\ conn[c].pc = "zones" /\ conn[c].zone > NumZones
    BY <1>7 DEF Respond
  <2>3. conn[c].zone \in Nat /\ met[c] \subseteq Zones /\ NumZones \in Nat
    BY <1>0, HealthAssumption DEF Tasks
  <2>4. conn[c].all_ready => met[c] = Zones
    <3>1. \A z \in Zones : z < conn[c].zone
      BY <2>2, <2>3 DEF Zones
    <3> QED BY <1>a, <2>2, <2>3, <3>1
  <2>5. ~conn[c].all_ready => missed[c] # {}
    BY <1>a, <2>2
  <2>6. Sound(c)'
    BY <2>1, <2>2, <2>4, <2>5 DEF Probed
  <2> HIDE DEF Sound
  <2> QED BY <1>0, <1>c, <2>1, <2>2, <2>6
<1>8. ASSUME UNCHANGED vars PROVE ProbeInv'
  BY <1>0, <1>8
  DEF vars, ProbeInv, TypeOK, Begun, Seen, VerdictSoFar, ReadinessWitnessed, Probed, Ready
<1> QED BY <1>1, <1>2, <1>3, <1>4, <1>5, <1>6, <1>7, <1>8 DEF Next
-----------------------------------------------------------------------------
\* Every variable keeps its type; with it, no snapshot passes the cap and no probe
\* reads beyond the last zone.
THEOREM HealthTypeCorrect == Spec => []TypeOK
<1>1. ProbeInv => TypeOK
  BY DEF ProbeInv
<1> QED BY InitProbe, NextProbe, <1>1, PTL DEF Spec

\* However many zones there are and however the caches publish between their
\* readings, 200 is sent only if every zone was at the threshold at some moment
\* of the probe, and 503 only if some zone was below it at one.
THEOREM ReadinessWitnessedHolds == Spec => []ReadinessWitnessed
<1>1. ProbeInv => ReadinessWitnessed
  BY DEF ProbeInv
<1> QED BY InitProbe, NextProbe, <1>1, PTL DEF Spec
-----------------------------------------------------------------------------
(* The threshold and the cap.                                              *)

\* What the documentation says of ready_threshold is right for every threshold up
\* to MAX_DNS_RESPONSE_PEERS: a family that is cut to the cap meets it alone, and
\* one that is not is counted in full.
THEOREM ReadyAtThresholdBelowCap ==
    ASSUME READY_THRESHOLD <= MAX_DNS_RESPONSE_PEERS
    PROVE  Spec => []ReadyAtThreshold
<1>1. TypeOK => ReadyAtThreshold
  <2> SUFFICES ASSUME TypeOK, NEW z \in Zones, snapshot[z] = CappedPeers(servable[z]),
                      servable[z].ipv4 + servable[z].ipv6 >= READY_THRESHOLD
               PROVE  Ready(z)
    BY DEF ReadyAtThreshold
  <2>1. servable[z].ipv4 \in Nat /\ servable[z].ipv6 \in Nat
    BY HealthAssumption DEF TypeOK, Counts
  <2>2. /\ snapshot[z].ipv4 = Capped(servable[z].ipv4)
        /\ snapshot[z].ipv6 = Capped(servable[z].ipv6)
    BY DEF CappedPeers
  <2> QED BY <2>1, <2>2, HealthAssumption DEF Ready, Total, Capped
<1> QED BY <1>1, HealthTypeCorrect, PTL

\* A threshold that neither family nor both together can reach under the cap is
\* never met: whatever the books hold, no probe is answered 200.
THEOREM NeverReadyAboveCaps ==
    ASSUME READY_THRESHOLD > 2 * MAX_DNS_RESPONSE_PEERS
    PROVE  Spec => [](\A c \in Conns : Probed(c) => conn[c].status # 200)
<1> DEFINE NeverMet == \A c \in Conns : met[c] = {}
           Never == \A c \in Conns : Probed(c) => conn[c].status # 200
<1>1. TypeOK => \A z \in Zones : ~Ready(z)
  BY HealthAssumption DEF TypeOK, Counts, Ready, Total
<1>2. Init => NeverMet
  BY DEF Init
<1>3. TypeOK /\ TypeOK' /\ NeverMet /\ [Next]_vars => NeverMet'
  <2> SUFFICES ASSUME TypeOK, TypeOK', NeverMet, [Next]_vars PROVE NeverMet'
    OBVIOUS
  <2>1. \A z \in Zones : ~Ready(z) /\ ~Ready(z)'
    BY <1>1, HealthAssumption DEF TypeOK, Counts, Ready, Total
  <2>2. met \in [Conns -> SUBSET Zones]
    BY DEF TypeOK
  <2> HIDE DEF Ready
  <2>3. CASE \E z \in Zones : Refresh(z)
    BY <2>1, <2>2, <2>3 DEF Refresh
  <2>4. CASE \E c \in Conns, path \in {"health", "ready", "other"} : Read(c, path)
    BY <2>1, <2>2, <2>4 DEF Read
  <2>5. CASE \E c \in Conns : ReadFails(c) \/ Write(c)
    BY <2>2, <2>5 DEF ReadFails, Write, Close
  <2>6. CASE UNCHANGED met
    BY <2>6
  <2> QED BY <2>3, <2>4, <2>5, <2>6
      DEF Next, vars, ChangeBook, Accept, ReadZone, Respond
<1>4. NeverMet /\ ReadinessWitnessed => Never
  <2>1. Zones # {}
    <3>1. 1 \in Zones
      BY HealthAssumption DEF Zones
    <3> QED BY <3>1
  <2> QED BY <2>1 DEF ReadinessWitnessed
<1>5. Spec => []NeverMet
  BY <1>2, <1>3, HealthTypeCorrect, PTL DEF Spec
<1> QED BY <1>4, <1>5, ReadinessWitnessedHolds, PTL
-----------------------------------------------------------------------------
(* The safety half of ConnectionsEnd.                                      *)

\* The most steps a connection has left to take.
StepsLeft(c) ==
    CASE conn[c].pc = "closed" -> 0
      [] conn[c].pc = "write"  -> 1
      [] conn[c].pc = "zones"  -> NumZones + 3 - conn[c].zone
      [] conn[c].pc = "read"   -> NumZones + 3

\* An open connection only ever comes nearer to its end: no step of it, of another
\* connection, of a book or of a cache ever adds to the steps it has left, which
\* are never more than three and one per zone.  With the fairness of its task, of
\* which some step is possible until it ends, this is why ConnectionsEnd holds.
THEOREM ConnectionsProgress ==
    Spec => /\ [](\A c \in Conns : StepsLeft(c) \in 0..(NumZones + 3))
            /\ [][\A c \in Conns : conn[c].pc # "closed" /\ conn'[c] # conn[c]
                                     => StepsLeft(c)' < StepsLeft(c)]_vars
<1> DEFINE Bounded == \A c \in Conns : StepsLeft(c) \in 0..(NumZones + 3)
           Shrinks == \A c \in Conns : conn[c].pc # "closed" /\ conn'[c] # conn[c]
                                         => StepsLeft(c)' < StepsLeft(c)
<1>1. ProbeInv => Bounded
  BY HealthAssumption DEF ProbeInv, TypeOK, Begun, StepsLeft
<1>2. ProbeInv /\ [Next]_vars => [Shrinks]_vars
  <2> SUFFICES ASSUME ProbeInv, Next,
                      NEW c \in Conns, conn[c].pc # "closed", conn'[c] # conn[c]
               PROVE  StepsLeft(c)' < StepsLeft(c)
    OBVIOUS
  <2>0. /\ conn \in [Conns -> Tasks] /\ NumZones \in Nat \ {0}
        /\ \A d \in Conns : conn[d].pc \in {"closed", "read"} => conn[d].zone = 0
        /\ conn[c].pc \in {"read", "zones", "write"} /\ conn[c].zone \in 0..(NumZones + 1)
    BY HealthAssumption DEF ProbeInv, TypeOK, Tasks, Begun
  <2>1. ASSUME NEW d \in Conns,
               \/ Accept(d)
               \/ \E path \in {"health", "ready", "other"} : Read(d, path)
               \/ ReadFails(d) \/ ReadZone(d) \/ Respond(d) \/ Write(d)
        PROVE  d = c
    BY <2>0, <2>1, TaskSteps, ProbeSteps DEF ReadFails, Write
  <2>2. CASE Accept(c)
    BY <2>2 DEF Accept
  <2>3. CASE \E path \in {"health", "ready", "other"} : Read(c, path)
    <3>1. conn[c].pc = "read"
      BY <2>3 DEF Read
    <3>2. \/ conn'[c].pc = "zones" /\ conn'[c].zone = 1
          \/ conn'[c].pc = "write"
      BY <2>0, <2>3, TaskSteps
    <3> QED BY <2>0, <3>1, <3>2 DEF StepsLeft
  <2>4. CASE ReadFails(c) \/ Write(c)
    <3>1. conn'[c].pc = "closed"
      BY <2>0, <2>4, TaskSteps DEF ReadFails, Write
    <3> QED BY <2>0, <3>1 DEF StepsLeft
  <2>5. CASE ReadZone(c)
    <3>1. conn[c].pc = "zones" /\ conn'[c].pc = "zones" /\ conn'[c].zone = conn[c].zone + 1
      BY <2>0, <2>5, ProbeSteps DEF ReadZone
    <3> QED BY <2>0, <3>1 DEF StepsLeft
  <2>6. CASE Respond(c)
    <3>1. conn[c].pc = "zones" /\ conn'[c].pc = "write"
      BY <2>0, <2>6, ProbeSteps DEF Respond
    <3> QED BY <2>0, <3>1 DEF StepsLeft
  <2> QED BY <2>1, <2>2, <2>3, <2>4, <2>5, <2>6 DEF Next, ChangeBook, Refresh
<1> QED BY <1>1, <1>2, InitProbe, NextProbe, PTL DEF Spec
=============================================================================
