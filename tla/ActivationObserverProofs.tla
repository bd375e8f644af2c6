---------------------- MODULE ActivationObserverProofs ----------------------
(***************************************************************************)
(* Theorems about ActivationObserver for every value of its constants,     *)
(* about FloorServing, and about the two together: the observer as it is   *)
(* running beside the served-address cache.                                *)
(***************************************************************************)
EXTENDS ActivationObserver, ServedFloor, FiniteSetTheorems, TLAPS

-----------------------------------------------------------------------------
(* The compiled table.                                                     *)

\* At its own activation height a release asks for its own version.
LEMMA FloorAtActivation ==
    ASSUME NEW r \in Upgrades
    PROVE  MinRemoteForHeight(r, ActivationHeight[r]) = r
<1> DEFINE P(v) == /\ v = 0 \/ ActivationHeight[v] <= ActivationHeight[r]
                   /\ \A w \in (v + 1)..r : ActivationHeight[r] < ActivationHeight[w]
<1>1. r \in 0..r /\ P(r)
  BY TableAssumption DEF Upgrades
<1>2. \A v \in 0..r : P(v) => v = r
  <2> SUFFICES ASSUME NEW v \in 0..r, P(v), v # r PROVE FALSE
    OBVIOUS
  <2>1. r \in (v + 1)..r
    BY TableAssumption DEF Upgrades
  <2> QED BY <2>1, TableAssumption DEF Upgrades
<1>3. MinRemoteForHeight(r, ActivationHeight[r]) = CHOOSE v \in 0..r : P(v)
  BY DEF MinRemoteForHeight
<1> QED BY <1>1, <1>2, <1>3

\* One block earlier it asks for the version of the upgrade before it.
LEMMA FloorBeforeActivation ==
    ASSUME NEW r \in Upgrades
    PROVE  MinRemoteForHeight(r, ActivationHeight[r] - 1) = r - 1
<1> DEFINE h == ActivationHeight[r] - 1
           P(v) == /\ v = 0 \/ ActivationHeight[v] <= h
                   /\ \A w \in (v + 1)..r : h < ActivationHeight[w]
<1>1. r - 1 \in 0..r /\ P(r - 1)
  <2>1. r - 1 = 0 \/ ActivationHeight[r - 1] <= h
    <3>1. CASE r = 1 BY <3>1
    <3>2. CASE r # 1
      <4>1. r - 1 \in Upgrades /\ r - 1 < r
        BY <3>2, TableAssumption DEF Upgrades
      <4> QED BY <4>1, TableAssumption DEF Upgrades
    <3> QED BY <3>1, <3>2
  <2>2. \A w \in ((r - 1) + 1)..r : w = r
    BY TableAssumption DEF Upgrades
  <2> QED BY <2>1, <2>2, TableAssumption DEF Upgrades
<1>2. \A v \in 0..r : P(v) => v = r - 1
  <2> SUFFICES ASSUME NEW v \in 0..r, P(v), v # r - 1 PROVE FALSE
    OBVIOUS
  <2>1. CASE v = r
    BY <2>1, TableAssumption DEF Upgrades
  <2>2. CASE v < r - 1
    <3>1. r - 1 \in (v + 1)..r /\ r - 1 \in Upgrades /\ r - 1 < r
      BY <2>2, TableAssumption DEF Upgrades
    <3>2. h < ActivationHeight[r - 1] /\ ActivationHeight[r - 1] < ActivationHeight[r]
      BY <3>1, TableAssumption
    <3> QED BY <3>1, <3>2, TableAssumption DEF Upgrades
  <2> QED BY <2>1, <2>2, TableAssumption DEF Upgrades
<1>3. MinRemoteForHeight(r, h) = CHOOSE v \in 0..r : P(v)
  BY DEF MinRemoteForHeight
<1> HIDE DEF P, h
<1>4. MinRemoteForHeight(r, h) = r - 1
  BY <1>1, <1>2, <1>3
<1> QED BY <1>4 DEF h

\* The fields of a compiled target.
LEMMA TargetFields ==
    ASSUME NEW r \in Upgrades
    PROVE  /\ ActivationTarget(r).activation_height = ActivationHeight[r]
           /\ ActivationTarget(r).confirmation_height
                 = ActivationHeight[r] + MaxBlockReorgHeight
           /\ ActivationTarget(r).pre_activation_height = ActivationHeight[r] - 1
           /\ ActivationTarget(r).required_version = r
           /\ ActivationHeight[r] \in Nat \ {0}
BY FloorAtActivation, TableAssumption DEF ActivationTarget

\* Different releases write different records.
LEMMA RecordsDiffer ==
    ASSUME NEW r \in Upgrades, NEW s \in Upgrades,
           ConfirmationRecord(r) = ConfirmationRecord(s)
    PROVE  r = s
<1>1. ConfirmationRecord(r).minimum_protocol_version = r
  BY TargetFields DEF ConfirmationRecord
<1>2. ConfirmationRecord(s).minimum_protocol_version = s
  BY TargetFields DEF ConfirmationRecord
<1> QED BY <1>1, <1>2
-----------------------------------------------------------------------------
(* Types.                                                                  *)

\* The initial state has the right types.
LEMMA InitType == Init => TypeOK
BY TableAssumption, GateAssumption DEF Init, TypeOK, Upgrades, Records, PCs

\* Every step keeps the types.
LEMMA NextType == TypeOK /\ [Next]_vars => TypeOK'
<1> SUFFICES ASSUME TypeOK, [Next]_vars PROVE TypeOK'
  OBVIOUS
<1> USE DEF TypeOK, PCs, Up, NoSweep, disk, gate, sweep, network, history
<1>0. installed \in Upgrades /\ (Up => running \in Upgrades)
  BY TableAssumption DEF Upgrades
<1>1. ASSUME NEW readable \in BOOLEAN, Start(readable) PROVE TypeOK'
  <2>1. tip' \in Nat
    BY <1>0, <1>1, TargetFields, TableAssumption DEF Start, InitialTip
  <2>2. installed \in 0..N /\ installed # 0
    BY <1>0, TableAssumption DEF Upgrades
  <2> QED BY <1>1, <2>1, <2>2 DEF Start
<1>2. CASE Stop
  BY <1>2, TableAssumption, GateAssumption DEF Stop
<1>3. ASSUME NEW candidates \in SUBSET Peers, BeginSweep(candidates) PROVE TypeOK'
  BY <1>3 DEF BeginSweep, Samples
<1>4. ASSUME NEW p \in Peers, NEW m \in Reports(p), ProbeHandshake(p, m) PROVE TypeOK'
  BY <1>4 DEF ProbeHandshake
<1>5. ASSUME NEW p \in Peers, ProbeFails(p) PROVE TypeOK'
  BY <1>5 DEF ProbeFails
<1>6. CASE ObserveSweep
  <2>1. qualifying_sweeps' \in 0..U8_MAX
    BY <1>6, GateAssumption DEF ObserveSweep, GateObserve
  <2>2. /\ honest_sweeps' \in 0..REQUIRED_QUALIFYING_SWEEPS
        /\ streak' \in 0..REQUIRED_QUALIFYING_SWEEPS
    BY <1>6, GateAssumption DEF ObserveSweep, Counted
  <2> QED BY <1>6, <2>1, <2>2 DEF ObserveSweep
<1>7. CASE Persist
  BY <1>0, <1>7 DEF Persist, Records
<1>8. CASE PersistFails
  BY <1>8 DEF PersistFails
<1>9. CASE ConfirmActivation
  <2>1. tip' \in Nat
    BY <1>0, <1>9, TargetFields DEF ConfirmActivation
  <2> QED BY <1>9, <2>1 DEF ConfirmActivation
<1>10. ASSUME NEW r \in Upgrades, Attest(ConfirmationRecord(r)) PROVE TypeOK'
  BY <1>10 DEF Attest, Records
<1>11. CASE DeleteRecord
  BY <1>11 DEF DeleteRecord, Records
<1>12. ASSUME NEW r \in Upgrades, Deploy(r) PROVE TypeOK'
  BY <1>12 DEF Deploy
<1>13. CASE Grow
  BY <1>13, TableAssumption DEF Grow
<1>14. ASSUME NEW h \in 0..MaxHeight, Reorg(h) PROVE TypeOK'
  BY <1>14 DEF Reorg
<1>15. CASE UNCHANGED vars
  BY <1>15 DEF vars
<1> QED
  BY <1>1, <1>2, <1>3, <1>4, <1>5, <1>6, <1>7, <1>8, <1>9, <1>10, <1>11,
     <1>12, <1>13, <1>14, <1>15 DEF Next

\* Type correctness of the observer, its tip, its record and its environment.
THEOREM TypeCorrect == Spec => []TypeOK
BY InitType, NextType, PTL DEF Spec
-----------------------------------------------------------------------------
(* Evidence.                                                               *)

\* Multiplication is monotone.
LEMMA TimesMonotone ==
    ASSUME NEW a \in Nat, NEW b \in Nat, NEW c \in Nat, a <= b
    PROVE  a * c <= b * c
<1> DEFINE d == b - a
<1>1. d \in Nat /\ b = a + d
  OBVIOUS
<1>2. b * c = a * c + d * c
  BY <1>1
<1>3. d * c \in Nat /\ a * c \in Nat
  BY <1>1
<1> QED BY <1>2, <1>3

\* Peers of different groups, all of them Byzantine, are no more than the groups
\* that hold a Byzantine peer.
LEMMA ByzantineVotes ==
    ASSUME NEW S \in SUBSET Byzantine,
           \A p, q \in S : GroupOf[p] = GroupOf[q] => p = q
    PROVE  /\ IsFiniteSet(ByzantineGroups)
           /\ Cardinality(S) <= Cardinality(ByzantineGroups)
<1> DEFINE f == [p \in S |-> GroupOf[p]]
<1>1. IsFiniteSet(ByzantineGroups)
  <2>1. ByzantineGroups \in SUBSET Groups
    BY PeersAssumption DEF ByzantineGroups
  <2> QED BY <2>1, FS_Subset, PeersAssumption
<1>2. f \in Injection(S, ByzantineGroups)
  BY DEF Injection, IsInjective, ByzantineGroups
<1> QED BY <1>1, <1>2, FS_Injection

\* A sweep that qualifies heard from a peer that is not Byzantine.
LEMMA QuorumIsHonest ==
    ASSUME ByzantineMinority,
           NEW S \in SUBSET Peers,
           \A p, q \in S : GroupOf[p] = GroupOf[q] => p = q,
           NEW R \in SUBSET S,
           Qualifies(Cardinality(S), Cardinality(R))
    PROVE  R \ Byzantine # {}
<1> SUFFICES ASSUME R \in SUBSET Byzantine PROVE FALSE
  OBVIOUS
<1> DEFINE s == Cardinality(S)
           n == Cardinality(R)
           b == Cardinality(ByzantineGroups)
<1>1. s \in Nat /\ n \in Nat
  BY PeersAssumption, FS_Subset, FS_CardinalityType
<1>2. n <= b /\ b \in Nat
  BY ByzantineVotes, FS_CardinalityType
<1>3. /\ s >= MIN_NETWORK_GROUPS
      /\ n * QUORUM_DENOMINATOR >= s * QUORUM_NUMERATOR
  BY DEF Qualifies
<1>4. QUORUM_DENOMINATOR * b < QUORUM_NUMERATOR * MIN_NETWORK_GROUPS
  BY DEF ByzantineMinority
<1> HIDE DEF s, n, b
<1>5. n * QUORUM_DENOMINATOR <= b * QUORUM_DENOMINATOR
  BY <1>1, <1>2, TimesMonotone, GateAssumption
<1>6. MIN_NETWORK_GROUPS * QUORUM_NUMERATOR <= s * QUORUM_NUMERATOR
  BY <1>1, <1>3, TimesMonotone, GateAssumption
<1> QED BY <1>1, <1>2, <1>3, <1>4, <1>5, <1>6, GateAssumption
-----------------------------------------------------------------------------
(* The inductive invariant behind NoFalseConfirmation and                  *)
(* SustainedHonestEvidence.  What a peer that is not Byzantine says is     *)
(* true for good once the activation is buried, so burial, not the height  *)
(* of the chain, is what evidence, gate, record and tip inherit from each  *)
(* other.                                                                  *)

Buried(r) == peak >= ActivationHeight[r] + MaxBlockReorgHeight

IdleWhenDown == pc = "down" => qualifying_sweeps = 0
ReadyOnlyProbing == pc # "probing" => ready = {} /\ sampled_peers = {}
OnePerGroup == \A p, q \in sampled_peers : GroupOf[p] = GroupOf[q] => p = q
ChainAboveFinal == FinalHeight <= chain /\ chain <= peak
HonestReadyTrue == ready \ Byzantine # {} => Buried(running)
GateTrue == qualifying_sweeps > 0 => Buried(running)
GateCounts == \/ honest_sweeps = REQUIRED_QUALIFYING_SWEEPS
              \/ qualifying_sweeps <= honest_sweeps
ConfirmedGate ==
    pc \in {"persist", "confirm"} => qualifying_sweeps >= REQUIRED_QUALIFYING_SWEEPS
RecordTrue ==
    \A r \in Upgrades :
        record = ConfirmationRecord(r) => r \in attested \/ Buried(r)
TipTrue ==
    Up /\ tip >= ActivationHeight[running] => running \in attested \/ Buried(running)

Bookkeeping == IdleWhenDown /\ ReadyOnlyProbing /\ OnePerGroup /\ ChainAboveFinal
                 /\ ConfirmedGate
Evidence == HonestReadyTrue /\ GateTrue /\ GateCounts /\ RecordTrue /\ TipTrue
EvidenceInv == TypeOK /\ Bookkeeping /\ (ByzantineMinority => Evidence)

\* The initial state satisfies the evidence invariant.
LEMMA InitEvidence == Init => EvidenceInv
<1> SUFFICES ASSUME Init PROVE EvidenceInv
  OBVIOUS
<1>1. TypeOK
  BY InitType
<1>2. Bookkeeping
  BY TableAssumption
  DEF Init, Bookkeeping, IdleWhenDown, ReadyOnlyProbing, OnePerGroup,
      ChainAboveFinal, ConfirmedGate, FinalHeight
<1>3. Evidence
  BY NoRecordAssumption, GateAssumption
  DEF Init, Evidence, HonestReadyTrue, GateTrue, GateCounts, RecordTrue, TipTrue, Up
<1> QED BY <1>1, <1>2, <1>3 DEF EvidenceInv

\* Burial is for good: no step lowers the peak.
LEMMA BuriedStable ==
    ASSUME TypeOK, [Next]_vars, NEW r \in Upgrades, Buried(r)
    PROVE  Buried(r)'
<1>1. peak' >= peak /\ peak' \in Nat /\ peak \in Nat
  <2>1. CASE Grow
    BY <2>1, TableAssumption DEF TypeOK, Grow
  <2>2. CASE UNCHANGED peak
    BY <2>2, TableAssumption DEF TypeOK
  <2>3. Grow \/ UNCHANGED peak
    BY DEF Next, vars, network, Start, Stop, BeginSweep, ProbeHandshake, ProbeFails,
       ObserveSweep, Persist, PersistFails, ConfirmActivation, Attest,
       DeleteRecord, Deploy, Reorg
  <2> QED BY <2>1, <2>2, <2>3
<1>2. ActivationHeight[r] \in Nat /\ MaxBlockReorgHeight \in Nat
  BY TableAssumption
<1> QED BY <1>1, <1>2 DEF Buried

\* Every step keeps the bookkeeping: the probes of a sweep, the count of the
\* gate and the two histories agree.
LEMMA NextBookkeeping ==
    ASSUME TypeOK, Bookkeeping, [Next]_vars
    PROVE  Bookkeeping'
<1> USE DEF Bookkeeping, IdleWhenDown, ReadyOnlyProbing, OnePerGroup, ConfirmedGate,
            ChainAboveFinal, FinalHeight, Up, NoSweep, disk, gate, sweep, network, history
<1>1. ASSUME NEW readable \in BOOLEAN, Start(readable) PROVE Bookkeeping'
  BY <1>1 DEF Start
<1>2. CASE Stop
  BY <1>2 DEF Stop
<1>3. ASSUME NEW candidates \in SUBSET Peers, BeginSweep(candidates) PROVE Bookkeeping'
  BY <1>3 DEF BeginSweep, Samples
<1>4. ASSUME NEW p \in Peers, NEW m \in Reports(p), ProbeHandshake(p, m)
      PROVE  Bookkeeping'
  BY <1>4 DEF ProbeHandshake
<1>5. ASSUME NEW p \in Peers, ProbeFails(p) PROVE Bookkeeping'
  BY <1>5 DEF ProbeFails
<1>6. CASE ObserveSweep
  BY <1>6 DEF ObserveSweep
<1>7. CASE Persist
  BY <1>7 DEF Persist
<1>8. CASE PersistFails
  BY <1>8 DEF PersistFails
<1>9. CASE ConfirmActivation
  BY <1>9 DEF ConfirmActivation
<1>10. ASSUME NEW r \in Upgrades, Attest(ConfirmationRecord(r)) PROVE Bookkeeping'
  BY <1>10 DEF Attest
<1>11. CASE DeleteRecord
  BY <1>11 DEF DeleteRecord
<1>12. ASSUME NEW r \in Upgrades, Deploy(r) PROVE Bookkeeping'
  BY <1>12 DEF Deploy
<1>13. CASE Grow
  <2>1. chain \in Nat /\ peak \in Nat /\ MaxBlockReorgHeight \in Nat
    BY TableAssumption DEF TypeOK
  <2> QED BY <1>13, <2>1 DEF Grow
<1>14. ASSUME NEW h \in 0..MaxHeight, Reorg(h) PROVE Bookkeeping'
  <2>1. chain \in Nat /\ peak \in Nat /\ MaxBlockReorgHeight \in Nat /\ h \in Nat
    BY TableAssumption DEF TypeOK
  <2> QED BY <1>14, <2>1 DEF Reorg
<1>15. CASE UNCHANGED vars
  BY <1>15 DEF vars
<1> QED
  BY <1>1, <1>2, <1>3, <1>4, <1>5, <1>6, <1>7, <1>8, <1>9, <1>10, <1>11,
     <1>12, <1>13, <1>14, <1>15 DEF Next

\* Every step keeps the evidence for the record and the floor.
LEMMA NextEvidence ==
    ASSUME TypeOK, Bookkeeping, ByzantineMinority, Evidence, [Next]_vars
    PROVE  Evidence'
<1> USE DEF Evidence, disk, gate, sweep, network, history, NoSweep
<1>a. \A r \in Upgrades : Buried(r) => Buried(r)'
  BY BuriedStable
<1>b. installed \in Upgrades /\ (Up => running \in Upgrades)
  BY TableAssumption DEF TypeOK, Up, Upgrades
<1>c. /\ qualifying_sweeps \in Nat /\ honest_sweeps \in Nat
      /\ REQUIRED_QUALIFYING_SWEEPS \in Nat \ {0}
  BY GateAssumption DEF TypeOK
\* Steps that leave the evidence, the record and the tip of a running process.
<1>d. ASSUME running' = running, tip' = tip, (Up <=> Up'), record' = record,
             ready' \ Byzantine \subseteq ready \ Byzantine, attested' = attested,
             qualifying_sweeps' = qualifying_sweeps, honest_sweeps' = honest_sweeps,
             (ready = {} /\ qualifying_sweeps = 0) \/ Up
      PROVE  Evidence'
  <2>1. HonestReadyTrue' /\ GateTrue'
    BY <1>a, <1>b, <1>d DEF HonestReadyTrue, GateTrue
  <2>2. GateCounts'
    BY <1>d DEF GateCounts
  <2>3. RecordTrue'
    BY <1>a, <1>d DEF RecordTrue
  <2>4. TipTrue'
    BY <1>a, <1>b, <1>d DEF TipTrue
  <2> QED BY <2>1, <2>2, <2>3, <2>4
<1>e. ~Up => ready = {} /\ qualifying_sweeps = 0
  BY DEF Up, Bookkeeping, IdleWhenDown, ReadyOnlyProbing
<1>1. ASSUME NEW readable \in BOOLEAN, Start(readable) PROVE Evidence'
  <2>1. HonestReadyTrue' /\ GateTrue' /\ GateCounts'
    BY <1>1, <1>c, <1>e DEF Start, HonestReadyTrue, GateTrue, GateCounts, Up
  <2>2. RecordTrue'
    BY <1>1, <1>a DEF Start, RecordTrue
  <2>3. TipTrue'
    <3> SUFFICES ASSUME tip' >= ActivationHeight[running']
                 PROVE  (running \in attested \/ Buried(running))'
      BY DEF TipTrue
    <3>1. running' = installed /\ attested' = attested
      BY <1>1 DEF Start
    <3>2. LoadConfirmation(installed, readable)
      BY <1>1, <1>b, TargetFields DEF Start, InitialTip
    <3>3. installed \in attested \/ Buried(installed)
      BY <3>2, <1>b DEF LoadConfirmation, RecordTrue
    <3>4. Buried(installed) => peak' >= ActivationHeight[installed] + MaxBlockReorgHeight
      BY <1>1 DEF Start, Buried
    <3> QED BY <3>1, <3>3, <3>4 DEF Buried
  <2> QED BY <2>1, <2>2, <2>3
<1>2. CASE Stop
  <2>1. HonestReadyTrue' /\ GateTrue' /\ GateCounts' /\ TipTrue'
    BY <1>2, <1>c DEF Stop, HonestReadyTrue, GateTrue, GateCounts, TipTrue, Up
  <2>2. RecordTrue'
    BY <1>2, <1>a DEF Stop, RecordTrue
  <2> QED BY <2>1, <2>2
<1>3. ASSUME NEW candidates \in SUBSET Peers, BeginSweep(candidates) PROVE Evidence'
  BY <1>3, <1>d DEF BeginSweep, Up
<1>4. ASSUME NEW p \in Peers, NEW m \in Reports(p), ProbeHandshake(p, m) PROVE Evidence'
  <2>1. CASE p \in Byzantine \/ ~IsReady(m)
    BY <2>1, <1>4, <1>d DEF ProbeHandshake, Up
  <2>2. CASE p \notin Byzantine /\ IsReady(m)
    <3>1. running \in Upgrades
      BY <1>4, <1>b DEF ProbeHandshake, Up
    <3>2. /\ m.start_height \in Nat /\ m.start_height <= chain
          /\ chain \in Nat /\ peak \in Nat /\ chain <= peak
      BY <2>2, TableAssumption DEF Reports, TypeOK, Bookkeeping, ChainAboveFinal
    <3>3. m.start_height >= ActivationHeight[running] + MaxBlockReorgHeight
      BY <2>2, <3>1, TargetFields DEF IsReady
    <3>4. Buried(running)
      BY <3>1, <3>2, <3>3, TableAssumption DEF Buried
    <3>5. HonestReadyTrue'
      BY <1>4, <1>a, <3>1, <3>4 DEF ProbeHandshake, HonestReadyTrue
    <3>6. GateTrue' /\ GateCounts'
      BY <1>4, <1>a, <3>1 DEF ProbeHandshake, GateTrue, GateCounts
    <3>7. RecordTrue' /\ TipTrue'
      BY <1>4, <1>a, <3>1 DEF ProbeHandshake, RecordTrue, TipTrue, Up
    <3> QED BY <3>5, <3>6, <3>7
  <2> QED BY <2>1, <2>2
<1>5. ASSUME NEW p \in Peers, ProbeFails(p) PROVE Evidence'
  BY <1>5, <1>d DEF ProbeFails, Up
<1>6. CASE ObserveSweep
  <2> DEFINE q == Qualifies(Cardinality(sampled_peers), Cardinality(ready))
  <2>1. running \in Upgrades
    BY <1>6, <1>b DEF ObserveSweep, Up
  <2>2. q => ready \ Byzantine # {}
    BY QuorumIsHonest DEF TypeOK, Bookkeeping, OnePerGroup
  <2>3. /\ qualifying_sweeps' = GateObserve(qualifying_sweeps,
                                  Cardinality(sampled_peers), Cardinality(ready))
        /\ honest_sweeps' = Counted(honest_sweeps, ready \ Byzantine # {})
        /\ running' = running /\ tip' = tip /\ record' = record
        /\ attested' = attested /\ ready' = {}
    BY <1>6 DEF ObserveSweep
  <2>4. ~q => qualifying_sweeps' = 0
    BY <2>3 DEF GateObserve
  <2>5. HonestReadyTrue'
    BY <2>3 DEF HonestReadyTrue
  <2>6. GateTrue'
    <3>1. q => Buried(running)
      BY <2>2 DEF HonestReadyTrue
    <3> QED BY <1>a, <2>1, <2>3, <2>4, <3>1 DEF GateTrue
  <2>7. GateCounts'
    <3>1. CASE ~q
      <4>1. honest_sweeps' \in Nat
        BY <1>c, <2>3 DEF Counted
      <4> QED BY <3>1, <2>4, <4>1 DEF GateCounts
    <3>2. CASE q
      <4>1. qualifying_sweeps' \in Nat /\ qualifying_sweeps' <= qualifying_sweeps + 1
        BY <3>2, <2>3, <1>c, GateAssumption DEF GateObserve, TypeOK
      <4>2. honest_sweeps' = IF honest_sweeps = REQUIRED_QUALIFYING_SWEEPS
                             THEN honest_sweeps ELSE honest_sweeps + 1
        BY <3>2, <2>2, <2>3 DEF Counted
      <4> QED BY <4>1, <4>2, <1>c DEF GateCounts
    <3> QED BY <3>1, <3>2
  <2>8. RecordTrue' /\ TipTrue'
    BY <1>6, <1>a, <2>1, <2>3 DEF RecordTrue, TipTrue, ObserveSweep, Up
  <2> QED BY <2>5, <2>6, <2>7, <2>8
<1>7. CASE Persist
  <2>1. running \in Upgrades
    BY <1>7, <1>b DEF Persist, Up
  <2>2. Buried(running)
    BY <1>7, <1>c DEF Persist, Bookkeeping, ConfirmedGate, GateTrue
  <2>3. RecordTrue'
    BY <1>7, <1>a, <2>1, <2>2, RecordsDiffer DEF Persist, RecordTrue
  <2>4. HonestReadyTrue' /\ GateTrue' /\ GateCounts' /\ TipTrue'
    BY <1>7, <1>a, <2>1
    DEF Persist, HonestReadyTrue, GateTrue, GateCounts, TipTrue, Up
  <2> QED BY <2>3, <2>4
<1>8. CASE PersistFails
  BY <1>8, <1>d DEF PersistFails, Up
<1>9. CASE ConfirmActivation
  <2>1. running \in Upgrades
    BY <1>9, <1>b DEF ConfirmActivation, Up
  <2>2. Buried(running)
    BY <1>9, <1>c DEF ConfirmActivation, Bookkeeping, ConfirmedGate, GateTrue
  <2>3. HonestReadyTrue' /\ GateTrue' /\ GateCounts' /\ RecordTrue' /\ TipTrue'
    BY <1>9, <1>a, <2>1, <2>2
    DEF ConfirmActivation, HonestReadyTrue, GateTrue, GateCounts, RecordTrue, TipTrue
  <2> QED BY <2>3
<1>10. ASSUME NEW r \in Upgrades, Attest(ConfirmationRecord(r)) PROVE Evidence'
  <2>1. r = installed
    BY <1>10, <1>b, RecordsDiffer DEF Attest
  <2>2. RecordTrue'
    BY <1>10, <2>1, <1>a, RecordsDiffer DEF Attest, RecordTrue
  <2>3. HonestReadyTrue' /\ GateTrue' /\ GateCounts' /\ TipTrue'
    BY <1>10, <1>a, <1>b, <1>e
    DEF Attest, HonestReadyTrue, GateTrue, GateCounts, TipTrue, Up
  <2> QED BY <2>2, <2>3
<1>11. CASE DeleteRecord
  <2>1. RecordTrue'
    BY <1>11, NoRecordAssumption DEF DeleteRecord, RecordTrue
  <2>2. HonestReadyTrue' /\ GateTrue' /\ GateCounts' /\ TipTrue'
    BY <1>11, <1>c, <1>e
    DEF DeleteRecord, HonestReadyTrue, GateTrue, GateCounts, TipTrue, Up
  <2> QED BY <2>1, <2>2
<1>12. ASSUME NEW r \in Upgrades, Deploy(r) PROVE Evidence'
  BY <1>12, <1>d, <1>e DEF Deploy, Up
<1>13. CASE Grow
  BY <1>13, <1>d, <1>e DEF Grow, Up
<1>14. ASSUME NEW h \in 0..MaxHeight, Reorg(h) PROVE Evidence'
  BY <1>14, <1>d, <1>e DEF Reorg, Up
<1>15. CASE UNCHANGED vars
  BY <1>15, <1>d, <1>e DEF vars, Up
<1> QED
  BY <1>1, <1>2, <1>3, <1>4, <1>5, <1>6, <1>7, <1>8, <1>9, <1>10, <1>11,
     <1>12, <1>13, <1>14, <1>15 DEF Next

\* The evidence invariant is inductive.
LEMMA NextEvidenceInv == EvidenceInv /\ [Next]_vars => EvidenceInv'
<1> SUFFICES ASSUME EvidenceInv, [Next]_vars PROVE EvidenceInv'
  OBVIOUS
<1>1. TypeOK'
  BY NextType DEF EvidenceInv
<1>2. Bookkeeping'
  BY NextBookkeeping DEF EvidenceInv
<1>3. ByzantineMinority => Evidence'
  BY NextEvidence DEF EvidenceInv
<1> QED BY <1>1, <1>2, <1>3 DEF EvidenceInv, ByzantineMinority, ByzantineGroups

\* The evidence invariant holds in every reachable state.
LEMMA EvidenceInvariant == Spec => []EvidenceInv
BY InitEvidence, NextEvidenceInv, PTL DEF Spec

\* While fewer groups hold a Byzantine peer than a qualifying sweep needs, the
\* target's floor is enforced only when it was attested or has activated.
THEOREM NoFalseConfirmationHolds == Spec => []NoFalseConfirmation
<1>1. EvidenceInv => NoFalseConfirmation
  <2> SUFFICES ASSUME EvidenceInv, ByzantineMinority, Up,
                      IsActivationConfirmed(running, tip), running \notin attested
               PROVE  chain >= ActivationHeight[running]
    BY DEF NoFalseConfirmation
  <2>1. running \in Upgrades
    BY TableAssumption DEF EvidenceInv, TypeOK, Up, Upgrades
  <2>2. Buried(running)
    BY <2>1, TargetFields DEF EvidenceInv, Evidence, TipTrue, IsActivationConfirmed
  <2>3. peak - MaxBlockReorgHeight <= chain /\ chain \in Nat /\ peak \in Nat
    BY TableAssumption DEF EvidenceInv, TypeOK, Bookkeeping, ChainAboveFinal, FinalHeight
  <2> QED BY <2>1, <2>2, <2>3, TableAssumption DEF Buried
<1> QED BY <1>1, EvidenceInvariant, PTL

\* Under the same bound the observer acts only on the required number of
\* consecutive sweeps, each with a ready peer that is not Byzantine.
THEOREM SustainedHonestEvidenceHolds == Spec => []SustainedHonestEvidence
<1>1. EvidenceInv => SustainedHonestEvidence
  BY GateAssumption
  DEF EvidenceInv, TypeOK, Bookkeeping, ConfirmedGate, Evidence, GateCounts,
      SustainedHonestEvidence
<1> QED BY <1>1, EvidenceInvariant, PTL
-----------------------------------------------------------------------------
(* Durability: the inductive invariant behind CrashKeepsFloor.             *)

Raised == Up /\ (pc = "confirm" \/ tip = ActivationHeight[running])

TipExact == Up => tip \in {ActivationHeight[running] - 1, ActivationHeight[running]}
ForwardOnly == running <= installed
RaisedIsDurable ==
    Raised /\ running = installed => CacheEnabled /\ record = ConfirmationRecord(running)

DurableInv ==
    TypeOK /\ (~AllowRollback => TipExact /\ ForwardOnly /\ RaisedIsDurable)

\* Every step keeps a raised floor on disk first.
LEMMA NextDurable ==
    ASSUME TypeOK, ~AllowRollback, TipExact, ForwardOnly, RaisedIsDurable, [Next]_vars
    PROVE  TipExact' /\ ForwardOnly' /\ RaisedIsDurable'
<1> USE DEF TipExact, ForwardOnly, RaisedIsDurable, Raised, Up,
            disk, gate, sweep, network, history
<1> DEFINE Durable == TipExact /\ ForwardOnly /\ RaisedIsDurable
<1>a. /\ installed \in Upgrades /\ (pc # "down" => running \in Upgrades)
      /\ Upgrades \subseteq Nat /\ running \in Nat
      /\ \A r \in Upgrades : ActivationHeight[r] \in Nat \ {0}
  BY TableAssumption DEF TypeOK, Upgrades
\* Steps that neither start, stop, raise, write nor deploy.
<1>b. ASSUME UNCHANGED <<installed, running, record, tip>>,
             pc' = pc \/ (pc # "down" /\ pc' # "confirm" /\ pc' # "down")
      PROVE  Durable'
  BY <1>b
<1>1. ASSUME NEW readable \in BOOLEAN, Start(readable) PROVE Durable'
  <2>1. running' = installed /\ installed' = installed /\ record' = record
    BY <1>1 DEF Start
  <2>2. tip' = IF LoadConfirmation(installed, readable)
               THEN ActivationHeight[installed] ELSE ActivationHeight[installed] - 1
    BY <1>1, <1>a, TargetFields DEF Start, InitialTip
  <2>3. pc' \in {"done", "tick"}
    BY <1>1 DEF Start
  <2> QED BY <1>a, <2>1, <2>2, <2>3 DEF LoadConfirmation
<1>2. CASE Stop
  BY <1>2, <1>a DEF Stop
<1>3. ASSUME NEW candidates \in SUBSET Peers, BeginSweep(candidates) PROVE Durable'
  BY <1>3, <1>b DEF BeginSweep
<1>4. ASSUME NEW p \in Peers, NEW m \in Reports(p), ProbeHandshake(p, m) PROVE Durable'
  BY <1>4, <1>b DEF ProbeHandshake
<1>5. ASSUME NEW p \in Peers, ProbeFails(p) PROVE Durable'
  BY <1>5, <1>b DEF ProbeFails
<1>6. CASE ObserveSweep
  BY <1>6, <1>b DEF ObserveSweep
<1>7. CASE Persist
  BY <1>7 DEF Persist
<1>8. CASE PersistFails
  BY <1>8, <1>b DEF PersistFails
<1>9. CASE ConfirmActivation
  <2>1. /\ running \in Upgrades /\ pc = "confirm"
        /\ UNCHANGED <<installed, running, record>>
    BY <1>9, <1>a DEF ConfirmActivation
  <2>2. tip' = ActivationHeight[running]
    BY <1>9, <1>a, <2>1, TargetFields DEF ConfirmActivation
  <2> QED BY <2>1, <2>2
<1>10. ASSUME NEW r \in Upgrades, Attest(ConfirmationRecord(r)) PROVE Durable'
  BY <1>10 DEF Attest
<1>11. CASE DeleteRecord
  BY <1>11 DEF DeleteRecord
<1>12. ASSUME NEW r \in Upgrades, Deploy(r) PROVE Durable'
  BY <1>12, <1>a DEF Deploy
<1>13. CASE Grow
  BY <1>13, <1>b DEF Grow
<1>14. ASSUME NEW h \in 0..MaxHeight, Reorg(h) PROVE Durable'
  BY <1>14, <1>b DEF Reorg
<1>15. CASE UNCHANGED vars
  BY <1>15, <1>b DEF vars
<1>16. Durable'
  BY <1>1, <1>2, <1>3, <1>4, <1>5, <1>6, <1>7, <1>8, <1>9, <1>10, <1>11,
     <1>12, <1>13, <1>14, <1>15 DEF Next
<1> QED BY <1>16

\* With releases moving forward, whatever a crash interrupts, the installed
\* release starts at no lower floor than the one being enforced.
THEOREM CrashKeepsFloorHolds == Spec => []CrashKeepsFloor
<1>1. Init => DurableInv
  BY InitType, TableAssumption
  DEF Init, DurableInv, TipExact, ForwardOnly, RaisedIsDurable, Raised, Up
<1>2. DurableInv /\ [Next]_vars => DurableInv'
  <2> SUFFICES ASSUME DurableInv, [Next]_vars PROVE DurableInv'
    OBVIOUS
  <2>1. TypeOK'
    BY NextType DEF DurableInv
  <2>2. ~AllowRollback => TipExact' /\ ForwardOnly' /\ RaisedIsDurable'
    BY NextDurable DEF DurableInv
  <2> QED BY <2>1, <2>2 DEF DurableInv
<1>3. DurableInv => CrashKeepsFloor
  <2> SUFFICES ASSUME DurableInv, Up, ~AllowRollback PROVE BootFloor >= Floor
    BY DEF CrashKeepsFloor
  <2>1. /\ running \in Upgrades /\ installed \in Upgrades /\ running <= installed
        /\ running \in Nat \ {0} /\ installed \in Nat \ {0}
    BY TableAssumption DEF DurableInv, TypeOK, ForwardOnly, Up, Upgrades
  <2>2. BootFloor \in {installed - 1, installed}
    BY <2>1, TargetFields, FloorAtActivation, FloorBeforeActivation
    DEF BootFloor, InitialTip
  <2>3. Floor = IF tip = ActivationHeight[running] THEN running ELSE running - 1
    BY <2>1, FloorAtActivation, FloorBeforeActivation DEF Floor, DurableInv, TipExact
  <2> HIDE DEF BootFloor, Floor
  <2>4. CASE installed = running
    <3>1. ASSUME tip = ActivationHeight[running] PROVE BootFloor = installed
      <4>1. LoadConfirmation(installed, TRUE)
        BY <2>4, <3>1 DEF DurableInv, RaisedIsDurable, Raised, LoadConfirmation
      <4> QED BY <4>1, <2>1, TargetFields, FloorAtActivation DEF BootFloor, InitialTip
    <3>2. CASE tip = ActivationHeight[running]
      BY <2>1, <2>2, <2>3, <2>4, <3>1, <3>2
    <3>3. CASE tip # ActivationHeight[running]
      BY <2>1, <2>2, <2>3, <2>4, <3>3
    <3> QED BY <3>2, <3>3
  <2>5. CASE installed # running
    <3>1. BootFloor \in Nat /\ BootFloor >= installed - 1
      BY <2>1, <2>2
    <3>2. Floor \in Nat /\ Floor <= running
      BY <2>1, <2>3
    <3> QED BY <2>1, <2>5, <3>1, <3>2
  <2> QED BY <2>4, <2>5
<1> QED BY <1>1, <1>2, <1>3, PTL DEF Spec
-----------------------------------------------------------------------------
(* The gate and the streak of qualifying sweeps.                           *)

\* The u8 counter, saturated or not, tells the streak up to what is required.
StreakCounts ==
    streak = IF qualifying_sweeps >= REQUIRED_QUALIFYING_SWEEPS
             THEN REQUIRED_QUALIFYING_SWEEPS ELSE qualifying_sweeps

\* A sweep moves the counter and the streak together.
LEMMA ObserveStreak ==
    ASSUME TypeOK, StreakCounts, ObserveSweep
    PROVE  StreakCounts'
<1> DEFINE q == Qualifies(Cardinality(sampled_peers), Cardinality(ready))
<1>1. /\ qualifying_sweeps \in Nat /\ qualifying_sweeps <= U8_MAX /\ U8_MAX \in Nat
      /\ REQUIRED_QUALIFYING_SWEEPS \in Nat \ {0} /\ REQUIRED_QUALIFYING_SWEEPS <= U8_MAX
  BY GateAssumption DEF TypeOK
<1>2. qualifying_sweeps' = IF ~q THEN 0
                           ELSE IF qualifying_sweeps >= U8_MAX THEN U8_MAX
                           ELSE qualifying_sweeps + 1
  BY DEF ObserveSweep, GateObserve
<1>3. streak' = IF ~q THEN 0
                ELSE IF streak = REQUIRED_QUALIFYING_SWEEPS THEN streak ELSE streak + 1
  BY DEF ObserveSweep, Counted
<1> HIDE DEF q
<1> QED BY <1>1, <1>2, <1>3 DEF StreakCounts

\* Every step keeps the two in agreement.
LEMMA NextStreak == TypeOK /\ StreakCounts /\ [Next]_vars => StreakCounts'
<1> SUFFICES ASSUME TypeOK, StreakCounts, [Next]_vars PROVE StreakCounts'
  OBVIOUS
<1>1. CASE ObserveSweep
  BY <1>1, ObserveStreak
<1>2. CASE Stop
  BY <1>2, GateAssumption DEF Stop, StreakCounts
<1>3. CASE ~ObserveSweep /\ ~Stop
  <2>1. UNCHANGED <<qualifying_sweeps, streak>>
    BY <1>3 DEF Next, vars, Start, BeginSweep, ProbeHandshake, ProbeFails, Persist,
       PersistFails, ConfirmActivation, Attest, DeleteRecord, Deploy, Grow, Reorg,
       gate, history
  <2> QED BY <2>1 DEF StreakCounts
<1> QED BY <1>1, <1>2, <1>3

\* A sweep is confirmed exactly when it completes the required streak, for every
\* width of the counter and every number of required sweeps it can hold.
THEOREM GateConfirmsStreakHolds == Spec => GateConfirmsStreak
<1>1. Init => TypeOK /\ StreakCounts
  BY InitType, GateAssumption DEF Init, StreakCounts
<1>2. TypeOK /\ StreakCounts /\ [Next]_vars => TypeOK' /\ StreakCounts'
  BY NextType, NextStreak
<1>3. TypeOK /\ StreakCounts /\ [Next]_vars
        => [pc = "probing" /\ pc' \in {"tick", "persist"}
              => (pc' = "persist" <=> streak' = REQUIRED_QUALIFYING_SWEEPS)]_vars
  <2> SUFFICES ASSUME TypeOK, StreakCounts, [Next]_vars,
                      pc = "probing", pc' \in {"tick", "persist"}
               PROVE  pc' = "persist" <=> streak' = REQUIRED_QUALIFYING_SWEEPS
    OBVIOUS
  <2>1. ObserveSweep
    BY DEF Next, vars, Start, Stop, BeginSweep, ProbeHandshake, ProbeFails, Persist,
       PersistFails, ConfirmActivation, Attest, DeleteRecord, Deploy, Grow, Reorg
  <2>2. pc' = "persist" <=> qualifying_sweeps' >= REQUIRED_QUALIFYING_SWEEPS
    BY <2>1 DEF ObserveSweep
  <2>3. StreakCounts' /\ qualifying_sweeps' \in Nat
    BY NextStreak, NextType, GateAssumption DEF TypeOK
  <2> QED BY <2>2, <2>3, GateAssumption DEF StreakCounts
<1> QED BY <1>1, <1>2, <1>3, PTL DEF Spec, GateConfirmsStreak
-----------------------------------------------------------------------------
(* The decision on disk.                                                   *)

\* With releases moving forward a record never names a newer upgrade than the
\* installed release's, and a newer one than the running release's only if it was
\* attested beside it.
RecordBounded ==
    \A r \in Upgrades :
        record = ConfirmationRecord(r) =>
            /\ r <= installed
            /\ Up => r <= running \/ (OnlineAttest /\ r \in attested)

StickyInv == TypeOK /\ (~AllowRollback => ForwardOnly /\ RecordBounded)

\* Every step keeps the record no newer than the release.
LEMMA NextSticky ==
    ASSUME TypeOK, ~AllowRollback, ForwardOnly, RecordBounded, [Next]_vars
    PROVE  ForwardOnly' /\ RecordBounded'
<1> USE DEF ForwardOnly, RecordBounded, Up, disk, gate, sweep, network, history
<1> DEFINE Bounded == ForwardOnly /\ RecordBounded
<1>a. /\ installed \in Upgrades /\ (pc # "down" => running \in Upgrades)
      /\ Upgrades \subseteq Nat /\ running \in Nat /\ (pc = "down" => running = 0)
  BY TableAssumption DEF TypeOK, Upgrades
\* Steps that neither start, stop, write nor deploy.
<1>b. ASSUME UNCHANGED <<installed, running, record, attested>>, pc' = pc \/ pc # "down"
      PROVE  Bounded'
  BY <1>b
<1>1. ASSUME NEW readable \in BOOLEAN, Start(readable) PROVE Bounded'
  <2>1. UNCHANGED <<installed, record>> /\ running' = installed
    BY <1>1 DEF Start
  <2> QED BY <1>a, <2>1
<1>2. CASE Stop
  BY <1>2, <1>a DEF Stop
<1>3. CASE Persist
  <2>1. /\ pc = "persist" /\ record' = ConfirmationRecord(running)
        /\ UNCHANGED <<installed, running>>
    BY <1>3 DEF Persist
  <2> QED BY <1>a, <2>1, RecordsDiffer
<1>4. ASSUME NEW r \in Upgrades, Attest(ConfirmationRecord(r)) PROVE Bounded'
  BY <1>4, <1>a, RecordsDiffer DEF Attest
<1>5. CASE DeleteRecord
  BY <1>5, <1>a, NoRecordAssumption DEF DeleteRecord
<1>6. ASSUME NEW r \in Upgrades, Deploy(r) PROVE Bounded'
  BY <1>6, <1>a DEF Deploy
<1>7. ASSUME NEW candidates \in SUBSET Peers, BeginSweep(candidates) PROVE Bounded'
  BY <1>7, <1>b DEF BeginSweep
<1>8. ASSUME NEW p \in Peers, NEW m \in Reports(p), ProbeHandshake(p, m) PROVE Bounded'
  BY <1>8, <1>b DEF ProbeHandshake
<1>9. ASSUME NEW p \in Peers, ProbeFails(p) PROVE Bounded'
  BY <1>9, <1>b DEF ProbeFails
<1>10. CASE ObserveSweep \/ PersistFails \/ ConfirmActivation
  BY <1>10, <1>b DEF ObserveSweep, PersistFails, ConfirmActivation
<1>11. CASE Grow \/ UNCHANGED vars
  BY <1>11, <1>b DEF Grow, vars
<1>12. ASSUME NEW h \in 0..MaxHeight, Reorg(h) PROVE Bounded'
  BY <1>12, <1>b DEF Reorg
<1>13. Bounded'
  BY <1>1, <1>2, <1>3, <1>4, <1>5, <1>6, <1>7, <1>8, <1>9, <1>10, <1>11, <1>12 DEF Next
<1> QED BY <1>13

\* What a start from the record would enforce.
LEMMA BootFloorValue ==
    ASSUME installed \in Upgrades
    PROVE  BootFloor = IF CacheEnabled /\ record = ConfirmationRecord(installed)
                       THEN installed ELSE installed - 1
BY TargetFields, FloorAtActivation, FloorBeforeActivation
DEF BootFloor, InitialTip, LoadConfirmation

\* With releases moving forward no step but the deletion of the record beside a
\* stopped seeder lowers the floor of the next start, whatever crashes, fails to
\* write or is deployed; and beside a running seeder of an older release only its
\* own confirmation does, over an attestation made meanwhile.
THEOREM DecisionStickyHolds == Spec => DecisionSticky
<1>1. Init => StickyInv
  BY InitType, NoRecordAssumption, TableAssumption
  DEF Init, StickyInv, ForwardOnly, RecordBounded, Up
<1>2. StickyInv /\ [Next]_vars => StickyInv'
  <2> SUFFICES ASSUME StickyInv, [Next]_vars PROVE StickyInv'
    OBVIOUS
  <2>1. TypeOK'
    BY NextType DEF StickyInv
  <2>2. ~AllowRollback => ForwardOnly' /\ RecordBounded'
    BY NextSticky DEF StickyInv
  <2> QED BY <2>1, <2>2 DEF StickyInv
<1>3. StickyInv /\ StickyInv' /\ [Next]_vars
        => [\/ AllowRollback
            \/ ~Up /\ record # NoRecord /\ record' = NoRecord
            \/ AttestationOverwritten
            \/ BootFloor' >= BootFloor]_vars
  <2> SUFFICES ASSUME StickyInv, StickyInv', [Next]_vars, ~AllowRollback,
                      ~(~Up /\ record # NoRecord /\ record' = NoRecord),
                      ~AttestationOverwritten
               PROVE  BootFloor' >= BootFloor
    OBVIOUS
  <2>0. Upgrades \subseteq Nat \ {0}
    BY TableAssumption DEF Upgrades
  <2>1. /\ installed \in Upgrades /\ installed' \in Upgrades
        /\ installed \in Nat \ {0} /\ installed' \in Nat \ {0}
        /\ running \in Nat /\ running <= installed
    BY <2>0, TableAssumption DEF StickyInv, TypeOK, ForwardOnly
  <2>2. BootFloor = IF CacheEnabled /\ record = ConfirmationRecord(installed)
                    THEN installed ELSE installed - 1
    BY <2>1, BootFloorValue
  <2>3. BootFloor' = IF CacheEnabled /\ record' = ConfirmationRecord(installed')
                     THEN installed' ELSE installed' - 1
    <3>1. (installed \in Upgrades)'
      BY <2>1
    <3> QED BY <3>1, TargetFields, FloorAtActivation, FloorBeforeActivation
            DEF BootFloor, InitialTip, LoadConfirmation
  <2> HIDE DEF BootFloor
  <2>4. CASE Persist
    <3>1. record' = ConfirmationRecord(running) /\ installed' = installed
      BY <2>4 DEF Persist
    <3>2. record = ConfirmationRecord(installed) => installed <= running
      BY <2>1, <2>4, <3>1 DEF StickyInv, RecordBounded, Persist, Up, AttestationOverwritten
    <3>3. record = ConfirmationRecord(installed) => running = installed
      BY <2>1, <3>2
    <3> QED BY <2>1, <2>2, <2>3, <3>1, <3>3
  <2>5. CASE \E r \in Upgrades : Attest(ConfirmationRecord(r))
    BY <2>1, <2>2, <2>3, <2>5 DEF Attest
  <2>6. CASE \E r \in Upgrades : Deploy(r)
    BY <2>1, <2>2, <2>3, <2>6 DEF Deploy
  <2>7. CASE DeleteRecord
    BY <2>7 DEF DeleteRecord
  <2>8. CASE UNCHANGED <<installed, record>>
    BY <2>1, <2>2, <2>3, <2>8
  <2> QED
    BY <2>4, <2>5, <2>6, <2>7, <2>8
    DEF Next, vars, disk, Start, Stop, BeginSweep, ProbeHandshake, ProbeFails,
        ObserveSweep, PersistFails, ConfirmActivation, Grow, Reorg
<1> QED BY <1>1, <1>2, <1>3, PTL DEF Spec, DecisionSticky
-----------------------------------------------------------------------------
(* The observer implements ProtocolFloor.                                  *)

\* Until the task ends the tip is below activation, and afterwards at it; when
\* the process is down there is no tip.  What is about to raise it is on disk, or
\* has been until an attestation beside the process replaced it.
TipBefore ==
    pc \in {"tick", "probing", "persist", "confirm"} => tip = ActivationHeight[running] - 1
TipDone == pc = "done" => tip = ActivationHeight[running]
TipDown == pc = "down" => tip = 0
WrittenFirst ==
    pc = "confirm" => \/ record = ConfirmationRecord(running)
                      \/ OnlineAttest /\ record # NoRecord

FloorInv == TypeOK /\ TipBefore /\ TipDone /\ TipDown /\ WrittenFirst

\* The upgrade a record names.
LEMMA RecordNames ==
    ASSUME NEW r \in Upgrades
    PROVE  /\ ConfirmationRecord(r).minimum_protocol_version = r
           /\ ConfirmationRecord(r) # NoRecord
           /\ r \in Nat \ {0}
BY TargetFields, NoRecordAssumption, TableAssumption DEF ConfirmationRecord, Upgrades

\* The decision on disk, as the mapping reads it.
LEMMA RecordedValue ==
    ASSUME TypeOK
    PROVE  /\ record = NoRecord => Recorded = 0
           /\ \A r \in Upgrades : Recorded = r <=> record = ConfirmationRecord(r)
<1>1. record = NoRecord => Recorded = 0
  BY DEF Recorded
<1>2. ASSUME NEW r \in Upgrades PROVE Recorded = r <=> record = ConfirmationRecord(r)
  <2>1. record = ConfirmationRecord(r) => Recorded = r
    BY RecordNames DEF Recorded
  <2>2. ASSUME Recorded = r PROVE record = ConfirmationRecord(r)
    <3>1. record # NoRecord
      BY <1>1, <2>2, RecordNames
    <3>2. PICK q \in Upgrades : record = ConfirmationRecord(q)
      BY <3>1 DEF TypeOK, Records
    <3>3. Recorded = q
      BY <3>1, <3>2, RecordNames DEF Recorded
    <3> QED BY <2>2, <3>2, <3>3
  <2> QED BY <2>1, <2>2
<1> QED BY <1>1, <1>2

\* Every step keeps the tip where the task's position says.
LEMMA NextFloorInv ==
    ASSUME FloorInv, [Next]_vars
    PROVE  FloorInv'
<1> USE DEF TipBefore, TipDone, TipDown, WrittenFirst, Up, disk, gate, sweep, network, history
<1> DEFINE Placed == TipBefore /\ TipDone /\ TipDown /\ WrittenFirst
<1>0. TypeOK /\ TipBefore /\ TipDone /\ TipDown /\ WrittenFirst /\ TypeOK'
  BY NextType DEF FloorInv
<1>a. installed \in Upgrades /\ (pc # "down" => running \in Upgrades)
  BY <1>0, TableAssumption DEF TypeOK, Upgrades
\* Steps that move the task between positions at which the tip is the same.
<1>b. ASSUME UNCHANGED <<running, record, tip>>,
             \/ pc' = pc
             \/ /\ pc \in {"tick", "probing", "persist"}
                /\ pc' \in {"tick", "probing", "persist"}
      PROVE  Placed'
  BY <1>0, <1>b
<1>1. ASSUME NEW readable \in BOOLEAN, Start(readable) PROVE Placed'
  <2>1. /\ running' = installed /\ pc' \in {"done", "tick"}
        /\ pc' = "done" <=> tip' >= ActivationHeight[installed]
    BY <1>1, <1>a, TargetFields DEF Start, IsActivationConfirmed
  <2>2. tip' \in {ActivationHeight[installed] - 1, ActivationHeight[installed]}
    BY <1>1, <1>a, TargetFields DEF Start, InitialTip
  <2>3. ActivationHeight[installed] \in Nat
    BY <1>a, TableAssumption
  <2> QED BY <2>1, <2>2, <2>3
<1>2. ASSUME Stop PROVE Placed'
  BY <1>2 DEF Stop
<1>3. ASSUME NEW candidates \in SUBSET Peers, BeginSweep(candidates) PROVE Placed'
  BY <1>3, <1>b DEF BeginSweep
<1>4. ASSUME NEW p \in Peers, NEW m \in Reports(p), ProbeHandshake(p, m) PROVE Placed'
  BY <1>4, <1>b DEF ProbeHandshake
<1>5. ASSUME NEW p \in Peers, ProbeFails(p) PROVE Placed'
  BY <1>5, <1>b DEF ProbeFails
<1>6. ASSUME ObserveSweep \/ PersistFails PROVE Placed'
  BY <1>6, <1>b DEF ObserveSweep, PersistFails
<1>7. ASSUME Persist PROVE Placed'
  BY <1>0, <1>7 DEF Persist
<1>8. ASSUME ConfirmActivation PROVE Placed'
  <2>1. pc = "confirm" /\ pc' = "done" /\ running' = running /\ running \in Upgrades
    BY <1>8, <1>a DEF ConfirmActivation
  <2>2. tip' = ActivationHeight[running]
    BY <1>0, <1>8, <2>1, TargetFields, TableAssumption DEF ConfirmActivation
  <2> QED BY <2>1, <2>2
<1>9. ASSUME NEW r \in Upgrades, Attest(ConfirmationRecord(r)) PROVE Placed'
  <2>1. /\ OnlineAttest \/ pc = "down"
        /\ record' = ConfirmationRecord(r) /\ record' # NoRecord
        /\ UNCHANGED <<running, tip, pc>>
    BY <1>9, RecordNames DEF Attest
  <2> QED BY <1>0, <2>1
<1>10. ASSUME DeleteRecord PROVE Placed'
  BY <1>0, <1>10 DEF DeleteRecord
<1>11. ASSUME NEW r \in Upgrades, Deploy(r) PROVE Placed'
  BY <1>11, <1>b DEF Deploy
<1>12. ASSUME Grow \/ UNCHANGED vars PROVE Placed'
  BY <1>12, <1>b DEF Grow, vars
<1>13. ASSUME NEW h \in 0..MaxHeight, Reorg(h) PROVE Placed'
  BY <1>13, <1>b DEF Reorg
<1>14. Placed'
  BY <1>1, <1>2, <1>3, <1>4, <1>5, <1>6, <1>7, <1>8, <1>9, <1>10, <1>11, <1>12,
     <1>13 DEF Next
<1> QED BY <1>0, <1>14 DEF FloorInv

\* Below the first upgrade, and with no release running, the floor is 0.
LEMMA FloorDown == MinRemoteForHeight(0, 0) = 0
<1>1. \A v \in 0..0 : v = 0
  OBVIOUS
<1>2. (0 + 1)..0 = {}
  OBVIOUS
<1> QED BY <1>1, <1>2 DEF MinRemoteForHeight

\* The steps the promise does not see.
Unseen ==
    \/ \E candidates \in SUBSET Peers : BeginSweep(candidates)
    \/ \E p \in Peers : \E m \in Reports(p) : ProbeHandshake(p, m)
    \/ \E p \in Peers : ProbeFails(p)
    \/ ObserveSweep \/ PersistFails \/ Grow
    \/ \E h \in 0..MaxHeight : Reorg(h)
    \/ UNCHANGED vars

\* Every step of the observer is a step of the promise or is not to be seen: the
\* action of the promise that each action of the observer is.
LEMMA ActionPromise ==
    ASSUME FloorInv, FloorInv'
    PROVE  /\ \A readable \in BOOLEAN : Start(readable) => Promise!Boot(readable)
           /\ Stop => Promise!Halt
           /\ Persist => Promise!Decide
           /\ ConfirmActivation => Promise!Raise
           /\ \A r \in Upgrades : Attest(ConfirmationRecord(r)) => Promise!Operate
           /\ DeleteRecord => Promise!Operate
           /\ \A r \in Upgrades : Deploy(r) => Promise!Install(r)
           /\ Unseen => UNCHANGED Promise!vars
<1> USE DEF disk, gate, sweep, network, history
<1>0. TypeOK /\ TypeOK' /\ TipBefore /\ TipDown /\ WrittenFirst /\ TipDown'
  BY DEF FloorInv
<1>a. /\ installed \in Upgrades /\ installed' \in Upgrades /\ installed \in Nat \ {0}
      /\ (pc # "down" => running \in Upgrades /\ running # 0)
      /\ (pc = "down" => running = 0)
  <2>1. Upgrades \subseteq Nat \ {0}
    BY TableAssumption DEF Upgrades
  <2>2. installed \in Upgrades /\ installed' \in Upgrades
    BY <1>0 DEF TypeOK
  <2>3. /\ (pc # "down" => running \in Upgrades)
        /\ (pc = "down" => running = 0)
    BY <1>0, TableAssumption DEF TypeOK, Upgrades
  <2> QED BY <2>1, <2>2, <2>3
<1>b. /\ \A r \in Upgrades : Recorded = r <=> record = ConfirmationRecord(r)
      /\ \A r \in Upgrades : Recorded' = r <=> record' = ConfirmationRecord(r)
      /\ record' = NoRecord => Recorded' = 0
  <2>1. \A r \in Upgrades : Recorded = r <=> record = ConfirmationRecord(r)
    BY <1>0, RecordedValue
  <2>2. record' = NoRecord => Recorded' = 0
    BY DEF Recorded
  <2>3. ASSUME NEW r \in Upgrades PROVE Recorded' = r <=> record' = ConfirmationRecord(r)
    <3>1. record' = ConfirmationRecord(r) => Recorded' = r
      BY RecordNames DEF Recorded
    <3>2. ASSUME Recorded' = r PROVE record' = ConfirmationRecord(r)
      <4>1. record' # NoRecord
        BY <2>2, <3>2, RecordNames
      <4>2. PICK q \in Upgrades : record' = ConfirmationRecord(q)
        BY <4>1, <1>0 DEF TypeOK, Records
      <4>3. Recorded' = q
        BY <4>1, <4>2, RecordNames DEF Recorded
      <4> QED BY <3>2, <4>2, <4>3
    <3> QED BY <3>1, <3>2
  <2> QED BY <2>1, <2>2, <2>3
<1>c. pc = "down" => Floor = 0
  BY <1>0, <1>a, FloorDown DEF Floor, TipDown
<1>d. pc \in {"tick", "probing", "persist", "confirm"} => Floor = running - 1
  BY <1>0, <1>a, FloorBeforeActivation DEF Floor, TipBefore
\* Steps that leave the process, the tip, the record and the disk alone.
<1>e. ASSUME UNCHANGED <<installed, running, record, tip>>
      PROVE  UNCHANGED Promise!vars
  BY <1>e DEF Promise!vars, Floor, Recorded
<1>1. ASSUME NEW readable \in BOOLEAN, Start(readable) PROVE Promise!Boot(readable)
  <2>1. /\ running = 0 /\ running' = installed /\ UNCHANGED <<installed, record>>
        /\ tip' = InitialTip(installed, LoadConfirmation(installed, readable))
    BY <1>1, <1>a DEF Start
  <2>2. Floor' = IF CacheEnabled /\ readable /\ Recorded = installed
                 THEN installed ELSE installed - 1
    <3>1. LoadConfirmation(installed, readable)
            <=> CacheEnabled /\ readable /\ Recorded = installed
      BY <1>a, <1>b DEF LoadConfirmation
    <3>2. tip' = IF CacheEnabled /\ readable /\ Recorded = installed
                 THEN ActivationHeight[installed] ELSE ActivationHeight[installed] - 1
      BY <1>a, <2>1, <3>1, TargetFields DEF InitialTip
    <3>3. Floor' = MinRemoteForHeight(installed, tip')
      BY <2>1 DEF Floor
    <3> QED BY <1>a, <3>2, <3>3, FloorAtActivation, FloorBeforeActivation
  <2>3. Recorded' = Recorded
    BY <2>1 DEF Recorded
  <2> QED BY <2>1, <2>2, <2>3 DEF Promise!Boot
<1>2. ASSUME Stop PROVE Promise!Halt
  <2>1. running # 0 /\ running' = 0 /\ tip' = 0 /\ UNCHANGED <<installed, record>>
    BY <1>2, <1>a DEF Stop, Up
  <2>2. Floor' = 0 /\ Recorded' = Recorded
    BY <2>1, FloorDown DEF Floor, Recorded
  <2> QED BY <2>1, <2>2 DEF Promise!Halt
<1>3. ASSUME Persist PROVE Promise!Decide
  <2>1. /\ CacheEnabled /\ pc = "persist" /\ record' = ConfirmationRecord(running)
        /\ UNCHANGED <<installed, running, tip>>
    BY <1>3 DEF Persist
  <2>2. Floor' = Floor /\ Floor = running - 1
    BY <1>d, <2>1 DEF Floor
  <2>3. Recorded' = running /\ running # 0
    BY <1>a, <1>b, <2>1
  <2> QED BY <2>1, <2>2, <2>3 DEF Promise!Decide
<1>4. ASSUME ConfirmActivation PROVE Promise!Raise
  <2>1. /\ pc = "confirm" /\ running \in Upgrades /\ running # 0
        /\ UNCHANGED <<installed, running, record>>
    BY <1>4, <1>a DEF ConfirmActivation
  <2>2. tip' = ActivationHeight[running]
    BY <1>0, <1>4, <2>1, TargetFields DEF ConfirmActivation, TipBefore
  <2>3. Floor' = running /\ Floor = running - 1
    BY <1>d, <2>1, <2>2, FloorAtActivation DEF Floor
  <2>4. (Recorded = running \/ (OnlineAttest /\ Recorded # 0)) /\ Recorded' = Recorded
    <3>1. record # NoRecord => Recorded # 0
      BY <1>0, RecordNames DEF TypeOK, Records, Recorded
    <3> QED BY <1>0, <1>b, <2>1, <3>1 DEF WrittenFirst, Recorded
  <2> QED BY <2>1, <2>3, <2>4 DEF Promise!Raise
<1>5. ASSUME NEW r \in Upgrades, Attest(ConfirmationRecord(r)) PROVE Promise!Operate
  <2>1. /\ CacheEnabled /\ (OnlineAttest \/ pc = "down")
        /\ record' = ConfirmationRecord(installed)
        /\ UNCHANGED <<installed, running, tip>>
    BY <1>5 DEF Attest, Up
  <2>2. Floor' = Floor /\ Recorded' = installed /\ (OnlineAttest \/ running = 0)
    BY <1>a, <1>b, <2>1 DEF Floor
  <2> QED BY <2>1, <2>2 DEF Promise!Operate
<1>6. ASSUME DeleteRecord PROVE Promise!Operate
  <2>1. pc = "down" /\ record' = NoRecord /\ UNCHANGED <<installed, running, tip>>
    BY <1>6 DEF DeleteRecord, Up
  <2>2. Floor' = Floor /\ Recorded' = 0 /\ running = 0
    BY <1>a, <1>b, <2>1 DEF Floor
  <2> QED BY <2>1, <2>2 DEF Promise!Operate
<1>7. ASSUME NEW r \in Upgrades, Deploy(r) PROVE Promise!Install(r)
  <2>1. /\ AllowRollback \/ r > installed
        /\ installed' = r /\ UNCHANGED <<running, record, tip>>
    BY <1>7 DEF Deploy
  <2>2. Floor' = Floor /\ Recorded' = Recorded
    BY <2>1 DEF Floor, Recorded
  <2> QED BY <2>1, <2>2 DEF Promise!Install
<1>8. ASSUME Unseen PROVE UNCHANGED Promise!vars
  <2>1. UNCHANGED <<installed, running, record, tip>>
    BY <1>8 DEF Unseen, BeginSweep, ProbeHandshake, ProbeFails, ObserveSweep, PersistFails,
       Grow, Reorg, vars
  <2> QED BY <1>e, <2>1
<1> QED BY <1>1, <1>2, <1>3, <1>4, <1>5, <1>6, <1>7, <1>8

\* The observer does to the floor only what ProtocolFloor promises, for every table
\* of upgrades, set of peers and gate, with releases in both directions, every
\* failure, and attestation beside a stopped or a running seeder.
THEOREM ImplementsFloorHolds == Spec => ImplementsFloor
<1>1. Init => Promise!Init /\ FloorInv
  BY InitType, FloorDown
  DEF Init, Promise!Init, Floor, Recorded, FloorInv, TipBefore, TipDone, TipDown, WrittenFirst
<1>2. FloorInv /\ [Next]_vars => FloorInv'
  BY NextFloorInv
<1>3. FloorInv /\ FloorInv' /\ [Next]_vars => [Promise!Next]_(Promise!vars)
  BY ActionPromise DEF Next, Unseen, Promise!Next, Upgrades
<1> QED BY <1>1, <1>2, <1>3, PTL DEF Spec, ImplementsFloor, Promise!Spec
-----------------------------------------------------------------------------
(* Deployments.                                                            *)

\* When the documentation is right that a deployment does not move the floor: the
\* new release is the next one and the old one had confirmed its own target.
DeployKeepsFloorExactly ==
    Up /\ installed > running /\ record # ConfirmationRecord(installed)
        => (BootFloor = Floor
              <=> installed = running + 1 /\ IsActivationConfirmed(running, tip))

\* In every other case the start of the new release moves the floor, for every
\* activation table, with and without rollbacks and attestation.
THEOREM DeployKeepsFloorExactlyHolds == Spec => []DeployKeepsFloorExactly
<1>1. Init => FloorInv
  BY InitType DEF Init, FloorInv, TipBefore, TipDone, TipDown, WrittenFirst
<1>2. FloorInv /\ [Next]_vars => FloorInv'
  BY NextFloorInv
<1>3. FloorInv => DeployKeepsFloorExactly
  <2> SUFFICES ASSUME FloorInv, Up, installed > running, record # ConfirmationRecord(installed)
               PROVE  BootFloor = Floor
                        <=> installed = running + 1 /\ IsActivationConfirmed(running, tip)
    BY DEF DeployKeepsFloorExactly
  <2>1. /\ installed \in Upgrades /\ running \in Upgrades
        /\ installed \in Nat /\ running \in Nat /\ ActivationHeight[running] \in Nat
    BY TableAssumption DEF FloorInv, TypeOK, Upgrades, Up
  <2>2. BootFloor = installed - 1
    BY <2>1, BootFloorValue
  <2>3. pc # "done" => Floor = running - 1 /\ tip = ActivationHeight[running] - 1
    BY <2>1, FloorBeforeActivation DEF FloorInv, TypeOK, PCs, TipBefore, Floor, Up
  <2>4. pc = "done" => Floor = running /\ tip = ActivationHeight[running]
    BY <2>1, FloorAtActivation DEF FloorInv, TipDone, Floor
  <2>5. IsActivationConfirmed(running, tip) <=> pc = "done"
    BY <2>1, <2>3, <2>4, TargetFields DEF IsActivationConfirmed
  <2> HIDE DEF BootFloor, Floor
  <2> QED BY <2>1, <2>2, <2>3, <2>4, <2>5
<1> QED BY <1>1, <1>2, <1>3, PTL DEF Spec
-----------------------------------------------------------------------------
(* The safety half of EventuallyConfirmed: what a healthy environment      *)
(* brings about at each step.                                              *)

\* In the sweep under way every peer that is not Byzantine is ready or not yet
\* joined, and with all of them ready the sweep qualifies.
HealthySweep ==
    pc = "probing" =>
        /\ Qualifies(Cardinality(sampled_peers), Cardinality(sampled_peers \ Byzantine))
        /\ sampled_peers \ Byzantine \subseteq ready \cup pending

HealthyInv == TypeOK /\ StreakCounts /\ HealthySweep

\* A healthy sweep qualifies, whatever the Byzantine peers of its sample report.
LEMMA HealthyQualifies ==
    ASSUME HealthyInv, pc = "probing", pending = {}
    PROVE  Qualifies(Cardinality(sampled_peers), Cardinality(ready))
<1> DEFINE honest == sampled_peers \ Byzantine
<1>1. honest \subseteq ready /\ ready \subseteq Peers /\ honest \subseteq Peers
  BY DEF HealthyInv, HealthySweep, TypeOK
<1>2. IsFiniteSet(ready) /\ IsFiniteSet(honest)
  BY <1>1, PeersAssumption, FS_Subset
<1>3. /\ Cardinality(honest) <= Cardinality(ready)
      /\ Cardinality(honest) \in Nat /\ Cardinality(ready) \in Nat
  BY <1>1, <1>2, FS_Subset, FS_CardinalityType
<1>4. Qualifies(Cardinality(sampled_peers), Cardinality(honest))
  BY DEF HealthyInv, HealthySweep
<1>5. Cardinality(honest) * QUORUM_DENOMINATOR <= Cardinality(ready) * QUORUM_DENOMINATOR
  BY <1>3, TimesMonotone, GateAssumption
<1>6. Cardinality(sampled_peers) \in Nat
  BY PeersAssumption, FS_Subset, FS_CardinalityType DEF HealthyInv, TypeOK
<1> HIDE DEF honest
<1> DEFINE h == Cardinality(honest) * QUORUM_DENOMINATOR
           a == Cardinality(ready) * QUORUM_DENOMINATOR
           q == Cardinality(sampled_peers) * QUORUM_NUMERATOR
<1>7. h \in Nat /\ a \in Nat /\ q \in Nat /\ h >= q /\ h <= a
  BY <1>3, <1>4, <1>5, <1>6, GateAssumption DEF Qualifies
<1>8. Cardinality(sampled_peers) >= MIN_NETWORK_GROUPS
  BY <1>4 DEF Qualifies
<1> HIDE DEF h, a, q
<1>9. a >= q
  BY <1>7
<1> QED BY <1>8, <1>9 DEF Qualifies, a, q

\* A healthy step keeps the sweep under way healthy.
LEMMA NextHealthy ==
    ASSUME HealthyInv, [Next /\ ~Unhealthy]_vars
    PROVE  HealthyInv'
<1>0. TypeOK /\ StreakCounts /\ HealthySweep /\ [Next]_vars
  BY DEF HealthyInv
<1>1. TypeOK' /\ StreakCounts'
  BY <1>0, NextType, NextStreak
<1>2. HealthySweep'
  <2>1. CASE UNCHANGED vars
    BY <1>0, <2>1 DEF vars, HealthySweep
  <2>2. ASSUME NEW candidates \in SUBSET Peers, BeginSweep(candidates), ~Unhealthy
        PROVE  HealthySweep'
    BY <2>2 DEF BeginSweep, Unhealthy, HealthySweep
  <2>3. ASSUME NEW p \in Peers,
               (\E m \in Reports(p) : ProbeHandshake(p, m)) \/ ProbeFails(p), ~Unhealthy
        PROVE  HealthySweep'
    <3>1. /\ pc = "probing" /\ pc' = "probing" /\ p \in pending
          /\ pending' = pending \ {p} /\ sampled_peers' = sampled_peers
          /\ ready \subseteq ready'
      BY <2>3 DEF ProbeHandshake, ProbeFails
    <3>2. p \notin Byzantine => p \in ready'
      BY <2>3, <3>1 DEF Unhealthy
    <3> QED BY <1>0, <3>1, <3>2 DEF HealthySweep
  <2>4. CASE pc' # "probing"
    BY <2>4 DEF HealthySweep
  <2>5. CASE UNCHANGED <<pc, sampled_peers, pending, ready>>
    BY <1>0, <2>5 DEF HealthySweep
  <2> QED BY <2>1, <2>2, <2>3, <2>4, <2>5
      DEF Next, sweep, Start, Stop, ObserveSweep, Persist, PersistFails, ConfirmActivation,
          Attest, DeleteRecord, Deploy, Grow, Reorg
<1> QED BY <1>1, <1>2 DEF HealthyInv

\* The task comes nearer to confirming its target: no step shortens the streak,
\* a sweep lengthens it until it is as long as required, and then sends the task
\* to write the record, from where it can only go on to raise the floor.
Advances ==
    /\ streak' >= streak
    /\ pc = "probing" /\ pc' # "probing" =>
         /\ streak' = streak + 1 \/ streak' = REQUIRED_QUALIFYING_SWEEPS
         /\ streak' = REQUIRED_QUALIFYING_SWEEPS => pc' = "persist"
    /\ pc = "persist" => pc' \in {"persist", "confirm"}
    /\ pc = "confirm" => pc' \in {"confirm", "done"}
    /\ pc = "done" => pc' = "done"

\* From any moment between two sweeps at which the environment becomes healthy, with
\* whatever counter earlier failures left, every step brings the confirmation
\* nearer or leaves it where it is.  With the fairness of the task's steps this is
\* why EventuallyConfirmed holds.
THEOREM HealthyStepsAdvance ==
    TypeOK /\ StreakCounts /\ pc # "probing" /\ [][Next /\ ~Unhealthy]_vars
        => [][Advances]_vars
<1>1. TypeOK /\ StreakCounts /\ pc # "probing" => HealthyInv
  BY DEF HealthyInv, HealthySweep
<1>2. HealthyInv /\ [Next /\ ~Unhealthy]_vars => HealthyInv'
  BY NextHealthy
<1>3. HealthyInv /\ [Next /\ ~Unhealthy]_vars => [Advances]_vars
  <2> SUFFICES ASSUME HealthyInv, Next, ~Unhealthy PROVE Advances
    OBVIOUS
  <2>0. /\ pc \in PCs /\ streak \in Nat /\ streak <= REQUIRED_QUALIFYING_SWEEPS
        /\ REQUIRED_QUALIFYING_SWEEPS \in Nat \ {0}
    BY GateAssumption DEF HealthyInv, TypeOK
  <2>1. CASE ObserveSweep
    <3>1. pc = "probing" /\ pending = {}
      BY <2>1 DEF ObserveSweep
    <3>2. Qualifies(Cardinality(sampled_peers), Cardinality(ready))
      BY <3>1, HealthyQualifies
    <3>3. streak' = IF streak = REQUIRED_QUALIFYING_SWEEPS THEN streak ELSE streak + 1
      BY <2>1, <3>2 DEF ObserveSweep, Counted
    <3>4. StreakCounts' /\ qualifying_sweeps' \in Nat
      BY NextStreak, NextType, GateAssumption DEF HealthyInv, TypeOK
    <3>5. streak' = REQUIRED_QUALIFYING_SWEEPS => pc' = "persist"
      BY <2>0, <2>1, <3>4 DEF ObserveSweep, StreakCounts
    <3> QED BY <2>0, <3>1, <3>3, <3>5 DEF Advances
  <2>2. CASE Stop
    BY <2>2 DEF Stop, Up, Unhealthy
  <2>3. CASE PersistFails
    BY <2>3 DEF PersistFails, Unhealthy
  <2>4. CASE ~ObserveSweep /\ ~Stop /\ ~PersistFails
    <3>1. streak' = streak
      BY <2>4 DEF Next, history, Start, BeginSweep, ProbeHandshake, ProbeFails, Persist,
         ConfirmActivation, Attest, DeleteRecord, Deploy, Grow, Reorg
    <3>2. /\ pc = "probing" => pc' = "probing"
          /\ pc = "persist" => pc' \in {"persist", "confirm"}
          /\ pc = "confirm" => pc' \in {"confirm", "done"}
          /\ pc = "done" => pc' = "done"
      BY <2>4 DEF Next, Start, BeginSweep, ProbeHandshake, ProbeFails, Persist,
         ConfirmActivation, Attest, DeleteRecord, Deploy, Grow, Reorg
    <3> QED BY <2>0, <3>1, <3>2 DEF Advances
  <2> QED BY <2>1, <2>2, <2>3, <2>4
<1> QED BY <1>1, <1>2, <1>3, PTL
-----------------------------------------------------------------------------
(* FloorServing: the promise composed with the address cache, for every    *)
(* number of upgrades and peers.  The variables are those of FloorServing, *)
(* which knows nothing of the observer; cache_pc is its pc.                *)

VARIABLES floor, decided, book, cache_pc, minimum_version

Serving == INSTANCE FloorServing WITH pc <- cache_pc

ServingTypes ==
    /\ installed \in Nat \ {0} /\ running \in Nat /\ floor \in Nat /\ decided \in Nat
    /\ minimum_version \in Nat /\ held \in Nat
    /\ book \in [Peers -> Int] /\ snapshot \subseteq Peers \X Int

\* A running process is at its own upgrade, which is then on record, or one below.
OnRecord ==
    /\ decided # 0 => CacheEnabled
    /\ running = 0 => floor = 0
    /\ running # 0 => \/ floor = running /\ decided = running
                      \/ floor = running - 1

\* The cache task runs only in a process, and the floor of a refresh under way is
\* one the process has had, and not below what DNS is held to.
UnderWay ==
    /\ cache_pc \in {"down", "sleep", "classify"}
    /\ cache_pc = "down" <=> running = 0
    /\ minimum_version <= floor
    /\ cache_pc = "classify" => held <= minimum_version

\* What DNS is held to is no more than the floor there is, or will be after the
\* next start.
Owed == held <= IF running = 0 THEN Serving!NextFloor ELSE floor

ServingInv == ServingTypes /\ ForwardOnly /\ OnRecord /\ UnderWay /\ Owed /\ FloorHolds

\* It holds of a first installation.
LEMMA ServingInit == Serving!Init => ServingInv
<1> SUFFICES ASSUME Serving!Init PROVE ServingInv
  OBVIOUS
<1>1. ServingTypes /\ ForwardOnly /\ OnRecord /\ UnderWay /\ FloorHolds
  BY
  DEF Serving!Init, Serving!CacheInit, Serving!Promise!Init, ServingTypes, ForwardOnly,
      OnRecord, UnderWay, FloorHolds, Serving!NoBook, Serving!NoVersion
<1>2. Owed
  BY DEF Serving!Init, Serving!CacheInit, Serving!Promise!Init, Owed, Serving!NextFloor
<1> QED BY <1>1, <1>2 DEF ServingInv

\* A step of the promise, one clause per action: what it does to the release,
\* the floor and the record.
LEMMA PromiseKept ==
    ASSUME ~AllowRollback, ServingTypes, ForwardOnly, OnRecord,
           \/ \E readable \in BOOLEAN : Serving!Promise!Boot(readable)
           \/ Serving!Promise!Halt \/ Serving!Promise!Decide
           \/ Serving!Promise!Raise \/ Serving!Promise!Operate
           \/ \E r \in 1..N : Serving!Promise!Install(r)
           \/ UNCHANGED Serving!promise
    PROVE  /\ installed' \in Nat \ {0} /\ running' \in Nat /\ floor' \in Nat /\ decided' \in Nat
           /\ ForwardOnly' /\ OnRecord'
<1> USE DEF ServingTypes, ForwardOnly, OnRecord
<1>1. CASE \E readable \in BOOLEAN : Serving!Promise!Boot(readable)
  BY <1>1 DEF Serving!Promise!Boot
<1>2. CASE Serving!Promise!Halt
  BY <1>2 DEF Serving!Promise!Halt
<1>3. CASE Serving!Promise!Decide
  BY <1>3 DEF Serving!Promise!Decide
<1>4. CASE Serving!Promise!Raise
  BY <1>4 DEF Serving!Promise!Raise
<1>5. CASE Serving!Promise!Operate
  BY <1>5 DEF Serving!Promise!Operate
<1>6. CASE \E r \in 1..N : Serving!Promise!Install(r)
  <2>1. PICK r \in 1..N : Serving!Promise!Install(r)
    BY <1>6
  <2>2. r \in Nat \ {0} /\ r > installed /\ installed' = r /\ UNCHANGED <<running, floor, decided>>
    BY <2>1 DEF Serving!Promise!Install
  <2> QED BY <2>2
<1>7. CASE UNCHANGED Serving!promise
  BY <1>7 DEF Serving!promise
<1> QED BY <1>1, <1>2, <1>3, <1>4, <1>5, <1>6, <1>7

\* Every step keeps the invariant: a rise is on disk before DNS is held to it, so
\* that whatever ends the process the next one starts no lower.
LEMMA ServingNext ==
    ASSUME ~AllowRollback, ServingInv, [Serving!Next]_(Serving!vars)
    PROVE  ServingInv'
<1>0. ServingTypes /\ ForwardOnly /\ OnRecord /\ UnderWay /\ Owed /\ FloorHolds
  BY DEF ServingInv
<1>a. /\ installed' \in Nat \ {0} /\ running' \in Nat /\ floor' \in Nat /\ decided' \in Nat
      /\ ForwardOnly' /\ OnRecord'
  BY <1>0, PromiseKept
  DEF Serving!Next, Serving!Boot, Serving!Halt, Serving!Handshake, Serving!ReadFloor,
      Serving!Refresh, Serving!Decide, Serving!Operate, Serving!Install, Serving!vars,
      Serving!promise
<1>b. installed - 1 <= Serving!NextFloor /\ Serving!NextFloor <= installed /\ Serving!NextFloor \in Nat
  BY <1>0 DEF Serving!NextFloor, ServingTypes
<1>c. ASSUME UNCHANGED snapshot, held' \in Nat, held' <= held PROVE FloorHolds'
  BY <1>0, <1>c DEF FloorHolds, ServingTypes
<1>1. ASSUME NEW readable \in BOOLEAN, Serving!Boot(readable) PROVE ServingInv'
  <2>1. /\ running = 0 /\ running' = installed /\ UNCHANGED <<installed, decided>>
        /\ floor' = IF CacheEnabled /\ readable /\ decided = installed
                    THEN installed ELSE installed - 1
    BY <1>1 DEF Serving!Boot, Serving!CacheStarts, Serving!Promise!Boot
  <2>2. /\ book' = Serving!NoBook /\ cache_pc' = "sleep" /\ minimum_version' = 0 /\ snapshot' = {}
        /\ held' = IF readable THEN held ELSE Serving!AtMost(held, floor')
    BY <1>1 DEF Serving!Boot, Serving!CacheStarts
  <2>3. held' \in Nat /\ held' <= floor'
    <3>1. CASE readable
      <4>1. held <= Serving!NextFloor /\ floor' = Serving!NextFloor
        BY <1>0, <2>1, <3>1 DEF Owed, Serving!NextFloor
      <4> QED BY <1>0, <2>2, <3>1, <4>1 DEF ServingTypes
    <3>2. CASE ~readable
      BY <1>0, <1>a, <2>2, <3>2 DEF Serving!AtMost, ServingTypes
    <3> QED BY <3>1, <3>2
  <2>4. ServingTypes'
    BY <1>a, <2>2, <2>3 DEF ServingTypes, Serving!NoBook, Serving!NoVersion
  <2>5. UnderWay' /\ Owed' /\ FloorHolds'
    BY <1>0, <1>a, <2>1, <2>2, <2>3 DEF UnderWay, Owed, FloorHolds, ServingTypes
  <2> QED BY <1>a, <2>4, <2>5 DEF ServingInv
<1>2. ASSUME Serving!Halt PROVE ServingInv'
  <2>1. /\ running # 0 /\ running' = 0 /\ floor' = 0 /\ UNCHANGED <<installed, decided>>
        /\ book' = Serving!NoBook /\ cache_pc' = "down" /\ minimum_version' = 0 /\ snapshot' = {}
        /\ held' = held
    BY <1>2 DEF Serving!Halt, Serving!CacheEnds, Serving!Promise!Halt
  <2>2. held <= Serving!NextFloor
    <3>1. held <= floor
      BY <1>0, <2>1 DEF Owed
    <3>2. CASE running < installed
      BY <1>0, <1>b, <2>1, <3>1, <3>2 DEF OnRecord, ServingTypes
    <3>3. CASE running = installed
      BY <1>0, <2>1, <3>1, <3>3 DEF OnRecord, ServingTypes, Serving!NextFloor
    <3> QED BY <1>0, <3>2, <3>3 DEF ForwardOnly, ServingTypes
  <2>3. Serving!NextFloor' = Serving!NextFloor
    BY <2>1 DEF Serving!NextFloor
  <2>4. ServingTypes' /\ UnderWay' /\ FloorHolds'
    BY <1>0, <1>a, <2>1 DEF ServingTypes, UnderWay, FloorHolds, Serving!NoBook, Serving!NoVersion
  <2>5. Owed'
    BY <2>1, <2>2, <2>3 DEF Owed
  <2> QED BY <1>a, <2>4, <2>5 DEF ServingInv
<1>3. ASSUME NEW p \in Peers, NEW v \in 0..N, Serving!Handshake(p, v) PROVE ServingInv'
  <2>1. UNCHANGED <<installed, running, floor, decided, cache_pc, minimum_version, snapshot, held>>
    BY <1>3 DEF Serving!Handshake, Serving!promise
  <2>2. book' \in [Peers -> Int]
    BY <1>0, <1>3 DEF Serving!Handshake, ServingTypes
  <2>3. ServingTypes' /\ UnderWay' /\ FloorHolds' /\ Owed'
    BY <1>0, <2>1, <2>2 DEF ServingTypes, UnderWay, FloorHolds, Owed, Serving!NextFloor
  <2> QED BY <1>a, <2>3 DEF ServingInv
<1>4. ASSUME Serving!ReadFloor PROVE ServingInv'
  <2>1. /\ UNCHANGED <<installed, running, floor, decided, book, snapshot, held>>
        /\ cache_pc = "sleep" /\ cache_pc' = "classify" /\ minimum_version' = floor
    BY <1>4 DEF Serving!ReadFloor, Serving!promise
  <2>2. ServingTypes' /\ UnderWay' /\ FloorHolds' /\ Owed'
    BY <1>0, <2>1 DEF ServingTypes, UnderWay, FloorHolds, Owed
  <2> QED BY <1>a, <2>2 DEF ServingInv
<1>5. ASSUME Serving!Refresh PROVE ServingInv'
  <2>1. /\ UNCHANGED <<installed, running, floor, decided, book>>
        /\ cache_pc = "classify" /\ cache_pc' = "sleep" /\ minimum_version' = 0
        /\ held' = Serving!AtLeast(held, minimum_version)
        /\ snapshot' = {<<p, book[p]>> :
              p \in {q \in Peers : book[q] # Serving!NoVersion /\ book[q] >= minimum_version}}
    BY <1>5 DEF Serving!Refresh, Serving!promise
  <2>2. held' = minimum_version
    BY <1>0, <2>1 DEF Serving!AtLeast, UnderWay, ServingTypes
  <2>3. FloorHolds' /\ snapshot' \subseteq Peers \X Int
    BY <1>0, <2>1, <2>2 DEF FloorHolds, ServingTypes
  <2>4. ServingTypes' /\ UnderWay' /\ Owed'
    BY <1>0, <2>1, <2>2, <2>3 DEF ServingTypes, UnderWay, Owed
  <2> QED BY <1>a, <2>3, <2>4 DEF ServingInv
<1>6. ASSUME Serving!Decide PROVE ServingInv'
  <2>1. /\ UNCHANGED <<installed, running, book, cache_pc, minimum_version, snapshot, held>>
        /\ running # 0 /\ floor' >= floor
    BY <1>0, <1>6
    DEF Serving!Decide, Serving!cache, Serving!Promise!Decide, Serving!Promise!Raise,
        ServingTypes
  <2>2. ServingTypes' /\ UnderWay' /\ FloorHolds' /\ Owed'
    BY <1>0, <1>a, <2>1 DEF ServingTypes, UnderWay, FloorHolds, Owed
  <2> QED BY <1>a, <2>2 DEF ServingInv
<1>7. ASSUME Serving!Operate PROVE ServingInv'
  <2>1. /\ UNCHANGED <<installed, running, floor, book, cache_pc, minimum_version, snapshot>>
        /\ running = 0 /\ held' = Serving!AtMost(held, Serving!NextFloor')
    BY <1>7 DEF Serving!Operate, Serving!Released, Serving!cache, Serving!Promise!Operate
  <2>2. Serving!NextFloor' \in Nat
    BY <1>0, <2>1 DEF Serving!NextFloor, ServingTypes
  <2>3. held' \in Nat /\ held' <= held /\ held' <= Serving!NextFloor'
    BY <1>0, <2>1, <2>2 DEF Serving!AtMost, ServingTypes
  <2>4. FloorHolds' /\ Owed'
    BY <1>c, <2>1, <2>3 DEF Owed
  <2>5. ServingTypes' /\ UnderWay'
    BY <1>0, <1>a, <2>1, <2>3 DEF ServingTypes, UnderWay
  <2> QED BY <1>a, <2>4, <2>5 DEF ServingInv
<1>8. ASSUME NEW r \in 1..N, Serving!Install(r) PROVE ServingInv'
  <2>1. /\ UNCHANGED <<running, floor, decided, book, cache_pc, minimum_version, snapshot, held>>
        /\ installed' = r /\ r > installed /\ r \in Nat
    BY <1>8 DEF Serving!Install, Serving!cache, Serving!Promise!Install
  <2>2. Serving!NextFloor' >= r - 1 /\ Serving!NextFloor' \in Nat
    BY <1>a, <2>1 DEF Serving!NextFloor
  <2>3. Serving!NextFloor <= Serving!NextFloor'
    BY <1>0, <1>b, <2>1, <2>2 DEF ServingTypes
  <2>4. Owed'
    BY <1>0, <1>b, <2>1, <2>2, <2>3 DEF Owed, ServingTypes
  <2>5. ServingTypes' /\ UnderWay' /\ FloorHolds'
    BY <1>0, <1>a, <2>1 DEF ServingTypes, UnderWay, FloorHolds
  <2> QED BY <1>a, <2>4, <2>5 DEF ServingInv
<1>9. ASSUME UNCHANGED Serving!vars PROVE ServingInv'
  <2>1. ServingTypes' /\ UnderWay' /\ FloorHolds' /\ Owed'
    BY <1>0, <1>9 DEF Serving!vars, ServingTypes, UnderWay, FloorHolds, Owed, Serving!NextFloor
  <2> QED BY <1>a, <2>1 DEF ServingInv
<1> QED BY <1>1, <1>2, <1>3, <1>4, <1>5, <1>6, <1>7, <1>8, <1>9 DEF Serving!Next
-----------------------------------------------------------------------------
\* A floor that DNS has been held to outlives the process, whenever it ends and
\* whatever release follows: the cache enforces a floor only after the observer
\* has raised it, and the observer raises it only after the record is on disk.
THEOREM FloorHoldsAlways ==
    ASSUME ~AllowRollback
    PROVE  Serving!Spec => []FloorHolds
<1>1. Serving!Init => ServingInv
  BY ServingInit
<1>2. ServingInv /\ [Serving!Next]_(Serving!vars) => ServingInv'
  BY ServingNext
<1>3. ServingInv => FloorHolds
  BY DEF ServingInv
<1> QED BY <1>1, <1>2, <1>3, PTL DEF Serving!Spec
-----------------------------------------------------------------------------
(* The observer and the cache in one process: each action of the observer  *)
(* with what it does to the cache, beside the steps of the cache.          *)

\* The cache reads the floor that the observer's tip says, and the next start the
\* decision that its record says.
Linked == floor = Floor /\ decided = Recorded

SeederInit == Init /\ Serving!CacheInit /\ Linked

ObserverStep ==
    \/ \E readable \in BOOLEAN : Start(readable) /\ Serving!CacheStarts(readable)
    \/ Stop /\ Serving!CacheEnds
    \/ /\ DeleteRecord \/ \E r \in Upgrades : Attest(ConfirmationRecord(r))
       /\ Serving!Released
    \/ /\ Unseen \/ Persist \/ ConfirmActivation \/ \E r \in Upgrades : Deploy(r)
       /\ UNCHANGED <<Serving!cache, held>>

CacheStep ==
    /\ UNCHANGED vars
    /\ \/ \E p \in Peers, v \in 0..N : Serving!Handshake(p, v)
       \/ Serving!ReadFloor
       \/ Serving!Refresh

SeederNext == (ObserverStep \/ CacheStep) /\ Linked'

SeederSpec == SeederInit /\ [][SeederNext]_<<vars, Serving!vars>>

\* The observer in the seeder is the observer.
LEMMA SeederObserves ==
    ASSUME [SeederNext]_<<vars, Serving!vars>>
    PROVE  [Next]_vars
BY DEF SeederNext, ObserverStep, CacheStep, Unseen, Next

\* Every step of the seeder is one of FloorServing: the step of the promise that
\* the observer takes, with what it does to the cache.
LEMMA SeederServes ==
    ASSUME ~OnlineAttest, FloorInv, FloorInv', Linked, [SeederNext]_<<vars, Serving!vars>>
    PROVE  [Serving!Next]_(Serving!vars)
<1>1. CASE UNCHANGED <<vars, Serving!vars>>
  BY <1>1
<1>2. CASE SeederNext /\ CacheStep
  BY <1>2 DEF CacheStep, Serving!Next
<1>3. CASE SeederNext /\ ObserverStep
  <2>0. Linked /\ Linked'
    BY <1>3 DEF SeederNext
  <2>1. ASSUME NEW readable \in BOOLEAN, Start(readable), Serving!CacheStarts(readable)
        PROVE  Serving!Boot(readable)
    <3>1. Promise!Boot(readable)
      BY <2>1, ActionPromise
    <3>2. Serving!Promise!Boot(readable)
      BY <2>0, <3>1 DEF Promise!Boot, Serving!Promise!Boot, Linked
    <3> QED BY <2>1, <3>2 DEF Serving!Boot
  <2>2. ASSUME Stop, Serving!CacheEnds PROVE Serving!Halt
    <3>1. Promise!Halt
      BY <2>2, ActionPromise
    <3>2. Serving!Promise!Halt
      BY <2>0, <3>1 DEF Promise!Halt, Serving!Promise!Halt, Linked
    <3> QED BY <2>2, <3>2 DEF Serving!Halt
  <2>3. ASSUME DeleteRecord \/ \E r \in Upgrades : Attest(ConfirmationRecord(r)),
               Serving!Released
        PROVE  Serving!Operate
    <3>1. Promise!Operate
      BY <2>3, ActionPromise
    <3>2. Serving!Promise!Operate
      BY <2>0, <3>1 DEF Promise!Operate, Serving!Promise!Operate, Linked
    <3> QED BY <2>3, <3>2 DEF Serving!Operate
  <2>4. ASSUME Persist \/ ConfirmActivation, UNCHANGED <<Serving!cache, held>>
        PROVE  Serving!Decide
    <3>1. Promise!Decide \/ Promise!Raise
      BY <2>4, ActionPromise
    <3>2. Serving!Promise!Decide \/ Serving!Promise!Raise
      BY <2>0, <3>1
      DEF Promise!Decide, Promise!Raise, Serving!Promise!Decide, Serving!Promise!Raise, Linked
    <3> QED BY <2>4, <3>2 DEF Serving!Decide
  <2>5. ASSUME NEW r \in Upgrades, Deploy(r), UNCHANGED <<Serving!cache, held>>
        PROVE  Serving!Install(r)
    <3>1. Promise!Install(r)
      BY <2>5, ActionPromise
    <3>2. Serving!Promise!Install(r)
      BY <2>0, <3>1 DEF Promise!Install, Serving!Promise!Install, Linked
    <3> QED BY <2>5, <3>2 DEF Serving!Install
  <2>6. ASSUME Unseen, UNCHANGED <<Serving!cache, held>> PROVE UNCHANGED Serving!vars
    <3>1. UNCHANGED Promise!vars
      BY <2>6, ActionPromise
    <3>2. UNCHANGED <<installed, running, floor, decided>>
      BY <2>0, <3>1 DEF Promise!vars, Linked
    <3> QED BY <2>6, <3>2 DEF Serving!cache, Serving!vars
  <2> QED BY <1>3, <2>1, <2>2, <2>3, <2>4, <2>5, <2>6 DEF ObserverStep, Serving!Next, Upgrades
<1> QED BY <1>1, <1>2, <1>3 DEF SeederNext

\* The observer, with its sweeps, its gate and its record, and the cache beside it
\* do together what FloorServing says of the promise and the cache.
THEOREM SeederImplementsServing ==
    ASSUME ~OnlineAttest
    PROVE  SeederSpec => Serving!Spec
<1>1. SeederInit => Serving!Init /\ FloorInv /\ Linked
  <2> SUFFICES ASSUME SeederInit PROVE Serving!Init /\ FloorInv /\ Linked
    OBVIOUS
  <2>1. Promise!Init /\ FloorInv
    BY InitType, FloorDown
    DEF SeederInit, Init, Promise!Init, Floor, Recorded, FloorInv, TipBefore, TipDone,
        TipDown, WrittenFirst
  <2> QED BY <2>1 DEF SeederInit, Promise!Init, Serving!Promise!Init, Serving!Init, Linked
<1>2. FloorInv /\ Linked /\ [SeederNext]_<<vars, Serving!vars>> => FloorInv' /\ Linked'
  <2> SUFFICES ASSUME FloorInv, Linked, [SeederNext]_<<vars, Serving!vars>>
               PROVE  FloorInv' /\ Linked'
    OBVIOUS
  <2>1. FloorInv'
    BY SeederObserves, NextFloorInv
  <2>2. CASE UNCHANGED <<vars, Serving!vars>>
    BY <2>1, <2>2 DEF vars, Serving!vars, Linked, Floor, Recorded
  <2> QED BY <2>1, <2>2 DEF SeederNext
<1>3. FloorInv /\ FloorInv' /\ Linked /\ [SeederNext]_<<vars, Serving!vars>>
        => [Serving!Next]_(Serving!vars)
  BY SeederServes
<1> QED BY <1>1, <1>2, <1>3, PTL DEF SeederSpec, Serving!Spec

\* End to end: of a seeder whose floor is raised by sweeps over peers that lie,
\* fail and time out, whose writes fail and which crashes at any step, no snapshot
\* ever holds a peer below a floor that DNS has been held to.
THEOREM SeederFloorHolds ==
    ASSUME ~OnlineAttest, ~AllowRollback
    PROVE  SeederSpec => []FloorHolds
BY SeederImplementsServing, FloorHoldsAlways, PTL

\* A refresh leaves out the peers below the release's own upgrade only once the
\* task has confirmed it.
ConfirmedRefresh == Up /\ minimum_version = running => pc = "done"

\* A refresh drops the peers below the running release's own upgrade from DNS only
\* if an operator attested the upgrade or its activation block is in the best
\* chain.
NoFalseRemoval ==
    ByzantineMinority /\ Up /\ minimum_version = running
        => running \in attested \/ chain >= ActivationHeight[running]

\* With a minority of Byzantine groups DNS loses no peer to an upgrade that has not
\* activated, however the refresh, the sweeps, crashes, restarts, failed writes and
\* reorganisations interleave.
THEOREM NoFalseRemovalHolds == SeederSpec => []NoFalseRemoval
<1>1. SeederInit => Init /\ FloorInv /\ Linked /\ ConfirmedRefresh
  BY InitType
  DEF SeederInit, Init, FloorInv, TipBefore, TipDone, TipDown, WrittenFirst,
      ConfirmedRefresh, Up
<1>2. FloorInv /\ Linked /\ ConfirmedRefresh /\ [SeederNext]_<<vars, Serving!vars>>
        => FloorInv' /\ Linked' /\ ConfirmedRefresh'
  <2> SUFFICES ASSUME FloorInv, Linked, ConfirmedRefresh, [SeederNext]_<<vars, Serving!vars>>
               PROVE  FloorInv' /\ Linked' /\ ConfirmedRefresh'
    OBVIOUS
  <2>1. FloorInv' /\ [Next]_vars
    BY SeederObserves, NextFloorInv
  <2>2. Linked'
    <3>1. CASE UNCHANGED <<vars, Serving!vars>>
      BY <3>1 DEF vars, Serving!vars, Linked, Floor, Recorded
    <3> QED BY <3>1 DEF SeederNext
  <2>3. /\ installed \in Upgrades /\ (pc # "down" => running \in Upgrades)
        /\ Upgrades \subseteq Nat \ {0}
    BY TableAssumption DEF FloorInv, TypeOK, Upgrades
  <2>4. ConfirmedRefresh'
    <3>1. CASE Stop
      BY <3>1 DEF Stop, ConfirmedRefresh, Up
    <3>2. CASE \E readable \in BOOLEAN : Start(readable) /\ Serving!CacheStarts(readable)
      <4>1. running' = installed /\ minimum_version' = 0
        BY <3>2 DEF Start, Serving!CacheStarts
      <4> QED BY <2>3, <4>1 DEF ConfirmedRefresh
    <3>3. CASE /\ ~Stop /\ ObserverStep
               /\ ~\E readable \in BOOLEAN : Start(readable) /\ Serving!CacheStarts(readable)
      <4>1. UNCHANGED minimum_version
        BY <3>3 DEF ObserverStep, Serving!Released, Serving!cache
      <4>2. UNCHANGED running /\ (pc = "down" <=> pc' = "down") /\ (pc = "done" => pc' = "done")
        BY <3>3
        DEF ObserverStep, Unseen, BeginSweep, ProbeHandshake, ProbeFails, ObserveSweep, Persist,
            PersistFails, ConfirmActivation, Attest, DeleteRecord, Deploy, Grow, Reorg, vars
      <4> QED BY <4>1, <4>2 DEF ConfirmedRefresh, Up
    <3>4. CASE CacheStep
      <4>1. UNCHANGED <<running, pc>>
        BY <3>4 DEF CacheStep, vars
      <4>2. CASE Serving!ReadFloor
        <5>1. minimum_version' = Floor
          BY <4>2 DEF Serving!ReadFloor, Linked
        <5>2. pc \in {"tick", "probing", "persist", "confirm"} => Floor = running - 1
          BY <2>3, FloorBeforeActivation DEF FloorInv, TipBefore, Floor
        <5>3. ASSUME Up, pc # "done" PROVE minimum_version' # running
          <6>1. Floor = running - 1 /\ running \in Nat
            BY <2>3, <5>2, <5>3 DEF FloorInv, TypeOK, PCs, Up
          <6> QED BY <5>1, <6>1
        <5> QED BY <4>1, <5>3 DEF ConfirmedRefresh, Up
      <4>3. CASE Serving!Refresh
        <5>1. minimum_version' = 0
          BY <4>3 DEF Serving!Refresh
        <5> QED BY <2>3, <4>1, <5>1 DEF ConfirmedRefresh, Up
      <4>4. CASE \E p \in Peers, v \in 0..N : Serving!Handshake(p, v)
        BY <4>1, <4>4 DEF Serving!Handshake, ConfirmedRefresh, Up
      <4> QED BY <3>4, <4>2, <4>3, <4>4 DEF CacheStep
    <3>5. CASE UNCHANGED <<vars, Serving!vars>>
      BY <3>5 DEF vars, Serving!vars, ConfirmedRefresh, Up
    <3> QED BY <3>1, <3>2, <3>3, <3>4, <3>5 DEF SeederNext
  <2> QED BY <2>1, <2>2, <2>4
<1>3. FloorInv /\ ConfirmedRefresh /\ NoFalseConfirmation => NoFalseRemoval
  <2> SUFFICES ASSUME FloorInv, ConfirmedRefresh, NoFalseConfirmation,
                      ByzantineMinority, Up, minimum_version = running
               PROVE  running \in attested \/ chain >= ActivationHeight[running]
    BY DEF NoFalseRemoval
  <2>1. pc = "done" /\ running \in Upgrades
    BY TableAssumption DEF ConfirmedRefresh, FloorInv, TypeOK, Upgrades, Up
  <2>2. tip = ActivationHeight[running] /\ ActivationHeight[running] \in Nat
    BY <2>1, TableAssumption DEF FloorInv, TipDone
  <2>3. IsActivationConfirmed(running, tip)
    BY <2>1, <2>2, TargetFields DEF IsActivationConfirmed
  <2> QED BY <2>3 DEF NoFalseConfirmation
<1>4. [SeederNext]_<<vars, Serving!vars>> => [Next]_vars
  BY SeederObserves
<1>5. SeederSpec => Spec
  BY <1>1, <1>4, PTL DEF SeederSpec, Spec
<1> QED BY <1>1, <1>2, <1>3, <1>5, NoFalseConfirmationHolds, PTL DEF SeederSpec
=============================================================================
