------------------------- MODULE ActivationObserver -------------------------
(***************************************************************************)
(* Network-upgrade activation for one network of one seeder: the observer  *)
(* task of src/crawl/activation.rs, the chain tip it advances              *)
(* (src/crawl/chain_tip.rs), the confirmation record it keeps on disk and  *)
(* the operator commands that touch that record.  The environment is the   *)
(* chain, the peers that answer probes, crashes and releases.              *)
(*                                                                         *)
(* Upgrade u is the u-th entry of zebra-chain's activation table and its   *)
(* protocol version is u; a release r is a binary compiled with the first  *)
(* r entries, so its newest compiled target is upgrade r.                  *)
(***************************************************************************)
EXTENDS Integers, FiniteSets

CONSTANTS
    Peers,               \* peers the crawler may know
    Groups,              \* network groups: IPv4 /16 or IPv6 /32 prefixes
    GroupOf,             \* network_group: the group of a peer's address
    Byzantine,           \* peers whose handshakes may report anything
    ActivationHeight,    \* the activation table: 1..N -> height
    N,                   \* upgrades any release will ever compile in
    MaxBlockReorgHeight, \* zebra-chain's MAX_BLOCK_REORG_HEIGHT
    MaxHeight,           \* bound: the chain grows no further
    MIN_NETWORK_GROUPS, MAX_NETWORK_GROUPS_PER_SWEEP,
    QUORUM_NUMERATOR, QUORUM_DENOMINATOR,
    REQUIRED_QUALIFYING_SWEEPS,
    U8_MAX,              \* u8::MAX, where the sweep counter saturates
    CacheEnabled,        \* whether confirmation_path is Some
    AllowRollback,       \* whether an older release may be installed again
    OnlineAttest,        \* whether attest-activation may run beside a seeder
    NoRecord             \* the confirmation file does not exist

Upgrades == 1..N
ByzantineGroups == {GroupOf[p] : p \in Byzantine}

ASSUME PeersAssumption ==
    /\ IsFiniteSet(Peers) /\ IsFiniteSet(Groups)
    /\ GroupOf \in [Peers -> Groups]
    /\ Byzantine \subseteq Peers
ASSUME TableAssumption ==
    /\ N \in Nat \ {0}
    /\ ActivationHeight \in [Upgrades -> Nat \ {0}]
    /\ \A u, v \in Upgrades : u < v => ActivationHeight[u] < ActivationHeight[v]
    /\ MaxBlockReorgHeight \in Nat
    /\ MaxHeight \in Nat
ASSUME GateAssumption ==
    /\ MIN_NETWORK_GROUPS \in Nat \ {0}
    /\ MAX_NETWORK_GROUPS_PER_SWEEP \in Nat
    /\ QUORUM_NUMERATOR \in Nat \ {0} /\ QUORUM_DENOMINATOR \in Nat \ {0}
    /\ U8_MAX \in Nat
    /\ REQUIRED_QUALIFYING_SWEEPS \in 1..U8_MAX
ASSUME SwitchAssumption ==
    {CacheEnabled, AllowRollback, OnlineAttest} \subseteq BOOLEAN

-----------------------------------------------------------------------------
(* The compiled target and its record.                                     *)

\* zebra-network's Version::min_remote_for_height in release r: the version of
\* the newest compiled upgrade active at height h, 0 below the first of them.
MinRemoteForHeight(r, h) ==
    CHOOSE v \in 0..r :
        /\ v = 0 \/ ActivationHeight[v] <= h
        /\ \A w \in (v + 1)..r : h < ActivationHeight[w]

ActivationTarget(r) ==
    LET h == ActivationHeight[r] IN
    [activation_height     |-> h,
     confirmation_height   |-> h + MaxBlockReorgHeight,
     pre_activation_height |-> IF h = 0 THEN 0 ELSE h - 1,
     required_version      |-> MinRemoteForHeight(r, h)]

ConfirmationRecord(r) ==
    LET target == ActivationTarget(r) IN
    [activation_height        |-> target.activation_height,
     confirmation_height      |-> target.confirmation_height,
     minimum_protocol_version |-> target.required_version]

ASSUME NoRecordAssumption == \A r \in Upgrades : ConfirmationRecord(r) # NoRecord

Records == {NoRecord} \cup {ConfirmationRecord(r) : r \in Upgrades}

VARIABLES
    installed,          \* release a start would run
    running,            \* release of the running process, 0 when it is down
    record,             \* content of the confirmation file
    tip,                \* height in SeederChainTip's watch channel
    pc,                 \* where the observer task is
    qualifying_sweeps,  \* ActivationGate
    sampled_peers,      \* peers of the sweep under way
    pending,            \* its probes that have not been joined
    ready,              \* its probes that came back Ready
    chain,              \* height of the best chain
    peak,               \* greatest height the best chain ever had
    attested,           \* history: releases an operator attested
    honest_sweeps,      \* history: see ObserveSweep
    streak              \* history: see ObserveSweep

disk    == <<installed, record>>
gate    == qualifying_sweeps
sweep   == <<sampled_peers, pending, ready>>
network == <<chain, peak>>
history == <<attested, honest_sweeps, streak>>
vars == <<installed, running, record, tip, pc, qualifying_sweeps,
          sampled_peers, pending, ready, chain, peak,
          attested, honest_sweeps, streak>>

PCs == {"down", "tick", "probing", "persist", "confirm", "done"}
Up == pc # "down"

\* The protocol floor zebra-network and the address cache derive from the tip.
Floor == MinRemoteForHeight(running, tip)

\* The chain can be rolled back to this height and no further.
FinalHeight == peak - MaxBlockReorgHeight
-----------------------------------------------------------------------------
(* Starting and stopping.                                                  *)

\* SeederChainTip::new: the tip release r starts with.
InitialTip(r, confirmed) ==
    IF confirmed THEN ActivationTarget(r).activation_height
                 ELSE ActivationTarget(r).pre_activation_height

IsActivationConfirmed(r, height) == height >= ActivationTarget(r).activation_height

\* Variant of LoadConfirmation: any record counts, whatever target it names.
LoadAnyConfirmation(r, readable) ==
    CacheEnabled /\ readable /\ record # NoRecord

\* load_confirmation: a missing, different or unreadable record is no record.
LoadConfirmation(r, readable) ==
    CacheEnabled /\ readable /\ record = ConfirmationRecord(r)

NoSweep == sampled_peers' = {} /\ pending' = {} /\ ready' = {}

Init ==
    /\ installed = 1 /\ running = 0
    /\ record = NoRecord
    /\ tip = 0 /\ pc = "down" /\ qualifying_sweeps = 0
    /\ sampled_peers = {} /\ pending = {} /\ ready = {}
    /\ chain = 0 /\ peak = 0
    /\ attested = {} /\ honest_sweeps = 0 /\ streak = 0

\* spawn_network_crawler: load the record, build the tip, spawn the observer,
\* which returns at once when the tip is already confirmed.
Start(readable) ==
    /\ pc = "down"
    /\ running' = installed
    /\ tip' = InitialTip(installed, LoadConfirmation(installed, readable))
    /\ pc' = IF IsActivationConfirmed(installed, tip') THEN "done" ELSE "tick"
    /\ UNCHANGED <<disk, gate, sweep, network, history>>

\* The process ends, at any point, and the observer task is aborted with it.
Stop ==
    /\ Up
    /\ running' = 0 /\ tip' = 0 /\ pc' = "down"
    /\ qualifying_sweeps' = 0 /\ NoSweep
    /\ honest_sweeps' = 0 /\ streak' = 0
    /\ UNCHANGED <<disk, network, attested>>
-----------------------------------------------------------------------------
(* One sweep of the observer.                                              *)

\* Variant of Samples: peers are sampled without grouping them.
SamplesUngrouped(candidates) ==
    {s \in SUBSET candidates :
        Cardinality(s) = IF Cardinality(candidates) <= MAX_NETWORK_GROUPS_PER_SWEEP
                         THEN Cardinality(candidates)
                         ELSE MAX_NETWORK_GROUPS_PER_SWEEP}

\* sample_network_group_candidates: one peer of every group, and of those at
\* most MAX_NETWORK_GROUPS_PER_SWEEP.
Samples(candidates) ==
    LET available == Cardinality({GroupOf[p] : p \in candidates})
    IN  {s \in SUBSET candidates :
            /\ \A p, q \in s : GroupOf[p] = GroupOf[q] => p = q
            /\ Cardinality(s) = IF available <= MAX_NETWORK_GROUPS_PER_SWEEP
                                THEN available
                                ELSE MAX_NETWORK_GROUPS_PER_SWEEP}

\* The interval ticks and the address book is sampled.  The candidates are the
\* peers the book holds as servable at the pre-activation floor at this moment.
BeginSweep(candidates) ==
    /\ pc = "tick"
    /\ sampled_peers' \in Samples(candidates)
    /\ pending' = sampled_peers' /\ ready' = {}
    /\ pc' = "probing"
    /\ UNCHANGED <<disk, running, tip, gate, network, history>>

\* What a completed handshake may report.  A peer that is not Byzantine
\* reports no height beyond its chain.
Reports(p) ==
    {m \in [start_height : 0..MaxHeight, version : 0..N, node_network : BOOLEAN] :
        p \notin Byzantine => m.start_height <= chain}

\* ProbeOutcome::of_handshake, of which only Ready is told apart.
IsReady(m) ==
    LET target == ActivationTarget(running) IN
    /\ m.start_height >= target.confirmation_height
    /\ m.version >= target.required_version
    /\ m.node_network

ProbeHandshake(p, m) ==
    /\ pc = "probing" /\ p \in pending
    /\ pending' = pending \ {p}
    /\ ready' = IF IsReady(m) THEN ready \cup {p} ELSE ready
    /\ UNCHANGED <<disk, running, tip, pc, gate, sampled_peers, network, history>>

\* A refused or failed handshake, a timeout, a panicked probe task: not ready.
ProbeFails(p) ==
    /\ pc = "probing" /\ p \in pending
    /\ pending' = pending \ {p}
    /\ UNCHANGED <<disk, running, tip, pc, gate, sampled_peers, ready, network, history>>
-----------------------------------------------------------------------------
(* The gate, the record and the floor.                                     *)

Qualifies(total_groups, ready_groups) ==
    /\ total_groups >= MIN_NETWORK_GROUPS
    /\ ready_groups * QUORUM_DENOMINATOR >= total_groups * QUORUM_NUMERATOR

\* Variants of GateObserve: unbounded, wrapping, and without the reset.
GateUnbounded(count, total_groups, ready_groups) ==
    IF Qualifies(total_groups, ready_groups) THEN count + 1 ELSE 0
GateWraps(count, total_groups, ready_groups) ==
    IF Qualifies(total_groups, ready_groups) THEN (count + 1) % (U8_MAX + 1) ELSE 0
GateKeepsCount(count, total_groups, ready_groups) ==
    IF Qualifies(total_groups, ready_groups) /\ count < U8_MAX THEN count + 1 ELSE count

\* ActivationGate::observe: the counter after a sweep.
GateObserve(count, total_groups, ready_groups) ==
    IF ~Qualifies(total_groups, ready_groups) THEN 0
    ELSE IF count >= U8_MAX THEN U8_MAX ELSE count + 1

\* Every probe was joined, and the gate judges the sweep.  The history counts,
\* up to REQUIRED_QUALIFYING_SWEEPS, the latest consecutive sweeps of this
\* process in which a peer that is not Byzantine was ready (honest_sweeps), and
\* those that qualified (streak).
Counted(n, holds) ==
    IF ~holds THEN 0
    ELSE IF n = REQUIRED_QUALIFYING_SWEEPS THEN n ELSE n + 1

ObserveSweep ==
    LET total_groups == Cardinality(sampled_peers)
        ready_groups == Cardinality(ready)
    IN  /\ pc = "probing" /\ pending = {}
        /\ qualifying_sweeps' =
              GateObserve(qualifying_sweeps, total_groups, ready_groups)
        /\ pc' = IF qualifying_sweeps' >= REQUIRED_QUALIFYING_SWEEPS
                 THEN "persist" ELSE "tick"
        /\ honest_sweeps' = Counted(honest_sweeps, ready \ Byzantine # {})
        /\ streak' = Counted(streak, Qualifies(total_groups, ready_groups))
        /\ NoSweep
        /\ UNCHANGED <<disk, running, tip, network, attested>>

\* persist_confirmation wrote the record atomically.
Persist ==
    /\ pc = "persist" /\ CacheEnabled
    /\ record' = ConfirmationRecord(running)
    /\ pc' = "confirm"
    /\ UNCHANGED <<installed, running, tip, gate, sweep, network, history>>

\* Variants of PersistFails: go on to raise the floor, give up observing, leave
\* a truncated file.
PersistFailsRaises ==
    /\ pc = "persist"
    /\ pc' = "confirm"
    /\ UNCHANGED <<disk, running, tip, gate, sweep, network, history>>
PersistFailsBreaks ==
    /\ pc = "persist"
    /\ pc' = "done"
    /\ UNCHANGED <<disk, running, tip, gate, sweep, network, history>>
PersistFailsTruncates ==
    /\ pc = "persist"
    /\ pc' = "tick"
    /\ record' = NoRecord
    /\ UNCHANGED <<installed, running, tip, gate, sweep, network, history>>

\* It did not: there is no cache directory or the write failed.  The gate keeps
\* its count and the next qualifying sweep tries again.
PersistFails ==
    /\ pc = "persist"
    /\ pc' = "tick"
    /\ UNCHANGED <<disk, running, tip, gate, sweep, network, history>>

\* SeederChainTip::confirm_activation, after which the task ends.
ConfirmActivation ==
    LET activation_height == ActivationTarget(running).activation_height
    IN  /\ pc = "confirm"
        /\ tip' = IF tip < activation_height THEN activation_height ELSE tip
        /\ pc' = "done"
        /\ UNCHANGED <<disk, running, gate, sweep, network, history>>
-----------------------------------------------------------------------------
(* The operator and the chain.                                             *)

\* attest-activation, run from the installed binary, which rejects any triple
\* but that of its own compiled target.
Attest(asserted) ==
    /\ CacheEnabled
    /\ asserted = ConfirmationRecord(installed)
    /\ OnlineAttest \/ ~Up
    /\ record' = asserted
    /\ attested' = attested \cup {installed}
    /\ UNCHANGED <<installed, running, tip, pc, gate, sweep, network, honest_sweeps, streak>>

\* The documented recovery: stop, delete the record, start.
DeleteRecord ==
    /\ ~Up /\ record # NoRecord
    /\ record' = NoRecord
    /\ UNCHANGED <<installed, running, tip, pc, gate, sweep, network, history>>

Deploy(r) ==
    /\ r # installed
    /\ AllowRollback \/ r > installed
    /\ installed' = r
    /\ UNCHANGED <<running, record, tip, pc, gate, sweep, network, history>>

Grow ==
    /\ chain < MaxHeight
    /\ chain' = chain + 1
    /\ peak' = IF peak < chain' THEN chain' ELSE peak
    /\ UNCHANGED <<disk, running, tip, pc, gate, sweep, history>>

Reorg(h) ==
    /\ FinalHeight <= h /\ h < chain
    /\ chain' = h
    /\ UNCHANGED <<disk, running, tip, pc, gate, sweep, peak, history>>

Next ==
    \/ \E readable \in BOOLEAN : Start(readable)
    \/ Stop
    \/ \E candidates \in SUBSET Peers : BeginSweep(candidates)
    \/ \E p \in Peers : \E m \in Reports(p) : ProbeHandshake(p, m)
    \/ \E p \in Peers : ProbeFails(p)
    \/ ObserveSweep
    \/ Persist
    \/ PersistFails
    \/ ConfirmActivation
    \/ \E r \in Upgrades : Attest(ConfirmationRecord(r))
    \/ DeleteRecord
    \/ \E r \in Upgrades : Deploy(r)
    \/ Grow
    \/ \E h \in 0..MaxHeight : Reorg(h)

Spec == Init /\ [][Next]_vars
-----------------------------------------------------------------------------
(* Properties.                                                             *)

\* Every variable has its type: the counter stays a u8, the record is none or
\* that of a compiled target, and a release runs exactly while the process is up.
TypeOK ==
    /\ installed \in Upgrades
    /\ running \in 0..N /\ (running = 0 <=> pc = "down")
    /\ record \in Records
    /\ tip \in Nat /\ pc \in PCs
    /\ qualifying_sweeps \in 0..U8_MAX
    /\ ready \subseteq sampled_peers /\ pending \subseteq sampled_peers
    /\ sampled_peers \subseteq Peers
    /\ chain \in 0..MaxHeight /\ peak \in 0..MaxHeight
    /\ attested \subseteq Upgrades
    /\ honest_sweeps \in 0..REQUIRED_QUALIFYING_SWEEPS
    /\ streak \in 0..REQUIRED_QUALIFYING_SWEEPS

\* Fewer groups hold a Byzantine peer than any qualifying sweep needs ready.
ByzantineMinority ==
    QUORUM_DENOMINATOR * Cardinality(ByzantineGroups)
        < QUORUM_NUMERATOR * MIN_NETWORK_GROUPS

\* The floor of the running release's own target is up only if an operator
\* attested it or the activation block is in the best chain, however the chain
\* was reorganised since the peers were probed and however many restarts lie
\* between the sweeps, the record and this process.
NoFalseConfirmation ==
    ByzantineMinority /\ Up /\ IsActivationConfirmed(running, tip)
        => running \in attested \/ chain >= ActivationHeight[running]

\* The observer writes a record, and raises the floor, only after the required
\* number of consecutive sweeps of this very process each heard from at least
\* one peer that is not Byzantine: no evidence survives a restart or a sweep
\* that did not qualify.
SustainedHonestEvidence ==
    ByzantineMinority /\ pc \in {"persist", "confirm"}
        => honest_sweeps = REQUIRED_QUALIFYING_SWEEPS

\* The gate confirms a sweep exactly when it completes the required streak:
\* while the record cannot be written every further qualifying sweep tries
\* again, also after the u8 counter has reached its end.
GateConfirmsStreak ==
    [][pc = "probing" /\ pc' \in {"tick", "persist"}
         => (pc' = "persist" <=> streak' = REQUIRED_QUALIFYING_SWEEPS)]_vars

\* The floor the installed release would start with if the record is readable.
BootFloor ==
    MinRemoteForHeight(installed,
        InitialTip(installed, LoadConfirmation(installed, TRUE)))

\* A crash at any point never lowers the floor: what the installed release
\* would start with is at least the floor being enforced (the record is
\* durable before the tip moves, and a newer release starts no lower).
CrashKeepsFloor == Up /\ ~AllowRollback => BootFloor >= Floor

\* What attestation beside a running seeder is exposed to: a seeder of an older
\* release confirms its own target and overwrites what was attested for the
\* installed one.
AttestationOverwritten ==
    /\ OnlineAttest /\ installed \in attested
    /\ pc = "persist" /\ running < installed
    /\ record' = ConfirmationRecord(running)

\* A decision on disk is lost only to an operator: with releases moving forward
\* the floor of the next start falls only when the record is deleted beside a
\* stopped seeder or an attestation made beside a running one is overwritten,
\* which the documented order (stop, attest, start) rules out.
DecisionSticky ==
    [][\/ AllowRollback
       \/ ~Up /\ record # NoRecord /\ record' = NoRecord
       \/ AttestationOverwritten
       \/ BootFloor' >= BootFloor]_vars

\* What the documentation says of deployments: a newer release installed under
\* a running seeder, its target unconfirmed, keeps the floor when it starts.
DeployKeepsFloor ==
    Up /\ installed > running /\ record # ConfirmationRecord(installed)
        => BootFloor = Floor
\* The upgrade on record, 0 for none.
Recorded == IF record = NoRecord THEN 0 ELSE record.minimum_protocol_version

\* What the rest of the seeder may rely on: a process's floor starts one below
\* its own upgrade or at it, rises once and only to what is already on disk, and
\* beside a running seeder nothing but an attestation changes the record.  Sweeps,
\* heights and reorganisations are not to be seen.
Promise == INSTANCE ProtocolFloor WITH floor <- Floor, decided <- Recorded

ImplementsFloor == Promise!Spec
-----------------------------------------------------------------------------
(* Liveness.                                                               *)

\* tokio polls the observer; a probe ends by OBSERVATION_TIMEOUT; a blocking
\* write returns; the service manager restarts a stopped seeder.
Fairness ==
    /\ WF_vars(\E readable \in BOOLEAN : Start(readable))
    /\ WF_vars(\E candidates \in SUBSET Peers : BeginSweep(candidates))
    /\ \A p \in Peers :
          WF_vars((\E m \in Reports(p) : ProbeHandshake(p, m)) \/ ProbeFails(p))
    /\ WF_vars(ObserveSweep)
    /\ WF_vars(Persist \/ PersistFails)
    /\ WF_vars(ConfirmActivation)

LiveSpec == Spec /\ Fairness

\* Steps of an unhealthy environment: the process stops, the record cannot be
\* written, too few groups are servable, a peer that is not Byzantine is not
\* ready.
Unhealthy ==
    \/ Up /\ ~Up'
    \/ pc = "persist" /\ pc' = "tick"
    \/ /\ pc = "tick" /\ pc' = "probing"
       /\ ~Qualifies(Cardinality(sampled_peers'),
                     Cardinality(sampled_peers' \ Byzantine))
    \/ \E p \in pending \ Byzantine : p \notin pending' /\ p \notin ready' /\ pc' = "probing"

\* Once the environment stays healthy the observer confirms its target: no
\* earlier failure (of sweeps, of the disk, of the process) leaves the gate or
\* the task in a state from which the floor cannot rise.
EventuallyConfirmed ==
    CacheEnabled /\ <>[][~Unhealthy]_vars
        => <>[](Up => IsActivationConfirmed(running, tip))
=============================================================================
