# A TLA+ verification of zeeder

zeeder is a Zcash DNS seeder. For each configured network it runs
zebra-network's crawler, decides which peers of the address book are worth
giving to a new node, and answers DNS queries for the network's seed domain
with a few of them. It also keeps the *protocol floor*: the oldest protocol
version it admits, which must rise when a network upgrade activates and not
before.

This directory models the program's own logic in TLA+, checks it with TLC on
small instances and proves the main results with TLAPS for every instance.

## 1. The system

| Part | Source | State | Operations |
|---|---|---|---|
| Activation observer | `src/crawl/activation.rs` | gate counter, sweep under way, confirmation file | load, sample, probe, judge, persist, attest |
| Chain tip | `src/crawl/chain_tip.rs` | a height in a watch channel | create, `confirm_activation`, read |
| Servability | `src/crawl/servability.rs` | none | `classify` |
| Address cache | `src/crawl/address_cache.rs` | a snapshot in a watch channel, gauges | refresh every 5 s |
| Configuration | `src/config.rs` | none after loading | layer, validate, render |
| DNS handler | `src/dns/request_handler.rs` | the zones (static) | limit, route, answer, send |
| Rate limiter | `src/dns/rate_limiter.rs` | governor's map of buckets | check, prune |
| Health endpoint | `src/health.rs` | one task per connection | `/health`, `/ready` |
| Lifecycle | `src/seeder.rs` | guards of the crawlers | start, serve, shut down |
| Commands and main | `src/main.rs`, `src/commands.rs` | process environment, recorder | load `.env`, set up logging, dispatch, print the configuration, attest |
| Metrics, build info | `src/metrics.rs`, `src/build_info.rs` | the recorder | |
| Fleet scripts | `deploy/gcp/` | cloud instances, their metadata and labels | roll, create, audit, boot |

How they interact: the observer and the cache both lock zebra-network's address
book. The observer writes the confirmation file and then the tip; zebra-network
and the cache read the tip. The cache publishes snapshots that DNS requests and
readiness probes borrow without a lock. All of these are tokio tasks on a
multi-threaded runtime, so any of them may run between two steps of another.

What is hard: a floor decision must survive crashes, full disks, new releases,
lying peers and chain reorganisations; a refresh is several steps long and
the floor may rise between them; the mutex may be poisoned; a readiness probe
mixes moments; the limiter's map is pruned while it is used; startup has many
points of failure; a roll may stop between any two commands. `PROJECT.json` lists each
hazard at its line with the property that watches it.

## 2. The modules

### ActivationObserver

One network of one seeder, with its environment.

* `installed`, `running`, `record`, `tip` are the binary on disk, the binary in
  memory, the file and the watch channel. Upgrade `u` is the u-th entry of
  zebra-chain's table and its protocol version is `u`; release `r` compiles in
  the first `r` of them, so its target is upgrade `r`.
* The observer's loop is cut where it awaits: `BeginSweep` (tick and sample),
  `ProbeHandshake` or `ProbeFails` for each probe in any order, `ObserveSweep`
  (the join loop ends and the gate judges), `Persist` or `PersistFails`,
  `ConfirmActivation`. `Stop` may come between any two, and `Start` loads the
  file again, which may be unreadable.
* The book is abstract: each sweep may find any set of candidates.
* `Byzantine` peers report what they like; the others report no height beyond
  the best chain. They may report less, be outdated or not answer.
* `Grow` and `Reorg` move the chain; it is never rolled back by more than
  `MaxBlockReorgHeight` from its peak, which is the assumption behind zebra's
  constant and the observer's confirmation height.
* `Attest`, `DeleteRecord` and `Deploy` are the operator. `AllowRollback` and
  `OnlineAttest` say whether older releases are installed again and whether
  attestation runs beside a live seeder, against the runbook.
* `peak`, `attested`, `honest_sweeps` and `streak` are history variables: no
  guard reads the last three.

### AddressCache

The refresh loop in its three steps: `ReadFloor`, `Classify` (lock, classify
every entry, set the gauges, unlock) and `Send`, beside zebra-network
(`UpdateBook`, `Expire`, `Ban`, `Poison`), the observer (`ConfirmActivation`)
and the end of the receivers. A snapshot is a set of entries per family: the
shuffle is a nondeterministic choice of which entries survive the truncation.

### Zones and Seeder

`Zones` has the pure part of configuration and DNS: names as sequences of
labels, `zone_of` as the suffix relation, validation, routing and answers.
`Seeder` starts a process from any configuration of a set, phase by phase, then
serves: `Receive` (with the limiter's verdict as a choice), `MatchZone` (route and
clone the snapshot), `Answer` (compute from the clone) and `SendResponse`, while
`Publish` replaces snapshots between any two of them. One request is followed at a time; requests share nothing but the
limiter, so further ones would add no behaviour to any of them.

A name is too long when it has more than `MaxLabels` labels; the library's
limit counts octets, and only that there is a limit matters here.

### Health

A connection's task from accept to close, with the readiness check cut between
the zones it borrows. Caches are reduced to counts per family.

### ProtocolFloor, FloorServing and ServedFloor

`ProtocolFloor` is the abstract specification of the observer: a process's floor
starts one upgrade below its own or, if the decision is on record, at it; it
rises once, and only to what is already recorded (or was, until the operator
attested another upgrade beside the process). Sweeps, groups, heights and
reorganisations are gone. `ActivationObserver` implements it (`ImplementsFloor`)
with the floor mapped to what `min_remote_for_height` makes of the tip and the
decision to the version in the record.

`FloorServing` composes that promise with the cache's refresh (`ReadFloor`,
`Refresh`) over crashes, restarts and three releases, and asks what neither
module can say alone: whether a peer DNS has dropped for its version can come
back. Only what zebra-network negotiates is kept of a peer. The same cache with
the observer itself in place of its promise is `SeederSpec`, in
`ActivationObserverProofs`: a step is one of the observer's or one of the
cache's, and a start or an end of the process is one of both. It is proved, not
run, to implement `FloorServing`. `ServedFloor` holds what both promise,
`FloorHolds`, over the two variables it is about.

### SweepTimer

The observer's loop on a clock: tokio's interval with
`MissedTickBehavior::Skip`, the duration of probes and writes, and the memory
of peers that refuse a second connection within their reconnection delay.
`BeginSweep`, `EndSweep` and `EndPersist` are the awaits of the loop; the
outcome of a sweep is a choice. `MaxLate` is how late the runtime may poll a
tick, `MaxPersist` how long a failing write may take.

### RateLimiter and TokenBucket

`TokenBucket` says what a limiter is: a bucket per client, refilled by time,
emptied by admitted queries. `RateLimiter` is governor's GCRA as the code uses
it: one theoretical arrival time per client seen, measured and replaced in one
step by `Check`, while `detach_prune_loop` reads the clock (`BeginPass`) and
visits entry after entry (`VisitEntry`). It implements `TokenBucket` with the
credit of a client mapped to the burst less how far its entry lies ahead.
governor itself is external: modelled are its documented rule and the steps its
shared map makes visible.

### Launch

From `main` to serving: the `.env` file, the log filter, the dispatch, the
layers of the configuration, its validation, the recorder, the crawlers, and
`print-config`. Between launches the operator edits the three sources, breaks a
file, or adopts the printed configuration. A configuration is a function from
keys to values; sections that are `None` by default exist once a key of them is
named. Names and values are opaque: how the config crate parses them is not
modelled, only that a value may be malformed and a key unknown.

### FleetRoll

`deploy/gcp/seeders.sh` in its two modes that change something, command by
command, and the startup script every boot runs. `digest` is what the script
read from `IMAGE` when it began, `startup` what the VM's metadata says, `image`
what its container runs and `label` what the audit believes. A command may fail
at any point (`Abort`), VMs reboot by themselves, the pin moves at any time, and
the container from before a reset may answer until the startup script removes
it (`WarmUp` of a booting VM). `witnessed`, `stage` and `before` are history:
`stage` says of each VM how far the roll has come with it and, once it has passed
the gate, whether the new container was up (`passed`) or the answer came from a
container that was still to be replaced, of the same image (`early`) or of another
(`old`).

### MC modules and proofs

`MCx` instantiates `x` for TLC. `xProofs` extends `x` with its theorems; there
is one for every component, and `FloorServing` shares the observer's.
Definitions commented *Variant of ...* are plausible bugs of
the definition that follows them; no specification uses them. They are there to
be put in its place, which every property must then notice.

## 3. The runs

| Run | Shows |
|---|---|
| `Activation` | types; `NoFalseConfirmation`, `SustainedHonestEvidence`, `GateConfirmsStreak` (the floor rises on sustained honest evidence only); `CrashKeepsFloor`, `DecisionSticky` (and is not lost); `ImplementsFloor`; `EventuallyConfirmed` |
| `ActivationDeploy` | violated: `DeployKeepsFloor` |
| `SweepTimer` | `NoSelfRefusal`: the interval leaves peers time to accept the next probe; `SweepsSpread`: late ticks do not bunch sweeps |
| `FloorServing` | `FloorHolds`: a peer below a floor DNS was held to does not come back after a crash or a release |
| `Cache` | types, `FloorReachesSnapshots`, `GaugesAccountForBook`, `TargetVersionFirst`, `EventuallyAccurate` |
| `CacheRaise` | violated: `NextRefreshRemoves` |
| `Seeder` | `OneZonePerName`, `PeersOfOneSnapshot`, `RefusedOnlyOutside`, `ValidatedZonesBuild` |
| `RateLimiter` | `AdmissionBound` in any window; `ImplementsBucket`; `SilentForgotten` |
| `Health` | `ReadinessWitnessed`, `ConnectionsEnd`, `EventuallyReady` |
| `HealthCap` | violated: `ReadyAtThreshold` |
| `Launch` | `Precedence` of environment, `.env` and file; `PrintedReproduces`; `StartupGaugesExported` |
| `FleetRoll` | `OthersKeepAnswering`, `SignedOnly`, `LabelWitnessed` |

Bounds. *Activation*: two upgrades, so that a record may name another target
than the running release's; heights up to 4 with a reorganisation depth of 1,
so that both targets can be buried and both can be rolled back before that; two
required sweeps and a counter that saturates at 3, so that it saturates while
writes fail; two Byzantine peers in one of three groups, so that a group could
vote twice, and a quorum of two groups, so that one more Byzantine group would
do. Attestation runs beside a stopped and a live seeder, so an older release may
overwrite what was attested for the installed one: `DecisionSticky` names that as
the only way a record is lost beside a live seeder. Rollbacks are off in this run,
as `CrashKeepsFloor` and `DecisionSticky` are about releases that move forward;
the theorems on `NoFalseConfirmation` and `ImplementsFloor` cover them.
*SweepTimer*: a clock of 20 ticks is four intervals; ticks one late, and writes
that outlast an interval. *FloorServing*: three releases, so that a record may
be older than the floor a release starts with. *Cache*: two peers of one family
with a cap of one (truncation), handshakes at both versions, and expiry, bans
and the floor as overlapping reasons. *Seeder*: 625 configurations of two
networks, with empty, equal, nested, over-long and disjoint domains and bad
nameserver lists. *RateLimiter*: two clients, a burst of two and a clock that
covers one and a half refills of the burst. *Health*: two zones, a cap of one
per family and a threshold of two, so that a zone needs both families.
*Launch*: six keys in five sections, of which one is unknown, and at most three
names set, so that each source can say something about one key. *FleetRoll*:
two VMs, a good, a bad and an unsigned image, two tries of the gate.

`Seeder` may stop: its process ends after a failed start or a shutdown, so that
run does not check deadlock. The others do.

Fairness. tokio runs a task that is ready, so the steps of the observer, of the
cache and of a connection are weakly fair; a probe and a connection's reads and
writes end by their timeouts, whatever the peer does; a blocking write returns,
with success or not; the service manager restarts a stopped seeder. The
limiter's clock runs, its prune loop is woken after every sleep and a pass comes
to its end; nothing is assumed of the clients. Nothing is assumed of peers, of the disk, of the operator or of the chain:
`EventuallyConfirmed` says what follows if they stay healthy from some moment.

## 4. Where the documents say otherwise

* *Deploying does not move the floor* (`docs/network-upgrades.md`, and a comment
  in `src/crawl/chain_tip.rs`). It does when the seeder being replaced has not
  confirmed its own target: the new release starts at the floor just below its
  target, which is the old release's target. `ActivationDeploy` shows the steps;
  `DeployKeepsFloorExactlyHolds` proves the condition under which the sentence is
  true: the new release is the next one and the old one has confirmed its target.
* *The next refresh removes peers below the new floor*
  (`docs/network-upgrades.md`). A refresh that read the floor before it rose
  publishes after it; the peers leave one refresh later. `CacheRaise` shows it,
  and `FloorReachesSnapshots` that it is never more than that one.
* *`/ready` asks for `ready_threshold` servable peers* (`src/health.rs`,
  `docs/operations.md`). It counts the published snapshot, which is capped per
  family, so above the cap of one family no number of its peers is enough.
  `HealthCap` shows it. The sentence is true exactly up to the cap
  (`ReadyAtThresholdBelowCap`), and above both caps together no probe is ever
  answered 200 (`NeverReadyAboveCaps`).

Three more were met while modelling and have no run of their own.

* *Sweeps run at least 125 seconds apart* (`docs/operations.md:730`). With
  `MissedTickBehavior::Skip` the interval keeps its phase: after a sweep whose
  write of the record failed slowly a tick is polled late and the one after it
  comes less than an interval later. What does hold is `SweepsSpread`.
* *A bad image reaches at most one nameserver* (`docs/operations.md:428-430`).
  docker restarts the container of before a reset (`--restart always`) and the
  startup script removes it only after `docker pull`; the gate probes DNS alone,
  so it may pass on the old container's answers and the roll goes on.
  `OthersKeepAnswering` and `LabelWitnessed` hold in every roll and say what
  remains of the sentence then: each VM that passed that way may fall silent when
  its container is replaced, and may carry the label of an image it has not
  answered with; every other VM that answered when the roll began goes on
  answering, but for the one between its reset and the gate.
* *`--audit` reports the drift between the pin and the fleet* (ADR 0006). It
  compares the pin with labels. A roll that stops between `add-metadata` and
  `add-labels` leaves the old label on a VM that boots the new image; once the
  pin is reverted the audit passes.

## 5. The proofs

All are for every value of the constants under the named assumptions of the
modules.

`ActivationObserverProofs`

* `TypeCorrect`.
* `NoFalseConfirmationHolds` and `SustainedHonestEvidenceHolds`. Neither
  invariant is inductive: the chain's height moves in both directions. The
  invariant `EvidenceInv` replaces "the activation block is in the chain" by
  "the activation was once buried" (`Buried`), which no step undoes, and says
  that a ready honest probe, a positive counter, a record and a raised tip each
  imply it, in the order in which the program derives one from the other.
  `QuorumIsHonest` is the heart: a sample holds one peer per group, so under
  `ByzantineMinority` a quorum has more members than there are Byzantine groups.
  At the end `ChainAboveFinal` turns burial back into the height of the chain.
* `CrashKeepsFloorHolds`, from `DurableInv`: a raised tip is on disk, the
  installed release is no older than the running one, and the tip is exactly
  one of the two heights `SeederChainTip` can hold.
* `GateConfirmsStreakHolds`. The program counts qualifying sweeps in a saturating
  byte which a failed write leaves standing; `StreakCounts` says that the byte,
  saturated or not, tells the true streak up to the number required.
* `DecisionStickyHolds`, from `StickyInv`: a record never names a newer upgrade
  than the installed release's, nor than the running one's unless it was attested
  beside it, so a write can only replace a decision the next start would not have
  used, or such an attestation (`AttestationOverwritten`). Rollbacks are excepted
  by the property itself.
* `ImplementsFloorHolds`: every step is one of `ProtocolFloor` or changes nothing
  it sees, with rollbacks and with attestation beside a live seeder. `FloorInv` ties the tip to the position of the task: one below
  activation until it confirms, and on disk before it does. `FloorAtActivation`
  and `FloorBeforeActivation` compute what `min_remote_for_height` makes of the
  two heights for any table.
* `DeployKeepsFloorExactlyHolds`, from `FloorInv`: which deployments move the
  floor, as an equivalence; with rollbacks and attestation, too.
* `FloorHoldsAlways`, of `FloorServing` with releases moving forward (after a
  rollback the older release starts with its own lower floor). The property speaks of snapshots and a
  history variable only, so `ServingInv` says what keeps them together: DNS is
  held to no more than the floor in force (`Owed`) or, with no process running,
  than the floor the next start will have; a floor at the process's own upgrade
  is on record (`OnRecord`), which is what carries `Owed` over a crash; and a
  refresh under way read its floor after the last one published (`UnderWay`).
* The observer and the cache together (`SeederSpec`).
  `SeederImplementsServing`, under `~OnlineAttest`, the runbook's "stop the seeder,
  run the command, then start it", for which `FloorServing` is stated: `Linked` says that the floor
  and the decision the cache's half sees are those the observer's tip and record
  stand for; `ActionPromise` says of every action of the observer which step of
  the promise it is. `SeederFloorHolds` follows. `NoFalseRemovalHolds` carries
  `NoFalseConfirmation` to what DNS serves: a refresh applies the process's own
  upgrade only after the task has confirmed it (`ConfirmedRefresh`).
* `HealthyStepsAdvance`: with no unhealthy step (`Unhealthy`, as in
  `EventuallyConfirmed`) every completed sweep qualifies, the streak and the task
  only advance. `HealthySweep` says that the honest peers of a healthy sample
  qualify the sweep by themselves, whatever the others report.

`SweepTimerProofs`

* `TimerTypeCorrect`, `NoSelfRefusalHolds`, `SweepsSpreadHolds`, from `TimerInv`.
  `NextTick` is the arithmetic of `MissedTickBehavior::Skip`: the next deadline
  lies ahead, at least an interval after the last one, and exactly an interval
  after a punctual sweep. `Rested` says that a peer which is not excused has
  rested by the next deadline, which is where `MIN_SWEEP_INTERVAL` must allow for
  the probes; `Apart` says that the deadline is more than an interval after the
  sweep before the latest.

`AddressCacheProofs`

* `CacheTypeCorrect` and `FloorReachesSnapshotsHolds`, from `CacheInv`: once one
  snapshot has been sent after the rise, every refresh under way has read the
  new floor (`ReadAfterRise`), and what it computed respects the floor it read
  (`ResultFits`).
* `GaugesAccountForBookHolds`. `OneCheck` shows that each check of `classify`
  parts the peers that passed those before it; seven such splits and one by
  family add up to the book.
* `TargetVersionFirstHolds`, by `PreferredServed`, which counts what truncation
  leaves of two tiers.
* `UnservableLeaves` and `ServableEnters`: with the floor at rest, what a refresh
  publishes that slept after a peer became unservable, or servable in a family
  under the cap, is right about it (`ClassifyAccurate`), and later ones keep it
  so.

`RateLimiterProofs`

* `TypeCorrect`: no entry is ahead of the clock by more than the burst.
* `AdmissionBoundHolds`, from `AdmissionInv`: what a client has had admitted
  since the window opened is paid for by time passed or by how far ahead it is
  (`Paid`). A pass of the prune loop works with a clock it read earlier
  (`CutoffPast`), so the entries it drops are not ahead.
* `ImplementsBucketHolds`: the credit of a client is the burst less how far it is
  ahead; a visit of the prune loop is a stuttering step.
* `OnePassForgets`: a pass that begins after a silent client has recovered drops
  its entry (`Doomed`), and only the client can bring one back.

`HealthProofs`

* `HealthTypeCorrect` and `ReadinessWitnessedHolds`, from `ProbeInv`. The verdict
  of a probe says nothing while it is being made: `VerdictSoFar` says that as long
  as it is favourable each zone read so far was at the threshold at some moment
  of the probe, and that one was below it as soon as it is not; `Seen` says that
  how every zone now stands is one of these moments, whatever was published since
  the probe began.
* `ReadyAtThresholdBelowCap` and `NeverReadyAboveCaps`: see section 4.
* `ConnectionsProgress`: `StepsLeft`, at most three and one per zone, falls with
  every step of a connection and is raised by none of another's.

`LaunchProofs`

* `LaunchTypeCorrect`, `PrecedenceHolds`, `PrintedReproducesHolds`,
  `StartupGaugesExportedHolds`, from `LaunchInv`: the process's environment is
  the real one over `.env` (`EnvLayered`), its configuration what the sources
  resolve to (`ConfigResolved`), and what was printed names all keys of the
  sections it names at all (`PrintedComplete`). `CompleteReproduces` shows that
  such a source is a fixed point of the layering. The bound `MaxSet` on the
  operator's edits plays no part.

`FleetRollProofs`

* `FleetTypeCorrect`, `OthersKeepAnsweringHolds`, `SignedOnlyHolds`,
  `LabelWitnessedHolds`, from `FleetInv`: the digest is signed from the
  verification on (`Verified`); a VM at the gate that is up runs the digest, and
  what answers mainnet there with the digest is a witness (`RunsDigest`,
  `Answered`); only the VM at the gate, or the one at which the roll ended, is
  between its reset and the gate (`OneReset`); and every VM that answered when the
  roll began does so while it is untouched and once its new container has passed
  (`OthersServe`). No roll is excepted.

`SeederProofs`

* `DisjointZonesRouteOnce`: two domains that are suffixes of one name are
  suffixes of one another (`CommonName`), so the pairwise check is enough for
  every name, not only for those that are configured.
* `OneZonePerNameHolds`, `RefusedOnlyOutsideHolds`, `PeersOfOneSnapshotHolds`,
  `ValidatedZonesBuildHolds`, from `StartupInv` (what each phase guarantees) and
  `AnswerInv` (the clone is a snapshot of the right network when it is made,
  the answer what that snapshot says when it is computed, and both stay so because
  the published history only grows). The longest match exists because it is the
  only one.

TLC finds the inductive invariants true on the instances of the runs as well.

Every invariant, action property and refinement that a passing run checks is the
statement of a theorem. Only model-checked are the five liveness properties
`EventuallyConfirmed`, `EventuallyAccurate`, `SilentForgotten`, `ConnectionsEnd`
and `EventuallyReady`: fairness and ENABLED are out of TLAPS's reach. Of the
first four the part that is safety is proved (`HealthyStepsAdvance`,
`UnservableLeaves` with `ServableEnters`, `OnePassForgets`,
`ConnectionsProgress`); what those theorems leave to TLC is that the steps they
speak of are eventually taken.

## 6. Not modelled

* Names and descriptions of metrics, and gauges other than the cache's and the
  ones set once at startup: constants and single assignments.
* `build_info.rs`, `build.rs`: strings computed at build time.
* Argument parsing (clap's), value parsing (the config crate's), DNS records
  and HTTP as text, log lines.
* `--status`, `--dns` and the dry runs of `seeders.sh`, which print; addresses,
  firewalls and regions, which the script only reads.
* The release workflow and the container build: no program state. That one roll
  runs at a time, which `FleetRoll` assumes, is the workflow's concurrency group.
* Between governor's reading of the clock and its update of a client's entry:
  `Check` is one step, since the two are nanoseconds apart and the clock of the
  model is in units of the refill.
* zebra-network, zebra-chain, governor, tokio and docker are external: modelled
  by what the code relies on and marked so in `PROJECT.json`.

## 7. Plan

Done: the observer, the cache, zones and lifecycle, health, the limiter, the
sweep timer, the abstract floor with its refinement and composition, launches,
the fleet, and the proofs of section 5. Left: the liveness properties for every
value of the constants, should a prover for them become available, and the
composition of the endpoint with the cache, of which `Health` keeps counts.
