----------------------------- MODULE SweepTimer -----------------------------
(***************************************************************************)
(* When the activation observer of src/crawl/activation.rs probes: the     *)
(* tokio interval its loop waits for, the time a sweep and a write of the  *)
(* record take, and the peers, which refuse a second inbound connection    *)
(* from the seeder's address within their reconnection delay.  What a      *)
(* sweep finds out is the business of ActivationObserver; here a sweep may *)
(* qualify or not.                                                         *)
(***************************************************************************)
EXTENDS Integers, Sequences

CONSTANTS
    Peers,
    HANDSHAKE_TIMEOUT,           \* zebra-network's
    MIN_PEER_RECONNECTION_DELAY, \* zebra-network's
    TargetSpacing,               \* target block spacing at the activation height
    MaxLate,       \* how long after its deadline the runtime may poll a tick
    MaxPersist,    \* how long a failing write of the record may take
    MaxTime,       \* bound: the clock stops here
    Never          \* the peer has not accepted a connection

ASSUME TimeAssumption ==
    /\ HANDSHAKE_TIMEOUT \in Nat /\ MIN_PEER_RECONNECTION_DELAY \in Nat \ {0}
    /\ TargetSpacing \in Nat
    /\ MaxLate \in Nat /\ MaxPersist \in Nat /\ MaxTime \in Nat
    /\ Never \notin Nat

OBSERVATION_TIMEOUT == 2 * HANDSHAKE_TIMEOUT

\* Variant of MIN_SWEEP_INTERVAL: the probes' own duration is not allowed for.
ReconnectionDelayOnly == MIN_PEER_RECONNECTION_DELAY

MIN_SWEEP_INTERVAL == MIN_PEER_RECONNECTION_DELAY + OBSERVATION_TIMEOUT

SweepInterval ==
    IF TargetSpacing < MIN_SWEEP_INTERVAL THEN MIN_SWEEP_INTERVAL ELSE TargetSpacing

VARIABLES
    now,
    pc,          \* the observer: "down", "tick", "probing", "persist" or "done"
    deadline,    \* when the interval ticks next
    since,       \* when the sweep, the write or the wait under way began
    pending,     \* probes that have not reached their peer
    accepted,    \* each peer's memory: when it last accepted the seeder
    starts,      \* history: when the last sweeps of this process began, latest first
    late,        \* history: the sweep under way began after its deadline
    excused,     \* history: peers whose last acceptance was in a late sweep, or
                 \* before this process started
    refused      \* history: peers that refused a probe of the latest sweep

history == <<starts, late, excused, refused>>
vars == <<now, pc, deadline, since, pending, accepted, starts, late, excused, refused>>

Init ==
    /\ now = 0 /\ pc = "down" /\ deadline = 0 /\ since = 0
    /\ pending = {} /\ accepted = [p \in Peers |-> Never]
    /\ starts = <<>> /\ late = FALSE /\ excused = Peers /\ refused = {}

\* spawn: an interval's first tick is due at once.
Start ==
    /\ pc = "down"
    /\ pc' = "tick" /\ deadline' = now /\ since' = now
    /\ starts' = <<>> /\ excused' = Peers /\ refused' = {} /\ late' = FALSE
    /\ UNCHANGED <<now, pending, accepted>>

Stop ==
    /\ pc # "down"
    /\ pc' = "down" /\ pending' = {}
    /\ UNCHANGED <<now, deadline, since, accepted, history>>
-----------------------------------------------------------------------------
(* The loop.                                                               *)

\* Variant of NextDeadline: missed ticks are made up for (Burst).
NextDeadlineBurst == deadline + SweepInterval

\* MissedTickBehavior::Skip: the next multiple of the interval that lies ahead.
NextDeadline == now + SweepInterval - ((now - deadline) % SweepInterval)

Latest(s, n) == SubSeq(s, 1, IF Len(s) < n THEN Len(s) ELSE n)

\* The tick is polled, the book is sampled and the probes are spawned.
BeginSweep(sampled_peers) ==
    /\ pc = "tick" /\ now >= deadline
    /\ pc' = "probing" /\ since' = now
    /\ deadline' = NextDeadline
    /\ pending' = sampled_peers
    /\ starts' = Latest(<<now>> \o starts, 3)
    /\ late' = (now > deadline)
    /\ refused' = {}
    /\ UNCHANGED <<now, accepted, excused>>

\* A probe's connection reaches its peer, which accepts it unless it accepted
\* the seeder too recently.
Connect(p) ==
    /\ pc = "probing" /\ p \in pending
    /\ pending' = pending \ {p}
    /\ IF accepted[p] # Never /\ now - accepted[p] < MIN_PEER_RECONNECTION_DELAY
       THEN /\ refused' = refused \cup {p}
            /\ UNCHANGED <<accepted, excused>>
       ELSE /\ accepted' = [accepted EXCEPT ![p] = now]
            /\ excused' = IF late THEN excused \cup {p} ELSE excused \ {p}
            /\ UNCHANGED refused
    /\ UNCHANGED <<now, pc, deadline, since, starts, late>>

\* A probe fails, or times out, without having reached its peer.
Unreached(p) ==
    /\ pc = "probing" /\ p \in pending
    /\ pending' = pending \ {p}
    /\ UNCHANGED <<now, pc, deadline, since, accepted, history>>

\* Every probe ended; the gate confirms or the loop goes on.
EndSweep(confirmed) ==
    /\ pc = "probing" /\ pending = {}
    /\ pc' = IF confirmed THEN "persist" ELSE "tick"
    /\ since' = now
    /\ UNCHANGED <<now, deadline, pending, accepted, history>>

\* The write returns: the floor is raised and the task ends, or the loop goes on.
EndPersist(written) ==
    /\ pc = "persist"
    /\ pc' = IF written THEN "done" ELSE "tick"
    /\ since' = now
    /\ UNCHANGED <<now, deadline, pending, accepted, history>>

\* Time passes, but a sweep ends by the observation timeout, a write by
\* MaxPersist, and a tick that is due is polled by MaxLate.
Tick ==
    /\ now < MaxTime
    /\ pc = "probing" => now < since + OBSERVATION_TIMEOUT
    /\ pc = "persist" => now < since + MaxPersist
    /\ pc = "tick" => now < deadline + MaxLate \/ now < since + MaxLate
    /\ now' = now + 1
    /\ UNCHANGED <<pc, deadline, since, pending, accepted, history>>

Next ==
    \/ Start
    \/ Stop
    \/ \E sampled_peers \in SUBSET Peers : BeginSweep(sampled_peers)
    \/ \E p \in Peers : Connect(p)
    \/ \E p \in Peers : Unreached(p)
    \/ \E confirmed \in BOOLEAN : EndSweep(confirmed)
    \/ \E written \in BOOLEAN : EndPersist(written)
    \/ Tick

Spec == Init /\ [][Next]_vars
-----------------------------------------------------------------------------
(* Properties.                                                             *)

\* Every variable has its type; the next tick lies ahead of every sweep, at most
\* one interval away.
TypeOK ==
    /\ now \in 0..MaxTime
    /\ pc \in {"down", "tick", "probing", "persist", "done"}
    /\ deadline \in Nat /\ since \in 0..now
    /\ pending \subseteq Peers /\ excused \subseteq Peers /\ refused \subseteq Peers
    /\ accepted \in [Peers -> 0..now \cup {Never}]
    /\ Len(starts) <= 3 /\ \A i \in DOMAIN starts : starts[i] \in 0..now
    /\ late \in BOOLEAN
    /\ starts # <<>> /\ pc # "down" =>
          starts[1] < deadline /\ deadline <= starts[1] + SweepInterval

\* A peer refuses a probe for having accepted another too recently only if that
\* one belonged to a sweep that began late, or to an earlier process: the
\* interval leaves room for a connection that is accepted at the last moment.
NoSelfRefusal == refused \subseteq excused

\* However late its ticks are polled and however long its writes hang, three
\* sweeps of one process span more than an interval: missed ticks are not made
\* up for, so three samples are never taken in one moment.
SweepsSpread ==
    Len(starts) = 3 => starts[1] - starts[3] > SweepInterval
=============================================================================
