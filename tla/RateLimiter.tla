----------------------------- MODULE RateLimiter -----------------------------
(***************************************************************************)
(* The DNS rate limiter of src/dns/rate_limiter.rs: governor's map of one  *)
(* entry per client that was seen, checked by every DNS request task and   *)
(* pruned by a detached loop.  An entry is the theoretical arrival time of *)
(* the client's next query (GCRA): how far it lies ahead of the clock is   *)
(* what the client has used of its burst.  A client without an entry has   *)
(* its whole burst.                                                        *)
(***************************************************************************)
EXTENDS Integers, FiniteSets

CONSTANTS
    Clients,     \* IP addresses
    Cell,        \* ticks of the clock between two queries at the configured rate
    Burst,       \* rate_limit.burst_size
    MaxTime      \* bound: the clock stops here

\* RateLimitConfig::validate: neither of the configured values is zero.
ASSUME LimitAssumption ==
    /\ Cell \in Nat \ {0} /\ Burst \in Nat \ {0}
    /\ MaxTime \in Nat

VARIABLES
    now,         \* the clock
    tat,         \* governor's map: client -> theoretical arrival time
    pass,        \* the prune loop: "sleep" or "pass"
    cutoff,      \* the clock as the pass read it when it began
    unvisited,   \* entries the pass has not come to
    verdict,     \* the last check: <<client, whether it was within budget>>
    watched,     \* history: a client under observation
    opened,      \* history: when the window of observation began
    admitted     \* history: queries of that client admitted in the window

pruner  == <<pass, cutoff, unvisited>>
history == <<watched, opened, admitted>>
vars == <<now, tat, pass, cutoff, unvisited, verdict,
          watched, opened, admitted>>

\* Quota::per_second(..).allow_burst(..)
Tau == Burst * Cell

NoVerdict == <<>>

Init ==
    /\ now = 0
    /\ tat = [c \in {} |-> 0]
    /\ pass = "sleep" /\ cutoff = 0 /\ unvisited = {}
    /\ verdict = NoVerdict
    /\ watched \in Clients /\ opened = 0 /\ admitted = 0

\* How far the client's next theoretical arrival lies ahead of the clock.
Ahead(c) == IF c \in DOMAIN tat /\ tat[c] > now THEN tat[c] - now ELSE 0

\* Variant of WithinBudget: one query more than the burst.
WithinBudgetOrEqual(c) == Ahead(c) <= Tau

WithinBudget(c) == Ahead(c) + Cell <= Tau

\* RateLimiter::check: the entry is measured and replaced in one step; a query
\* over the budget leaves it alone.
Check(c) ==
    /\ verdict' = <<c, WithinBudget(c)>>
    /\ IF WithinBudget(c)
       THEN /\ tat' = [d \in DOMAIN tat \cup {c} |->
                          IF d = c THEN now + Ahead(c) + Cell ELSE tat[d]]
            /\ admitted' = IF c = watched THEN admitted + 1 ELSE admitted
       ELSE UNCHANGED <<tat, admitted>>
    /\ UNCHANGED <<now, pruner, watched, opened>>

Tick ==
    /\ now < MaxTime
    /\ now' = now + 1
    /\ UNCHANGED <<tat, pruner, verdict, history>>
-----------------------------------------------------------------------------
(* detach_prune_loop.  retain_recent reads the clock and then walks the    *)
(* map, entry by entry, while requests go on being checked.                *)

\* Variant of BeginPass: what to drop is decided here, and dropped later.
BeginPassDecides ==
    /\ pass = "sleep"
    /\ pass' = "pass" /\ cutoff' = now + Tau
    /\ unvisited' = {c \in DOMAIN tat : tat[c] <= now}
    /\ UNCHANGED <<now, tat, verdict, history>>

BeginPass ==
    /\ pass = "sleep"
    /\ pass' = "pass" /\ cutoff' = now /\ unvisited' = DOMAIN tat
    /\ UNCHANGED <<now, tat, verdict, history>>

\* Variant of VisitEntry: entries that are not in use are kept as well.
VisitEntryKeeps(c) ==
    /\ pass = "pass" /\ c \in unvisited
    /\ unvisited' = unvisited \ {c}
    /\ UNCHANGED <<now, tat, pass, cutoff, verdict, history>>

\* An entry that is not ahead of the clock says the same as no entry.
VisitEntry(c) ==
    /\ pass = "pass" /\ c \in unvisited
    /\ unvisited' = unvisited \ {c}
    /\ tat' = [d \in {e \in DOMAIN tat : e # c \/ tat[e] > cutoff} |-> tat[d]]
    /\ UNCHANGED <<now, pass, cutoff, verdict, history>>

EndPass ==
    /\ pass = "pass" /\ unvisited = {}
    /\ pass' = "sleep"
    /\ UNCHANGED <<now, tat, cutoff, unvisited, verdict, history>>
-----------------------------------------------------------------------------
\* Only the history moves: any moment may begin a window of observation.
OpenWindow(c) ==
    /\ watched' = c /\ opened' = now /\ admitted' = 0
    /\ UNCHANGED <<now, tat, pruner, verdict>>

Next ==
    \/ \E c \in Clients : Check(c)
    \/ Tick
    \/ BeginPass
    \/ \E c \in Clients : VisitEntry(c)
    \/ EndPass
    \/ \E c \in Clients : OpenWindow(c)

Spec == Init /\ [][Next]_vars
-----------------------------------------------------------------------------
(* Properties.                                                             *)

\* Every variable has its type, and no entry is further ahead than the burst.
TypeOK ==
    /\ now \in 0..MaxTime /\ cutoff \in Nat
    /\ DOMAIN tat \subseteq Clients
    /\ \A c \in DOMAIN tat : tat[c] \in 1..(now + Tau)
    /\ pass \in {"sleep", "pass"} /\ unvisited \subseteq Clients
    /\ verdict \in {NoVerdict} \cup (Clients \X BOOLEAN)
    /\ watched \in Clients /\ opened \in 0..now /\ admitted \in Nat

\* In any window of time a client has at most its burst and what the window
\* earned admitted: being pruned in the middle of a query, or pruned and seen
\* again, gives nothing back.
AdmissionBound == admitted * Cell <= Tau + (now - opened)

\* The limiter is a bucket per client: an admitted query is paid for, a refused
\* one had too little credit, no client's queries cost another's credit, and the
\* prune loop is not to be seen.
Bucket == INSTANCE TokenBucket WITH credit <- [c \in Clients |-> Tau - Ahead(c)]

ImplementsBucket == Bucket!Spec
-----------------------------------------------------------------------------
(* Liveness.                                                               *)

\* The clock runs, and tokio wakes the loop after every sleep and lets a pass
\* come to its end.
Fairness ==
    /\ WF_vars(Tick)
    /\ WF_vars(BeginPass)
    /\ \A c \in Clients : WF_vars(VisitEntry(c))
    /\ WF_vars(EndPass)

LiveSpec == Spec /\ Fairness

\* A client that falls silent is forgotten: the map does not keep every address
\* that ever sent a query (as far as the bounded clock gets).
SilentForgotten ==
    \A c \in Clients :
        <>[][~Check(c)]_vars => <>[](c \notin DOMAIN tat \/ tat[c] > MaxTime)
=============================================================================
