----------------------------- MODULE TokenBucket -----------------------------
(***************************************************************************)
(* What the rate limiter of src/dns/rate_limiter.rs promises, whatever it  *)
(* keeps in memory: every client has a bucket of its own that holds at     *)
(* most a burst of queries and gains one query per cell of time.  Credit   *)
(* is counted in ticks of the clock; a query costs one cell.               *)
(***************************************************************************)
EXTENDS Integers

CONSTANTS
    Clients,     \* IP addresses
    Cell,        \* ticks in which a client earns one query
    Burst        \* queries a full bucket is worth

Capacity == Burst * Cell

VARIABLES
    credit,      \* ticks of credit in each client's bucket
    verdict      \* the last check: <<client, whether it was within budget>>

vars == <<credit, verdict>>

NoVerdict == <<>>

Init ==
    /\ credit = [c \in Clients |-> Capacity]
    /\ verdict = NoVerdict

Refill ==
    /\ credit' = [c \in Clients |-> IF credit[c] < Capacity THEN credit[c] + 1
                                                            ELSE Capacity]
    /\ UNCHANGED verdict

Take(c) ==
    /\ credit[c] >= Cell
    /\ credit' = [credit EXCEPT ![c] = @ - Cell]
    /\ verdict' = <<c, TRUE>>

Refuse(c) ==
    /\ credit[c] < Cell
    /\ verdict' = <<c, FALSE>>
    /\ UNCHANGED credit

Next ==
    \/ Refill
    \/ \E c \in Clients : Take(c) \/ Refuse(c)

Spec == Init /\ [][Next]_vars
=============================================================================
