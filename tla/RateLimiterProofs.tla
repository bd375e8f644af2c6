-------------------------- MODULE RateLimiterProofs --------------------------
(* Theorems about RateLimiter for every rate, burst and set of clients.    *)
EXTENDS RateLimiter, TLAPS

-----------------------------------------------------------------------------
(* Arithmetic of the quota.                                                *)

\* The burst is worth a whole number of ticks.
LEMMA TauType == Tau \in Nat /\ Cell \in Nat \ {0} /\ MaxTime \in Nat
BY LimitAssumption DEF Tau

\* One more admitted query costs one more cell.
LEMMA OneMoreCell ==
    ASSUME NEW n \in Nat
    PROVE  (n + 1) * Cell = n * Cell + Cell /\ n * Cell \in Nat
BY LimitAssumption
-----------------------------------------------------------------------------
(* How far a client is ahead.                                              *)

\* No client is ahead by more than its burst.
LEMMA AheadType ==
    ASSUME TypeOK, NEW c \in Clients
    PROVE  Ahead(c) \in 0..Tau
<1>1. now \in Nat
  BY TauType DEF TypeOK
<1>2. CASE c \in DOMAIN tat /\ tat[c] > now
  BY <1>1, <1>2, TauType DEF TypeOK, Ahead
<1>3. CASE ~(c \in DOMAIN tat /\ tat[c] > now)
  BY <1>3, TauType DEF Ahead
<1> QED BY <1>2, <1>3

\* An admitted query puts its client one cell further ahead, and no other.
LEMMA CheckAhead ==
    ASSUME TypeOK, NEW c \in Clients, Check(c), NEW d \in Clients
    PROVE  Ahead(d)' = IF d = c /\ WithinBudget(c) THEN Ahead(d) + Cell ELSE Ahead(d)
<1>0. now \in Nat /\ Ahead(c) \in Nat /\ now' = now
  BY AheadType, TauType DEF TypeOK, Check
<1>1. CASE ~WithinBudget(c)
  BY <1>1 DEF Check, Ahead
<1>2. CASE WithinBudget(c)
  <2>1. tat' = [e \in DOMAIN tat \cup {c} |->
                   IF e = c THEN now + Ahead(c) + Cell ELSE tat[e]]
    BY <1>2 DEF Check
  <2>2. CASE d = c
    <3>1. c \in DOMAIN tat' /\ tat'[c] = now + Ahead(c) + Cell
      BY <2>1
    <3>2. tat'[c] > now' /\ tat'[c] - now' = Ahead(c) + Cell
      BY <3>1, <1>0, TauType
    <3>3. Ahead(c)' = tat'[c] - now'
      BY <3>1, <3>2 DEF Ahead
    <3> QED BY <1>2, <2>2, <3>2, <3>3
  <2>3. CASE d # c
    <3>1. (d \in DOMAIN tat' <=> d \in DOMAIN tat) /\ (d \in DOMAIN tat => tat'[d] = tat[d])
      BY <2>1, <2>3
    <3> QED BY <2>3, <3>1, <1>0 DEF Ahead
  <2> QED BY <2>2, <2>3
<1> QED BY <1>1, <1>2

\* Time brings a client that is ahead one tick closer.
LEMMA TickAhead ==
    ASSUME TypeOK, Tick, NEW c \in Clients
    PROVE  Ahead(c)' = IF Ahead(c) = 0 THEN 0 ELSE Ahead(c) - 1
<1>1. now \in Nat /\ now' = now + 1 /\ tat' = tat
  BY TauType DEF TypeOK, Tick
<1>2. c \in DOMAIN tat => tat[c] \in Nat
  BY <1>1, TauType DEF TypeOK
<1> QED BY <1>1, <1>2 DEF Ahead

\* A pass looks at the clock before it looks at entries.
CutoffPast == cutoff <= now

\* The prune loop drops no entry that is ahead of the clock.
LEMMA VisitAhead ==
    ASSUME TypeOK, CutoffPast, NEW c \in Clients, VisitEntry(c), NEW d \in Clients
    PROVE  Ahead(d)' = Ahead(d)
<1>1. now \in Nat /\ now' = now /\ cutoff \in Nat /\ cutoff <= now
  BY TauType DEF TypeOK, VisitEntry, CutoffPast
<1>2. tat' = [e \in {e \in DOMAIN tat : e # c \/ tat[e] > cutoff} |-> tat[e]]
  BY DEF VisitEntry
<1>3. d \in DOMAIN tat => tat[d] \in Nat
  BY <1>1, TauType DEF TypeOK
<1>4. d \in DOMAIN tat' <=> d \in DOMAIN tat /\ (d # c \/ tat[d] > cutoff)
  BY <1>2
<1>5. d \in DOMAIN tat' => tat'[d] = tat[d]
  BY <1>2
<1>6. d \in DOMAIN tat /\ tat[d] > now => d \in DOMAIN tat'
  BY <1>1, <1>3, <1>4
<1> QED BY <1>1, <1>4, <1>5, <1>6 DEF Ahead
-----------------------------------------------------------------------------
(* Types.                                                                  *)

\* Every step keeps the types, and the pass's clock in the past.
LEMMA NextType == TypeOK /\ CutoffPast /\ [Next]_vars => TypeOK' /\ CutoffPast'
<1> SUFFICES ASSUME TypeOK, CutoffPast, [Next]_vars PROVE TypeOK' /\ CutoffPast'
  OBVIOUS
<1> USE TauType DEF CutoffPast
<1>0. /\ now \in Nat /\ cutoff \in Nat /\ opened \in Nat /\ opened <= now
      /\ now <= MaxTime /\ admitted \in Nat
  BY DEF TypeOK
<1>1. ASSUME NEW c \in Clients, Check(c) PROVE TypeOK' /\ CutoffPast'
  <2>1. Ahead(c) \in Nat
    BY AheadType
  <2>2. DOMAIN tat' \subseteq Clients /\ \A d \in DOMAIN tat' : tat'[d] \in 1..(now + Tau)
    <3>1. CASE ~WithinBudget(c)
      BY <1>1, <3>1 DEF Check, TypeOK
    <3>2. CASE WithinBudget(c)
      <4>1. tat' = [e \in DOMAIN tat \cup {c} |->
                       IF e = c THEN now + Ahead(c) + Cell ELSE tat[e]]
        BY <1>1, <3>2 DEF Check
      <4>2. now + Ahead(c) + Cell \in 1..(now + Tau)
        BY <3>2, <1>0, <2>1 DEF WithinBudget
      <4> QED BY <4>1, <4>2 DEF TypeOK
    <3> QED BY <3>1, <3>2
  <2>3. /\ now' = now /\ UNCHANGED <<pass, cutoff, unvisited, watched, opened>>
        /\ admitted' \in {admitted, admitted + 1}
        /\ verdict' = <<c, WithinBudget(c)>>
    BY <1>1 DEF Check, pruner
  <2>4. WithinBudget(c) \in BOOLEAN
    BY DEF WithinBudget
  <2>5. verdict' \in Clients \X BOOLEAN
    BY <2>3, <2>4
  <2> QED BY <1>0, <2>2, <2>3, <2>5 DEF TypeOK
<1>2. CASE Tick
  BY <1>0, <1>2 DEF Tick, TypeOK, pruner, history
<1>3. CASE BeginPass
  BY <1>0, <1>3 DEF BeginPass, TypeOK, history
<1>4. ASSUME NEW c \in Clients, VisitEntry(c) PROVE TypeOK' /\ CutoffPast'
  <2>1. DOMAIN tat' \subseteq DOMAIN tat /\ \A d \in DOMAIN tat' : tat'[d] = tat[d]
    BY <1>4 DEF VisitEntry
  <2> QED BY <1>0, <1>4, <2>1 DEF VisitEntry, TypeOK, history
<1>5. CASE EndPass
  BY <1>0, <1>5 DEF EndPass, TypeOK, history
<1>6. ASSUME NEW c \in Clients, OpenWindow(c) PROVE TypeOK' /\ CutoffPast'
  BY <1>0, <1>6 DEF OpenWindow, TypeOK, pruner
<1>7. CASE UNCHANGED vars
  BY <1>0, <1>7 DEF vars, TypeOK
<1> QED BY <1>1, <1>2, <1>3, <1>4, <1>5, <1>6, <1>7 DEF Next

\* The initial state has the right types.
LEMMA InitType == Init => TypeOK /\ CutoffPast
<1> SUFFICES ASSUME Init PROVE TypeOK /\ CutoffPast
  OBVIOUS
<1>1. DOMAIN tat = {}
  BY DEF Init
<1> QED BY <1>1, TauType DEF Init, TypeOK, CutoffPast

\* The clock of a pass is read before entries are judged by it, for ever.
LEMMA TypeInvariant == Spec => [](TypeOK /\ CutoffPast)
BY InitType, NextType, PTL DEF Spec

\* Every reachable state has its types: in particular no entry lies further
\* ahead of the clock than the burst, for every quota.
THEOREM TypeCorrect == Spec => []TypeOK
BY TypeInvariant, PTL
-----------------------------------------------------------------------------
(* The bound on what is admitted.                                          *)

\* What the watched client has had admitted in the window it has paid for: with
\* time that has passed or by being ahead.
Paid == admitted * Cell <= Ahead(watched) + (now - opened)

AdmissionInv == TypeOK /\ CutoffPast /\ Paid

\* Every step keeps the account of the watched client.
LEMMA NextPaid == AdmissionInv /\ [Next]_vars => Paid'
<1> SUFFICES ASSUME TypeOK, CutoffPast, Paid, [Next]_vars PROVE Paid'
  BY DEF AdmissionInv
<1> USE TauType DEF Paid
<1>0. /\ now \in Nat /\ opened \in Nat /\ opened <= now /\ admitted \in Nat
      /\ watched \in Clients
  BY DEF TypeOK
<1>a. Ahead(watched) \in Nat /\ admitted * Cell \in Nat
  BY <1>0, AheadType, OneMoreCell
\* Steps that change neither the account nor the clock.
<1>b. ASSUME UNCHANGED <<now, watched, opened, admitted>>, Ahead(watched)' = Ahead(watched)
      PROVE  Paid'
  BY <1>b
<1>1. ASSUME NEW c \in Clients, Check(c) PROVE Paid'
  <2>1. UNCHANGED <<now, watched, opened>>
    BY <1>1 DEF Check
  <2>2. CASE c = watched /\ WithinBudget(c)
    <3>1. admitted' = admitted + 1
      BY <1>1, <2>2 DEF Check
    <3>2. Ahead(watched)' = Ahead(watched) + Cell
      <4>1. \A d \in Clients :
               Ahead(d)' = IF d = c /\ WithinBudget(c) THEN Ahead(d) + Cell ELSE Ahead(d)
        BY <1>1, CheckAhead
      <4> QED BY <4>1, <2>1, <2>2, <1>0 DEF Ahead
    <3>3. admitted' * Cell = admitted * Cell + Cell
      BY <1>0, <3>1, OneMoreCell
    <3> QED BY <1>0, <1>a, <2>1, <3>2, <3>3
  <2>3. CASE ~(c = watched /\ WithinBudget(c))
    <3>1. admitted' = admitted
      BY <1>1, <2>3 DEF Check
    <3>2. Ahead(watched)' = Ahead(watched)
      <4>1. \A d \in Clients :
               Ahead(d)' = IF d = c /\ WithinBudget(c) THEN Ahead(d) + Cell ELSE Ahead(d)
        BY <1>1, CheckAhead
      <4> QED BY <4>1, <2>1, <2>3, <1>0 DEF Ahead
    <3> QED BY <1>b, <2>1, <3>1, <3>2
  <2> QED BY <2>2, <2>3
<1>2. CASE Tick
  <2>1. UNCHANGED <<watched, opened, admitted>> /\ now' = now + 1
    BY <1>2 DEF Tick, history
  <2>2. Ahead(watched)' >= Ahead(watched) - 1 /\ Ahead(watched)' \in Nat
    <3>1. \A c \in Clients : Ahead(c)' = IF Ahead(c) = 0 THEN 0 ELSE Ahead(c) - 1
      BY <1>2, TickAhead
    <3>2. Ahead(watched)' = IF Ahead(watched) = 0 THEN 0 ELSE Ahead(watched) - 1
      BY <3>1, <2>1, <1>0 DEF Ahead
    <3> QED BY <3>2, <1>a
  <2> QED BY <1>0, <1>a, <2>1, <2>2
<1>3. CASE BeginPass \/ EndPass
  BY <1>3, <1>b DEF BeginPass, EndPass, history, Ahead
<1>4. ASSUME NEW c \in Clients, VisitEntry(c) PROVE Paid'
  <2>1. \A d \in Clients : Ahead(d)' = Ahead(d)
    BY <1>4, VisitAhead
  <2>2. UNCHANGED <<now, watched, opened, admitted>>
    BY <1>4 DEF VisitEntry, history
  <2> QED BY <1>b, <1>0, <2>1, <2>2 DEF Ahead
<1>5. ASSUME NEW c \in Clients, OpenWindow(c) PROVE Paid'
  <2>1. /\ UNCHANGED <<now, tat>> /\ watched' = c /\ opened' = now /\ admitted' = 0
    BY <1>5 DEF OpenWindow
  <2>2. Ahead(watched)' = Ahead(c)
    BY <2>1 DEF Ahead
  <2>3. Ahead(c) \in Nat
    BY AheadType
  <2> QED BY <1>0, <2>1, <2>2, <2>3
<1>6. CASE UNCHANGED vars
  BY <1>6, <1>b DEF vars, Ahead
<1> QED BY <1>1, <1>2, <1>3, <1>4, <1>5, <1>6 DEF Next

\* The account of the watched client holds in every reachable state.
LEMMA AdmissionInvariant == Spec => []AdmissionInv
<1>1. Init => AdmissionInv
  <2> SUFFICES ASSUME Init PROVE AdmissionInv
    OBVIOUS
  <2>1. TypeOK /\ CutoffPast
    BY InitType
  <2>2. Ahead(watched) \in Nat
    BY <2>1, AheadType, TauType DEF TypeOK
  <2> QED BY <2>1, <2>2, TauType DEF Init, AdmissionInv, Paid
<1>2. AdmissionInv /\ [Next]_vars => AdmissionInv'
  BY NextType, NextPaid DEF AdmissionInv
<1> QED BY <1>1, <1>2, PTL DEF Spec

\* In no window of time is any client admitted more than its burst and what the
\* window earned, whatever the prune loop drops in between.
THEOREM AdmissionBoundHolds == Spec => []AdmissionBound
<1>1. AdmissionInv => AdmissionBound
  <2> SUFFICES ASSUME TypeOK, Paid PROVE AdmissionBound
    BY DEF AdmissionInv
  <2>1. now \in Nat /\ opened \in Nat /\ admitted \in Nat /\ watched \in Clients
    BY TauType DEF TypeOK
  <2>2. Ahead(watched) \in Nat /\ Ahead(watched) <= Tau /\ admitted * Cell \in Nat
    BY <2>1, AheadType, OneMoreCell, TauType
  <2> QED BY <2>1, <2>2, TauType DEF Paid, AdmissionBound
<1> QED BY <1>1, AdmissionInvariant, PTL
-----------------------------------------------------------------------------
(* Refinement.                                                             *)

Credit == [c \in Clients |-> Tau - Ahead(c)]

\* Every step of the limiter is a step of the buckets or is not to be seen.
LEMMA NextBucket ==
    TypeOK /\ CutoffPast /\ [Next]_vars => [Bucket!Next]_(Bucket!vars)
<1> SUFFICES ASSUME TypeOK, CutoffPast, [Next]_vars
             PROVE  Bucket!Next \/ UNCHANGED Bucket!vars
  OBVIOUS
<1> USE TauType
<1>a. \A c \in Clients : Ahead(c) \in Nat /\ Ahead(c) <= Tau
  BY AheadType
<1>b. Bucket!Capacity = Tau
  BY DEF Bucket!Capacity, Tau
\* Steps that leave every client as far ahead as it was.
<1>c. ASSUME verdict' = verdict, \A c \in Clients : Ahead(c)' = Ahead(c)
      PROVE  UNCHANGED Bucket!vars
  <2>1. Credit' = Credit
    BY <1>c DEF Credit
  <2> QED BY <1>c, <2>1 DEF Bucket!vars, Credit
<1>1. ASSUME NEW c \in Clients, Check(c) PROVE Bucket!Next
  <2>0. \A d \in Clients :
           Ahead(d)' = IF d = c /\ WithinBudget(c) THEN Ahead(d) + Cell ELSE Ahead(d)
    BY <1>1, CheckAhead
  <2>1. CASE WithinBudget(c)
    <3>1. Credit[c] >= Cell
      BY <1>a, <2>1 DEF Credit, WithinBudget
    <3>2. Credit' = [Credit EXCEPT ![c] = @ - Cell]
      <4>1. Tau - Ahead(c)' = (Tau - Ahead(c)) - Cell
        BY <1>a, <2>0, <2>1
      <4>2. \A d \in Clients : d # c => Tau - Ahead(d)' = Tau - Ahead(d)
        BY <2>0
      <4>3. Credit' = [d \in Clients |-> Tau - Ahead(d)']
        BY DEF Credit
      <4> QED BY <4>1, <4>2, <4>3 DEF Credit
    <3>3. verdict' = <<c, TRUE>>
      BY <1>1, <2>1 DEF Check
    <3>4. Bucket!Take(c)
      BY <3>1, <3>2, <3>3 DEF Bucket!Take, Credit
    <3> QED BY <3>4 DEF Bucket!Next
  <2>2. CASE ~WithinBudget(c)
    <3>1. Credit[c] < Cell
      BY <1>a, <2>2 DEF Credit, WithinBudget
    <3>2. Credit' = Credit
      BY <2>0, <2>2 DEF Credit
    <3>3. verdict' = <<c, FALSE>>
      <4>1. WithinBudget(c) = FALSE
        BY <2>2 DEF WithinBudget
      <4> QED BY <1>1, <4>1 DEF Check
    <3>4. Bucket!Refuse(c)
      BY <3>1, <3>2, <3>3 DEF Bucket!Refuse, Credit
    <3> QED BY <3>4 DEF Bucket!Next
  <2> QED BY <2>1, <2>2
<1>2. ASSUME Tick PROVE Bucket!Next
  <2>1. \A c \in Clients : Ahead(c)' = IF Ahead(c) = 0 THEN 0 ELSE Ahead(c) - 1
    BY <1>2, TickAhead
  <2>2. Credit' = [c \in Clients |-> IF Credit[c] < Tau THEN Credit[c] + 1 ELSE Tau]
    BY <1>a, <2>1 DEF Credit
  <2>3. verdict' = verdict
    BY <1>2 DEF Tick
  <2>4. Bucket!Refill
    BY <1>b, <2>2, <2>3 DEF Bucket!Refill, Credit
  <2> QED BY <2>4 DEF Bucket!Next
<1>3. CASE BeginPass \/ EndPass
  BY <1>3, <1>c DEF BeginPass, EndPass, Ahead
<1>4. ASSUME NEW c \in Clients, VisitEntry(c) PROVE UNCHANGED Bucket!vars
  <2>1. \A d \in Clients : Ahead(d)' = Ahead(d)
    BY <1>4, VisitAhead
  <2> QED BY <1>4, <1>c, <2>1 DEF VisitEntry
<1>5. ASSUME NEW c \in Clients, OpenWindow(c) PROVE UNCHANGED Bucket!vars
  BY <1>5, <1>c DEF OpenWindow, Ahead
<1>6. CASE UNCHANGED vars
  BY <1>6, <1>c DEF vars, Ahead
<1> QED BY <1>1, <1>2, <1>3, <1>4, <1>5, <1>6 DEF Next

\* A limiter that has seen nobody is a set of full buckets.
LEMMA InitBucket == Init => Bucket!Init
<1> SUFFICES ASSUME Init PROVE Bucket!Init
  OBVIOUS
<1>1. DOMAIN tat = {}
  BY DEF Init
<1>2. \A c \in Clients : Tau - Ahead(c) = Bucket!Capacity
  BY <1>1, TauType DEF Ahead, Bucket!Capacity, Tau
<1> QED BY <1>2 DEF Init, Bucket!Init, Bucket!NoVerdict, NoVerdict

\* The limiter is a token bucket per client, for every quota and any set of
\* clients: neither the representation nor the prune loop can be told from it.
THEOREM ImplementsBucketHolds == Spec => ImplementsBucket
<1>1. Init => Bucket!Init
  BY InitBucket
<1>2. TypeOK /\ CutoffPast /\ [Next]_vars => [Bucket!Next]_(Bucket!vars)
  BY NextBucket
<1> QED BY <1>1, <1>2, TypeInvariant, PTL DEF Spec, ImplementsBucket, Bucket!Spec
-----------------------------------------------------------------------------
(* What SilentForgotten rests on.                                          *)

\* A step in which the client sends nothing.
SilentNext(c) == Next /\ ~Check(c)

\* Whatever the client has used of its burst it has earned back.
Recovered(c) == c \in DOMAIN tat => tat[c] <= now

\* If the client still has an entry, the pass under way is going to drop it.
Doomed(c) ==
    c \in DOMAIN tat => pass = "pass" /\ c \in unvisited /\ tat[c] <= cutoff

\* A pass that begins once a client has recovered will drop its entry.
LEMMA PassDooms ==
    ASSUME NEW c \in Clients, Recovered(c), BeginPass
    PROVE  Doomed(c)'
BY DEF Recovered, BeginPass, Doomed

\* Only the client itself can save its entry or bring it back: other clients,
\* visits to other entries and the end of the pass do not.
LEMMA SilentStaysDoomed ==
    ASSUME TypeOK, NEW c \in Clients, Doomed(c), [SilentNext(c)]_vars
    PROVE  Doomed(c)'
<1> USE DEF Doomed
<1>1. ASSUME NEW d \in Clients, Check(d), d # c PROVE Doomed(c)'
  <2>1. UNCHANGED <<pass, cutoff, unvisited>>
    BY <1>1 DEF Check, pruner
  <2>2. c \in DOMAIN tat' => c \in DOMAIN tat /\ tat'[c] = tat[c]
    <3>1. CASE ~WithinBudget(d)
      BY <1>1, <3>1 DEF Check
    <3>2. CASE WithinBudget(d)
      <4>1. tat' = [e \in DOMAIN tat \cup {d} |->
                       IF e = d THEN now + Ahead(d) + Cell ELSE tat[e]]
        BY <1>1, <3>2 DEF Check
      <4> QED BY <1>1, <4>1
    <3> QED BY <3>1, <3>2
  <2> QED BY <2>1, <2>2
<1>2. CASE Tick
  BY <1>2 DEF Tick, pruner
<1>3. CASE BeginPass
  BY <1>3 DEF BeginPass
<1>4. ASSUME NEW d \in Clients, VisitEntry(d) PROVE Doomed(c)'
  <2>1. /\ tat' = [e \in {f \in DOMAIN tat : f # d \/ tat[f] > cutoff} |-> tat[e]]
        /\ unvisited' = unvisited \ {d} /\ UNCHANGED <<pass, cutoff>>
    BY <1>4 DEF VisitEntry
  <2>2. c \in DOMAIN tat' =>
            c \in DOMAIN tat /\ tat'[c] = tat[c] /\ (c # d \/ tat[c] > cutoff)
    BY <2>1
  <2>3. CASE c # d
    BY <2>1, <2>2, <2>3
  <2>4. CASE c = d
    <3>1. ASSUME c \in DOMAIN tat' PROVE FALSE
      <4>1. /\ c \in DOMAIN tat /\ tat[c] > cutoff
            /\ tat[c] <= cutoff /\ tat[c] \in Int /\ cutoff \in Int
        BY <2>2, <2>4, <3>1, TauType DEF TypeOK
      <4> QED BY <4>1
    <3> QED BY <3>1
  <2> QED BY <2>3, <2>4
<1>5. CASE EndPass
  BY <1>5 DEF EndPass
<1>6. ASSUME NEW d \in Clients, OpenWindow(d) PROVE Doomed(c)'
  BY <1>6 DEF OpenWindow, pruner
<1>7. CASE UNCHANGED vars
  BY <1>7 DEF vars
<1> QED BY <1>1, <1>2, <1>3, <1>4, <1>5, <1>6, <1>7 DEF SilentNext, Next

\* One pass of the prune loop is enough for a silent client: a pass that begins
\* when the client has recovered, however it is interleaved with other clients'
\* queries, leaves no entry of it behind, and none comes back while the client
\* says nothing.  The rest of SilentForgotten is that a pass begins and ends.
THEOREM OnePassForgets ==
    ASSUME NEW c \in Clients
    PROVE  Spec => /\ [][BeginPass /\ Recovered(c) => Doomed(c)']_vars
                   /\ [](Doomed(c) /\ [][SilentNext(c)]_vars
                           => [](pass = "sleep" => c \notin DOMAIN tat))
<1>1. BeginPass /\ Recovered(c) => Doomed(c)'
  BY PassDooms
<1>2. TypeOK /\ Doomed(c) /\ [SilentNext(c)]_vars => Doomed(c)'
  BY SilentStaysDoomed
<1>3. Doomed(c) => (pass = "sleep" => c \notin DOMAIN tat)
  BY DEF Doomed
<1> QED BY <1>1, <1>2, <1>3, TypeCorrect, PTL
=============================================================================
