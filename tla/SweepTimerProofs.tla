--------------------------- MODULE SweepTimerProofs ---------------------------
(* Theorems about SweepTimer for every timeout, delay, spacing and set of  *)
(* peers.                                                                  *)
EXTENDS SweepTimer, SequenceTheorems, TLAPS

-----------------------------------------------------------------------------
(* Arithmetic of the interval.                                             *)

\* An interval leaves room for the probes of a sweep and the peers' delay.
LEMMA IntervalRoom ==
    /\ SweepInterval \in Nat \ {0} /\ OBSERVATION_TIMEOUT \in Nat
    /\ MIN_PEER_RECONNECTION_DELAY + OBSERVATION_TIMEOUT <= SweepInterval
    /\ MIN_PEER_RECONNECTION_DELAY \in Nat \ {0}
BY TimeAssumption DEF SweepInterval, MIN_SWEEP_INTERVAL, OBSERVATION_TIMEOUT

\* A remainder is smaller than its divisor and no larger than its dividend.
LEMMA Remainder ==
    ASSUME NEW x \in Nat, NEW n \in Nat \ {0}
    PROVE  x % n \in 0..(n - 1) /\ x % n <= x /\ 0 % n = 0
<1>1. x % n \in 0..(n - 1)
  OBVIOUS
<1>2. x < n => x % n = x
  OBVIOUS
<1>3. 0 % n = 0
  OBVIOUS
<1> QED BY <1>1, <1>2, <1>3

\* The latest sweeps, the new one first.
LEMMA LatestStarts ==
    ASSUME NEW s \in Seq(Nat), Len(s) <= 3, NEW t \in Nat, NEW u, u = Latest(<<t>> \o s, 3)
    PROVE  /\ u \in Seq(Nat) /\ Len(u) = IF Len(s) < 3 THEN Len(s) + 1 ELSE 3
           /\ u[1] = t
           /\ \A i \in 1..(Len(u) - 1) : u[i + 1] = s[i]
<1> DEFINE w == <<t>> \o s
<1>1. /\ w \in Seq(Nat) /\ Len(w) = Len(s) + 1 /\ w[1] = t
      /\ \A i \in 1..Len(s) : w[i + 1] = s[i]
  OBVIOUS
<1> HIDE DEF w
<1> DEFINE m == IF Len(s) < 3 THEN Len(s) + 1 ELSE 3
<1>2. m \in 1..3 /\ m <= Len(w) /\ m = IF Len(w) < 3 THEN Len(w) ELSE 3
  BY <1>1
<1>3. u = SubSeq(w, 1, m)
  BY <1>2 DEF Latest, w
<1>a. m = IF Len(s) < 3 THEN Len(s) + 1 ELSE 3
  OBVIOUS
<1> HIDE DEF m
<1>b. \A i \in 1..m : w[i] \in Nat
  BY <1>1, <1>2
<1>c. /\ SubSeq(w, 1, m) \in Seq(Nat)
      /\ Len(SubSeq(w, 1, m)) = IF 1 <= m THEN m - 1 + 1 ELSE 0
      /\ \A i \in 1..(m - 1 + 1) : SubSeq(w, 1, m)[i] = w[1 + i - 1]
  BY <1>2, <1>b, SubSeqProperties
<1>4. u \in Seq(Nat) /\ Len(u) = m
  BY <1>2, <1>3, <1>c
<1>5. ASSUME NEW i \in 1..m PROVE u[i] = w[i]
  BY <1>2, <1>3, <1>c
<1>6. ASSUME NEW i \in 1..(Len(u) - 1) PROVE u[i + 1] = s[i]
  <2>1. i \in 1..Len(s) /\ i + 1 \in 1..m
    BY <1>1, <1>2, <1>4
  <2> QED BY <1>1, <1>5, <2>1
<1>7. u[1] = t
  BY <1>1, <1>2, <1>5
<1> QED BY <1>4, <1>6, <1>7, <1>a

\* The tick after a sweep lies ahead, on the grid of the interval: no nearer than
\* one interval after the tick before, and exactly there after a punctual sweep.
LEMMA NextTick ==
    ASSUME now \in Nat, deadline \in Nat, now >= deadline
    PROVE  /\ NextDeadline \in Nat
           /\ NextDeadline > now /\ NextDeadline <= now + SweepInterval
           /\ NextDeadline >= deadline + SweepInterval
           /\ now = deadline => NextDeadline = now + SweepInterval
<1> DEFINE x == now - deadline
           r == x % SweepInterval
<1>1. x \in Nat
  OBVIOUS
<1>2. r \in 0..(SweepInterval - 1) /\ r <= x /\ 0 % SweepInterval = 0
  BY <1>1, IntervalRoom, Remainder
<1>3. now = deadline => r = 0
  BY <1>2
<1>4. NextDeadline = now + SweepInterval - r
  BY DEF NextDeadline
<1> HIDE DEF r
<1> QED BY <1>1, <1>2, <1>3, <1>4, IntervalRoom
-----------------------------------------------------------------------------
(* The inductive invariant.                                                *)

\* A punctual sweep is probing at most OBSERVATION_TIMEOUT after the deadline
\* before the one that is due.
Probing ==
    pc = "probing" => /\ now <= since + OBSERVATION_TIMEOUT
                      /\ ~late => deadline = since + SweepInterval

\* A peer that is not excused will take a connection at the next tick, and one
\* that the sweep under way has yet to reach takes it now.
Rested ==
    \A p \in Peers \ excused :
        /\ accepted[p] # Never
        /\ accepted[p] + MIN_PEER_RECONNECTION_DELAY <= deadline
        /\ pc = "probing" /\ p \in pending
              => accepted[p] + MIN_PEER_RECONNECTION_DELAY <= since

\* A probe that was refused is not to be made again in its sweep.
RefusedOnce == pending \cap refused = {}

\* Two sweeps back is more than an interval before the next.
Apart ==
    /\ starts \in Seq(Nat)
    /\ Len(starts) >= 2 => deadline > starts[2] + SweepInterval

TimerInv == TypeOK /\ Probing /\ Rested /\ RefusedOnce /\ Apart /\ NoSelfRefusal /\ SweepsSpread

\* It holds before the first start.
LEMMA TimerInit == Init => TimerInv
<1> SUFFICES ASSUME Init PROVE TimerInv
  OBVIOUS
<1>1. starts = <<>> /\ starts \in Seq(Nat) /\ Len(starts) = 0 /\ DOMAIN starts = {}
  BY DEF Init
<1>2. TypeOK
  <2>1. now \in 0..MaxTime /\ deadline \in Nat /\ since \in 0..now
    BY TimeAssumption DEF Init
  <2>2. accepted \in [Peers -> 0..now \cup {Never}]
    BY DEF Init
  <2>3. Len(starts) <= 3 /\ \A i \in DOMAIN starts : starts[i] \in 0..now
    BY <1>1
  <2>4. late \in BOOLEAN
    BY DEF Init
  <2> QED BY <1>1, <2>1, <2>2, <2>3, <2>4 DEF Init, TypeOK
<1>3. Probing /\ Rested /\ RefusedOnce /\ Apart /\ NoSelfRefusal /\ SweepsSpread
  BY <1>1 DEF Init, Probing, Rested, RefusedOnce, Apart, NoSelfRefusal, SweepsSpread
<1> QED BY <1>2, <1>3 DEF TimerInv

\* What the clock's advance keeps: every time in the past stays there.
LEMMA StillPast ==
    ASSUME TypeOK, now' \in Nat, now' >= now, UNCHANGED <<accepted, since, starts>>
    PROVE  /\ accepted' \in [Peers -> 0..now' \cup {Never}] /\ since' \in 0..now'
           /\ Len(starts') <= 3 /\ \A i \in DOMAIN starts' : starts'[i] \in 0..now'
<1>1. now \in Nat /\ 0..now \subseteq 0..now'
  BY TimeAssumption DEF TypeOK
<1> QED BY <1>1 DEF TypeOK

\* Every step keeps the invariant.
LEMMA TimerNext ==
    ASSUME TimerInv, [Next]_vars
    PROVE  TimerInv'
<1>0. /\ TypeOK /\ Probing /\ Rested /\ RefusedOnce /\ Apart /\ NoSelfRefusal /\ SweepsSpread
      /\ now \in Nat /\ deadline \in Nat /\ since \in Nat /\ since <= now /\ MaxTime \in Nat
  BY TimeAssumption DEF TimerInv, TypeOK
<1>1. ASSUME Start PROVE TimerInv'
  <2>0. starts' = <<>> /\ Len(starts') = 0 /\ DOMAIN starts' = {}
    BY <1>1 DEF Start
  <2>1. TypeOK'
    <3>1. /\ pc' = "tick" /\ deadline' = now /\ since' = now /\ late' = FALSE
          /\ excused' = Peers /\ refused' = {} /\ UNCHANGED <<now, pending, accepted>>
      BY <1>1 DEF Start
    <3>2. Len(starts') <= 3 /\ \A i \in DOMAIN starts' : starts'[i] \in 0..now'
      BY <2>0
    <3>3. since' \in 0..now'
      BY <1>0, <3>1
    <3>4. late' \in BOOLEAN
      BY <3>1, Zenon
    <3> QED BY <1>0, <2>0, <3>1, <3>2, <3>3, <3>4 DEF TypeOK
  <2>2. Probing' /\ Rested' /\ RefusedOnce' /\ Apart' /\ NoSelfRefusal' /\ SweepsSpread'
    BY <1>1 DEF Start, Probing, Rested, RefusedOnce, Apart, NoSelfRefusal, SweepsSpread
  <2> QED BY <2>1, <2>2 DEF TimerInv
<1>2. ASSUME Stop PROVE TimerInv'
  <2>1. TypeOK'
    BY <1>0, <1>2 DEF Stop, TypeOK, history
  <2>2. Probing' /\ Rested' /\ RefusedOnce' /\ Apart' /\ NoSelfRefusal' /\ SweepsSpread'
    BY <1>0, <1>2
    DEF Stop, history, Probing, Rested, RefusedOnce, Apart, NoSelfRefusal, SweepsSpread
  <2> QED BY <2>1, <2>2 DEF TimerInv
<1>3. ASSUME NEW sampled_peers \in SUBSET Peers, BeginSweep(sampled_peers) PROVE TimerInv'
  <2>1. /\ pc = "tick" /\ now >= deadline
        /\ pc' = "probing" /\ since' = now /\ deadline' = NextDeadline
        /\ pending' = sampled_peers /\ starts' = Latest(<<now>> \o starts, 3)
        /\ late' = (now > deadline) /\ refused' = {} /\ UNCHANGED <<now, accepted, excused>>
    BY <1>3 DEF BeginSweep
  <2>2. /\ deadline' \in Nat /\ deadline' > now /\ deadline' <= now + SweepInterval
        /\ deadline' >= deadline + SweepInterval
        /\ now = deadline => deadline' = now + SweepInterval
    BY <1>0, <2>1, NextTick
  <2>3. /\ starts \in Seq(Nat) /\ Len(starts) \in Nat /\ Len(starts) <= 3
        /\ \A i \in 1..Len(starts) : starts[i] \in 0..now
    BY <1>0 DEF TypeOK, Apart
  <2>4. /\ starts' \in Seq(Nat) /\ Len(starts') = IF Len(starts) < 3 THEN Len(starts) + 1 ELSE 3
        /\ starts'[1] = now
        /\ \A i \in 1..(Len(starts') - 1) : starts'[i + 1] = starts[i]
    BY <1>0, <2>1, <2>3, LatestStarts
  <2>5. \A i \in 1..Len(starts') : starts'[i] \in 0..now
    <3> SUFFICES ASSUME NEW i \in 1..Len(starts') PROVE starts'[i] \in 0..now
      OBVIOUS
    <3>1. CASE i = 1
      BY <1>0, <2>3, <2>4, <3>1
    <3>2. CASE i # 1
      <4>1. i - 1 \in 1..(Len(starts') - 1) /\ i - 1 \in 1..Len(starts) /\ (i - 1) + 1 = i
        BY <2>3, <2>4, <3>2
      <4>2. starts'[i] = starts[i - 1]
        BY <2>3, <2>4, <4>1
      <4> QED BY <2>3, <2>4, <4>1, <4>2
    <3> QED BY <3>1, <3>2
  <2>6. TypeOK'
    <3>1. Len(starts') <= 3 /\ \A i \in DOMAIN starts' : starts'[i] \in 0..now'
      BY <2>1, <2>3, <2>4, <2>5
    <3>2. late' \in BOOLEAN
      BY <2>1
    <3> QED BY <1>0, <2>1, <2>2, <2>3, <2>4, <3>1, <3>2 DEF TypeOK
  <2>7. Probing'
    <3>1. ASSUME ~late' PROVE now = deadline
      <4>1. ~(now > deadline)
        BY <2>1, <3>1, Zenon
      <4> QED BY <1>0, <2>1, <4>1
    <3> QED BY <1>0, <2>1, <2>2, <3>1, IntervalRoom DEF Probing
  <2>8. Rested'
    <3> SUFFICES ASSUME NEW p \in Peers \ excused
                 PROVE  /\ accepted[p] # Never
                        /\ accepted[p] + MIN_PEER_RECONNECTION_DELAY <= deadline'
                        /\ accepted[p] + MIN_PEER_RECONNECTION_DELAY <= now
      BY <2>1 DEF Rested
    <3>1. accepted[p] \in Nat /\ accepted[p] + MIN_PEER_RECONNECTION_DELAY <= deadline
      BY <1>0 DEF Rested, TypeOK
    <3> QED BY <1>0, <2>1, <2>2, <3>1, IntervalRoom, TimeAssumption
  <2>9. RefusedOnce' /\ NoSelfRefusal'
    BY <2>1 DEF RefusedOnce, NoSelfRefusal
  <2>10. Apart'
    <3>1. ASSUME Len(starts') >= 2 PROVE deadline' > starts'[2] + SweepInterval
      <4>1. 1 \in 1..(Len(starts') - 1) /\ 1 \in 1..Len(starts) /\ starts # <<>>
        BY <2>3, <2>4, <3>1
      <4>2. starts'[2] = starts[1] /\ starts[1] \in Nat
        BY <1>0, <2>3, <2>4, <4>1
      <4>3. starts[1] < deadline
        BY <1>0, <2>1, <4>1 DEF TypeOK
      <4> QED BY <1>0, <2>2, <4>2, <4>3, IntervalRoom
    <3> QED BY <2>3, <2>4, <3>1 DEF Apart
  <2>11. SweepsSpread'
    <3>1. ASSUME Len(starts') = 3 PROVE starts'[1] - starts'[3] > SweepInterval
      <4>0. Len(starts) >= 2
        BY <2>3, <2>4, <3>1
      <4>1. 2 \in 1..(Len(starts') - 1) /\ 2 \in 1..Len(starts)
        BY <2>3, <2>4, <3>1, <4>0
      <4>2. starts'[3] = starts[2] /\ starts[2] \in Nat
        BY <1>0, <2>3, <2>4, <4>1
      <4>3. deadline > starts[2] + SweepInterval
        BY <1>0, <2>3, <2>4, <4>1 DEF Apart
      <4> QED BY <1>0, <2>1, <2>3, <2>4, <4>2, <4>3, IntervalRoom
    <3> QED BY <3>1, IntervalRoom DEF SweepsSpread, SweepInterval
  <2> QED BY <2>6, <2>7, <2>8, <2>9, <2>10, <2>11 DEF TimerInv
<1>4. ASSUME NEW p \in Peers, Connect(p) PROVE TimerInv'
  <2>1. /\ pc = "probing" /\ p \in pending /\ pending' = pending \ {p}
        /\ UNCHANGED <<now, pc, deadline, since, starts, late>>
    BY <1>4 DEF Connect
  <2>2. Probing' /\ Apart' /\ SweepsSpread'
    BY <1>0, <2>1 DEF Probing, Apart, SweepsSpread
  <2>3. CASE accepted[p] # Never /\ now - accepted[p] < MIN_PEER_RECONNECTION_DELAY
    <3>1. refused' = refused \cup {p} /\ UNCHANGED <<accepted, excused>>
      BY <1>4, <2>3 DEF Connect
    <3>2. p \in excused
      <4> SUFFICES ASSUME p \notin excused PROVE FALSE
        OBVIOUS
      <4>1. accepted[p] \in Nat /\ accepted[p] + MIN_PEER_RECONNECTION_DELAY <= since
        BY <1>0, <2>1 DEF Rested, TypeOK
      <4> QED BY <1>0, <2>3, <4>1, IntervalRoom
    <3>3. TypeOK' /\ Rested' /\ RefusedOnce' /\ NoSelfRefusal'
      BY <1>0, <2>1, <3>1, <3>2 DEF TypeOK, Rested, RefusedOnce, NoSelfRefusal
    <3> QED BY <2>2, <3>3 DEF TimerInv
  <2>4. CASE ~(accepted[p] # Never /\ now - accepted[p] < MIN_PEER_RECONNECTION_DELAY)
    <3>1. /\ accepted' = [accepted EXCEPT ![p] = now] /\ UNCHANGED refused
          /\ excused' = IF late THEN excused \cup {p} ELSE excused \ {p}
      BY <1>4, <2>4 DEF Connect
    <3>2. TypeOK'
      BY <1>0, <2>1, <3>1 DEF TypeOK
    <3>3. p \notin refused
      BY <1>0, <2>1 DEF RefusedOnce
    <3>4. RefusedOnce' /\ NoSelfRefusal'
      BY <1>0, <2>1, <3>1, <3>3 DEF RefusedOnce, NoSelfRefusal
    <3>5. Rested'
      <4> SUFFICES ASSUME NEW q \in Peers \ excused'
                   PROVE  /\ accepted'[q] # Never
                          /\ accepted'[q] + MIN_PEER_RECONNECTION_DELAY <= deadline
                          /\ pc = "probing" /\ q \in pending'
                                => accepted'[q] + MIN_PEER_RECONNECTION_DELAY <= since
        BY <2>1 DEF Rested
      <4>1. CASE q = p
        <5>1. accepted'[q] = now /\ ~late /\ q \notin pending'
          BY <1>0, <2>1, <3>1, <4>1 DEF TypeOK
        <5>2. now + MIN_PEER_RECONNECTION_DELAY <= deadline
          BY <1>0, <2>1, <5>1, IntervalRoom DEF Probing
        <5> QED BY <1>0, <5>1, <5>2, TimeAssumption
      <4>2. CASE q # p
        <5>1. accepted'[q] = accepted[q] /\ q \notin excused /\ (q \in pending' => q \in pending)
          BY <1>0, <2>1, <3>1, <4>2 DEF TypeOK
        <5> QED BY <1>0, <5>1 DEF Rested
      <4> QED BY <4>1, <4>2
    <3> QED BY <2>2, <3>2, <3>4, <3>5 DEF TimerInv
  <2> QED BY <2>3, <2>4
<1>5. ASSUME NEW p \in Peers, Unreached(p) PROVE TimerInv'
  BY <1>0, <1>5
  DEF Unreached, history, TimerInv, TypeOK, Probing, Rested, RefusedOnce, Apart,
      NoSelfRefusal, SweepsSpread
<1>6. ASSUME NEW confirmed \in BOOLEAN, EndSweep(confirmed) PROVE TimerInv'
  BY <1>0, <1>6
  DEF EndSweep, history, TimerInv, TypeOK, Probing, Rested, RefusedOnce, Apart,
      NoSelfRefusal, SweepsSpread
<1>7. ASSUME NEW written \in BOOLEAN, EndPersist(written) PROVE TimerInv'
  BY <1>0, <1>7
  DEF EndPersist, history, TimerInv, TypeOK, Probing, Rested, RefusedOnce, Apart,
      NoSelfRefusal, SweepsSpread
<1>8. ASSUME Tick PROVE TimerInv'
  <2>1. /\ now < MaxTime /\ now' = now + 1
        /\ pc = "probing" => now < since + OBSERVATION_TIMEOUT
        /\ UNCHANGED <<pc, deadline, since, pending, accepted, starts, late, excused, refused>>
    BY <1>8 DEF Tick, history
  <2>2. now' \in 0..MaxTime /\ now' \in Nat /\ now' >= now
    BY <1>0, <2>1
  <2>3. TypeOK'
    BY <1>0, <2>1, <2>2, StillPast DEF TypeOK
  <2>4. Probing'
    BY <1>0, <2>1, IntervalRoom DEF Probing
  <2>5. Rested' /\ RefusedOnce' /\ Apart' /\ NoSelfRefusal' /\ SweepsSpread'
    BY <1>0, <2>1 DEF Rested, RefusedOnce, Apart, NoSelfRefusal, SweepsSpread
  <2> QED BY <2>3, <2>4, <2>5 DEF TimerInv
<1>9. ASSUME UNCHANGED vars PROVE TimerInv'
  BY <1>0, <1>9
  DEF vars, TimerInv, TypeOK, Probing, Rested, RefusedOnce, Apart, NoSelfRefusal, SweepsSpread
<1> QED BY <1>1, <1>2, <1>3, <1>4, <1>5, <1>6, <1>7, <1>8, <1>9 DEF Next
-----------------------------------------------------------------------------
\* The invariant is one of the specification.
LEMMA TimerInvHolds == Spec => []TimerInv
BY TimerInit, TimerNext, PTL DEF Spec

\* The next tick always lies ahead of the latest sweep, by at most an interval.
THEOREM TimerTypeCorrect == Spec => []TypeOK
<1>1. TimerInv => TypeOK
  BY DEF TimerInv
<1> QED BY <1>1, TimerInvHolds, PTL

\* A sweep that began on time never costs its successor a probe: for every
\* handshake timeout, reconnection delay and block spacing, and however often
\* the seeder restarts, MIN_SWEEP_INTERVAL is long enough.
THEOREM NoSelfRefusalHolds == Spec => []NoSelfRefusal
<1>1. TimerInv => NoSelfRefusal
  BY DEF TimerInv
<1> QED BY <1>1, TimerInvHolds, PTL

\* Skipped ticks are not made up for, whatever delays the runtime and the disk
\* add.
THEOREM SweepsSpreadHolds == Spec => []SweepsSpread
<1>1. TimerInv => SweepsSpread
  BY DEF TimerInv
<1> QED BY <1>1, TimerInvHolds, PTL
=============================================================================
