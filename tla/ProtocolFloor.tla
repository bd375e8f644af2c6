---------------------------- MODULE ProtocolFloor ----------------------------
(***************************************************************************)
(* What activation promises of the protocol floor of one network: which    *)
(* version a running seeder enforces and what it may do to it.  Upgrade u  *)
(* is the u-th of the activation table, release r compiles in the first r  *)
(* of them, and the floor is an upgrade, 0 below the first.  How a         *)
(* decision comes about (sweeps, quorum, heights) is not visible here;     *)
(* ActivationObserver implements this specification.                       *)
(***************************************************************************)
EXTENDS Integers

CONSTANTS
    N,                  \* upgrades any release will ever compile in
    CacheEnabled,       \* whether a decision can be made durable
    AllowRollback,      \* whether an older release may be installed again
    OnlineAttest        \* whether the operator may record beside a running seeder

VARIABLES
    installed,   \* release a start would run
    running,     \* release of the running process, 0 when it is down
    floor,       \* the floor it enforces, 0 when it is down
    decided      \* the upgrade whose activation is recorded, 0 for none

vars == <<installed, running, floor, decided>>

Init == installed = 1 /\ running = 0 /\ floor = 0 /\ decided = 0

\* A process starts one below its own upgrade unless exactly that upgrade is on
\* record; a record that cannot be read is none.
Boot(readable) ==
    /\ running = 0
    /\ running' = installed
    /\ floor' = IF CacheEnabled /\ readable /\ decided = installed
                THEN installed ELSE installed - 1
    /\ UNCHANGED <<installed, decided>>

Halt ==
    /\ running # 0
    /\ running' = 0 /\ floor' = 0
    /\ UNCHANGED <<installed, decided>>

\* The running process decides for its own upgrade, on disk and nowhere else.
Decide ==
    /\ CacheEnabled /\ running # 0 /\ floor = running - 1
    /\ decided' = running
    /\ UNCHANGED <<installed, running, floor>>

\* Variant of Raise: the floor rises before the decision is on disk.
RaiseFirst ==
    /\ CacheEnabled /\ running # 0 /\ floor = running - 1
    /\ floor' = running
    /\ UNCHANGED <<installed, running, decided>>

\* The floor rises once, by one upgrade, to what is already on record, or has been
\* until the operator recorded another beside the process.
Raise ==
    /\ running # 0 /\ floor = running - 1
    /\ decided = running \/ (OnlineAttest /\ decided # 0)
    /\ floor' = running
    /\ UNCHANGED <<installed, running, decided>>

\* The operator may record the installed release's upgrade, and beside a stopped
\* seeder delete the record.
Operate ==
    /\ \/ /\ CacheEnabled /\ (running = 0 \/ OnlineAttest)
          /\ decided' = installed
       \/ running = 0 /\ decided' = 0
    /\ UNCHANGED <<installed, running, floor>>

Install(r) ==
    /\ AllowRollback \/ r > installed
    /\ installed' = r
    /\ UNCHANGED <<running, floor, decided>>

Next ==
    \/ \E readable \in BOOLEAN : Boot(readable)
    \/ Halt
    \/ Decide
    \/ Raise
    \/ Operate
    \/ \E r \in 1..N : Install(r)

Spec == Init /\ [][Next]_vars
=============================================================================
