----------------------------- MODULE ServedFloor -----------------------------
(***************************************************************************)
(* What an upgrade promises the users of DNS, as a seeder of one network   *)
(* shows it from outside: only the peers served and the protocol floor     *)
(* they have been held to.  FloorServing keeps both for the promise of the *)
(* activation observer and an address cache, ActivationObserverProofs for  *)
(* the observer itself.                                                    *)
(***************************************************************************)
EXTENDS Integers

VARIABLES
    snapshot,   \* what DNS serves: pairs of a peer and its version
    held        \* history: the floor DNS has been held to so far

\* Once DNS has been held to a floor it stays so: no snapshot of this or any
\* later process, after a crash at any point and under any newer release, holds
\* a peer below it, until an operator deletes the record or it cannot be read.
\* (With releases moving forward; network-upgrades.md, after a confirmation.)
FloorHolds == \A e \in snapshot : e[2] >= held
=============================================================================
