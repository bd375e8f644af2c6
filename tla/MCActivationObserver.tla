------------------------ MODULE MCActivationObserver ------------------------
(* Instances of ActivationObserver for TLC.                                *)
EXTENDS ActivationObserver, TLC

CONSTANTS a1, a2, b1, c1, d1

\* Two Byzantine peers share the group "a", so a sample that took more than one
\* peer of a group would let one group vote twice.
MCGroupOf == [p \in Peers |->
                 CASE p \in {a1, a2} -> "a" [] p = b1 -> "b"
                   [] p = c1 -> "c" [] OTHER -> "d"]
MCGroups == {"a", "b", "c", "d"}

\* Two upgrades whose confirmation heights both lie within MaxHeight.
MCActivationHeight == [u \in 1..N |-> IF u = 1 THEN 1 ELSE 3]
=============================================================================
