--------------------------- MODULE MCAddressCache ---------------------------
(* Instances of AddressCache for TLC.                                      *)
EXTENDS AddressCache, TLC

CONSTANTS p1, p2, q1

\* q1 is the only IPv6 peer; p1 and p2 are banned together.
MCFamily == [p \in Peers |-> IF p = q1 THEN "ipv6" ELSE "ipv4"]
MCBanGroup == [p \in Peers |-> IF p \in {p1, p2} THEN "g" ELSE "h"]

Live(v) == [live |-> TRUE, version |-> v, full |-> TRUE, inbound |-> FALSE]

\* A handshake at each floor.
MCHandshakes == {Live(1), Live(2)}
=============================================================================
