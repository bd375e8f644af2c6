------------------------------ MODULE MCLaunch ------------------------------
(* Instances of Launch for TLC: two zones, of which one has a second key,  *)
(* one optional section and one that is there by default.                  *)
EXTENDS Launch

MCSectionOf ==
    [k \in Keys |->
        CASE k \in {"mainnet.domain", "mainnet.ttl"} -> "mainnet"
          [] k = "testnet.domain"                    -> "testnet"
          [] k = "metrics.endpoint_addr"             -> "metrics"
          [] k = "rate_limit.burst_size"             -> "rate_limit"
          [] k = "colour"                            -> "colour"]

MCDomain == [z \in ZoneSections |-> IF z = "mainnet" THEN "mainnet.domain" ELSE "testnet.domain"]

\* The empty domain of ZoneConfig::default is no name a zone can have.
MCDefault ==
    [k \in Keys |-> IF k \in {"mainnet.domain", "testnet.domain"} THEN Malformed ELSE 1]
=============================================================================
