------------------------------ MODULE MCHealth ------------------------------
(* The endpoint with two zones; a zone needs both families to be ready in  *)
(* HealthSafety and HealthLiveness.                                        *)
EXTENDS Health
=============================================================================
