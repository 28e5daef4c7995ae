--------------------------- MODULE MCProfileQueue ---------------------------
(* Room for two of three tasks; one crash and two failed writes reach a        *)
(* success whose two writes both fail, and a restart from a file older than    *)
(* the memory; two leases of two tasks overlap, expire and are released.       *)
EXTENDS ProfileQueue
==============================================================================
