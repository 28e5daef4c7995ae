------------------------------ MODULE MCPools ------------------------------
(***************************************************************************)
(* One account and one proxy: the records of a pool do not touch each       *)
(* other.  Two workers compete for the account.  A lease lasts one unit and *)
(* a cooldown two, so that time can pass before, within and after each.     *)
(***************************************************************************)
EXTENDS Pools

MCAccount == {1}
MCStatus == {"healthy", "cooldown", "locked"}
=============================================================================
