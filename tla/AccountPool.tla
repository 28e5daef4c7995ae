---------------------------- MODULE AccountPool ----------------------------
(***************************************************************************)
(* The registry of a provider's accounts (packages/provider_pool): leases   *)
(* that expire, and health with a cooldown.  Its callers are workers that   *)
(* choose an account, lease it, use it and release it, whoever reports an   *)
(* account's health, and a timer that calls tick().                         *)
(*                                                                         *)
(* Times are what is left of them: Advance takes a unit off all.  Every     *)
(* command writes the whole pool to disk before it returns, so a restart    *)
(* finds what was there and is no step of its own.                          *)
(***************************************************************************)
EXTENDS Integers, FiniteSets

CONSTANTS Account,       \* a set of numbers, the priorities of the accounts
          Worker,
          None,          \* no account, no lease
          Status,        \* the health reports callers make
          LeaseTtl,      \* lease_ttl_seconds
          MaxCooldown    \* cooldown_seconds is 0, the default, or this

ASSUME PoolAssumption ==
  /\ Account \subseteq Nat
  /\ None \notin Account \cup Worker
  /\ Status \subseteq {"healthy", "degraded", "cooldown", "locked", "unavailable"}
  /\ LeaseTtl \in Nat \ {0}
  /\ MaxCooldown \in Nat \ {0}

\* createAccount()
AccountRecord ==
  [enabled : BOOLEAN, lease : Worker \cup {None}, left : Nat,
   status : Status \cup {"healthy"}, until : Int]

ASSUME RecordAssumption == None \notin AccountRecord

Unset == -1              \* a time that is null; 0 is one that has passed

VARIABLES cooldown,      \* pool policy: cooldown_seconds
          account,       \* the account of each id, or None
          chosen,        \* the account a worker has selected
          held,          \* the account and the time a worker was granted
          robbed,        \* workers whose running lease another call cleared
          rest           \* what is left of the rest an account was sent to

accountVars == << cooldown, account, chosen, held, robbed, rest >>

NewAccount == [enabled |-> TRUE, lease |-> None, left |-> 0, status |-> "healthy",
               until |-> Unset]

IsAccountHealthy(a) ==
  account[a].enabled /\ account[a].status \in {"healthy", "degraded"}
IsAccountCoolingDown(a) == account[a].until > 0
IsLeaseValid(a) == account[a].lease # None /\ account[a].left > 0

Pool == { a \in Account : account[a] # None }
Available == { a \in Pool :
                 IsAccountHealthy(a) /\ ~IsLeaseValid(a) /\ ~IsAccountCoolingDown(a) }

NotHeld == [account |-> None, left |-> 0]

AccountInit ==
  /\ cooldown \in {0, MaxCooldown}
  /\ account = [a \in Account |-> NewAccount]
  /\ chosen = [w \in Worker |-> None]
  /\ held = [w \in Worker |-> NotHeld]
  /\ robbed = {}
  /\ rest = [a \in Account |-> [left |-> 0, stale |-> FALSE]]

-----------------------------------------------------------------------------
\* selectAccount(): the available account of the highest priority; no lease yet.
SelectAccount(w) ==
  /\ chosen[w] = None /\ held[w] = NotHeld
  /\ \E a \in Available :
       /\ \A b \in Available : a >= b
       /\ chosen' = [chosen EXCEPT ![w] = a]
  /\ UNCHANGED << cooldown, account, held, robbed, rest >>

\* A bug the properties must catch: leases are left to the selection.
GrantableWhenHealthy(a) == account[a] # None /\ IsAccountHealthy(a)

\* acquireLease() does not look at the status.
Grantable(a) ==
  /\ account[a] # None
  /\ account[a].enabled
  /\ ~IsAccountCoolingDown(a)
  /\ ~IsLeaseValid(a)

\* The account may have changed since it was chosen: then there is no lease.
AcquireLease(w) ==
  LET a == chosen[w]
  IN  /\ a # None
      /\ chosen' = [chosen EXCEPT ![w] = None]
      /\ IF Grantable(a)
         THEN /\ account' = [account EXCEPT ![a].lease = w, ![a].left = LeaseTtl]
              /\ held' = [held EXCEPT ![w] = [account |-> a, left |-> LeaseTtl]]
              /\ robbed' = robbed \ {w}
         ELSE UNCHANGED << account, held, robbed >>
      /\ UNCHANGED << cooldown, rest >>

\* The workers other than w that lose a running lease on a.
Robbed(a, w) ==
  { v \in Worker \ {w} : account[a] # None /\ account[a].lease = v /\ account[a].left > 0 }

\* releaseLease() takes the account's id alone: it clears whatever lease is there.
ReleaseLease(w) ==
  LET a == held[w].account
  IN  /\ a # None
      /\ held' = [held EXCEPT ![w] = NotHeld]
      /\ account' = IF account[a] = None THEN account
                    ELSE [account EXCEPT ![a].lease = None, ![a].left = 0]
      /\ robbed' = (robbed \cup Robbed(a, w)) \ {w}
      /\ UNCHANGED << cooldown, chosen, rest >>

-----------------------------------------------------------------------------
\* updateHealth(): "cooldown" sets cooldown_until only when it was never set.
UpdateHealth(a, status) ==
  LET fresh == status = "cooldown" /\ cooldown > 0 /\ account[a].until = Unset
  IN  /\ a \in Pool
      /\ account' = [account EXCEPT ![a].status = status,
                                    ![a].until = IF fresh THEN cooldown ELSE @]
      /\ rest' = [rest EXCEPT ![a] =
                    [left |-> IF status = "cooldown" THEN cooldown ELSE 0,
                     stale |-> status = "cooldown" /\ ~fresh]]
      /\ UNCHANGED << cooldown, chosen, held, robbed >>

\* updateAccount(): an operator takes an account out of use, or back.
SetEnabled(a) ==
  /\ a \in Pool
  /\ account' = [account EXCEPT ![a].enabled = ~@]
  /\ UNCHANGED << cooldown, chosen, held, robbed, rest >>

\* removeAccount(): with its lease, if any.
RemoveAccount(a) ==
  /\ a \in Pool
  /\ account' = [account EXCEPT ![a] = None]
  /\ robbed' = robbed \cup Robbed(a, None)
  /\ rest' = [rest EXCEPT ![a] = [left |-> 0, stale |-> FALSE]]
  /\ UNCHANGED << cooldown, chosen, held >>

\* addAccount()
AddAccount(a) ==
  /\ a \notin Pool
  /\ account' = [account EXCEPT ![a] = NewAccount]
  /\ UNCHANGED << cooldown, chosen, held, robbed, rest >>

\* Bugs the properties must catch: any account that cools down is healed; only
\* the end of the cooldown is cleared.
HealAnyCooldown(x) ==
  IF x.status = "cooldown" THEN [x EXCEPT !.status = "healthy", !.until = Unset] ELSE x
HealEndOnly(x) ==
  IF x.until = 0 /\ x.status = "cooldown" THEN [x EXCEPT !.until = Unset] ELSE x

\* A cooldown that was never given an end has none.
HealCooldown(x) ==
  IF x.until = 0 /\ x.status = "cooldown"
  THEN [x EXCEPT !.status = "healthy", !.until = Unset] ELSE x

ExpireLease(x) == IF x.left = 0 THEN [x EXCEPT !.lease = None] ELSE x

\* tick()
AccountTick ==
  /\ account' = [a \in Account |-> IF account[a] = None THEN None
                                   ELSE HealCooldown(ExpireLease(account[a]))]
  /\ account' # account
  /\ UNCHANGED << cooldown, chosen, held, robbed, rest >>

\* Time passes.
Less(t) == IF t > 0 THEN t - 1 ELSE t
AccountAdvance ==
  /\ account' = [a \in Account |-> IF account[a] = None THEN None
                   ELSE [account[a] EXCEPT !.left = Less(@), !.until = Less(@)]]
  /\ held' = [w \in Worker |-> [held[w] EXCEPT !.left = Less(@)]]
  /\ rest' = [a \in Account |-> [rest[a] EXCEPT !.left = Less(@)]]
  /\ UNCHANGED << cooldown, chosen, robbed >>
=============================================================================
