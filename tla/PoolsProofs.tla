----------------------------- MODULE PoolsProofs -----------------------------
(***************************************************************************)
(* Theorems about Pools, for every set of accounts, workers and proxies and *)
(* every length of leases and cooldowns.                                    *)
(***************************************************************************)
EXTENDS Pools, TLAPS

Lease == [account : Account \cup {None}, left : Nat]
Rest == [left : Nat, stale : BOOLEAN]
ProxyRecord == [enabled : BOOLEAN, status : {"active", "degraded", "cooldown"},
                failures : Nat, until : Int]

\* Every variable of the two pools keeps its type.
AccountsTyped ==
  /\ cooldown \in Nat
  /\ account \in [Account -> AccountRecord \cup {None}]
  /\ chosen \in [Worker -> Account \cup {None}]
  /\ held \in [Worker -> Lease]
  /\ robbed \subseteq Worker
  /\ rest \in [Account -> Rest]
ProxiesTyped ==
  /\ proxy \in [Proxy -> ProxyRecord]
  /\ owed \in [Proxy -> Nat]

\* A running lease that nobody took from its worker is the one on record.
HeldInv ==
  \A w \in Worker : held[w].left > 0 /\ w \notin robbed =>
    /\ held[w].account \in Pool
    /\ account[held[w].account].lease = w
    /\ account[held[w].account].left = held[w].left

\* A rest that was given an end of its own ends no earlier on record; an
\* account that was removed rests no more.
RestInv ==
  \A a \in Account : rest[a].left > 0 =>
    /\ a \in Pool
    /\ ~rest[a].stale => account[a].until >= rest[a].left

\* A proxy that owes a rest is cooling down for at least that long, whatever
\* its status has become since.
OwedInv == \A p \in Proxy : owed[p] > 0 => proxy[p].until >= owed[p]

AccountsInv == AccountsTyped /\ HeldInv /\ RestInv
ProxiesInv == ProxiesTyped /\ OwedInv
PoolsInv == AccountsInv /\ ProxiesInv

-----------------------------------------------------------------------------
(* What the commands do to the records                                      *)

USE DEF Pool, Lease, Rest

LEMMA ExpireKeeps ==
  ASSUME NEW x \in AccountRecord
  PROVE  /\ ExpireLease(x) \in AccountRecord
         /\ ExpireLease(x).left = x.left
         /\ x.left > 0 => ExpireLease(x).lease = x.lease
         /\ ExpireLease(x).until = x.until
BY DEF ExpireLease, AccountRecord

LEMMA HealKeeps ==
  ASSUME NEW x \in AccountRecord
  PROVE  /\ HealCooldown(x) \in AccountRecord
         /\ HealCooldown(x).left = x.left
         /\ HealCooldown(x).lease = x.lease
         /\ x.until > 0 => HealCooldown(x).until = x.until
<1> DEFINE y == [x EXCEPT !.status = "healthy", !.until = Unset]
<1>1. y \in AccountRecord /\ y.left = x.left /\ y.lease = x.lease
  <2>1. Unset \in Int
    BY DEF Unset
  <2>. QED BY <2>1 DEF AccountRecord
<1>2. HealCooldown(x) = IF x.until = 0 /\ x.status = "cooldown" THEN y ELSE x
  BY DEF HealCooldown
<1>. HIDE DEF y
<1>. QED BY <1>1, <1>2 DEF AccountRecord

LEMMA TickKeeps ==
  ASSUME NEW x \in AccountRecord
  PROVE  LET y == HealCooldown(ExpireLease(x))
         IN  /\ y \in AccountRecord
             /\ y.left = x.left
             /\ x.left > 0 => y.lease = x.lease
             /\ x.until > 0 => y.until = x.until
<1> DEFINE e == ExpireLease(x)
<1>1. /\ e \in AccountRecord
      /\ e.left = x.left
      /\ x.left > 0 => e.lease = x.lease
      /\ e.until = x.until
  BY ExpireKeeps
<1> HIDE DEF e
<1>2. /\ HealCooldown(e) \in AccountRecord
      /\ HealCooldown(e).left = e.left
      /\ HealCooldown(e).lease = e.lease
      /\ e.until > 0 => HealCooldown(e).until = e.until
  BY <1>1, HealKeeps
<1>. QED BY <1>1, <1>2 DEF e

LEMMA RecordsAreNotNone ==
  ASSUME AccountsTyped, NEW a \in Account
  PROVE  a \in Pool <=> account[a] \in AccountRecord
BY RecordAssumption DEF AccountsTyped

LEMMA NewAccountTyped == NewAccount \in AccountRecord /\ NewAccount # None
<1>1. Unset \in Int
  BY DEF Unset
<1>2. NewAccount \in AccountRecord
  BY <1>1 DEF NewAccount, AccountRecord
<1>. QED BY <1>2, RecordAssumption

-----------------------------------------------------------------------------
(* The account pool: each command keeps the invariant                       *)

LEMMA SelectAccountStep ==
  ASSUME AccountsInv, NEW w \in Worker, SelectAccount(w)
  PROVE  AccountsInv'
BY DEF SelectAccount, Available, AccountsInv, AccountsTyped, HeldInv, RestInv

LEMMA AcquireLeaseStep ==
  ASSUME AccountsInv, NEW w \in Worker, AcquireLease(w)
  PROVE  AccountsInv'
<1> DEFINE a == chosen[w]
<1>1. CASE ~Grantable(a)
  BY <1>1 DEF AcquireLease, AccountsInv, AccountsTyped, HeldInv, RestInv
<1>2. CASE Grantable(a)
  <2>1. /\ a \in Account /\ account[a] \in AccountRecord
        /\ ~(account[a].lease # None /\ account[a].left > 0)
    BY <1>2, PoolAssumption DEF AcquireLease, Grantable, IsLeaseValid, AccountsInv, AccountsTyped
  <2> DEFINE x == [account[a] EXCEPT !.lease = w, !.left = LeaseTtl]
  <2>2. /\ x \in AccountRecord /\ x # None
        /\ x.lease = w /\ x.left = LeaseTtl /\ x.until = account[a].until
    <3>1. x \in AccountRecord
      BY <2>1, PoolAssumption DEF AccountRecord
    <3>. QED BY <2>1, <3>1, RecordAssumption DEF AccountRecord
  <2>3. /\ account' = [account EXCEPT ![a] = x]
        /\ held' = [held EXCEPT ![w] = [account |-> a, left |-> LeaseTtl]]
        /\ chosen' = [chosen EXCEPT ![w] = None]
        /\ robbed' = robbed \ {w}
        /\ UNCHANGED << cooldown, rest >>
    BY <1>2 DEF AcquireLease
  <2> HIDE DEF x, a
  <2>4. AccountsTyped'
    BY <2>1, <2>2, <2>3, PoolAssumption DEF AccountsInv, AccountsTyped
  <2>5. HeldInv'
    <3> SUFFICES ASSUME NEW v \in Worker, held'[v].left > 0, v \notin robbed'
                 PROVE  /\ held'[v].account \in Pool'
                        /\ account'[held'[v].account].lease = v
                        /\ account'[held'[v].account].left = held'[v].left
      BY DEF HeldInv
    <3>1. CASE v = w
      BY <3>1, <2>1, <2>2, <2>3 DEF AccountsInv, AccountsTyped
    <3>2. CASE v # w
      <4>1. /\ held'[v] = held[v] /\ held[v].account \in Pool
            /\ account[held[v].account].lease = v
            /\ account[held[v].account].left = held[v].left
        BY <3>2, <2>3 DEF AccountsInv, AccountsTyped, HeldInv
      <4>2. held[v].account # a
        BY <4>1, <2>1, PoolAssumption
      <4>. QED BY <4>1, <4>2, <2>3 DEF AccountsInv, AccountsTyped
    <3>. QED BY <3>1, <3>2
  <2>6. RestInv'
    BY <2>1, <2>2, <2>3 DEF AccountsInv, AccountsTyped, RestInv
  <2>. QED BY <2>4, <2>5, <2>6 DEF AccountsInv
<1>. QED BY <1>1, <1>2

LEMMA ReleaseLeaseStep ==
  ASSUME AccountsInv, NEW w \in Worker, ReleaseLease(w)
  PROVE  AccountsInv'
<1> DEFINE a == held[w].account
           x == [account[a] EXCEPT !.lease = None, !.left = 0]
<1>1. /\ a \in Account /\ held' = [held EXCEPT ![w] = NotHeld]
      /\ account' = IF account[a] = None THEN account ELSE [account EXCEPT ![a] = x]
      /\ robbed' = (robbed \cup Robbed(a, w)) \ {w}
      /\ UNCHANGED << cooldown, chosen, rest >>
  BY DEF ReleaseLease, AccountsInv, AccountsTyped
<1>2. account[a] # None =>
        x \in AccountRecord /\ x # None /\ x.until = account[a].until
  <2> SUFFICES ASSUME account[a] # None
               PROVE  x \in AccountRecord /\ x # None /\ x.until = account[a].until
    OBVIOUS
  <2>1. account[a] \in AccountRecord
    BY <1>1 DEF AccountsInv, AccountsTyped
  <2>2. x \in AccountRecord
    BY <2>1 DEF AccountRecord
  <2>. QED BY <2>1, <2>2, RecordAssumption DEF AccountRecord
<1> HIDE DEF a, x
<1>3. NotHeld \in Lease /\ NotHeld.left = 0
  BY DEF NotHeld
<1>4. Robbed(a, w) \subseteq Worker
  BY DEF Robbed
<1>5. AccountsTyped'
  BY <1>1, <1>2, <1>3, <1>4 DEF AccountsInv, AccountsTyped
<1>6. HeldInv'
  <2> SUFFICES ASSUME NEW v \in Worker, held'[v].left > 0, v \notin robbed'
               PROVE  /\ held'[v].account \in Pool'
                      /\ account'[held'[v].account].lease = v
                      /\ account'[held'[v].account].left = held'[v].left
    BY DEF HeldInv
  <2>1. v # w /\ held'[v] = held[v] /\ v \notin robbed /\ v \notin Robbed(a, w)
    BY <1>1, <1>3 DEF AccountsInv, AccountsTyped
  <2>2. /\ held[v].account \in Pool
        /\ account[held[v].account].lease = v
        /\ account[held[v].account].left = held[v].left
    BY <2>1 DEF AccountsInv, HeldInv
  <2>3. held[v].account # a
    BY <2>1, <2>2 DEF Robbed
  <2>. QED BY <1>1, <2>1, <2>2, <2>3 DEF AccountsInv, AccountsTyped
<1>7. RestInv'
  BY <1>1, <1>2 DEF AccountsInv, AccountsTyped, RestInv
<1>. QED BY <1>5, <1>6, <1>7 DEF AccountsInv

LEMMA UpdateHealthStep ==
  ASSUME AccountsInv, NEW a \in Account, NEW status \in Status, UpdateHealth(a, status)
  PROVE  AccountsInv'
<1> DEFINE fresh == status = "cooldown" /\ cooldown > 0 /\ account[a].until = Unset
           until == IF fresh THEN cooldown ELSE account[a].until
           x == [account[a] EXCEPT !.status = status, !.until = until]
           left == IF status = "cooldown" THEN cooldown ELSE 0
           stale == status = "cooldown" /\ ~fresh
           r == [left |-> left, stale |-> stale]
<1>1. /\ a \in Pool
      /\ account' = [account EXCEPT ![a] = x]
      /\ rest' = [rest EXCEPT ![a] = r]
      /\ UNCHANGED << cooldown, chosen, held, robbed >>
  BY DEF UpdateHealth
<1>2. account[a] \in AccountRecord /\ cooldown \in Nat
  BY <1>1 DEF AccountsInv, AccountsTyped
<1>3. /\ x \in AccountRecord /\ x # None
      /\ x.lease = account[a].lease /\ x.left = account[a].left
      /\ fresh => x.until = cooldown
  <2>1. until \in Int /\ (fresh => until = cooldown)
    BY <1>2 DEF AccountRecord
  <2> HIDE DEF until, fresh
  <2>2. x \in AccountRecord
    BY <1>2, <2>1 DEF AccountRecord
  <2>. QED BY <1>2, <2>1, <2>2, RecordAssumption DEF AccountRecord
<1>4. /\ r \in Rest
      /\ r.left > 0 /\ ~r.stale => fresh /\ r.left = cooldown
  <2>1. stale \in BOOLEAN
    OBVIOUS
  <2>2. left \in Nat
    BY <1>2
  <2>3. left > 0 /\ ~stale => fresh /\ left = cooldown
    BY <1>2
  <2> HIDE DEF left, stale, fresh
  <2>. QED BY <2>1, <2>2, <2>3
<1> HIDE DEF x, r, until, left, stale, fresh
<1>5. AccountsTyped'
  BY <1>1, <1>3, <1>4 DEF AccountsInv, AccountsTyped
<1>6. HeldInv'
  BY <1>1, <1>3 DEF AccountsInv, AccountsTyped, HeldInv
<1>7. RestInv'
  BY <1>1, <1>2, <1>3, <1>4 DEF AccountsInv, AccountsTyped, RestInv
<1>. QED BY <1>5, <1>6, <1>7 DEF AccountsInv

LEMMA SetEnabledStep ==
  ASSUME AccountsInv, NEW a \in Account, SetEnabled(a)
  PROVE  AccountsInv'
<1> DEFINE x == [account[a] EXCEPT !.enabled = ~@]
<1>1. /\ a \in Pool
      /\ account' = [account EXCEPT ![a] = x]
      /\ UNCHANGED << cooldown, chosen, held, robbed, rest >>
  BY DEF SetEnabled
<1>2. account[a] \in AccountRecord
  BY <1>1 DEF AccountsInv, AccountsTyped
<1>3. /\ x \in AccountRecord /\ x # None
      /\ x.lease = account[a].lease /\ x.left = account[a].left
      /\ x.until = account[a].until
  <2>1. x \in AccountRecord
    BY <1>2 DEF AccountRecord
  <2>. QED BY <1>2, <2>1, RecordAssumption DEF AccountRecord
<1> HIDE DEF x
<1>. QED BY <1>1, <1>3 DEF AccountsInv, AccountsTyped, HeldInv, RestInv

LEMMA RemoveAccountStep ==
  ASSUME AccountsInv, NEW a \in Account, RemoveAccount(a)
  PROVE  AccountsInv'
<1>1. /\ account' = [account EXCEPT ![a] = None]
      /\ robbed' = robbed \cup Robbed(a, None)
      /\ rest' = [rest EXCEPT ![a] = [left |-> 0, stale |-> FALSE]]
      /\ UNCHANGED << cooldown, chosen, held >>
  BY DEF RemoveAccount
<1>2. AccountsTyped'
  BY <1>1 DEF AccountsInv, AccountsTyped, Robbed
<1>3. HeldInv'
  <2> SUFFICES ASSUME NEW v \in Worker, held'[v].left > 0, v \notin robbed'
               PROVE  /\ held'[v].account \in Pool'
                      /\ account'[held'[v].account].lease = v
                      /\ account'[held'[v].account].left = held'[v].left
    BY DEF HeldInv
  <2>1. /\ held[v].account \in Pool
        /\ account[held[v].account].lease = v
        /\ account[held[v].account].left = held[v].left
    BY <1>1 DEF AccountsInv, HeldInv
  <2>2. held[v].account # a
    BY <1>1, <2>1, PoolAssumption DEF Robbed
  <2>. QED BY <1>1, <2>1, <2>2 DEF AccountsInv, AccountsTyped
<1>4. RestInv'
  BY <1>1 DEF AccountsInv, AccountsTyped, RestInv
<1>. QED BY <1>2, <1>3, <1>4 DEF AccountsInv

LEMMA AddAccountStep ==
  ASSUME AccountsInv, NEW a \in Account, AddAccount(a)
  PROVE  AccountsInv'
BY NewAccountTyped DEF AddAccount, AccountsInv, AccountsTyped, HeldInv, RestInv

LEMMA AccountTickStep ==
  ASSUME AccountsInv, AccountTick
  PROVE  AccountsInv'
<1>1. \A a \in Account :
        /\ account[a] = None => account'[a] = None
        /\ account[a] # None =>
             /\ account'[a] \in AccountRecord /\ account'[a] # None
             /\ account'[a].left = account[a].left
             /\ account[a].left > 0 => account'[a].lease = account[a].lease
             /\ account[a].until > 0 => account'[a].until = account[a].until
  <2> TAKE a \in Account
  <2>1. account'[a] = IF account[a] = None THEN None
                      ELSE HealCooldown(ExpireLease(account[a]))
    BY DEF AccountTick
  <2>2. account[a] # None => account[a] \in AccountRecord
    BY DEF AccountsInv, AccountsTyped
  <2>. QED BY <2>1, <2>2, TickKeeps, RecordAssumption
<1>2. /\ account' \in [Account -> AccountRecord \cup {None}]
      /\ UNCHANGED << cooldown, chosen, held, robbed, rest >>
  <2>1. account' = [a \in Account |-> IF account[a] = None THEN None
                                     ELSE HealCooldown(ExpireLease(account[a]))]
    BY DEF AccountTick
  <2>. QED BY <1>1, <2>1 DEF AccountTick
<1>3. AccountsTyped'
  BY <1>2 DEF AccountsInv, AccountsTyped
<1>4. HeldInv'
  BY <1>1, <1>2 DEF AccountsInv, AccountsTyped, HeldInv
<1>5. RestInv'
  <2> SUFFICES ASSUME NEW a \in Account, rest'[a].left > 0
               PROVE  a \in Pool' /\ (~rest'[a].stale => account'[a].until >= rest'[a].left)
    BY DEF RestInv
  <2>1. /\ a \in Pool /\ rest'[a] = rest[a] /\ rest[a].left \in Nat
        /\ ~rest[a].stale => account[a].until >= rest[a].left
        /\ account[a] \in AccountRecord
    BY <1>2 DEF AccountsInv, AccountsTyped, RestInv
  <2>2. account[a].until \in Int
    BY <2>1 DEF AccountRecord
  <2>. QED BY <1>1, <2>1, <2>2
<1>. QED BY <1>3, <1>4, <1>5 DEF AccountsInv

LEMMA AccountAdvanceStep ==
  ASSUME AccountsInv, AccountAdvance
  PROVE  AccountsInv'
<1>1. \A a \in Account :
        /\ account[a] = None => account'[a] = None
        /\ account[a] # None =>
             /\ account'[a] \in AccountRecord /\ account'[a] # None
             /\ account'[a].lease = account[a].lease
             /\ account'[a].left = Less(account[a].left)
             /\ account'[a].until = Less(account[a].until)
  <2> TAKE a \in Account
  <2> DEFINE left == Less(account[a].left)
             until == Less(account[a].until)
             x == [account[a] EXCEPT !.left = left, !.until = until]
  <2>1. account'[a] = IF account[a] = None THEN None ELSE x
    BY DEF AccountAdvance
  <2>2. account[a] # None => account[a] \in AccountRecord
    BY DEF AccountsInv, AccountsTyped
  <2>3. ASSUME account[a] # None
        PROVE  /\ x \in AccountRecord /\ x.lease = account[a].lease
               /\ x.left = left /\ x.until = until
    <3>1. left \in Nat /\ until \in Int
      BY <2>2, <2>3 DEF AccountRecord, Less
    <3> HIDE DEF left, until
    <3>. QED BY <2>2, <2>3, <3>1 DEF AccountRecord
  <2> HIDE DEF x
  <2>. QED BY <2>1, <2>3, RecordAssumption
<1>2. /\ held' = [w \in Worker |-> [held[w] EXCEPT !.left = Less(@)]]
      /\ rest' = [a \in Account |-> [rest[a] EXCEPT !.left = Less(@)]]
      /\ UNCHANGED << cooldown, chosen, robbed >>
  BY DEF AccountAdvance
<1>3. /\ \A w \in Worker : /\ held'[w] \in Lease
                           /\ held'[w].account = held[w].account
                           /\ held'[w].left = Less(held[w].left)
      /\ \A a \in Account : /\ rest'[a] \in Rest
                            /\ rest'[a].left = Less(rest[a].left)
                            /\ rest'[a].stale = rest[a].stale
  <2>1. \A n \in Nat : Less(n) \in Nat
    BY DEF Less
  <2>2. ASSUME NEW w \in Worker
        PROVE  /\ held'[w] \in Lease /\ held'[w].account = held[w].account
               /\ held'[w].left = Less(held[w].left)
    <3>1. held[w] \in Lease /\ held'[w] = [held[w] EXCEPT !.left = Less(held[w].left)]
      BY <1>2 DEF AccountsInv, AccountsTyped
    <3>. QED BY <2>1, <3>1
  <2>3. ASSUME NEW a \in Account
        PROVE  /\ rest'[a] \in Rest /\ rest'[a].stale = rest[a].stale
               /\ rest'[a].left = Less(rest[a].left)
    <3>1. rest[a] \in Rest /\ rest'[a] = [rest[a] EXCEPT !.left = Less(rest[a].left)]
      BY <1>2 DEF AccountsInv, AccountsTyped
    <3>. QED BY <2>1, <3>1
  <2>. QED BY <2>2, <2>3
<1>4. AccountsTyped'
  <2>1. account' = [a \in Account |-> IF account[a] = None THEN None
                     ELSE [account[a] EXCEPT !.left = Less(@), !.until = Less(@)]]
    BY DEF AccountAdvance
  <2>2. account' \in [Account -> AccountRecord \cup {None}]
    BY <1>1, <2>1
  <2>. QED BY <1>2, <1>3, <2>2 DEF AccountsInv, AccountsTyped
<1>5. HeldInv'
  <2> SUFFICES ASSUME NEW w \in Worker, held'[w].left > 0, w \notin robbed'
               PROVE  /\ held'[w].account \in Pool'
                      /\ account'[held'[w].account].lease = w
                      /\ account'[held'[w].account].left = held'[w].left
    BY DEF HeldInv
  <2>1. held[w].left > 0 /\ w \notin robbed
    BY <1>2, <1>3 DEF AccountsInv, AccountsTyped, Less
  <2>. QED BY <1>1, <1>3, <2>1 DEF AccountsInv, HeldInv
<1>6. RestInv'
  <2> SUFFICES ASSUME NEW a \in Account, rest'[a].left > 0
               PROVE  a \in Pool' /\ (~rest'[a].stale => account'[a].until >= rest'[a].left)
    BY DEF RestInv
  <2>1. rest[a].left \in Nat /\ rest[a].left > 0 /\ rest'[a].left = rest[a].left - 1
    BY <1>3 DEF AccountsInv, AccountsTyped, Less
  <2>2. a \in Pool /\ (~rest[a].stale => account[a].until >= rest[a].left)
    BY <2>1 DEF AccountsInv, RestInv
  <2>3. account[a].until \in Int
    BY <2>2 DEF AccountsInv, AccountsTyped, AccountRecord
  <2>. QED BY <1>1, <1>3, <2>1, <2>2, <2>3 DEF Less
<1>. QED BY <1>4, <1>5, <1>6 DEF AccountsInv

-----------------------------------------------------------------------------
(* The proxy pool                                                            *)

LEMMA ProxyRecordStep ==
  ASSUME ProxiesInv, NEW p \in Proxy, NEW x \in ProxyRecord, NEW n \in Nat,
         proxy' = [proxy EXCEPT ![p] = x], owed' = [owed EXCEPT ![p] = n],
         n > 0 => x.until >= n
  PROVE  ProxiesInv'
BY DEF ProxiesInv, ProxiesTyped, OwedInv

LEMMA RecordSuccessStep ==
  ASSUME ProxiesInv, NEW p \in Proxy, RecordSuccess(p)
  PROVE  ProxiesInv'
<1> DEFINE status == IF proxy[p].status = "degraded" THEN "active" ELSE proxy[p].status
           x == [proxy[p] EXCEPT !.failures = 0, !.status = status]
<1>1. /\ proxy' = [proxy EXCEPT ![p] = x]
      /\ owed' = [owed EXCEPT ![p] = owed[p]]
  BY DEF RecordSuccess, ProxiesInv, ProxiesTyped
<1>2. proxy[p] \in ProxyRecord /\ owed[p] \in Nat /\ (owed[p] > 0 => proxy[p].until >= owed[p])
  BY DEF ProxiesInv, ProxiesTyped, OwedInv
<1>3. status \in {"active", "degraded", "cooldown"}
  BY <1>2 DEF ProxyRecord
<1> HIDE DEF status
<1>4. x \in ProxyRecord /\ x.until = proxy[p].until
  BY <1>2, <1>3 DEF ProxyRecord
<1> HIDE DEF x
<1>. QED BY <1>1, <1>2, <1>4, ProxyRecordStep

LEMMA RecordFailureStep ==
  ASSUME ProxiesInv, NEW p \in Proxy, RecordFailure(p)
  PROVE  ProxiesInv'
<1> DEFINE failing == proxy[p].failures + 1 >= FailureThreshold
           failures == IF failing THEN FailureThreshold ELSE proxy[p].failures + 1
           status == IF failing THEN "cooldown" ELSE "degraded"
           until == IF failing THEN ProxyCooldown ELSE proxy[p].until
           x == [proxy[p] EXCEPT !.failures = failures, !.status = status, !.until = until]
           n == IF failing THEN ProxyCooldown ELSE owed[p]
<1>1. proxy[p] \in ProxyRecord /\ owed[p] \in Nat /\ (owed[p] > 0 => proxy[p].until >= owed[p])
  BY DEF ProxiesInv, ProxiesTyped, OwedInv
<1>2. /\ proxy' = [proxy EXCEPT ![p] = x]
      /\ owed' = [owed EXCEPT ![p] = n]
  BY DEF RecordFailure, ProxiesInv, ProxiesTyped
<1>3. /\ failures \in Nat /\ status \in {"active", "degraded", "cooldown"}
      /\ until \in Int /\ n \in Nat /\ (n > 0 => until >= n)
  BY <1>1, ProxyAssumption DEF ProxyRecord
<1> HIDE DEF failing, failures, status, until, n
<1>4. x \in ProxyRecord /\ x.until = until
  BY <1>1, <1>3 DEF ProxyRecord
<1> HIDE DEF x
<1>. QED BY <1>2, <1>3, <1>4, ProxyRecordStep

LEMMA ManageProxiesStep ==
  ASSUME ProxiesInv, NEW p \in Proxy, SetProxyEnabled(p) \/ ReplaceProxy(p)
  PROVE  ProxiesInv'
<1>1. proxy[p] \in ProxyRecord /\ owed[p] \in Nat /\ (owed[p] > 0 => proxy[p].until >= owed[p])
  BY DEF ProxiesInv, ProxiesTyped, OwedInv
<1>2. CASE SetProxyEnabled(p)
  <2> DEFINE x == [proxy[p] EXCEPT !.enabled = ~@]
  <2>1. /\ proxy' = [proxy EXCEPT ![p] = x]
        /\ owed' = [owed EXCEPT ![p] = owed[p]]
    BY <1>2 DEF SetProxyEnabled, ProxiesInv, ProxiesTyped
  <2>2. x \in ProxyRecord /\ x.until = proxy[p].until
    BY <1>1 DEF ProxyRecord
  <2> HIDE DEF x
  <2>. QED BY <1>1, <2>1, <2>2, ProxyRecordStep
<1>3. CASE ReplaceProxy(p)
  <2>1. NewProxy \in ProxyRecord
    BY DEF NewProxy, ProxyRecord
  <2>2. /\ proxy' = [proxy EXCEPT ![p] = NewProxy]
        /\ owed' = [owed EXCEPT ![p] = 0]
    BY <1>3 DEF ReplaceProxy
  <2> DEFINE n == 0
  <2>3. n \in Nat /\ ~(n > 0) /\ owed' = [owed EXCEPT ![p] = n]
    BY <2>2
  <2> HIDE DEF n
  <2>. QED BY <2>1, <2>2, <2>3, ProxyRecordStep
<1>. QED BY <1>2, <1>3

LEMMA ProxyTickStep ==
  ASSUME ProxiesInv, ProxyTick
  PROVE  ProxiesInv'
<1>1. \A p \in Proxy :
        /\ proxy'[p] \in ProxyRecord
        /\ proxy[p].until > 0 => proxy'[p].until = proxy[p].until
  <2> TAKE p \in Proxy
  <2> DEFINE u == -1
             x == [proxy[p] EXCEPT !.status = "active", !.until = u, !.failures = 0]
  <2>1. /\ proxy'[p] = x \/ proxy'[p] = proxy[p]
        /\ proxy[p].until # 0 => proxy'[p] = proxy[p]
    BY DEF ProxyTick
  <2>2. proxy[p] \in ProxyRecord
    BY DEF ProxiesInv, ProxiesTyped
  <2>3. x \in ProxyRecord
    <3>1. u \in Int
      OBVIOUS
    <3> HIDE DEF u
    <3>. QED BY <2>2, <3>1 DEF ProxyRecord
  <2> HIDE DEF x
  <2>. QED BY <2>1, <2>2, <2>3 DEF ProxyRecord
<1>2. proxy' \in [Proxy -> ProxyRecord] /\ owed' = owed
  BY <1>1 DEF ProxyTick
<1>3. \A p \in Proxy : owed[p] \in Nat /\ proxy[p].until \in Int
  BY DEF ProxiesInv, ProxiesTyped, ProxyRecord
<1>. QED BY <1>1, <1>2, <1>3 DEF ProxiesInv, ProxiesTyped, OwedInv

LEMMA ProxyAdvanceStep ==
  ASSUME ProxiesInv, ProxyAdvance
  PROVE  ProxiesInv'
<1>1. \A p \in Proxy :
        /\ proxy'[p] = [proxy[p] EXCEPT !.until = Less(proxy[p].until)]
        /\ owed'[p] = Less(owed[p])
  BY DEF ProxyAdvance, Less
<1>2. /\ proxy' \in [Proxy -> ProxyRecord] /\ owed' \in [Proxy -> Nat]
      /\ \A p \in Proxy : proxy'[p].until = Less(proxy[p].until)
  <2>1. \A n \in Int : Less(n) \in Int /\ (n \in Nat => Less(n) \in Nat)
    BY DEF Less
  <2>2. \A p \in Proxy : proxy[p] \in ProxyRecord /\ owed[p] \in Nat
    BY DEF ProxiesInv, ProxiesTyped
  <2>3. \A p \in Proxy : /\ proxy'[p] \in ProxyRecord /\ owed'[p] \in Nat
                        /\ proxy'[p].until = Less(proxy[p].until)
    <3> TAKE p \in Proxy
    <3> DEFINE u == Less(proxy[p].until)
    <3>1. proxy[p] \in ProxyRecord /\ u \in Int /\ owed'[p] \in Nat
      <4>1. proxy[p] \in ProxyRecord /\ owed[p] \in Nat /\ owed'[p] = Less(owed[p])
        BY <1>1, <2>2
      <4>2. proxy[p].until \in Int
        BY <4>1 DEF ProxyRecord
      <4>3. owed[p] \in Int
        BY <4>1
      <4>. QED BY <2>1, <4>1, <4>2, <4>3
    <3>2. proxy'[p] = [proxy[p] EXCEPT !.until = u]
      BY <1>1
    <3> HIDE DEF u
    <3>3. proxy'[p] \in ProxyRecord /\ proxy'[p].until = u
      BY <3>1, <3>2 DEF ProxyRecord
    <3>. QED BY <3>1, <3>3 DEF u
  <2>. QED BY <2>3 DEF ProxyAdvance
<1>3. \A p \in Proxy : owed[p] \in Nat /\ proxy[p].until \in Int
  BY DEF ProxiesInv, ProxiesTyped, ProxyRecord
<1>. QED BY <1>1, <1>2, <1>3 DEF ProxiesInv, ProxiesTyped, OwedInv, Less

-----------------------------------------------------------------------------
(* Both pools on one clock                                                   *)

LEMMA InitInv == Init => PoolsInv
<1> SUFFICES ASSUME Init PROVE PoolsInv
  OBVIOUS
<1>1. AccountsInv
  <2>1. NotHeld \in Lease /\ NotHeld.left = 0
    BY DEF NotHeld
  <2>2. cooldown \in Nat
    BY PoolAssumption DEF Init, AccountInit
  <2>. QED BY <2>1, <2>2, NewAccountTyped
         DEF Init, AccountInit, AccountsInv, AccountsTyped, HeldInv, RestInv
<1>2. ProxiesInv
  <2>1. NewProxy \in ProxyRecord
    BY DEF NewProxy, ProxyRecord
  <2>. QED BY <2>1 DEF Init, ProxyInit, ProxiesInv, ProxiesTyped, OwedInv
<1>. QED BY <1>1, <1>2 DEF PoolsInv

LEMMA AccountsUnchanged ==
  ASSUME AccountsInv, UNCHANGED accountVars PROVE AccountsInv'
BY DEF accountVars, AccountsInv, AccountsTyped, HeldInv, RestInv

LEMMA ProxiesUnchanged ==
  ASSUME ProxiesInv, UNCHANGED proxyVars PROVE ProxiesInv'
BY DEF proxyVars, ProxiesInv, ProxiesTyped, OwedInv

LEMMA Step == PoolsInv /\ [Next]_vars => PoolsInv'
<1> SUFFICES ASSUME AccountsInv, ProxiesInv, [Next]_vars PROVE AccountsInv' /\ ProxiesInv'
  BY DEF PoolsInv
<1>1. CASE Accounts
  <2>1. CASE UseAccounts
    BY <2>1, SelectAccountStep, AcquireLeaseStep, ReleaseLeaseStep, <1>1, ProxiesUnchanged
       DEF UseAccounts, Accounts
  <2>2. CASE ManageAccounts
    BY <2>2, SetEnabledStep, RemoveAccountStep, AddAccountStep, UpdateHealthStep, <1>1,
       ProxiesUnchanged DEF ManageAccounts, Accounts
  <2>3. CASE AccountTick
    BY <2>3, AccountTickStep, <1>1, ProxiesUnchanged DEF Accounts
  <2>. QED BY <1>1, <2>1, <2>2, <2>3 DEF Accounts
<1>2. CASE Proxies
  <2>1. CASE Requests
    BY <2>1, RecordSuccessStep, RecordFailureStep, <1>2, AccountsUnchanged DEF Requests, Proxies
  <2>2. CASE ManageProxies
    BY <2>2, ManageProxiesStep, <1>2, AccountsUnchanged DEF ManageProxies, Proxies
  <2>3. CASE ProxyTick
    BY <2>3, ProxyTickStep, <1>2, AccountsUnchanged DEF Proxies
  <2>. QED BY <1>2, <2>1, <2>2, <2>3 DEF Proxies
<1>3. CASE Advance
  BY <1>3, AccountAdvanceStep, ProxyAdvanceStep DEF Advance
<1>4. CASE UNCHANGED vars
  BY <1>4, AccountsUnchanged, ProxiesUnchanged DEF vars
<1>. QED BY <1>1, <1>2, <1>3, <1>4 DEF Next

(* Every variable of the pools keeps its type, whatever commands come. *)
THEOREM TypeCorrect == Spec => [](AccountsTyped /\ ProxiesTyped)
<1>1. PoolsInv => AccountsTyped /\ ProxiesTyped
  BY DEF PoolsInv, AccountsInv, ProxiesInv
<1>. QED BY InitInv, Step, <1>1, PTL DEF Spec

(* Two workers never use an account together while the leases they were      *)
(* granted run, unless a release or a removal cleared the lease of one.      *)
THEOREM Exclusion == Spec => []LeasesExclude
<1>1. PoolsInv => LeasesExclude
  BY DEF PoolsInv, AccountsInv, AccountsTyped, HeldInv, LeasesExclude
<1>. QED BY InitInv, Step, <1>1, PTL DEF Spec

(* A proxy that failed too often and an account that was sent to cooldown are *)
(* not handed out before the rest is over, unless an earlier cooldown's end   *)
(* was left on the account.                                                   *)
THEOREM RestKept == Spec => []RestsAreKept
<1>1. ASSUME PoolsInv PROVE RestsAreKept
  <2>1. ASSUME NEW p \in Proxy, Selectable(p) PROVE owed[p] = 0
    <3>1. owed[p] \in Nat /\ proxy[p].until \in Int /\ (owed[p] > 0 => proxy[p].until >= owed[p])
      BY <1>1 DEF PoolsInv, ProxiesInv, ProxiesTyped, OwedInv, ProxyRecord
    <3>. QED BY <2>1, <3>1 DEF Selectable
  <2>2. ASSUME NEW a \in Available, rest[a].left > 0 PROVE rest[a].stale
    <3>1. /\ a \in Account /\ rest[a] \in Rest
          /\ ~rest[a].stale => account[a].until >= rest[a].left
      BY <1>1, <2>2 DEF PoolsInv, AccountsInv, AccountsTyped, RestInv, Available
    <3>2. account[a].until \in Int /\ ~(account[a].until > 0)
      BY <1>1, <2>2 DEF PoolsInv, AccountsInv, AccountsTyped, AccountRecord, Available,
                        IsAccountCoolingDown
    <3>. QED BY <2>2, <3>1, <3>2
  <2>. QED BY <2>1, <2>2 DEF RestsAreKept
<1>. QED BY InitInv, Step, <1>1, PTL DEF Spec

==============================================================================
