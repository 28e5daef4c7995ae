----------------------------- MODULE ProxyPool -----------------------------
(***************************************************************************)
(* The registry of a provider's proxies (packages/proxy_pool): requests     *)
(* record how they went, and a proxy that keeps failing cools down.  Times  *)
(* are what is left of them.  The score, which only orders the proxies that *)
(* may be selected, is left out.                                            *)
(***************************************************************************)
EXTENDS Integers

CONSTANTS Proxy,
          FailureThreshold,   \* failure_threshold
          ProxyCooldown       \* cooldown_seconds

ASSUME ProxyAssumption ==
  FailureThreshold \in Nat \ {0} /\ ProxyCooldown \in Nat \ {0}

VARIABLES proxy,              \* health and whether the proxy is enabled
          owed                \* what is left of the rest its failures cost it

proxyVars == << proxy, owed >>

NewProxy == [enabled |-> TRUE, status |-> "active", failures |-> 0, until |-> -1]

ProxyInit ==
  /\ proxy = [p \in Proxy |-> NewProxy]
  /\ owed = [p \in Proxy |-> 0]

\* A bug the properties must catch: the status alone decides.
SelectableByStatus(p) == proxy[p].enabled /\ proxy[p].status \in {"active", "degraded"}

\* selectProxy(), getHealthyProxies(): healthy and not cooling down.
Selectable(p) ==
  /\ proxy[p].enabled
  /\ proxy[p].status \in {"active", "degraded"}
  /\ proxy[p].until <= 0

\* recordSuccess(): a proxy in cooldown starts to count anew, and stays there.
RecordSuccess(p) ==
  /\ proxy' = [proxy EXCEPT ![p].failures = 0,
                            ![p].status = IF @ = "degraded" THEN "active" ELSE @]
  /\ UNCHANGED owed

\* recordFailure(); below the threshold the proxy is degraded, whatever it was.
\* The count is capped at the threshold, above which nothing changes.
RecordFailure(p) ==
  LET count   == proxy[p].failures + 1
      failing == count >= FailureThreshold
  IN  /\ proxy' = [proxy EXCEPT
                     ![p].failures = IF failing THEN FailureThreshold ELSE count,
                     ![p].status = IF failing THEN "cooldown" ELSE "degraded",
                     ![p].until = IF failing THEN ProxyCooldown ELSE @]
      /\ owed' = IF failing THEN [owed EXCEPT ![p] = ProxyCooldown] ELSE owed

\* updateProxy(): an operator takes a proxy out of use, or back.
SetProxyEnabled(p) ==
  /\ proxy' = [proxy EXCEPT ![p].enabled = ~@]
  /\ UNCHANGED owed

\* removeProxy() and addProxy() with the same id: a new record.
ReplaceProxy(p) ==
  /\ proxy[p] # NewProxy
  /\ proxy' = [proxy EXCEPT ![p] = NewProxy]
  /\ owed' = [owed EXCEPT ![p] = 0]

\* tick()
ProxyTick ==
  /\ proxy' = [p \in Proxy |->
                 IF proxy[p].until = 0 /\ proxy[p].status = "cooldown"
                 THEN [proxy[p] EXCEPT !.status = "active", !.until = -1, !.failures = 0]
                 ELSE proxy[p]]
  /\ proxy' # proxy
  /\ UNCHANGED owed

\* Time passes.
ProxyAdvance ==
  LET Less(t) == IF t > 0 THEN t - 1 ELSE t
  IN  /\ proxy' = [p \in Proxy |-> [proxy[p] EXCEPT !.until = Less(@)]]
      /\ owed' = [p \in Proxy |-> Less(owed[p])]
=============================================================================
