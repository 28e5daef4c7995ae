------------------------------- MODULE Pools -------------------------------
(***************************************************************************)
(* The account pool and the proxy pool of one provider on one clock.  Both  *)
(* are single-threaded: each command is one step, and any order of commands *)
(* by any caller is possible.                                               *)
(***************************************************************************)
EXTENDS AccountPool, ProxyPool

vars == << accountVars, proxyVars >>

Init == AccountInit /\ ProxyInit

UseAccounts ==
  \E w \in Worker : SelectAccount(w) \/ AcquireLease(w) \/ ReleaseLease(w)
ManageAccounts ==
  \E a \in Account :
    \/ SetEnabled(a) \/ RemoveAccount(a) \/ AddAccount(a)
    \/ \E status \in Status : UpdateHealth(a, status)
Requests == \E p \in Proxy : RecordSuccess(p) \/ RecordFailure(p)
ManageProxies == \E p \in Proxy : SetProxyEnabled(p) \/ ReplaceProxy(p)

Accounts == (UseAccounts \/ ManageAccounts \/ AccountTick) /\ UNCHANGED proxyVars
Proxies == (Requests \/ ManageProxies \/ ProxyTick) /\ UNCHANGED accountVars
Advance == AccountAdvance /\ ProxyAdvance

Next == Accounts \/ Proxies \/ Advance

\* Time passes, and the process calls both tick()s again and again.
Fairness ==
  /\ WF_vars(Advance)
  /\ WF_vars(AccountTick /\ UNCHANGED proxyVars)
  /\ WF_vars(ProxyTick /\ UNCHANGED accountVars)

Spec == Init /\ [][Next]_vars /\ Fairness
-----------------------------------------------------------------------------
\* A worker uses an account alone while the lease it was granted runs, however
\* its selection, its grant and other workers' calls interleave.  The one way
\* around it is the code's: releaseLease() does not ask whose lease it clears,
\* so a worker that releases late, or an account removed under its worker, lets
\* a second worker in.
LeasesExclude ==
  \A v, w \in Worker : v # w /\ held[v].left > 0 /\ held[w].left > 0
                       /\ held[v].account = held[w].account =>
    v \in robbed \/ w \in robbed

\* What rests is not handed out before its rest is over: a proxy that failed
\* failure_threshold times in a row, however successes and failures follow; and
\* an account sent to cooldown, unless a cooldown_until from an earlier one was
\* still there, in which case the next tick() may end the rest at once.
RestsAreKept ==
  /\ \A p \in Proxy : Selectable(p) => owed[p] = 0
  /\ \A a \in Available : rest[a].left > 0 => rest[a].stale

\* Nothing rests for ever: a proxy that stops failing can be selected again, and
\* an account becomes available or is leased again and again, however often
\* callers send it to cooldown, unless it is disabled or removed, its health is
\* one that only a caller can end, or cooldown_seconds is 0, the default, and
\* its cooldown has no end.
RestsEnd ==
  /\ \A p \in Proxy :
       \/ []<>Selectable(p)
       \/ []<><< RecordFailure(p) >>_vars
       \/ []<>(~proxy[p].enabled)
  /\ \A a \in Account :
       \/ []<>(a \in Available \/ (a \in Pool /\ IsLeaseValid(a)))
       \/ []<>(a \notin Pool)
       \/ []<>(a \in Pool /\ ~account[a].enabled)
       \/ []<>(a \in Pool /\ account[a].status \in {"locked", "unavailable"})
       \/ cooldown = 0
=============================================================================
