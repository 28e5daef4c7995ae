----------------------------- MODULE SessionLock -----------------------------
(***************************************************************************)
(* providers/gpt-web-api/lib/session_lock.mjs: SessionLockRegistry.run(key,  *)
(* work).  A call links itself behind the registered tail of its key, waits  *)
(* for that tail, works, releases, and a microtask later unregisters itself  *)
(* if nobody has linked behind it.  A call without a key is not locked.      *)
(***************************************************************************)
EXTENDS Naturals

CONSTANTS
    Call,           \* every call of run(), each made once
    Key,            \* the lock keys, "chat:<conversation_id>" in the gateway
    NoKey,          \* the empty key of a new conversation
    None

ASSUME KeyAssumption == NoKey \notin Key
ASSUME CallAssumption == None \notin Call

VARIABLES
    pc,             \* where each call is
    key,            \* the key it was made with
    previous,       \* the tail it found, None for Promise.resolve()
    locks,          \* this.locks: the call whose tail is registered for a key
    ticket, issued  \* the order of the calls

lockVars == <<pc, key, previous, locks, ticket, issued>>

(* "released": release() is called, the cleanup microtask is still queued. *)
Where == {"idle", "waiting", "working", "released", "done"}

LockTypeOK ==
    /\ pc \in [Call -> Where]
    /\ key \in [Call -> Key \cup {NoKey}]
    /\ previous \in [Call -> Call \cup {None}]
    /\ locks \in [Key -> Call \cup {None}]
    /\ ticket \in [Call -> Nat]
    /\ issued \in Nat

LockInit ==
    /\ pc = [c \in Call |-> "idle"]
    /\ key = [c \in Call |-> NoKey]
    /\ previous = [c \in Call |-> None]
    /\ locks = [k \in Key |-> None]
    /\ ticket = [c \in Call |-> 0]
    /\ issued = 0

Enter(c) ==
    /\ pc[c] = "idle"
    /\ issued' = issued + 1
    /\ ticket' = [ticket EXCEPT ![c] = issued + 1]

RunUnlocked(c) ==
    /\ Enter(c)
    /\ pc' = [pc EXCEPT ![c] = "working"]
    /\ UNCHANGED <<key, previous, locks>>

(* Mutant of RunLocked: the new tail is registered before the old one is read. *)
RunLockedSetFirst(c, k) ==
    /\ Enter(c)
    /\ pc' = [pc EXCEPT ![c] = "waiting"]
    /\ key' = [key EXCEPT ![c] = k]
    /\ locks' = [locks EXCEPT ![k] = c]
    /\ previous' = [previous EXCEPT ![c] = locks'[k]]

RunLocked(c, k) ==
    /\ Enter(c)
    /\ pc' = [pc EXCEPT ![c] = "waiting"]
    /\ key' = [key EXCEPT ![c] = k]
    /\ previous' = [previous EXCEPT ![c] = locks[k]]
    /\ locks' = [locks EXCEPT ![k] = c]

(* A registered tail resolves once its call has released: that call had waited *)
(* for the tail before it.                                                     *)
Released(c) == pc[c] \in {"released", "done"}

(* Mutant of Acquire: the previous tail is not awaited. *)
AcquireAtOnce(c) ==
    /\ pc[c] = "waiting"
    /\ pc' = [pc EXCEPT ![c] = "working"]
    /\ UNCHANGED <<key, previous, locks, ticket, issued>>

Acquire(c) ==
    /\ pc[c] = "waiting"
    /\ previous[c] # None => Released(previous[c])
    /\ pc' = [pc EXCEPT ![c] = "working"]
    /\ UNCHANGED <<key, previous, locks, ticket, issued>>

(* work() returns or throws: the finally block runs either way. *)
Release(c) ==
    /\ pc[c] = "working"
    /\ pc' = [pc EXCEPT ![c] = IF key[c] = NoKey THEN "done" ELSE "released"]
    /\ UNCHANGED <<key, previous, locks, ticket, issued>>

(* Mutants of Cleanup: the entry is deleted whoever's tail it is; it is never   *)
(* found to be one's own.                                                      *)
CleanupAlways(c) ==
    /\ pc[c] = "released"
    /\ pc' = [pc EXCEPT ![c] = "done"]
    /\ locks' = [locks EXCEPT ![key[c]] = None]
    /\ UNCHANGED <<key, previous, ticket, issued>>

CleanupNever(c) ==
    /\ pc[c] = "released"
    /\ pc' = [pc EXCEPT ![c] = "done"]
    /\ UNCHANGED <<key, previous, locks, ticket, issued>>

Cleanup(c) ==
    /\ pc[c] = "released"
    /\ pc' = [pc EXCEPT ![c] = "done"]
    /\ locks' = [locks EXCEPT ![key[c]] = IF @ = c THEN None ELSE @]
    /\ UNCHANGED <<key, previous, ticket, issued>>

LockNext ==
    \E c \in Call :
        \/ RunUnlocked(c)
        \/ \E k \in Key : RunLocked(c, k)
        \/ Acquire(c)
        \/ Release(c)
        \/ Cleanup(c)

LockSpec == LockInit /\ [][LockNext]_lockVars

------------------------------------------------------------------------------
(* Correctness                                                                 *)

InLine == {"waiting", "working"}

(* README "Existing conversations execute behind a session lock": while a call *)
(* works under a key, no earlier call of that key is unfinished.  So two calls *)
(* never work under one key, and calls are served in the order they were made, *)
(* although tails are registered and removed while others wait on them.        *)
KeyFifo ==
    \A c, d \in Call :
        /\ pc[c] = "working" /\ key[c] # NoKey
        /\ key[d] = key[c] /\ ticket[d] < ticket[c]
        => pc[d] \notin InLine

(* The registry does not grow: a key all of whose calls are over has no entry  *)
(* (size() is what the health endpoints report as active locks), and a key     *)
(* with a call in line has one.                                                *)
RegistryFollowsCalls ==
    \A k \in Key :
        LET calls == {c \in Call : key[c] = k}
        IN  /\ (\A c \in calls : pc[c] = "done") => locks[k] = None
            /\ (\E c \in calls : pc[c] \in InLine) => locks[k] # None

(* Each key is a first-come first-served mutual exclusion of its own. *)
PhaseOf(w) ==
    CASE w = "idle" -> "idle"
      [] w = "waiting" -> "waiting"
      [] w = "working" -> "holding"
      [] OTHER -> "done"

Mutex(k) == INSTANCE FifoMutex WITH
    Client <- Call,
    phase <- [c \in Call |-> IF key[c] = k THEN PhaseOf(pc[c]) ELSE "idle"],
    ticket <- [c \in Call |-> IF key[c] = k THEN ticket[c] ELSE 0]

EachKeyImplementsFifoMutex ==
    /\ \A k \in Key : Mutex(k)!Init
    /\ [][\A k \in Key : UNCHANGED Mutex(k)!mutexVars \/ Mutex(k)!Next]_lockVars
==============================================================================
