-------------------------- MODULE ChatRuntimeProofs --------------------------
(***************************************************************************)
(* Theorems about SessionLock, for every set of calls and keys, and about    *)
(* ChatRuntime, for every number of requests and every set of stored         *)
(* conversations.                                                            *)
(***************************************************************************)
EXTENDS ChatRuntime, TLAPS

------------------------------------------------------------------------------
(* The session lock: type correctness.                                         *)
(* Type correctness                                                            *)

LEMMA LockTypeStep == LockTypeOK /\ [LockNext]_lockVars => LockTypeOK'
<1> SUFFICES ASSUME LockTypeOK, [LockNext]_lockVars PROVE LockTypeOK'
  OBVIOUS
<1> USE DEF LockTypeOK, Where
<1>1. ASSUME NEW c \in Call, RunUnlocked(c) PROVE LockTypeOK'
  BY <1>1 DEF RunUnlocked, Enter
<1>2. ASSUME NEW c \in Call, NEW k \in Key, RunLocked(c, k) PROVE LockTypeOK'
  BY <1>2 DEF RunLocked, Enter
<1>3. ASSUME NEW c \in Call, Acquire(c) PROVE LockTypeOK'
  BY <1>3 DEF Acquire
<1>4. ASSUME NEW c \in Call, Release(c) PROVE LockTypeOK'
  BY <1>4 DEF Release
<1>5. ASSUME NEW c \in Call, Cleanup(c) PROVE LockTypeOK'
  BY <1>5 DEF Cleanup
<1>6. CASE UNCHANGED lockVars
  BY <1>6 DEF lockVars
<1>. QED BY <1>1, <1>2, <1>3, <1>4, <1>5, <1>6 DEF LockNext

(* Every variable of the registry keeps its type. *)
THEOREM LockTypeCorrect == LockSpec => []LockTypeOK
<1>1. LockInit => LockTypeOK
  BY DEF LockInit, LockTypeOK, Where
<1>. QED BY <1>1, LockTypeStep, PTL DEF LockSpec

------------------------------------------------------------------------------
(* Exclusion.  KeyFifo is not inductive: that a call is alone when it starts   *)
(* follows from the tail it awaits, that the chain of a key has no gap, and    *)
(* that a registered tail is the last link while anybody of its key is left in *)
(* line, which is what cleaning up only one's own entry preserves.             *)

USE DEF InLine, Released

Started == {"working", "released", "done"}

(* Tickets number the calls; a call has no key before it is made. *)
TicketsInv ==
    \A c \in Call :
        /\ ticket[c] <= issued
        /\ pc[c] = "idle" <=> ticket[c] = 0
        /\ pc[c] = "idle" => key[c] = NoKey
        /\ key[c] = NoKey => pc[c] \notin {"waiting", "released"}
        /\ \A d \in Call : ticket[c] = ticket[d] /\ ticket[c] # 0 => c = d

(* The entry of a key is the tail of the last call in line. *)
TailInv ==
    \A k \in Key :
        /\ locks[k] = None => \A c \in Call : key[c] = k => pc[c] \notin InLine
        /\ locks[k] # None =>
            /\ key[locks[k]] = k
            /\ pc[locks[k]] \in {"waiting", "working", "released"}
            /\ \A c \in Call : key[c] = k /\ pc[c] \in InLine => ticket[c] <= ticket[locks[k]]

(* A call awaits the one before it in the line of its key. *)
ChainInv ==
    \A c \in Call : pc[c] = "waiting" =>
        /\ previous[c] = None =>
            \A d \in Call : key[d] = key[c] /\ pc[d] \in InLine => ticket[c] <= ticket[d]
        /\ previous[c] # None =>
            /\ key[previous[c]] = key[c] /\ pc[previous[c]] # "idle"
            /\ \A d \in Call :
                  key[d] = key[c] /\ pc[d] \in InLine /\ ticket[d] < ticket[c]
                  => ticket[d] <= ticket[previous[c]]

(* Once a call has started, no earlier one of its key is in line. *)
StartedInv ==
    \A c, d \in Call :
        /\ pc[c] \in Started /\ key[c] # NoKey
        /\ key[d] = key[c] /\ ticket[d] < ticket[c]
        => pc[d] \notin InLine

LockInv == LockTypeOK /\ TicketsInv /\ TailInv /\ ChainInv /\ StartedInv

LEMMA RunLockedStep ==
    ASSUME LockInv, NEW c \in Call, NEW k \in Key, RunLocked(c, k)
    PROVE  LockInv'
<1>1. /\ pc[c] = "idle" /\ pc'[c] = "waiting"
      /\ key'[c] = k /\ key[c] = NoKey /\ k # NoKey
      /\ previous'[c] = locks[k] /\ locks'[k] = c
      /\ \A d \in Call \ {c} : /\ pc'[d] = pc[d] /\ key'[d] = key[d]
                               /\ previous'[d] = previous[d] /\ ticket'[d] = ticket[d]
      /\ \A l \in Key \ {k} : locks'[l] = locks[l]
  BY KeyAssumption DEF RunLocked, Enter, LockInv, LockTypeOK, TicketsInv
<1>2. /\ \A d \in Call : ticket[d] \in Nat /\ ticket[d] < ticket'[c]
      /\ ticket'[c] = issued' /\ issued' = issued + 1 /\ issued \in Nat
  BY DEF RunLocked, Enter, LockInv, LockTypeOK, TicketsInv
<1>3. /\ \A d \in Call : previous[d] \in Call \cup {None}
      /\ \A l \in Key : locks[l] \in Call \cup {None}
      /\ c # None
  BY CallAssumption DEF LockInv, LockTypeOK
<1>4. LockTypeOK'
  BY LockTypeStep DEF LockInv, LockNext
<1>5. TicketsInv'
  BY <1>1, <1>2 DEF LockInv, TicketsInv
<1>6. TailInv'
  BY <1>1, <1>2, <1>3 DEF LockInv, TailInv
<1>7. ChainInv'
  <2> SUFFICES ASSUME NEW e \in Call, pc'[e] = "waiting"
      PROVE  /\ previous'[e] = None =>
                \A d \in Call : key'[d] = key'[e] /\ pc'[d] \in InLine => ticket'[e] <= ticket'[d]
             /\ previous'[e] # None =>
                /\ key'[previous'[e]] = key'[e] /\ pc'[previous'[e]] # "idle"
                /\ \A d \in Call :
                      key'[d] = key'[e] /\ pc'[d] \in InLine /\ ticket'[d] < ticket'[e]
                      => ticket'[d] <= ticket'[previous'[e]]
    BY DEF ChainInv
  <2>1. CASE e = c
    BY <1>1, <1>2, <1>3, <2>1 DEF LockInv, TailInv
  <2>2. CASE e # c
    <3>1. /\ pc[e] = "waiting" /\ previous'[e] = previous[e]
          /\ ticket'[e] = ticket[e] /\ key'[e] = key[e]
          /\ ticket'[e] < ticket'[c]
      BY <1>1, <1>2, <2>2
    <3>2. CASE previous[e] = None
      BY <1>1, <1>2, <3>1, <3>2 DEF LockInv, ChainInv
    <3>3. CASE previous[e] # None
      <4>1. previous[e] \in Call \ {c} /\ pc[previous[e]] # "idle" /\ key[previous[e]] = key[e]
        BY <1>1, <1>3, <3>1, <3>3 DEF LockInv, ChainInv
      <4>. QED BY <1>1, <1>2, <3>1, <3>3, <4>1 DEF LockInv, ChainInv
    <3>. QED BY <3>2, <3>3
  <2>. QED BY <2>1, <2>2
<1>8. StartedInv'
  BY <1>1, <1>2 DEF LockInv, StartedInv, Started
<1>. QED BY <1>4, <1>5, <1>6, <1>7, <1>8 DEF LockInv

LEMMA RunUnlockedStep ==
    ASSUME LockInv, NEW c \in Call, RunUnlocked(c)
    PROVE  LockInv'
<1>1. /\ pc[c] = "idle" /\ pc'[c] = "working"
      /\ key' = key /\ key[c] = NoKey /\ previous' = previous /\ locks' = locks
      /\ \A d \in Call \ {c} : pc'[d] = pc[d] /\ ticket'[d] = ticket[d]
  BY DEF RunUnlocked, Enter, LockInv, LockTypeOK, TicketsInv
<1>2. /\ \A d \in Call : ticket[d] \in Nat /\ ticket[d] < ticket'[c]
      /\ ticket'[c] = issued' /\ issued' = issued + 1 /\ issued \in Nat
  BY DEF RunUnlocked, Enter, LockInv, LockTypeOK, TicketsInv
<1>3. /\ \A d \in Call : previous[d] \in Call \cup {None}
      /\ \A l \in Key : locks[l] \in Call \cup {None}
      /\ \A l \in Key : l # NoKey
      /\ \A d \in Call : pc[d] \in {"waiting", "released"} => key[d] # NoKey
  BY KeyAssumption DEF LockInv, LockTypeOK, TicketsInv
<1>4. LockTypeOK'
  BY LockTypeStep DEF LockInv, LockNext
<1>5. TicketsInv'
  BY <1>1, <1>2 DEF LockInv, TicketsInv
<1>6. TailInv'
  BY <1>1, <1>2, <1>3 DEF LockInv, TailInv
<1>7. ChainInv'
  BY <1>1, <1>2, <1>3 DEF LockInv, ChainInv
<1>8. StartedInv'
  BY <1>1, <1>2 DEF LockInv, StartedInv, Started
<1>. QED BY <1>4, <1>5, <1>6, <1>7, <1>8 DEF LockInv

(* The call that may acquire has no earlier call of its key in line. *)
LEMMA AcquirerIsFirst ==
    ASSUME LockInv, NEW c \in Call, Acquire(c), NEW d \in Call,
           key[d] = key[c], ticket[d] < ticket[c]
    PROVE  pc[d] \notin InLine
<1>1. /\ pc[c] = "waiting" /\ previous[c] \in Call \cup {None} /\ key[c] # NoKey
      /\ \A e \in Call : ticket[e] \in Nat
  BY DEF Acquire, LockInv, LockTypeOK, TicketsInv
<1>2. CASE previous[c] = None
  BY <1>1, <1>2 DEF LockInv, ChainInv
<1>3. CASE previous[c] # None
  <2> SUFFICES ASSUME pc[d] \in InLine PROVE FALSE
    OBVIOUS
  <2> DEFINE p == previous[c]
  <2>1. p \in Call /\ pc[p] \in {"released", "done"} /\ key[p] = key[c]
    BY <1>1, <1>3 DEF Acquire, LockInv, ChainInv
  <2>2. ticket[d] <= ticket[p]
    BY <1>1, <1>3 DEF LockInv, ChainInv
  <2>3. ticket[d] # ticket[p]
    BY <2>1 DEF LockInv, TicketsInv
  <2>. QED BY <1>1, <2>1, <2>2, <2>3 DEF LockInv, StartedInv, Started
<1>. QED BY <1>1, <1>2, <1>3

(* A call moves on within its line: acquires or releases. *)
LEMMA MoveStep ==
    ASSUME LockInv, NEW c \in Call, Acquire(c) \/ Release(c)
    PROVE  LockInv'
<1>1. /\ UNCHANGED <<key, previous, locks, ticket, issued>>
      /\ pc[c] \in InLine /\ pc'[c] \in Started
      /\ \A d \in Call \ {c} : pc'[d] = pc[d]
      /\ key[c] = NoKey => pc'[c] # "released"
      /\ key[c] # NoKey => pc'[c] # "done"
  BY DEF Acquire, Release, LockInv, LockTypeOK, TicketsInv, Started
<1>2. \A d \in Call : key[d] = key[c] /\ ticket[d] < ticket[c] /\ key[c] # NoKey => pc[d] \notin InLine
  BY AcquirerIsFirst DEF Release, LockInv, StartedInv, Started
<1>3. /\ \A d \in Call : previous[d] \in Call \cup {None}
      /\ \A l \in Key : locks[l] \in Call \cup {None} /\ l # NoKey
  BY KeyAssumption DEF LockInv, LockTypeOK
<1>4. LockTypeOK'
  BY LockTypeStep DEF LockInv, LockNext
<1>5. TicketsInv'
  BY <1>1 DEF LockInv, TicketsInv, Started
<1>6. TailInv'
  BY <1>1, <1>3 DEF LockInv, TailInv, Started
<1>7. ChainInv'
  BY <1>1, <1>3 DEF LockInv, ChainInv, Started
<1>8. StartedInv'
  BY <1>1, <1>2 DEF LockInv, StartedInv, Started
<1>. QED BY <1>4, <1>5, <1>6, <1>7, <1>8 DEF LockInv

LEMMA CleanupStep ==
    ASSUME LockInv, NEW c \in Call, Cleanup(c)
    PROVE  LockInv'
<1>1. /\ UNCHANGED <<key, previous, ticket, issued>>
      /\ pc[c] = "released" /\ pc'[c] = "done" /\ key[c] \in Key /\ key[c] # NoKey
      /\ \A d \in Call \ {c} : pc'[d] = pc[d]
      /\ \A l \in Key : locks'[l] = IF l = key[c] /\ locks[l] = c THEN None ELSE locks[l]
  BY KeyAssumption DEF Cleanup, LockInv, LockTypeOK, TicketsInv
<1>2. /\ \A d \in Call : previous[d] \in Call \cup {None} /\ ticket[d] \in Nat
      /\ \A l \in Key : locks[l] \in Call \cup {None}
  BY DEF LockInv, LockTypeOK
<1>3. \A d \in Call : key[d] = key[c] /\ ticket[d] < ticket[c] => pc[d] \notin InLine
  BY <1>1 DEF LockInv, StartedInv, Started
<1>4. LockTypeOK'
  BY LockTypeStep DEF LockInv, LockNext
<1>5. TicketsInv'
  BY <1>1 DEF LockInv, TicketsInv
<1>6. TailInv'
  <2> SUFFICES ASSUME NEW k \in Key
      PROVE  /\ locks'[k] = None => \A d \in Call : key[d] = k => pc'[d] \notin InLine
             /\ locks'[k] # None =>
                /\ key[locks'[k]] = k
                /\ pc'[locks'[k]] \in {"waiting", "working", "released"}
                /\ \A d \in Call : key[d] = k /\ pc'[d] \in InLine => ticket[d] <= ticket[locks'[k]]
    BY <1>1 DEF TailInv
  <2>1. CASE k = key[c] /\ locks[k] = c
    <3> SUFFICES ASSUME NEW d \in Call, key[d] = k, pc'[d] \in InLine PROVE FALSE
      BY <1>1, <2>1
    <3>1. d # c /\ pc[d] \in InLine
      BY <1>1
    <3>2. ticket[d] <= ticket[c] /\ c # None
      BY <2>1, <3>1, CallAssumption DEF LockInv, TailInv
    <3>3. ticket[d] # ticket[c]
      BY <1>1, <3>1 DEF LockInv, TicketsInv
    <3>. QED BY <1>2, <1>3, <2>1, <3>1, <3>2, <3>3
  <2>2. CASE ~(k = key[c] /\ locks[k] = c)
    <3>1. locks'[k] = locks[k] /\ (locks[k] = c => key[c] # k)
      BY <1>1, <2>2
    <3>. QED BY <1>1, <1>2, <3>1 DEF LockInv, TailInv
  <2>. QED BY <2>1, <2>2
<1>7. ChainInv'
  BY <1>1, <1>2 DEF LockInv, ChainInv
<1>8. StartedInv'
  BY <1>1, <1>3 DEF LockInv, StartedInv, Started
<1>. QED BY <1>4, <1>5, <1>6, <1>7, <1>8 DEF LockInv

LEMMA LockStep == LockInv /\ [LockNext]_lockVars => LockInv'
<1> SUFFICES ASSUME LockInv, [LockNext]_lockVars PROVE LockInv'
  OBVIOUS
<1>1. CASE UNCHANGED lockVars
  BY <1>1, LockTypeStep DEF lockVars, LockInv, TicketsInv, TailInv, ChainInv, StartedInv
<1>. QED
  BY <1>1, RunUnlockedStep, RunLockedStep, MoveStep, CleanupStep DEF LockNext

LEMMA LockInitially == LockInit => LockInv
BY DEF LockInit, LockInv, LockTypeOK, Where, TicketsInv, TailInv, ChainInv, StartedInv, Started

LEMMA LockCorrect == LockSpec => []LockInv
BY LockInitially, LockStep, PTL DEF LockSpec

(* What the invariant says of a line, seen from the call at work. *)
LEMMA FifoFollows == LockInv => KeyFifo
BY DEF LockInv, StartedInv, Started, KeyFifo

(* And of a key's entry, seen from its calls. *)
LEMMA RegistryFollows == LockInv => RegistryFollowsCalls
<1> SUFFICES ASSUME LockInv, NEW k \in Key
    PROVE  /\ (\A c \in Call : key[c] = k => pc[c] = "done") => locks[k] = None
           /\ (\E c \in Call : key[c] = k /\ pc[c] \in InLine) => locks[k] # None
  BY DEF RegistryFollowsCalls
<1>. QED BY DEF LockInv, LockTypeOK, TailInv

(* README "Existing conversations execute behind a session lock", for any      *)
(* number of calls and keys: one call at a time, in the order of their run().  *)
THEOREM Exclusion == LockSpec => []KeyFifo
BY FifoFollows, LockCorrect, PTL

(* this.locks holds an entry for the keys in use, and for no key whose calls   *)
(* are all over.                                                               *)
THEOREM Registry == LockSpec => []RegistryFollowsCalls
BY RegistryFollows, LockCorrect, PTL

------------------------------------------------------------------------------
(* Refinement: the line of each key, seen as a FifoMutex.                      *)

PhaseMap(k) == [c \in Call |-> IF key[c] = k THEN PhaseOf(pc[c]) ELSE "idle"]
TicketMap(k) == [c \in Call |-> IF key[c] = k THEN ticket[c] ELSE 0]

(* Steps that the line of k does not see. *)
LEMMA Invisible ==
    ASSUME NEW k \in Key,
           \A c \in Call : /\ (PhaseMap(k)[c])' = PhaseMap(k)[c]
                         /\ (TicketMap(k)[c])' = TicketMap(k)[c]
    PROVE  UNCHANGED Mutex(k)!mutexVars
BY DEF Mutex!mutexVars, PhaseMap, TicketMap

LEMMA ArrivalRequests ==
    ASSUME LockInv, NEW c \in Call, NEW k \in Key, RunLocked(c, k)
    PROVE  key'[c] = k /\ Mutex(k)!Request(c, ticket'[c])
<1>1. /\ pc[c] = "idle" /\ pc'[c] = "waiting"
      /\ key'[c] = k /\ key[c] # k
      /\ \A d \in Call \ {c} : /\ pc'[d] = pc[d] /\ key'[d] = key[d] /\ ticket'[d] = ticket[d]
  BY KeyAssumption DEF RunLocked, Enter, LockInv, LockTypeOK, TicketsInv
<1>2. ticket'[c] \in Nat /\ \A d \in Call : ticket[d] < ticket'[c] /\ 0 < ticket'[c]
  BY DEF RunLocked, Enter, LockInv, LockTypeOK, TicketsInv
<1>3. PhaseMap(k)' = [PhaseMap(k) EXCEPT ![c] = "waiting"]
  BY <1>1 DEF PhaseMap, PhaseOf
<1>4. TicketMap(k)' = [TicketMap(k) EXCEPT ![c] = ticket'[c]]
  BY <1>1 DEF TicketMap
<1>5. PhaseMap(k)[c] = "idle" /\ \A d \in Call : TicketMap(k)[d] < ticket'[c]
  BY <1>1, <1>2 DEF PhaseMap, TicketMap
<1>. QED
  BY <1>1, <1>2, <1>3, <1>4, <1>5 DEF Mutex!Request, Mutex!TakeTicket, PhaseMap, TicketMap

LEMMA AcquisitionGrants ==
    ASSUME LockInv, NEW c \in Call, Acquire(c), key[c] \in Key
    PROVE  Mutex(key[c])!Grant(c)
<1> DEFINE k == key[c]
<1>1. /\ pc[c] = "waiting" /\ k # NoKey
      /\ \A d \in Call : ticket[d] \in Nat /\ pc[d] \in Where
  BY KeyAssumption DEF Acquire, LockInv, LockTypeOK
<1>2. PhaseMap(k)[c] = "waiting"
  BY <1>1 DEF PhaseMap, PhaseOf
<1>3. ASSUME NEW d \in Call
      PROVE  /\ PhaseMap(k)[d] # "holding"
             /\ PhaseMap(k)[d] = "waiting" => TicketMap(k)[c] <= TicketMap(k)[d]
  <2>1. CASE key[d] # k
    BY <2>1 DEF PhaseMap
  <2>2. CASE key[d] = k
    <3>1. ticket[d] < ticket[c] => pc[d] \notin InLine
      BY <2>2, AcquirerIsFirst
    <3>2. pc[d] # "working"
      <4> SUFFICES ASSUME pc[d] = "working" PROVE FALSE
        OBVIOUS
      <4>1. ~(ticket[c] < ticket[d])
        BY <1>1, <2>2 DEF LockInv, StartedInv, Started
      <4>2. ticket[c] = ticket[d]
        BY <1>1, <3>1, <4>1
      <4>. QED BY <1>1, <4>2 DEF LockInv, TicketsInv
    <3>3. /\ PhaseMap(k)[d] = "holding" => pc[d] = "working"
          /\ PhaseMap(k)[d] = "waiting" => pc[d] = "waiting"
          /\ TicketMap(k)[c] = ticket[c] /\ TicketMap(k)[d] = ticket[d]
      BY <1>1, <2>2 DEF PhaseMap, PhaseOf, TicketMap, Where
    <3>. QED BY <1>1, <3>1, <3>2, <3>3
  <2>. QED BY <2>1, <2>2
<1>4. PhaseMap(k)' = [PhaseMap(k) EXCEPT ![c] = "holding"] /\ TicketMap(k)' = TicketMap(k)
  BY DEF Acquire, PhaseMap, PhaseOf, TicketMap, LockInv, LockTypeOK
<1>. QED
  BY <1>2, <1>3, <1>4 DEF Mutex!Grant, Mutex!IsNext, PhaseMap, TicketMap

LEMMA ReleaseFinishes ==
    ASSUME LockInv, NEW c \in Call, Release(c), key[c] \in Key
    PROVE  Mutex(key[c])!Finish(c)
<1> DEFINE k == key[c]
<1>1. PhaseMap(k)[c] = "holding"
  BY DEF Release, PhaseMap, PhaseOf
<1>2. PhaseMap(k)' = [PhaseMap(k) EXCEPT ![c] = "done"] /\ TicketMap(k)' = TicketMap(k)
  BY KeyAssumption DEF Release, PhaseMap, PhaseOf, TicketMap, LockInv, LockTypeOK
<1>. QED
  BY <1>1, <1>2 DEF Mutex!Finish, PhaseMap, TicketMap

LEMMA MutexStep ==
    ASSUME LockInv, [LockNext]_lockVars, NEW k \in Key
    PROVE  UNCHANGED Mutex(k)!mutexVars \/ Mutex(k)!Next
<1>1. ASSUME NEW c \in Call, RunUnlocked(c)
      PROVE  UNCHANGED Mutex(k)!mutexVars
  <2>1. key[c] # k /\ key' = key
    BY <1>1, KeyAssumption DEF RunUnlocked, Enter, LockInv, TicketsInv
  <2>2. \A d \in Call \ {c} : pc'[d] = pc[d] /\ ticket'[d] = ticket[d]
    BY <1>1 DEF RunUnlocked, Enter, LockInv, LockTypeOK
  <2>. QED BY <2>1, <2>2, Invisible DEF PhaseMap, TicketMap
<1>2. ASSUME NEW c \in Call, NEW l \in Key, RunLocked(c, l), l # k
      PROVE  UNCHANGED Mutex(k)!mutexVars
  <2>1. /\ key[c] # k /\ key'[c] # k
        /\ \A d \in Call \ {c} : pc'[d] = pc[d] /\ key'[d] = key[d] /\ ticket'[d] = ticket[d]
    BY <1>2, KeyAssumption DEF RunLocked, Enter, LockInv, LockTypeOK, TicketsInv
  <2>. QED BY <2>1, Invisible DEF PhaseMap, TicketMap
<1>3. ASSUME NEW c \in Call, Acquire(c) \/ Release(c), key[c] # k
      PROVE  UNCHANGED Mutex(k)!mutexVars
  <2>1. UNCHANGED <<key, ticket>> /\ \A d \in Call \ {c} : pc'[d] = pc[d]
    BY <1>3 DEF Acquire, Release, LockInv, LockTypeOK
  <2>. QED BY <1>3, <2>1, Invisible DEF PhaseMap, TicketMap
<1>4. ASSUME NEW c \in Call, Cleanup(c)
      PROVE  UNCHANGED Mutex(k)!mutexVars
  <2>1. /\ UNCHANGED <<key, ticket>> /\ pc[c] = "released" /\ pc'[c] = "done"
        /\ \A d \in Call \ {c} : pc'[d] = pc[d]
    BY <1>4 DEF Cleanup, LockInv, LockTypeOK
  <2>2. PhaseOf("released") = PhaseOf("done")
    BY DEF PhaseOf
  <2>. QED BY <2>1, <2>2, Invisible DEF PhaseMap, TicketMap
<1>5. CASE UNCHANGED lockVars
  BY <1>5, Invisible DEF lockVars, PhaseMap, TicketMap
<1>6. ASSUME NEW c \in Call, RunLocked(c, k) PROVE Mutex(k)!Next
  <2>1. key'[c] = k /\ Mutex(k)!Request(c, ticket'[c])
    BY <1>6, ArrivalRequests
  <2>. QED BY <2>1 DEF Mutex!Next, Mutex!Request, Mutex!TakeTicket
<1>7. ASSUME NEW c \in Call, Acquire(c) \/ Release(c), key[c] = k PROVE Mutex(k)!Next
  BY <1>7, AcquisitionGrants, ReleaseFinishes DEF Mutex!Next
<1>. QED BY <1>1, <1>2, <1>3, <1>4, <1>5, <1>6, <1>7 DEF LockNext

(* The calls of each key form a first-come first-served mutual exclusion. *)
THEOREM Refinement == LockSpec => EachKeyImplementsFifoMutex
<1>1. LockInit => \A k \in Key : Mutex(k)!Init
  BY DEF LockInit, Mutex!Init, PhaseOf
<1>2. LockInv /\ [LockNext]_lockVars
      => [\A k \in Key : UNCHANGED Mutex(k)!mutexVars \/ Mutex(k)!Next]_lockVars
  BY MutexStep
<1>. QED BY <1>1, <1>2, LockCorrect, PTL DEF LockSpec, EachKeyImplementsFifoMutex

------------------------------------------------------------------------------
(* The runtime takes the steps of its locks.                                   *)

(* Every step of the runtime leaves the locks alone or is a step of theirs. *)
LEMMA LockSteps ==
    ASSUME TypeOK, [Next]_vars
    PROVE  [LockNext]_lockVars
<1>1. ASSUME NEW r \in Request,
             \/ Submit(r) \/ Start(r) \/ Timeout(r) \/ ReadConversations(r)
             \/ ResolveFails(r) \/ BrowserReplies(r) \/ WriteConversations(r)
             \/ ReadAffinity(r)
      PROVE  UNCHANGED lockVars
  BY <1>1 DEF Submit, Start, Timeout, ReadConversations, ResolveFails, BrowserReplies,
              WriteConversations, ReadAffinity
<1>2. ASSUME NEW r \in Request, Resolve(r) PROVE LockNext
  <2>1. CASE RunUnlocked(r)
    BY <2>1, LockAssumption DEF LockNext
  <2>2. CASE target[r] \in copy[r] \cup affinity /\ RunLocked(r, target[r])
    <3>1. target[r] \in Id
      BY <2>2 DEF TypeOK
    <3>. QED BY <2>2, <3>1, LockAssumption DEF LockNext
  <2>. QED BY <1>2, <2>1, <2>2 DEF Resolve
<1>3. ASSUME NEW r \in Request, EnterBrowser(r) \/ Unregister(r) PROVE LockNext
  BY <1>3, LockAssumption DEF EnterBrowser, Unregister, LockNext
<1>4. ASSUME NEW r \in Request, BrowserFails(r) \/ WriteAffinity(r) \/ StoreFails(r)
      PROVE  [LockNext]_lockVars
  <2>1. Unlocks(r)
    BY <1>4 DEF BrowserFails, WriteAffinity, StoreFails
  <2>. QED BY <2>1, LockAssumption DEF Unlocks, LockNext
<1>5. CASE UNCHANGED vars
  BY <1>5 DEF vars
<1>. QED BY <1>1, <1>2, <1>3, <1>4, <1>5 DEF Next

------------------------------------------------------------------------------
(* Type correctness.  That only ids reach the files depends on image work never *)
(* getting as far as storeConversation().                                      *)

ImagesStoreNothing ==
    \A r \in Request : target[r] = Image => op[r] \in {"none", "browser", "succeeded", "failed"}

(* Every step of the runtime leaves the worker slot alone or is a step of one  *)
(* request there.                                                              *)
SlotStep(r) == Slot!Request(r, r) \/ Slot!Grant(r) \/ Slot!Finish(r)

LEMMA SlotTypes ==
    ASSUME Slot!TypeOK, NEW r \in Request, SlotStep(r) \/ UNCHANGED slotVars
    PROVE  Slot!TypeOK'
<1> USE DEF Slot!TypeOK, Slot!Phase
<1>1. CASE Slot!Request(r, r)
  BY <1>1 DEF Slot!Request, Slot!TakeTicket
<1>2. CASE Slot!Grant(r) \/ Slot!Finish(r)
  BY <1>2 DEF Slot!Grant, Slot!Finish
<1>3. CASE UNCHANGED slotVars
  BY <1>3 DEF slotVars
<1>. QED BY <1>1, <1>2, <1>3 DEF SlotStep

LEMMA IdType ==
    ASSUME TypeOK, NEW r \in Request, target[r] # Image
    PROVE  IdOf(r) \in Id
<1>1. target[r] \in Id \cup {New, Image}
  BY DEF TypeOK
<1>. QED BY <1>1 DEF IdOf, Id

LEMMA KnownType == TypeOK => Known \subseteq Id
BY IdType DEF Known, TypeOK, Id

LEMMA TypeStep ==
    ASSUME TypeOK, ImagesStoreNothing, [Next]_vars
    PROVE  TypeOK'
<1>1. LockTypeOK'
  BY LockSteps, LockTypeStep DEF TypeOK, lockVars, lockVars
<1>2. ASSUME NEW r \in Request, Submit(r) PROVE TypeOK'
  <2>1. Slot!TypeOK'
    BY <1>2, SlotTypes DEF Submit, SlotStep, TypeOK
  <2>. QED BY <1>1, <1>2, <2>1, KnownType DEF Submit, TypeOK, storeVars
<1>3. ASSUME NEW r \in Request, Start(r) \/ Timeout(r) PROVE TypeOK'
  <2>1. Slot!TypeOK'
    BY <1>3, SlotTypes DEF Start, Timeout, SlotStep, TypeOK
  <2>. QED BY <1>1, <1>3, <2>1 DEF Start, Timeout, TypeOK, storeVars, Stage
<1>4. ASSUME NEW r \in Request, NEW stage \in Stage, Goes(r, stage)
      PROVE  Slot!TypeOK' /\ op' \in [Request -> Stage] /\ answer' = answer
  <2>1. UNCHANGED slotVars /\ answer' = answer
    BY <1>4 DEF Goes
  <2>2. Slot!TypeOK'
    BY <2>1, SlotTypes DEF TypeOK
  <2>. QED BY <1>4, <2>1, <2>2 DEF Goes, TypeOK
<1>5. ASSUME NEW r \in Request, NEW outcome \in {"ok", "error"}, Ends(r, outcome)
      PROVE  /\ Slot!TypeOK' /\ op' \in [Request -> Stage]
             /\ answer' \in [Request -> {"none", "ok", "error", "timeout"}]
  <2>1. SlotStep(r) \/ UNCHANGED slotVars
    BY <1>5 DEF Ends, SlotStep
  <2>. QED BY <1>5, <2>1, SlotTypes DEF Ends, TypeOK, Stage
<1>6. ASSUME NEW r \in Request, ReadConversations(r) \/ ReadAffinity(r) PROVE TypeOK'
  <2>1. Goes(r, "resolving") \/ Goes(r, "bound")
    BY <1>6 DEF ReadConversations, ReadAffinity
  <2>2. Slot!TypeOK' /\ op' \in [Request -> Stage] /\ answer' = answer
    BY <2>1, <1>4 DEF Stage
  <2>. QED BY <1>1, <1>6, <2>2 DEF ReadConversations, ReadAffinity, TypeOK, storeVars
<1>7. ASSUME NEW r \in Request, Resolve(r) \/ EnterBrowser(r) PROVE TypeOK'
  <2>1. Goes(r, "browser") \/ Goes(r, "queued")
    BY <1>7 DEF Resolve, EnterBrowser
  <2>2. Slot!TypeOK' /\ op' \in [Request -> Stage] /\ answer' = answer
    BY <2>1, <1>4 DEF Stage
  <2>. QED BY <1>1, <1>7, <2>2 DEF Resolve, EnterBrowser, TypeOK, storeVars
<1>8. ASSUME NEW r \in Request, WriteConversations(r) PROVE TypeOK'
  <2>1. Slot!TypeOK' /\ op' \in [Request -> Stage] /\ answer' = answer
    BY <1>8, <1>4 DEF WriteConversations, Stage
  <2>2. IdOf(r) \in Id
    BY <1>8, IdType DEF WriteConversations, At, ImagesStoreNothing
  <2>. QED BY <1>1, <1>8, <2>1, <2>2 DEF WriteConversations, TypeOK, storeVars
<1>9. ASSUME NEW r \in Request, WriteAffinity(r) PROVE TypeOK'
  <2>1. IdOf(r) \in Id
    BY <1>9, IdType DEF WriteAffinity, At, ImagesStoreNothing
  <2>. QED BY <1>1, <1>5, <1>9, <2>1 DEF WriteAffinity, TypeOK
<1>10. ASSUME NEW r \in Request, ResolveFails(r) \/ BrowserFails(r) \/ StoreFails(r) PROVE TypeOK'
  <2>1. Ends(r, "error") /\ UNCHANGED <<target, copy>> /\ (UNCHANGED storeVars \/ Tears(r))
    BY <1>10 DEF ResolveFails, BrowserFails, StoreFails
  <2>2. /\ conversations' \in SUBSET Id /\ affinity' \in SUBSET Id
        /\ torn' \in SUBSET {"conversations", "affinity"}
    BY <2>1 DEF Tears, storeVars, TypeOK
  <2>. QED BY <1>1, <1>5, <2>1, <2>2 DEF TypeOK
<1>11. ASSUME NEW r \in Request, BrowserReplies(r) PROVE TypeOK'
  <2>1. Goes(r, "storing") \/ Ends(r, "ok")
    BY <1>11 DEF BrowserReplies
  <2>2. /\ Slot!TypeOK' /\ op' \in [Request -> Stage]
        /\ answer' \in [Request -> {"none", "ok", "error", "timeout"}]
    BY <2>1, <1>4, <1>5 DEF Stage, TypeOK
  <2>. QED BY <1>1, <1>11, <2>2 DEF BrowserReplies, TypeOK, storeVars
<1>12. ASSUME NEW r \in Request, Unregister(r) PROVE TypeOK'
  BY <1>1, <1>12, SlotTypes DEF Unregister, TypeOK, storeVars
<1>13. CASE UNCHANGED vars
  BY <1>13, <1>1 DEF vars, TypeOK, slotVars, storeVars, Slot!TypeOK
<1>. QED
  BY <1>2, <1>3, <1>6, <1>7, <1>8, <1>9, <1>10, <1>11, <1>12, <1>13 DEF Next

------------------------------------------------------------------------------
(* The worker slot.  Work that goes on holds the slot, or was timed out.       *)

Active == {"reading", "resolving", "queued", "browser", "storing", "binding", "bound"}

SlotInv ==
    \A r \in Request :
        /\ slot[r] \in {"idle", "waiting"} => op[r] = "none" /\ answer[r] = "none"
        /\ slot[r] = "holding" => op[r] \in Active /\ answer[r] = "none"
        /\ op[r] \in Active => slot[r] = "holding" \/ answer[r] = "timeout"
        /\ answer[r] = "ok" => op[r] = "succeeded"
        /\ \A q \in Request : slot[r] = "holding" /\ slot[q] = "holding" => r = q

(* What a step can do to a request's place in the slot, its operation and its  *)
(* answer.                                                                     *)
Moves(r) ==
    \/ Submit(r)
    \/ Start(r)
    \/ Timeout(r)
    \/ op[r] \in Active /\ \E stage \in Active : Goes(r, stage)
    \/ op[r] \in Active /\ \E outcome \in {"ok", "error"} : Ends(r, outcome)

LEMMA StepMoves ==
    ASSUME [Next]_vars
    PROVE  (\E r \in Request : Moves(r)) \/ UNCHANGED <<slotVars, op, answer>>
<1>1. ASSUME NEW r \in Request,
             \/ ReadConversations(r) \/ Resolve(r) \/ EnterBrowser(r)
             \/ WriteConversations(r) \/ ReadAffinity(r)
      PROVE  op[r] \in Active /\ \E stage \in Active : Goes(r, stage)
  BY <1>1 DEF ReadConversations, Resolve, EnterBrowser, WriteConversations, ReadAffinity, At, Active
<1>2. ASSUME NEW r \in Request,
             ResolveFails(r) \/ BrowserFails(r) \/ StoreFails(r) \/ WriteAffinity(r)
      PROVE  op[r] \in Active /\ \E outcome \in {"ok", "error"} : Ends(r, outcome)
  BY <1>2 DEF ResolveFails, BrowserFails, StoreFails, WriteAffinity, At, Active
<1>3. ASSUME NEW r \in Request, BrowserReplies(r)
      PROVE  /\ op[r] \in Active
             /\ \/ \E stage \in Active : Goes(r, stage)
                \/ \E outcome \in {"ok", "error"} : Ends(r, outcome)
  BY <1>3 DEF BrowserReplies, At, Active
<1>4. ASSUME NEW r \in Request, Unregister(r) PROVE UNCHANGED <<slotVars, op, answer>>
  BY <1>4 DEF Unregister
<1>5. CASE UNCHANGED vars
  BY <1>5 DEF vars
<1>. QED BY <1>1, <1>2, <1>3, <1>4, <1>5 DEF Next, Moves

LEMMA SlotInvStep ==
    ASSUME TypeOK, SlotInv, [Next]_vars
    PROVE  SlotInv'
<1>0. /\ slot \in [Request -> {"idle", "waiting", "holding", "done", "gone"}]
      /\ op \in [Request -> Stage]
      /\ answer \in [Request -> {"none", "ok", "error", "timeout"}]
  BY DEF TypeOK, Slot!TypeOK, Slot!Phase
<1>1. ASSUME NEW r \in Request, Submit(r) PROVE SlotInv'
  BY <1>0, <1>1 DEF Submit, Slot!Request, Slot!TakeTicket, SlotInv
<1>2. ASSUME NEW r \in Request, Start(r) PROVE SlotInv'
  BY <1>0, <1>2 DEF Start, Slot!Grant, Slot!IsNext, SlotInv, Active
<1>3. ASSUME NEW r \in Request, Timeout(r) PROVE SlotInv'
  BY <1>0, <1>3 DEF Timeout, Slot!Finish, SlotInv
<1>4. ASSUME NEW r \in Request, op[r] \in Active, NEW stage \in Active, Goes(r, stage)
      PROVE  SlotInv'
  BY <1>0, <1>4 DEF Goes, slotVars, SlotInv, Active
<1>5. ASSUME NEW r \in Request, op[r] \in Active, NEW outcome \in {"ok", "error"}, Ends(r, outcome)
      PROVE  SlotInv'
  BY <1>0, <1>5 DEF Ends, Slot!Finish, slotVars, SlotInv, Active
<1>6. CASE UNCHANGED <<slotVars, op, answer>>
  BY <1>6 DEF slotVars, SlotInv
<1>. QED BY <1>1, <1>2, <1>3, <1>4, <1>5, <1>6, StepMoves DEF Moves

------------------------------------------------------------------------------
(* Where an operation stands tells what it does at the conversation lock.      *)

PlaceInv ==
    \A r \in Request :
        /\ op[r] \in {"none", "reading", "resolving"} => pc[r] = "idle"
        /\ op[r] = "queued" => pc[r] = "waiting" /\ target[r] \in Id /\ key[r] = target[r]
        /\ op[r] \in {"browser", "storing", "binding", "bound"} /\ target[r] # Image =>
            /\ pc[r] = "working"
            /\ target[r] = New => key[r] = NoKey
            /\ target[r] # New => key[r] = target[r]
        /\ target[r] = Image => op[r] \in {"none", "browser", "succeeded", "failed"}

LEMMA PlaceStep ==
    ASSUME TypeOK, LockInv, SlotInv, PlaceInv, [Next]_vars
    PROVE  PlaceInv'
<1>0. /\ slot \in [Request -> {"idle", "waiting", "holding", "done", "gone"}]
      /\ op \in [Request -> Stage]
      /\ pc \in [Request -> {"idle", "waiting", "working", "released", "done"}]
      /\ key \in [Request -> Id \cup {NoKey}]
      /\ target \in [Request -> Id \cup {New, Image}]
      /\ Image \notin Id /\ New \notin Id /\ New # Image
      /\ \A r \in Request : pc[r] = "idle" => key[r] = NoKey
  BY TargetAssumption, LockAssumption DEF TypeOK, Slot!TypeOK, Slot!Phase, LockTypeOK, Where, Id,
                          LockInv, TicketsInv
<1>1. ASSUME NEW r \in Request, Submit(r) PROVE PlaceInv'
  <2>1. op' = op /\ pc' = pc /\ key' = key /\ op[r] = "none"
        /\ \E t : target' = [target EXCEPT ![r] = t]
    BY <1>1 DEF Submit, Slot!Request, Slot!TakeTicket, SlotInv, lockVars
  <2>. QED BY <1>0, <2>1 DEF PlaceInv
<1>2. ASSUME NEW r \in Request, Start(r) PROVE PlaceInv'
  <2>1. op[r] = "none"
    BY <1>2 DEF Start, Slot!Grant, Slot!IsNext, SlotInv
  <2>. QED BY <1>0, <1>2, <2>1 DEF Start, lockVars, PlaceInv
<1>3. ASSUME NEW r \in Request, Resolve(r) PROVE PlaceInv'
  <2>1. CASE target[r] = New /\ RunUnlocked(r) /\ Goes(r, "browser")
    BY <1>0, <1>3, <2>1 DEF Resolve, At, Goes, RunUnlocked, Enter, PlaceInv
  <2>2. CASE target[r] \in copy[r] \cup affinity /\ RunLocked(r, target[r]) /\ Goes(r, "queued")
    <3>1. target[r] \in Id
      BY <2>2 DEF TypeOK
    <3>. QED BY <1>0, <1>3, <2>2, <3>1 DEF Resolve, At, Goes, RunLocked, Enter, PlaceInv
  <2>. QED BY <1>3, <2>1, <2>2 DEF Resolve
<1>4. ASSUME NEW r \in Request, EnterBrowser(r) PROVE PlaceInv'
  BY <1>0, <1>4 DEF EnterBrowser, At, Goes, Acquire, PlaceInv
<1>5. ASSUME NEW r \in Request, ReadConversations(r) \/ WriteConversations(r) \/ ReadAffinity(r)
      PROVE  PlaceInv'
  BY <1>0, <1>5 DEF ReadConversations, WriteConversations, ReadAffinity, At, Goes, lockVars, PlaceInv
<1>6. ASSUME NEW r \in Request, BrowserReplies(r) PROVE PlaceInv'
  BY <1>0, <1>6 DEF BrowserReplies, At, Goes, Ends, lockVars, PlaceInv
<1>7. ASSUME NEW r \in Request, ResolveFails(r) PROVE PlaceInv'
  BY <1>0, <1>7 DEF ResolveFails, Ends, lockVars, PlaceInv
<1>8. ASSUME NEW r \in Request, BrowserFails(r) \/ WriteAffinity(r) \/ StoreFails(r)
      PROVE  PlaceInv'
  <2>1. /\ Unlocks(r) /\ UNCHANGED target
        /\ op' = [op EXCEPT ![r] = "succeeded"] \/ op' = [op EXCEPT ![r] = "failed"]
    BY <1>8 DEF BrowserFails, WriteAffinity, StoreFails, Ends
  <2>2. key' = key /\ \A q \in Request \ {r} : pc'[q] = pc[q]
    BY <1>0, <2>1 DEF Unlocks, Release, lockVars
  <2>. QED BY <1>0, <2>1, <2>2 DEF PlaceInv
<1>9. ASSUME NEW r \in Request, Unregister(r) PROVE PlaceInv'
  BY <1>0, <1>9 DEF Unregister, Cleanup, PlaceInv
<1>10. ASSUME NEW r \in Request, Timeout(r) PROVE PlaceInv'
  BY <1>10 DEF Timeout, lockVars, PlaceInv
<1>11. CASE UNCHANGED vars
  BY <1>11 DEF vars, lockVars, PlaceInv
<1>. QED
  BY <1>1, <1>2, <1>3, <1>4, <1>5, <1>6, <1>7, <1>8, <1>9, <1>10, <1>11 DEF Next

------------------------------------------------------------------------------
(* The id of a new conversation reaches a file, a copy or another request only *)
(* after the operation that created it has left the browser.                   *)

Disclosed(s) ==
    \/ s \in conversations \cup affinity
    \/ \E q \in Request : s \in copy[q] \cup {target[q]}

KnownInv ==
    \A s \in Request :
        Disclosed(s) => target[s] = New /\ op[s] \in {"binding", "bound", "succeeded", "failed"}

LEMMA KnownStep ==
    ASSUME TypeOK, SlotInv, PlaceInv, KnownInv, [Next]_vars
    PROVE  KnownInv'
<1>0. /\ slot \in [Request -> {"idle", "waiting", "holding", "done", "gone"}]
      /\ op \in [Request -> Stage]
      /\ target \in [Request -> Id \cup {New, Image}]
      /\ copy \in [Request -> SUBSET Id]
      /\ \A q \in Request : q # New /\ q # Image
  BY TargetAssumption DEF TypeOK, Slot!TypeOK, Slot!Phase
<1>1. ASSUME NEW r \in Request, Submit(r) PROVE KnownInv'
  <2>1. op[r] = "none" /\ UNCHANGED <<op, copy, conversations, affinity>>
    BY <1>1 DEF Submit, Slot!Request, Slot!TakeTicket, SlotInv, storeVars
  <2>2. PICK t \in Known \cup {New, Image} : target' = [target EXCEPT ![r] = t]
    BY <1>1 DEF Submit
  <2>3. ASSUME NEW s \in Request, s = t
        PROVE  target[s] = New /\ op[s] \in {"binding", "bound", "succeeded", "failed"}
    <3>1. CASE s \in conversations
      BY <3>1 DEF KnownInv, Disclosed
    <3>3. s \notin Conv
      BY RequestAssumption
    <3>2. CASE \E q \in Request : answer[q] = "ok" /\ target[q] # Image /\ s = IdOf(q)
      BY <3>2 DEF IdOf, SlotInv, KnownInv, Disclosed
    <3>. QED BY <1>0, <2>2, <2>3, <3>1, <3>2, <3>3 DEF Known
  <2>4. ASSUME NEW s \in Request, Disclosed(s)'
        PROVE  target'[s] = New /\ op'[s] \in {"binding", "bound", "succeeded", "failed"}
    <3>1. Disclosed(s) \/ s = t
      BY <1>0, <2>1, <2>2, <2>4 DEF Disclosed
    <3>2. target[s] = New /\ op[s] \in {"binding", "bound", "succeeded", "failed"}
      BY <2>3, <3>1 DEF KnownInv
    <3>. QED BY <1>0, <2>1, <2>2, <3>2
  <2>. QED BY <2>4 DEF KnownInv
<1>2. ASSUME NEW r \in Request,
             op[r] \in {"none", "reading", "resolving", "queued", "browser"},
             UNCHANGED <<target, conversations, affinity>>,
             \/ copy' = copy
             \/ copy' = [copy EXCEPT ![r] = conversations],
             \E stage \in Stage : op' = [op EXCEPT ![r] = stage]
      PROVE  KnownInv'
  <2> SUFFICES ASSUME NEW s \in Request, Disclosed(s)'
      PROVE  target'[s] = New /\ op'[s] \in {"binding", "bound", "succeeded", "failed"}
    BY DEF KnownInv
  <2>1. Disclosed(s)
    BY <1>0, <1>2 DEF Disclosed
  <2>2. target[s] = New /\ op[s] \in {"binding", "bound", "succeeded", "failed"}
    BY <2>1 DEF KnownInv
  <2>. QED BY <1>0, <1>2, <2>2
<1>3. ASSUME NEW r \in Request,
             target' = target,
             op[r] \in {"storing", "binding", "bound", "browser"},
             \E stage \in {"binding", "bound", "succeeded", "failed"} : op' = [op EXCEPT ![r] = stage],
             copy' = copy \/ copy' = [copy EXCEPT ![r] = affinity],
             conversations' \in {{}, conversations, copy[r] \cup {IdOf(r)}},
             affinity' \in {{}, affinity, copy[r] \cup {IdOf(r)}}
      PROVE  KnownInv'
  <2> SUFFICES ASSUME NEW s \in Request, Disclosed(s)'
      PROVE  target'[s] = New /\ op'[s] \in {"binding", "bound", "succeeded", "failed"}
    BY DEF KnownInv
  <2>1. Disclosed(s) \/ s = IdOf(r)
    BY <1>0, <1>3 DEF Disclosed
  <2>2. Disclosed(s) => target[s] = New /\ op[s] \in {"binding", "bound", "succeeded", "failed"}
    BY DEF KnownInv
  <2>3. s = IdOf(r) => Disclosed(s) \/ (s = r /\ target[r] = New)
    BY DEF IdOf, Disclosed
  <2>. QED BY <1>0, <1>3, <2>1, <2>2, <2>3
<1>4. ASSUME NEW r \in Request, Start(r) PROVE KnownInv'
  <2>1. op[r] = "none"
    BY <1>4 DEF Start, Slot!Grant, Slot!IsNext, SlotInv
  <2>. QED BY <1>2, <1>4, <2>1 DEF Start, storeVars, Stage
<1>5. ASSUME NEW r \in Request, ReadConversations(r) \/ Resolve(r) \/ EnterBrowser(r) \/ ResolveFails(r)
      PROVE  KnownInv'
  BY <1>2, <1>5 DEF ReadConversations, Resolve, EnterBrowser, ResolveFails, At, Goes, Ends, storeVars, Stage
<1>6. ASSUME NEW r \in Request, BrowserReplies(r) \/ BrowserFails(r) PROVE KnownInv'
  BY <1>2, <1>6 DEF BrowserReplies, BrowserFails, At, Goes, Ends, storeVars, Stage
<1>7. ASSUME NEW r \in Request,
             WriteConversations(r) \/ ReadAffinity(r) \/ WriteAffinity(r) \/ StoreFails(r)
      PROVE  KnownInv'
  BY <1>3, <1>7 DEF WriteConversations, ReadAffinity, WriteAffinity, StoreFails, Tears, At, Goes, Ends, storeVars
<1>8. ASSUME NEW r \in Request, Timeout(r) \/ Unregister(r) PROVE KnownInv'
  BY <1>8 DEF Timeout, Unregister, storeVars, KnownInv, Disclosed
<1>9. CASE UNCHANGED vars
  BY <1>9 DEF vars, storeVars, KnownInv, Disclosed
<1>. QED BY <1>1, <1>4, <1>5, <1>6, <1>7, <1>8, <1>9 DEF Next

------------------------------------------------------------------------------
(* As long as nothing timed out, one operation is active at most, so the copy  *)
(* it will write back misses nothing, and the file it read stays in order      *)
(* until it writes.                                                            *)

NothingAbandoned == \A r \in Request : ~Abandoned(r)

KeptInv ==
    NothingAbandoned =>
        \A r \in Request : target[r] # Image =>
            /\ op[r] \in {"resolving", "queued", "browser", "storing"} =>
                 "conversations" \notin torn /\ conversations \subseteq copy[r]
            /\ op[r] = "bound" => "affinity" \notin torn /\ affinity \subseteq copy[r]
            /\ op[r] \in {"binding", "bound"} => IdOf(r) \in conversations
            /\ answer[r] = "ok" =>
                 /\ "conversations" \notin torn => IdOf(r) \in conversations
                 /\ "affinity" \notin torn => IdOf(r) \in affinity

LEMMA OneActive ==
    ASSUME SlotInv, NothingAbandoned, NEW r \in Request, NEW q \in Request,
           op[r] \in Active, op[q] \in Active
    PROVE  r = q
BY DEF SlotInv, NothingAbandoned, Abandoned

LEMMA KeptStep ==
    ASSUME TypeOK, SlotInv, PlaceInv, KeptInv, [Next]_vars
    PROVE  KeptInv'
<1> SUFFICES ASSUME NothingAbandoned' PROVE KeptInv'
  BY DEF KeptInv
<1>0. /\ slot \in [Request -> {"idle", "waiting", "holding", "done", "gone"}]
      /\ op \in [Request -> Stage]
      /\ target \in [Request -> Id \cup {New, Image}]
      /\ copy \in [Request -> SUBSET Id]
      /\ answer \in [Request -> {"none", "ok", "error", "timeout"}]
  BY DEF TypeOK, Slot!TypeOK, Slot!Phase
<1>1. NothingAbandoned
  <2>1. \A r \in Request : answer[r] = "timeout" => answer'[r] = "timeout"
    <3>1. \A r \in Request : slot[r] # "holding" \/ answer[r] = "none"
      BY DEF SlotInv
    <3>2. ASSUME NEW r \in Request, Moves(r)
          PROVE  \A q \in Request : answer[q] = "timeout" => answer'[q] = "timeout"
      BY <1>0, <3>1, <3>2 DEF Moves, Submit, Start, Timeout, Goes, Ends, Slot!Finish
    <3>. QED BY <3>2, StepMoves
  <2>. QED BY <2>1 DEF NothingAbandoned, Abandoned
<1>2. \A r \in Request : target[r] # Image =>
        /\ op[r] \in {"resolving", "queued", "browser", "storing"} =>
             "conversations" \notin torn /\ conversations \subseteq copy[r]
        /\ op[r] = "bound" => "affinity" \notin torn /\ affinity \subseteq copy[r]
        /\ op[r] \in {"binding", "bound"} => IdOf(r) \in conversations
        /\ answer[r] = "ok" =>
             /\ "conversations" \notin torn => IdOf(r) \in conversations
             /\ "affinity" \notin torn => IdOf(r) \in affinity
  BY <1>1 DEF KeptInv
<1>3. ASSUME NEW r \in Request, Submit(r) PROVE KeptInv'
  <2>1. /\ op[r] = "none" /\ answer[r] = "none" /\ UNCHANGED <<op, copy, storeVars, answer>>
        /\ \E t : target' = [target EXCEPT ![r] = t]
    BY <1>3 DEF Submit, Slot!Request, Slot!TakeTicket, SlotInv, storeVars
  <2>. QED BY <1>0, <1>2, <2>1 DEF KeptInv, IdOf, storeVars
<1>4. ASSUME NEW r \in Request, UNCHANGED <<target, copy, storeVars, answer>>,
             op[r] \in {"none", "resolving", "queued", "browser"},
             op[r] = "none" => op'[r] \in {"browser", "reading"} /\ (op'[r] = "browser" => target[r] = Image),
             op[r] # "none" => op'[r] \in {"queued", "browser", "storing"},
             \E stage \in Stage : op' = [op EXCEPT ![r] = stage]
      PROVE  KeptInv'
  BY <1>0, <1>2, <1>4 DEF KeptInv, IdOf, storeVars
<1>5. ASSUME NEW r \in Request, Start(r) PROVE KeptInv'
  <2>1. op[r] = "none"
    BY <1>5 DEF Start, Slot!Grant, Slot!IsNext, SlotInv
  <2>. QED BY <1>0, <1>4, <1>5, <2>1 DEF Start, storeVars, Stage
<1>6. ASSUME NEW r \in Request, Resolve(r) \/ EnterBrowser(r) PROVE KeptInv'
  <2>1. /\ op[r] \in {"resolving", "queued"}
        /\ op' = [op EXCEPT ![r] = "queued"] \/ op' = [op EXCEPT ![r] = "browser"]
        /\ UNCHANGED <<target, copy, storeVars, answer>>
    BY <1>6 DEF Resolve, EnterBrowser, At, Goes, storeVars
  <2>. QED BY <1>0, <1>4, <2>1 DEF Stage
<1>7. ASSUME NEW r \in Request, UNCHANGED <<target, copy, storeVars>>,
             \E outcome \in {"ok", "error"} : Ends(r, outcome) /\ (outcome = "ok" => target[r] = Image)
      PROVE  KeptInv'
  BY <1>0, <1>2, <1>7 DEF Ends, KeptInv, IdOf, storeVars
<1>8. ASSUME NEW r \in Request, BrowserReplies(r) PROVE KeptInv'
  <2>1. CASE target[r] = Image
    BY <1>7, <1>8, <2>1 DEF BrowserReplies, storeVars
  <2>2. CASE target[r] # Image
    BY <1>0, <1>4, <1>8, <2>2 DEF BrowserReplies, At, Goes, storeVars, Stage
  <2>. QED BY <2>1, <2>2
<1>9. ASSUME NEW r \in Request, ResolveFails(r) \/ BrowserFails(r) PROVE KeptInv'
  <2>1. Ends(r, "error") /\ UNCHANGED <<target, copy, storeVars>>
    BY <1>9 DEF ResolveFails, BrowserFails
  <2>. QED BY <1>7, <2>1
<1>10. ASSUME NEW r \in Request, ReadConversations(r) PROVE KeptInv'
  BY <1>0, <1>2, <1>10 DEF ReadConversations, Goes, storeVars, KeptInv, IdOf
<1>11. ASSUME NEW r \in Request, op[r] \in Active
       PROVE  \A q \in Request \ {r} : op[q] \notin Active
  BY <1>1, <1>11, OneActive
<1>18. ASSUME NEW r \in Request, StoreFails(r) PROVE KeptInv'
  <2>1. Ends(r, "error") /\ UNCHANGED <<target, copy>> /\ op[r] \in Active
    BY <1>18 DEF StoreFails, Active
  <2>2. CASE UNCHANGED storeVars
    BY <1>7, <2>1, <2>2
  <2>3. CASE Tears(r)
    <3>1. \A q \in Request : op'[q] \notin Active
      BY <1>0, <1>11, <2>1 DEF Ends, Active
    <3>2. \A q \in Request : answer'[q] = "ok" => answer[q] = "ok"
      BY <1>0, <2>1 DEF Ends
    <3>3. /\ "conversations" \notin torn' => "conversations" \notin torn /\ conversations' = conversations
          /\ "affinity" \notin torn' => "affinity" \notin torn /\ affinity' = affinity
      BY <2>3 DEF Tears
    <3>. QED BY <1>2, <2>1, <3>1, <3>2, <3>3 DEF KeptInv, IdOf, Active
  <2>. QED BY <1>18, <2>2, <2>3 DEF StoreFails
<1>12. ASSUME NEW r \in Request, WriteConversations(r) PROVE KeptInv'
  <2>1. /\ op[r] = "storing" /\ op' = [op EXCEPT ![r] = "binding"]
        /\ conversations' = copy[r] \cup {IdOf(r)} /\ torn' = torn \ {"conversations"}
        /\ UNCHANGED <<target, copy, affinity, answer>>
    BY <1>12 DEF WriteConversations, At, Goes
  <2>2. /\ target[r] # Image /\ conversations \subseteq copy[r] /\ answer[r] # "ok"
        /\ "conversations" \notin torn
    BY <1>2, <2>1 DEF PlaceInv, SlotInv
  <2>3. \A q \in Request \ {r} : op'[q] = op[q] /\ op[q] \notin Active
    BY <1>0, <1>11, <2>1 DEF Active
  <2>. QED BY <1>0, <1>2, <2>1, <2>2, <2>3 DEF KeptInv, IdOf, Active
<1>13. ASSUME NEW r \in Request, ReadAffinity(r) PROVE KeptInv'
  BY <1>0, <1>2, <1>13 DEF ReadAffinity, At, Goes, storeVars, KeptInv, IdOf
<1>14. ASSUME NEW r \in Request, WriteAffinity(r) PROVE KeptInv'
  <2>1. /\ op[r] = "bound" /\ op' = [op EXCEPT ![r] = "succeeded"]
        /\ affinity' = copy[r] \cup {IdOf(r)} /\ torn' = torn \ {"affinity"}
        /\ UNCHANGED <<target, copy, conversations>>
        /\ \A q \in Request \ {r} : answer'[q] = answer[q]
    BY <1>0, <1>14 DEF WriteAffinity, At, Ends
  <2>2. affinity \subseteq copy[r] /\ IdOf(r) \in conversations /\ "affinity" \notin torn
    BY <1>2, <2>1 DEF PlaceInv
  <2>3. \A q \in Request \ {r} : op'[q] = op[q] /\ op[q] \notin Active
    BY <1>0, <1>11, <2>1 DEF Active
  <2>. QED BY <1>0, <1>2, <2>1, <2>2, <2>3 DEF KeptInv, IdOf, Active
<1>15. ASSUME NEW r \in Request, Unregister(r) PROVE KeptInv'
  BY <1>2, <1>15 DEF Unregister, storeVars, KeptInv, IdOf
<1>16. ASSUME NEW r \in Request, Timeout(r) PROVE FALSE
  BY <1>0, <1>16 DEF Timeout, NothingAbandoned, Abandoned
<1>17. CASE UNCHANGED vars
  BY <1>2, <1>17 DEF vars, storeVars, KeptInv, IdOf
<1>. QED
  BY <1>3, <1>5, <1>6, <1>8, <1>9, <1>10, <1>12, <1>13, <1>14, <1>15, <1>16, <1>17, <1>18 DEF Next

------------------------------------------------------------------------------
(* The theorems                                                                *)

RuntimeInv == TypeOK /\ LockInv /\ SlotInv /\ PlaceInv /\ KnownInv /\ KeptInv

LEMMA RuntimeInit == Init => RuntimeInv
<1> SUFFICES ASSUME Init PROVE RuntimeInv
  OBVIOUS
<1>1. LockInv /\ LockTypeOK
  BY LockInitially DEF Init, LockInv
<1>2. TypeOK
  BY <1>1 DEF Init, TypeOK, Slot!Init, Slot!TypeOK, Slot!Phase, Stage, Id
<1>3. SlotInv /\ PlaceInv
  BY TargetAssumption, LockAssumption DEF Init, Slot!Init, LockInit, SlotInv, PlaceInv, Active
<1>4. KnownInv
  BY RequestAssumption, TargetAssumption DEF Init, KnownInv, Disclosed
<1>5. KeptInv
  BY DEF Init, KeptInv
<1>. QED BY <1>1, <1>2, <1>3, <1>4, <1>5 DEF RuntimeInv

LEMMA RuntimeStep == RuntimeInv /\ [Next]_vars => RuntimeInv'
<1> SUFFICES ASSUME RuntimeInv, [Next]_vars PROVE RuntimeInv'
  OBVIOUS
<1>. USE DEF RuntimeInv
<1>1. ImagesStoreNothing
  BY DEF PlaceInv, ImagesStoreNothing
<1>2. TypeOK'
  BY <1>1, TypeStep
<1>3. LockInv'
  BY LockSteps, LockStep
<1>. QED BY <1>2, <1>3, SlotInvStep, PlaceStep, KnownStep, KeptStep

LEMMA RuntimeCorrect == Spec => []RuntimeInv
BY RuntimeInit, RuntimeStep, PTL DEF Spec

(* Every variable keeps its type; in particular only ids reach the two files.  *)
THEOREM TypeCorrect == Spec => []TypeOK
<1>1. RuntimeInv => TypeOK
  BY DEF RuntimeInv
<1>. QED BY <1>1, RuntimeCorrect, PTL

(* Two operations never drive one conversation at once: the lock separates     *)
(* those that continue it, and nobody can name a new one before the operation  *)
(* that creates it has left the browser.                                       *)
THEOREM ConversationExclusion == Spec => []ThreadNeverShared
<1>1. RuntimeInv => ThreadNeverShared
  <2> SUFFICES ASSUME RuntimeInv, NEW r \in Request, NEW q \in Request,
                      r # q, InBrowser(r), InBrowser(q), target[r] # Image, target[q] # Image,
                      IdOf(r) = IdOf(q)
      PROVE  FALSE
    BY DEF ThreadNeverShared
  <2>1. ASSUME NEW s \in Request, InBrowser(s), NEW p \in Request
        PROVE  target[p] # s
    BY <2>1 DEF InBrowser, RuntimeInv, KnownInv, Disclosed
  <2>2. target[r] # New /\ target[q] # New /\ target[r] = target[q]
    BY <2>1 DEF IdOf
  <2>3. target[r] \in Id /\ target[r] # NoKey
    BY <2>2, TargetAssumption DEF RuntimeInv, TypeOK, Id
  <2>4. pc[r] = "working" /\ pc[q] = "working" /\ key[r] = key[q] /\ key[r] # NoKey
    BY <2>2, <2>3 DEF InBrowser, RuntimeInv, PlaceInv
  <2>5. ticket[r] \in Nat /\ ticket[q] \in Nat /\ ticket[r] # ticket[q]
    BY <2>4, LockAssumption DEF RuntimeInv, TypeOK, LockTypeOK, LockInv, TicketsInv
  <2>. QED BY <2>4, <2>5, LockAssumption DEF RuntimeInv, LockInv, StartedInv, Started, InLine
<1>. QED BY <1>1, RuntimeCorrect, PTL

(* The worker queue serializes the operations, except those a timeout left      *)
(* running.                                                                    *)
THEOREM SerializedUnlessAbandoned == Spec => []OnlyAbandonedWorkOverlaps
<1>1. RuntimeInv => OnlyAbandonedWorkOverlaps
  BY DEF RuntimeInv, SlotInv, Active, InBrowser, Abandoned, OnlyAbandonedWorkOverlaps
<1>. QED BY <1>1, RuntimeCorrect, PTL

(* Without timeouts no conversation a client was told of leaves a file that is *)
(* in order, although each write replaces the file with an older copy, and     *)
(* although any write may fail and tear its file.                              *)
THEOREM Kept == Spec => []AnsweredConversationKept
<1>1. RuntimeInv => AnsweredConversationKept
  BY DEF RuntimeInv, KeptInv, NothingAbandoned, AnsweredConversationKept
<1>. QED BY <1>1, RuntimeCorrect, PTL
(* The locks of the runtime are what SessionLock promises: in its steps, too,  *)
(* each key is served one operation at a time in order, the registry follows   *)
(* the calls, and each key is a first-come first-served mutual exclusion.      *)
THEOREM LocksOfTheRuntime ==
    Spec => []KeyFifo /\ []RegistryFollowsCalls /\ EachKeyImplementsFifoMutex
<1>1. RuntimeInv => KeyFifo /\ RegistryFollowsCalls
  BY FifoFollows, RegistryFollows DEF RuntimeInv
<1>2. Init => \A k \in Key : Mutex(k)!Init
  BY DEF Init, LockInit, Mutex!Init, PhaseOf
<1>3. RuntimeInv /\ [Next]_vars
      => [\A k \in Key : UNCHANGED Mutex(k)!mutexVars \/ Mutex(k)!Next]_lockVars
  BY LockSteps, MutexStep DEF RuntimeInv
<1>. QED BY <1>1, <1>2, <1>3, RuntimeCorrect, PTL DEF Spec, EachKeyImplementsFifoMutex
==============================================================================
