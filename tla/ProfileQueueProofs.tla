-------------------------- MODULE ProfileQueueProofs --------------------------
(***************************************************************************)
(* Theorems about ProfileQueue, for any number of tasks, leases, crashes and *)
(* failed writes, and every capacity.                                        *)
(***************************************************************************)
EXTENDS ProfileQueue, FiniteSetTheorems, TLAPS

------------------------------------------------------------------------------
(* Type correctness                                                            *)

USE DEF Live, Settled

SavedType == [depth : Depth, leases : SUBSET Lease]

LEMMA FreshType == Fresh \in SavedType /\ Fresh.leases = {}
BY DEF Fresh, SavedType, Depth

LEMMA FailsType ==
    ASSUME failures \in Nat, NEW n \in {1, 2}, Fails(n)
    PROVE  failures' \in Nat /\ failures' > 0
BY DEF Fails

(* What the state file holds after a handler's write, or a failed one. *)
LEMMA FileType ==
    ASSUME TypeOK, depth' \in Depth, leases' \in SUBSET Lease,
           Persists \/ PersistThrows \/ Tears
    PROVE  file' \in {"absent", "whole", "torn"} /\ saved' \in SavedType
<1>1. [depth |-> depth', leases |-> leases'] \in SavedType
  BY DEF SavedType
<1>. QED BY <1>1, FreshType DEF TypeOK, Persists, PersistThrows, Tears, fileVars, SavedType

LEMMA CountType ==
    /\ \A S \in SUBSET Task : IsFiniteSet(S) /\ Cardinality(S) \in Nat
    /\ Cardinality(Entry) \in Nat
<1>1. IsFiniteSet(Task)
  BY TaskAssumption, FS_Interval DEF Task
<1>2. Entry \in SUBSET Task
  BY DEF Entry
<1>. QED BY <1>1, <1>2, FS_Subset, FS_CardinalityType

(* The types of the variables no write depends on. *)
ChainTyped ==
    /\ up \in BOOLEAN
    /\ known \in BOOLEAN
    /\ entries \in [Task -> Status]
    /\ promise \in [Task -> Promise]
    /\ prev \in [Task -> Task \cup {None}]
    /\ tail \in Task \cup {None}
LeaseTyped ==
    /\ leases \in SUBSET Lease
    /\ granted \in SUBSET Lease
    /\ acquired \in Nat
CountTyped ==
    /\ clock \in Nat
    /\ crashes \in Nat

LEMMA InsertType ==
    ASSUME TypeOK, NEW t \in Task, Insert(t)
    PROVE  ChainTyped' /\ LeaseTyped' /\ CountTyped' /\ depth' \in Depth
<1>1. Cardinality(Entry) + 1 \in Nat
  BY CountType
<1>2. depth' \in Depth
  BY <1>1 DEF TypeOK, Depth, Insert
<1>. QED BY <1>2 DEF TypeOK, ChainTyped, LeaseTyped, CountTyped, Insert, Called, leaseVars,
                     Status, Promise

LEMMA MovesType ==
    ASSUME TypeOK, NEW t \in Task, NEW s \in Status, NEW p \in Promise, Moves(t, s, p)
    PROVE  ChainTyped' /\ LeaseTyped' /\ CountTyped'
BY DEF TypeOK, ChainTyped, LeaseTyped, CountTyped, Moves, leaseVars

LEMMA LeaseType ==
    ASSUME TypeOK, NEW k \in LeaseTask, NEW ttl \in Ttl
    PROVE  [task |-> k, expires |-> clock + ttl] \in Lease
BY TtlAssumption DEF TypeOK, Lease

LEMMA AsksType ==
    ASSUME TypeOK, NEW k \in LeaseTask, NEW ttl \in Ttl, Asks(k, ttl),
           Given([task |-> k, expires |-> clock + ttl]) \/ UNCHANGED granted
    PROVE  ChainTyped' /\ LeaseTyped' /\ CountTyped' /\ depth' \in Depth
<1> DEFINE l == [task |-> k, expires |-> clock + ttl]
<1>1. l \in Lease
  BY LeaseType
<1>2. leases' = {m \in leases : Active(m)} \cup {l} /\ granted' \in {granted, granted \cup {l}}
  BY DEF Asks, Leases, Given
<1> HIDE DEF l
<1>. QED BY <1>1, <1>2 DEF TypeOK, ChainTyped, LeaseTyped, CountTyped, Asks, chainVars

LEMMA TypeStep == TypeOK /\ [Next]_vars => TypeOK'
<1> SUFFICES ASSUME TypeOK, [Next]_vars PROVE TypeOK'
  OBVIOUS
<1>1. ASSUME NEW t \in Task, Refuse(t) PROVE TypeOK'
  BY <1>1 DEF TypeOK, Refuse, Called, Promise, fileVars, leaseVars
<1>2. ASSUME NEW t \in Task, Enqueue(t) \/ EnqueueThrows(t) PROVE TypeOK'
  <2>1. ChainTyped' /\ LeaseTyped' /\ CountTyped' /\ depth' \in Depth
    BY <1>2, InsertType DEF Enqueue, EnqueueThrows
  <2>2. file' \in {"absent", "whole", "torn"} /\ saved' \in SavedType
    BY <1>2, <2>1, FileType DEF Enqueue, EnqueueThrows, LeaseTyped
  <2>3. failures' \in Nat
    BY <1>2, FailsType DEF Enqueue, EnqueueThrows, TypeOK
  <2>. QED BY <2>1, <2>2, <2>3 DEF TypeOK, ChainTyped, LeaseTyped, CountTyped, SavedType
<1>3. ASSUME NEW t \in Task,
             \/ StartRun(t) \/ StartThrows(t)
             \/ WorkSucceeds(t) \/ SuccessThrows(t) \/ WorkFails(t)
      PROVE  TypeOK'
  <2>1. PICK s \in Status, p \in Promise : Moves(t, s, p)
    BY <1>3 DEF StartRun, StartThrows, Starts, WorkSucceeds, SuccessThrows, WorkFails, Status,
                Promise
  <2>2. depth' \in Depth
    <3>1. /\ depth \in Depth /\ depth.running \in Int
          /\ depth.completed + 1 \in Nat /\ depth.failed + 1 \in Nat
          /\ {depth.running + 1, depth.running - 1, depth.running - 2} \subseteq Int
      BY DEF TypeOK, Depth
    <3>2. \/ depth' = [depth EXCEPT !.running = depth.running + 1]
          \/ depth' = [depth EXCEPT !.running = depth.running - 1,
                                    !.completed = depth.completed + 1]
          \/ depth' = [depth EXCEPT !.running = depth.running - 2,
                                    !.completed = depth.completed + 1,
                                    !.failed = depth.failed + 1]
          \/ depth' = [depth EXCEPT !.running = depth.running - 1,
                                    !.failed = depth.failed + 1]
      BY <1>3 DEF StartRun, StartThrows, Starts, WorkSucceeds, SuccessThrows, WorkFails
    <3>. QED BY <3>1, <3>2 DEF Depth
  <2>3. ChainTyped' /\ LeaseTyped' /\ CountTyped'
    BY <2>1, MovesType
  <2>4. file' \in {"absent", "whole", "torn"} /\ saved' \in SavedType
    <3>1. Persists \/ PersistThrows
      BY <1>3 DEF StartRun, StartThrows, WorkSucceeds, SuccessThrows, WorkFails
    <3>. QED BY <2>2, <2>3, <3>1, FileType DEF LeaseTyped
  <2>5. failures' \in Nat
    <3>1. failures' = failures \/ Fails(1) \/ Fails(2)
      BY <1>3 DEF StartRun, StartThrows, WorkSucceeds, SuccessThrows, WorkFails
    <3>. QED BY <3>1, FailsType DEF TypeOK
  <2>. QED BY <2>2, <2>3, <2>4, <2>5 DEF TypeOK, ChainTyped, LeaseTyped, CountTyped, SavedType
<1>4. ASSUME NEW k \in LeaseTask, NEW ttl \in Ttl, AcquireLease(k, ttl) \/ AcquireThrows(k, ttl)
      PROVE  TypeOK'
  <2>1. ChainTyped' /\ LeaseTyped' /\ CountTyped' /\ depth' \in Depth
    BY <1>4, AsksType DEF AcquireLease, AcquireThrows
  <2>2. file' \in {"absent", "whole", "torn"} /\ saved' \in SavedType
    BY <1>4, <2>1, FileType DEF AcquireLease, AcquireThrows, LeaseTyped
  <2>3. failures' \in Nat
    BY <1>4, FailsType DEF AcquireLease, AcquireThrows, TypeOK
  <2>. QED BY <2>1, <2>2, <2>3 DEF TypeOK, ChainTyped, LeaseTyped, CountTyped, SavedType
<1>5. ASSUME NEW k \in LeaseTask, ReleaseLease(k) \/ ReleaseThrows(k) PROVE TypeOK'
  <2>1. ChainTyped' /\ LeaseTyped' /\ CountTyped' /\ depth' \in Depth
    BY <1>5 DEF ReleaseLease, ReleaseThrows, Releases, TypeOK, ChainTyped, LeaseTyped,
                CountTyped, chainVars
  <2>2. file' \in {"absent", "whole", "torn"} /\ saved' \in SavedType
    BY <1>5, <2>1, FileType DEF ReleaseLease, ReleaseThrows, LeaseTyped
  <2>3. failures' \in Nat
    BY <1>5, FailsType DEF ReleaseLease, ReleaseThrows, TypeOK
  <2>. QED BY <2>1, <2>2, <2>3 DEF TypeOK, ChainTyped, LeaseTyped, CountTyped, SavedType
<1>6. CASE Tick \/ UNCHANGED vars
  BY <1>6 DEF TypeOK, Tick, vars, chainVars, leaseVars, fileVars
<1>7. CASE Crash
  <2>1. ChainTyped' /\ LeaseTyped' /\ CountTyped'
    <3>1. promise' \in [Task -> Promise]
      BY <1>7 DEF Crash, TypeOK, Promise
    <3>2. entries' \in [Task -> Status]
      BY <1>7 DEF Crash, Empty, Status
    <3>3. up' \in BOOLEAN /\ known' \in BOOLEAN
      BY <1>7 DEF Crash
    <3>4. prev' \in [Task -> Task \cup {None}] /\ tail' \in Task \cup {None}
      BY <1>7 DEF Crash, TypeOK
    <3>5. LeaseTyped' /\ CountTyped'
      BY <1>7 DEF Crash, TypeOK, LeaseTyped, CountTyped
    <3>. QED BY <3>1, <3>2, <3>3, <3>4, <3>5 DEF ChainTyped
  <2>2. depth' \in Depth /\ leases' \in SUBSET Lease
    BY <1>7, FreshType DEF Crash, SavedType
  <2>3. file' \in {"absent", "whole", "torn"} /\ saved' \in SavedType
    BY <1>7, <2>2, FileType DEF Crash, PersistThrows
  <2>4. failures' \in Nat
    BY <1>7 DEF Crash, TypeOK
  <2>. QED BY <2>1, <2>2, <2>3, <2>4 DEF TypeOK, ChainTyped, LeaseTyped, CountTyped, SavedType
<1>8. CASE Restart
  BY <1>8 DEF TypeOK, Restart, chainVars, fileVars
<1>. QED BY <1>1, <1>2, <1>3, <1>4, <1>5, <1>6, <1>7, <1>8 DEF Next

LEMMA InitType == Init => TypeOK
<1> SUFFICES ASSUME Init PROVE TypeOK
  OBVIOUS
<1>1. saved \in [depth : Depth, leases : SUBSET Lease] /\ depth \in Depth
  BY FreshType DEF Init, SavedType
<1>2. entries \in [Task -> Status] /\ promise \in [Task -> Promise]
  BY DEF Init, Empty, Status, Promise
<1>3. up \in BOOLEAN /\ known \in BOOLEAN
  BY DEF Init
<1>4. prev \in [Task -> Task \cup {None}] /\ tail \in Task \cup {None}
  BY DEF Init
<1>5. /\ leases \in SUBSET Lease /\ granted \in SUBSET Lease
      /\ file \in {"absent", "whole", "torn"}
      /\ {clock, acquired, crashes, failures} \subseteq Nat
  BY DEF Init
<1>. QED BY <1>1, <1>2, <1>3, <1>4, <1>5 DEF TypeOK

(* Every variable keeps its type: neither counters nor leases leave the range  *)
(* the state file can hold.                                                    *)
THEOREM TypeCorrect == Spec => []TypeOK
BY InitType, TypeStep, PTL DEF Spec

------------------------------------------------------------------------------
(* Leases.  What a worker was given is in force in memory, and on file unless  *)
(* the file is torn, since a restart takes the leases from there.              *)

LEMMA ActiveBefore ==
    ASSUME TypeOK, Tick
    PROVE  \A l \in Lease : Active(l)' => Active(l)
BY DEF TypeOK, Tick, Active, Lease

KeptInv ==
    /\ LeaseKept
    /\ file # "torn" => \A l \in granted : Active(l) => l \in saved.leases

LEMMA KeptStep == TypeOK /\ KeptInv /\ [Next]_vars => KeptInv'
<1> SUFFICES ASSUME TypeOK, KeptInv, [Next]_vars PROVE KeptInv'
  OBVIOUS
<1> USE DEF KeptInv, LeaseKept, Active, TypeOK
(* A handler that leaves the leases alone, whatever becomes of its write. *)
<1>1. ASSUME up, UNCHANGED <<leases, granted, clock>>, Persists \/ PersistThrows
      PROVE  KeptInv'
  BY <1>1 DEF Persists, PersistThrows, Tears, fileVars
<1>2. ASSUME NEW t \in Task,
             \/ Enqueue(t) \/ EnqueueThrows(t) \/ StartRun(t) \/ StartThrows(t)
             \/ WorkSucceeds(t) \/ SuccessThrows(t) \/ WorkFails(t)
      PROVE  KeptInv'
  BY <1>1, <1>2 DEF Enqueue, EnqueueThrows, Insert, Called, StartRun, StartThrows, Starts,
                    TurnOf, WorkSucceeds, SuccessThrows, WorkFails, Working, Moves, leaseVars
<1>3. ASSUME NEW t \in Task, Refuse(t) PROVE KeptInv'
  BY <1>3 DEF Refuse, Called, leaseVars, fileVars
<1>4. ASSUME NEW k \in LeaseTask, NEW ttl \in Ttl, AcquireLease(k, ttl) \/ AcquireThrows(k, ttl)
      PROVE  KeptInv'
  <2> DEFINE new == [task |-> k, expires |-> clock + ttl]
  <2>1. leases' = {m \in leases : Active(m)} \cup {new} /\ up /\ UNCHANGED clock
    BY <1>4 DEF AcquireLease, AcquireThrows, Asks, Leases
  <2>2. \/ granted' = granted \cup {new} /\ Persists
        \/ granted' = granted /\ PersistThrows
    BY <1>4 DEF AcquireLease, AcquireThrows, Given
  <2>3. CASE granted' = granted \cup {new} /\ Persists
    <3>1. saved'.leases = leases' /\ new \in leases'
      BY <2>1, <2>3 DEF Persists
    <3> HIDE DEF new
    <3>. QED BY <2>1, <2>3, <3>1
  <2>4. CASE granted' = granted /\ PersistThrows
    <3> HIDE DEF new
    <3>. QED BY <2>1, <2>4 DEF PersistThrows, Tears, fileVars
  <2>. QED BY <2>2, <2>3, <2>4
<1>5. ASSUME NEW k \in LeaseTask, ReleaseLease(k) \/ ReleaseThrows(k) PROVE KeptInv'
  BY <1>5 DEF ReleaseLease, ReleaseThrows, Releases, Persists, PersistThrows, Tears, fileVars
<1>6. CASE Tick
  BY <1>6, ActiveBefore DEF Tick, leaseVars, fileVars
<1>7. CASE Crash
  BY <1>7 DEF Crash, Tears, fileVars
<1>8. CASE Restart
  BY <1>8 DEF Restart, fileVars
<1>9. CASE UNCHANGED vars
  BY <1>9 DEF vars, leaseVars, fileVars
<1>. QED BY <1>2, <1>3, <1>4, <1>5, <1>6, <1>7, <1>8, <1>9 DEF Next

(* The comment of acquireLease(), "The lease prevents concurrent mutations":   *)
(* no failed write, crash or other lease takes from a worker what it was given. *)
THEOREM Leased == Spec => []LeaseKept
<1>1. Init => KeptInv
  BY DEF Init, KeptInv, LeaseKept
<1>2. KeptInv => LeaseKept
  BY DEF KeptInv
<1>. QED BY <1>1, <1>2, InitType, TypeStep, KeptStep, PTL DEF Spec

(* As long as no write failed, nobody holds what the file does not know of. *)
GhostInv ==
    /\ NoGhostLease
    /\ failures = 0 => \A l \in saved.leases : Active(l) => l \in granted

LEMMA GhostStep == TypeOK /\ GhostInv /\ [Next]_vars => GhostInv'
<1> SUFFICES ASSUME TypeOK, GhostInv, [Next]_vars PROVE GhostInv'
  OBVIOUS
<1>0. ASSUME NEW n \in {1, 2}, Fails(n) PROVE GhostInv'
  BY <1>0, FailsType DEF GhostInv, NoGhostLease, TypeOK
<1> USE DEF GhostInv, NoGhostLease, Active, TypeOK
<1>1. ASSUME up, UNCHANGED <<leases, granted, clock, failures>>, Persists PROVE GhostInv'
  BY <1>1 DEF Persists
<1>2. ASSUME UNCHANGED <<up, leases, saved, granted, clock, failures>> PROVE GhostInv'
  BY <1>2
<1>3. ASSUME NEW t \in Task,
             \/ Enqueue(t) \/ EnqueueThrows(t) \/ StartRun(t) \/ StartThrows(t)
             \/ WorkSucceeds(t) \/ SuccessThrows(t) \/ WorkFails(t)
      PROVE  GhostInv'
  <2>1. up /\ UNCHANGED <<leases, granted, clock>>
    BY <1>3 DEF Enqueue, EnqueueThrows, Insert, Called, StartRun, StartThrows, Starts, TurnOf,
                WorkSucceeds, SuccessThrows, WorkFails, Working, Moves, leaseVars
  <2>2. Fails(1) \/ Fails(2) \/ (Persists /\ UNCHANGED failures)
    BY <1>3 DEF Enqueue, EnqueueThrows, StartRun, StartThrows, WorkSucceeds, SuccessThrows,
                WorkFails
  <2>. QED BY <1>0, <1>1, <2>1, <2>2
<1>4. ASSUME NEW t \in Task, Refuse(t) PROVE GhostInv'
  BY <1>2, <1>4 DEF Refuse, Called, leaseVars, fileVars
<1>5. ASSUME NEW k \in LeaseTask, NEW ttl \in Ttl, AcquireLease(k, ttl) PROVE GhostInv'
  <2> DEFINE new == [task |-> k, expires |-> clock + ttl]
  <2>1. /\ leases' = {m \in leases : Active(m)} \cup {new} /\ up /\ UNCHANGED clock
        /\ granted' = granted \cup {new} /\ Persists /\ UNCHANGED failures
    BY <1>5 DEF AcquireLease, Asks, Leases, Given
  <2> HIDE DEF new
  <2>. QED BY <2>1 DEF Persists
<1>6. ASSUME NEW k \in LeaseTask, ReleaseLease(k) PROVE GhostInv'
  BY <1>6 DEF ReleaseLease, Releases, Persists
<1>7. ASSUME NEW k \in LeaseTask,
             ReleaseThrows(k) \/ \E ttl \in Ttl : AcquireThrows(k, ttl)
      PROVE  GhostInv'
  BY <1>0, <1>7 DEF AcquireThrows, ReleaseThrows
<1>8. CASE Tick
  BY <1>8, ActiveBefore DEF Tick, leaseVars, fileVars
<1>9. CASE Crash
  BY <1>9, FreshType DEF Crash, Tears, fileVars
<1>10. CASE Restart
  BY <1>10 DEF Restart, fileVars
<1>11. CASE UNCHANGED vars
  BY <1>2, <1>11 DEF vars, leaseVars, fileVars
<1>. QED BY <1>3, <1>4, <1>5, <1>6, <1>7, <1>8, <1>9, <1>10, <1>11 DEF Next

(* load() brings back no lease that was released or that nobody was given. *)
THEOREM NoGhosts == Spec => []NoGhostLease
<1>1. Init => GhostInv
  BY FreshType DEF Init, GhostInv, NoGhostLease
<1>2. GhostInv => NoGhostLease
  BY DEF GhostInv
<1>. QED BY <1>1, <1>2, InitType, TypeStep, GhostStep, PTL DEF Spec

------------------------------------------------------------------------------
(* Counters.  What they count in memory they count on file as well, since a    *)
(* restart takes them from there.                                              *)

Tally(f, S) == Cardinality({t \in Task : f[t] \in S})

LEMMA TallyNat == ASSUME NEW f, NEW S PROVE Tally(f, S) \in Nat
BY CountType DEF Tally

LEMMA TallyGains ==
    ASSUME NEW f, NEW g, NEW S, NEW t \in Task, \A u \in Task \ {t} : g[u] = f[u],
           g[t] \in S, f[t] \notin S
    PROVE  Tally(g, S) = Tally(f, S) + 1
<1> DEFINE A == {u \in Task : f[u] \in S}
           B == {u \in Task : g[u] \in S}
<1>1. Tally(f, S) = Cardinality(A) /\ Tally(g, S) = Cardinality(B) /\ IsFiniteSet(A)
  BY CountType DEF Tally
<1>2. B = A \cup {t} /\ t \notin A
  OBVIOUS
<1> HIDE DEF A, B
<1>. QED BY <1>1, <1>2, FS_AddElement

LEMMA TallyLoses ==
    ASSUME NEW f, NEW g, NEW S, NEW t \in Task, \A u \in Task \ {t} : g[u] = f[u],
           g[t] \notin S, f[t] \in S
    PROVE  Tally(g, S) = Tally(f, S) - 1
<1>1. Tally(f, S) = Tally(g, S) + 1
  BY TallyGains
<1>. QED BY <1>1, TallyNat

LEMMA TallyKept ==
    ASSUME NEW f, NEW g, NEW S, \A t \in Task : g[t] \in S <=> f[t] \in S
    PROVE  Tally(g, S) = Tally(f, S)
<1>1. {t \in Task : g[t] \in S} = {t \in Task : f[t] \in S}
  OBVIOUS
<1>. QED BY <1>1 DEF Tally

(* A write that does not go through leaves an older record, or none. *)
LEMMA SavedDepth ==
    ASSUME Persists \/ PersistThrows \/ Tears
    PROVE  saved'.depth \in {depth', saved.depth, Fresh.depth}
BY DEF Persists, PersistThrows, Tears, fileVars

(* How many tasks have each outcome, and what a step adds to them. *)
Resolved == Tally(promise, {"resolved"})
Rejected == Tally(promise, {"rejected"})
Busy == Tally(promise, {"working", "killed"})

LEMMA ResultsKept ==
    ASSUME \A t \in Task :
             /\ promise'[t] = "resolved" <=> promise[t] = "resolved"
             /\ promise'[t] = "rejected" <=> promise[t] = "rejected"
    PROVE  Resolved' = Resolved /\ Rejected' = Rejected
<1>1. Tally(promise', {"resolved"}) = Tally(promise, {"resolved"})
  BY TallyKept
<1>2. Tally(promise', {"rejected"}) = Tally(promise, {"rejected"})
  BY TallyKept
<1>. QED BY <1>1, <1>2 DEF Resolved, Rejected

LEMMA OutcomesKept ==
    ASSUME \A t \in Task :
             /\ promise'[t] = "resolved" <=> promise[t] = "resolved"
             /\ promise'[t] = "rejected" <=> promise[t] = "rejected"
             /\ promise'[t] \in {"working", "killed"} <=> promise[t] \in {"working", "killed"}
    PROVE  Resolved' = Resolved /\ Rejected' = Rejected /\ Busy' = Busy
<1>1. Tally(promise', {"working", "killed"}) = Tally(promise, {"working", "killed"})
  BY TallyKept
<1>. QED BY <1>1, ResultsKept DEF Busy

LEMMA StartCounts ==
    ASSUME NEW t \in Task, \A u \in Task \ {t} : promise'[u] = promise[u],
           promise[t] = "pending", promise'[t] = "working"
    PROVE  Resolved' = Resolved /\ Rejected' = Rejected /\ Busy' = Busy + 1
<1>1. Tally(promise', {"resolved"}) = Tally(promise, {"resolved"})
  <2>1. \A u \in Task : promise'[u] \in {"resolved"} <=> promise[u] \in {"resolved"}
    OBVIOUS
  <2>. QED BY <2>1, TallyKept
<1>2. Tally(promise', {"rejected"}) = Tally(promise, {"rejected"})
  <2>1. \A u \in Task : promise'[u] \in {"rejected"} <=> promise[u] \in {"rejected"}
    OBVIOUS
  <2>. QED BY <2>1, TallyKept
<1>3. Tally(promise', {"working", "killed"}) = Tally(promise, {"working", "killed"}) + 1
  BY TallyGains
<1>. QED BY <1>1, <1>2, <1>3 DEF Resolved, Rejected, Busy

LEMMA SuccessCounts ==
    ASSUME NEW t \in Task, \A u \in Task \ {t} : promise'[u] = promise[u],
           promise[t] = "working", promise'[t] = "resolved"
    PROVE  Resolved' = Resolved + 1 /\ Rejected' = Rejected /\ Busy' = Busy - 1
<1>1. Tally(promise', {"resolved"}) = Tally(promise, {"resolved"}) + 1
  BY TallyGains
<1>2. Tally(promise', {"rejected"}) = Tally(promise, {"rejected"})
  <2>1. \A u \in Task : promise'[u] \in {"rejected"} <=> promise[u] \in {"rejected"}
    OBVIOUS
  <2>. QED BY <2>1, TallyKept
<1>3. Tally(promise', {"working", "killed"}) = Tally(promise, {"working", "killed"}) - 1
  BY TallyLoses
<1>. QED BY <1>1, <1>2, <1>3 DEF Resolved, Rejected, Busy

LEMMA FailureCounts ==
    ASSUME NEW t \in Task, \A u \in Task \ {t} : promise'[u] = promise[u],
           promise[t] = "working", promise'[t] = "rejected"
    PROVE  Resolved' = Resolved /\ Rejected' = Rejected + 1 /\ Busy' = Busy - 1
<1>1. Tally(promise', {"resolved"}) = Tally(promise, {"resolved"})
  <2>1. \A u \in Task : promise'[u] \in {"resolved"} <=> promise[u] \in {"resolved"}
    OBVIOUS
  <2>. QED BY <2>1, TallyKept
<1>2. Tally(promise', {"rejected"}) = Tally(promise, {"rejected"}) + 1
  BY TallyGains
<1>3. Tally(promise', {"working", "killed"}) = Tally(promise, {"working", "killed"}) - 1
  BY TallyLoses
<1>. QED BY <1>1, <1>2, <1>3 DEF Resolved, Rejected, Busy

CountsInv ==
    /\ up => /\ depth.failed <= Rejected
             /\ crashes = 0 => depth.failed = Rejected /\ depth.completed >= Resolved
    /\ saved.depth.failed <= Rejected
    /\ ~up => crashes > 0

LEMMA ResultsNat == Resolved \in Nat /\ Rejected \in Nat
BY TallyNat DEF Resolved, Rejected

(* A handler counts what it adds to the outcomes. *)
LEMMA CountsHandler ==
    ASSUME TypeOK, TypeOK', CountsInv, up, up', UNCHANGED crashes,
           NEW n \in {0, 1}, NEW m \in {0, 1},
           depth'.failed = depth.failed + n, Rejected' = Rejected + n,
           depth'.completed >= depth.completed + m, Resolved' = Resolved + m,
           saved'.depth \in {depth', saved.depth, Fresh.depth}
    PROVE  CountsInv'
<1>1. /\ depth.failed \in Nat /\ depth.completed \in Nat /\ depth'.completed \in Nat
      /\ saved.depth.failed \in Nat /\ Fresh.depth.failed = 0
  BY DEF TypeOK, Depth, Fresh
<1>2. saved'.depth.failed <= Rejected'
  BY <1>1, ResultsNat DEF CountsInv
<1>3. up' => /\ depth'.failed <= Rejected'
             /\ crashes' = 0 => depth'.failed = Rejected' /\ depth'.completed >= Resolved'
  BY <1>1, ResultsNat DEF CountsInv
<1>. QED BY <1>2, <1>3 DEF CountsInv

LEMMA CountsStep == TypeOK /\ TypeOK' /\ CountsInv /\ [Next]_vars => CountsInv'
<1> SUFFICES ASSUME TypeOK, TypeOK', CountsInv, [Next]_vars PROVE CountsInv'
  OBVIOUS
<1>1. /\ DOMAIN promise = Task /\ depth \in Depth /\ depth.running \in Int
      /\ depth.completed \in Nat /\ depth.failed \in Nat
  BY DEF TypeOK, Depth
(* Handlers that end no run. *)
<1>2. ASSUME up, up', UNCHANGED crashes, Persists \/ PersistThrows,
             depth'.failed = depth.failed, depth'.completed = depth.completed,
             Resolved' = Resolved, Rejected' = Rejected
      PROVE  CountsInv'
  <2>1. /\ depth'.failed = depth.failed + 0 /\ Rejected' = Rejected + 0
        /\ depth'.completed >= depth.completed + 0 /\ Resolved' = Resolved + 0
    BY <1>1, <1>2, ResultsNat
  <2>. QED BY <1>2, <2>1, SavedDepth, CountsHandler
<1>3. ASSUME NEW t \in Task, Enqueue(t) \/ EnqueueThrows(t) PROVE CountsInv'
  <2>1. /\ up /\ up' /\ UNCHANGED crashes /\ promise[t] = "none"
        /\ promise' = [promise EXCEPT ![t] = "pending"]
        /\ \E n : depth' = [depth EXCEPT !.pending = n]
        /\ Persists \/ PersistThrows
    BY <1>3 DEF Enqueue, EnqueueThrows, Insert, Called
  <2>2. Resolved' = Resolved /\ Rejected' = Rejected
    BY <1>1, <2>1, ResultsKept
  <2>3. depth'.failed = depth.failed /\ depth'.completed = depth.completed
    BY <1>1, <2>1 DEF Depth
  <2>. QED BY <1>2, <2>1, <2>2, <2>3
<1>4. ASSUME NEW t \in Task, StartRun(t) \/ StartThrows(t) PROVE CountsInv'
  <2>1. /\ up /\ up' /\ UNCHANGED crashes /\ promise[t] = "pending"
        /\ \E p \in {"working", "stillborn"} : promise' = [promise EXCEPT ![t] = p]
        /\ depth' = [depth EXCEPT !.running = depth.running + 1]
        /\ Persists \/ PersistThrows
    BY <1>4 DEF StartRun, StartThrows, Starts, TurnOf, Moves
  <2>2. Resolved' = Resolved /\ Rejected' = Rejected
    BY <1>1, <2>1, ResultsKept
  <2>3. depth'.failed = depth.failed /\ depth'.completed = depth.completed
    BY <1>1, <2>1 DEF Depth
  <2>. QED BY <1>2, <2>1, <2>2, <2>3
<1>5. ASSUME NEW t \in Task, WorkSucceeds(t) PROVE CountsInv'
  <2>1. /\ up /\ up' /\ UNCHANGED crashes /\ promise[t] = "working"
        /\ promise' = [promise EXCEPT ![t] = "resolved"]
        /\ depth' = [depth EXCEPT !.running = depth.running - 1,
                                  !.completed = depth.completed + 1]
        /\ Persists \/ PersistThrows
    BY <1>5 DEF WorkSucceeds, Working, Moves
  <2>2. Resolved' = Resolved + 1 /\ Rejected' = Rejected + 0
    BY <1>1, <2>1, SuccessCounts, ResultsNat
  <2>3. depth'.failed = depth.failed + 0 /\ depth'.completed >= depth.completed + 1
    BY <1>1, <2>1 DEF Depth
  <2>. QED BY <2>1, <2>2, <2>3, SavedDepth, CountsHandler
<1>6. ASSUME NEW t \in Task, SuccessThrows(t) \/ WorkFails(t) PROVE CountsInv'
  <2>1. /\ up /\ up' /\ UNCHANGED crashes /\ promise[t] = "working"
        /\ promise' = [promise EXCEPT ![t] = "rejected"]
        /\ \/ depth' = [depth EXCEPT !.running = depth.running - 2,
                                     !.completed = depth.completed + 1,
                                     !.failed = depth.failed + 1]
           \/ depth' = [depth EXCEPT !.running = depth.running - 1,
                                     !.failed = depth.failed + 1]
        /\ Persists \/ PersistThrows
    BY <1>6 DEF SuccessThrows, WorkFails, Working, Moves
  <2>2. Resolved' = Resolved + 0 /\ Rejected' = Rejected + 1
    BY <1>1, <2>1, FailureCounts, ResultsNat
  <2>3. depth'.failed = depth.failed + 1 /\ depth'.completed >= depth.completed + 0
    <3>1. CASE depth' = [depth EXCEPT !.running = depth.running - 2,
                                      !.completed = depth.completed + 1,
                                      !.failed = depth.failed + 1]
      BY <1>1, <3>1 DEF Depth
    <3>2. CASE depth' = [depth EXCEPT !.running = depth.running - 1,
                                      !.failed = depth.failed + 1]
      BY <1>1, <3>2 DEF Depth
    <3>. QED BY <2>1, <3>1, <3>2
  <2>. QED BY <2>1, <2>2, <2>3, SavedDepth, CountsHandler
<1>7. ASSUME NEW t \in Task, Refuse(t) PROVE CountsInv'
  <2>1. /\ promise[t] = "none" /\ promise' = [promise EXCEPT ![t] = "refused"]
        /\ UNCHANGED <<up, depth, saved, crashes>>
    BY <1>7 DEF Refuse, Called, fileVars
  <2>2. Resolved' = Resolved /\ Rejected' = Rejected
    BY <1>1, <2>1, ResultsKept
  <2>. QED BY <2>1, <2>2 DEF CountsInv
<1>8. ASSUME NEW k \in LeaseTask,
             \/ \E ttl \in Ttl : AcquireLease(k, ttl) \/ AcquireThrows(k, ttl)
             \/ ReleaseLease(k) \/ ReleaseThrows(k)
      PROVE  CountsInv'
  <2>1. /\ up /\ up' /\ UNCHANGED <<promise, depth, crashes>>
        /\ Persists \/ PersistThrows
    <3>1. ASSUME ReleaseLease(k) \/ ReleaseThrows(k)
          PROVE  /\ up /\ up' /\ UNCHANGED <<promise, depth, crashes>>
                 /\ Persists \/ PersistThrows
      BY <3>1 DEF ReleaseLease, ReleaseThrows, Releases, chainVars
    <3>2. ASSUME NEW ttl \in Ttl, AcquireLease(k, ttl) \/ AcquireThrows(k, ttl)
          PROVE  /\ up /\ up' /\ UNCHANGED <<promise, depth, crashes>>
                 /\ Persists \/ PersistThrows
      BY <3>2 DEF AcquireLease, AcquireThrows, Asks, chainVars
    <3>. QED BY <1>8, <3>1, <3>2
  <2>2. Resolved' = Resolved /\ Rejected' = Rejected
    BY <2>1, ResultsKept
  <2>. QED BY <1>2, <2>1, <2>2
<1>9. CASE Crash
  <2>1. Resolved' = Resolved /\ Rejected' = Rejected
    <3>1. \A t \in Task :
             /\ promise'[t] = "resolved" <=> promise[t] = "resolved"
             /\ promise'[t] = "rejected" <=> promise[t] = "rejected"
      BY <1>9 DEF Crash
    <3>. QED BY <3>1, ResultsKept
  <2>2. saved'.depth \in {saved.depth, Fresh.depth} /\ ~up' /\ crashes' > 0
    BY <1>9 DEF Crash, Tears, fileVars, TypeOK
  <2>3. Fresh.depth.failed = 0
    BY DEF Fresh
  <2>. QED BY <2>1, <2>2, <2>3, ResultsNat DEF CountsInv
<1>10. CASE Restart
  <2>1. Resolved' = Resolved /\ Rejected' = Rejected
    BY <1>10, ResultsKept DEF Restart, chainVars
  <2>2. /\ ~up /\ crashes' = crashes /\ saved' = saved /\ depth' = saved.depth /\ up'
    BY <1>10 DEF Restart, fileVars
  <2>. QED BY <2>1, <2>2 DEF CountsInv
<1>11. CASE Tick \/ UNCHANGED vars
  <2>1. UNCHANGED <<up, promise, depth, saved, crashes>>
    BY <1>11 DEF Tick, vars, chainVars, fileVars
  <2>2. Resolved' = Resolved /\ Rejected' = Rejected
    BY <2>1, ResultsKept
  <2>. QED BY <2>1, <2>2 DEF CountsInv
<1>. QED BY <1>3, <1>4, <1>5, <1>6, <1>7, <1>8, <1>9, <1>10, <1>11 DEF Next

(* Whatever writes fail, each failure a caller was told of is counted once and *)
(* each success at least once; only a crash loses counts.                      *)
THEOREM Counted == Spec => []OutcomesAreCounted
<1>1. Init => CountsInv
  <2> SUFFICES ASSUME Init PROVE CountsInv
    OBVIOUS
  <2>1. \A S \in {{"resolved"}, {"rejected"}} : {t \in Task : promise[t] \in S} = {}
    BY DEF Init, Empty
  <2>2. Resolved = 0 /\ Rejected = 0
    BY <2>1, FS_EmptySet DEF Resolved, Rejected, Tally
  <2>. QED BY <2>2 DEF Init, Fresh, CountsInv
<1>2. CountsInv => OutcomesAreCounted
  BY DEF CountsInv, OutcomesAreCounted, Resolved, Rejected, Tally, Are
<1>3. TypeOK /\ CountsInv /\ [Next]_vars => TypeOK' /\ CountsInv'
  BY TypeStep, CountsStep
<1>. QED BY <1>1, <1>2, <1>3, InitType, PTL DEF Spec

(* As long as no write failed, memory and a file that is not torn both tell    *)
(* what became of the tasks.                                                   *)
Tells(d) == d.completed = Resolved /\ d.failed = Rejected /\ d.running = Busy

TellsInv ==
    failures = 0 =>
        /\ up => Tells(depth)
        /\ file # "torn" => Tells(saved.depth)

LEMMA TellsStep == TypeOK /\ TellsInv /\ [Next]_vars => TellsInv'
<1> SUFFICES ASSUME TypeOK, TellsInv, [Next]_vars PROVE TellsInv'
  OBVIOUS
<1>0. ASSUME NEW n \in {1, 2}, Fails(n) PROVE TellsInv'
  BY <1>0, FailsType DEF TellsInv, TypeOK
<1>1. ASSUME Persists, Tells(depth)' PROVE TellsInv'
  <2>1. saved'.depth = depth'
    BY <1>1 DEF Persists
  <2>. QED BY <1>1, <2>1 DEF TellsInv, Tells
<1>2. /\ DOMAIN promise = Task /\ depth \in Depth
      /\ depth.running \in Int /\ depth.completed \in Nat /\ depth.failed \in Nat
  BY DEF TypeOK, Depth
<1>3. ASSUME NEW t \in Task, Enqueue(t), failures = 0 PROVE TellsInv'
  <2>1. /\ up /\ promise[t] = "none"
        /\ promise' = [promise EXCEPT ![t] = "pending"]
        /\ \E n : depth' = [depth EXCEPT !.pending = n]
        /\ Persists
    BY <1>3 DEF Enqueue, Insert, Called
  <2>2. Resolved' = Resolved /\ Rejected' = Rejected /\ Busy' = Busy
    BY <1>2, <2>1, OutcomesKept
  <2>3. Tells(depth)'
    BY <1>2, <1>3, <2>1, <2>2 DEF TellsInv, Tells, Depth
  <2>. QED BY <1>1, <2>1, <2>3
<1>4. ASSUME NEW t \in Task, StartRun(t), failures = 0 PROVE TellsInv'
  <2>1. /\ up /\ promise[t] = "pending"
        /\ promise' = [promise EXCEPT ![t] = "working"]
        /\ depth' = [depth EXCEPT !.running = depth.running + 1]
        /\ Persists
    BY <1>4 DEF StartRun, Starts, TurnOf, Moves
  <2>2. Resolved' = Resolved /\ Rejected' = Rejected /\ Busy' = Busy + 1
    BY <1>2, <2>1, StartCounts
  <2>3. Tells(depth)'
    BY <1>2, <1>4, <2>1, <2>2 DEF TellsInv, Tells, Depth
  <2>. QED BY <1>1, <2>1, <2>3
<1>5. ASSUME NEW t \in Task, WorkSucceeds(t), failures = 0 PROVE TellsInv'
  <2>1. /\ up /\ promise[t] = "working"
        /\ promise' = [promise EXCEPT ![t] = "resolved"]
        /\ depth' = [depth EXCEPT !.running = depth.running - 1,
                                  !.completed = depth.completed + 1]
        /\ Persists
    BY <1>5 DEF WorkSucceeds, Working, Moves
  <2>2. Resolved' = Resolved + 1 /\ Rejected' = Rejected /\ Busy' = Busy - 1
    BY <1>2, <2>1, SuccessCounts
  <2>3. Tells(depth)'
    BY <1>2, <1>5, <2>1, <2>2 DEF TellsInv, Tells, Depth
  <2>. QED BY <1>1, <2>1, <2>3
<1>6. ASSUME NEW t \in Task, WorkFails(t), Persists, failures = 0 PROVE TellsInv'
  <2>1. /\ up /\ promise[t] = "working"
        /\ promise' = [promise EXCEPT ![t] = "rejected"]
        /\ depth' = [depth EXCEPT !.running = depth.running - 1,
                                  !.failed = depth.failed + 1]
    BY <1>6 DEF WorkFails, Working, Moves
  <2>2. Resolved' = Resolved /\ Rejected' = Rejected + 1 /\ Busy' = Busy - 1
    BY <1>2, <2>1, FailureCounts
  <2>3. Tells(depth)'
    BY <1>2, <1>6, <2>1, <2>2 DEF TellsInv, Tells, Depth
  <2>. QED BY <1>1, <1>6, <2>3
(* A step after a failure, or of a handler whose write fails. *)
<1>7. ASSUME failures > 0, failures' >= failures PROVE TellsInv'
  BY <1>7 DEF TellsInv, TypeOK
<1>8. failures \in Nat /\ failures' >= failures
  <2>1. failures \in Nat
    BY DEF TypeOK
  <2>2. UNCHANGED failures \/ Fails(1) \/ Fails(2)
    BY DEF Next, Refuse, Enqueue, EnqueueThrows, StartRun, StartThrows, WorkSucceeds,
           SuccessThrows, WorkFails, AcquireLease, AcquireThrows, ReleaseLease, ReleaseThrows,
           Tick, Crash, Restart, vars
  <2>. QED BY <2>1, <2>2 DEF Fails
<1>9. ASSUME NEW t \in Task,
             \/ Enqueue(t) \/ EnqueueThrows(t) \/ StartRun(t) \/ StartThrows(t)
             \/ WorkSucceeds(t) \/ SuccessThrows(t) \/ WorkFails(t)
      PROVE  TellsInv'
  <2>1. failures > 0 \/ failures = 0
    BY <1>8
  <2>. QED BY <1>0, <1>3, <1>4, <1>5, <1>6, <1>7, <1>8, <1>9, <2>1
           DEF EnqueueThrows, StartThrows, SuccessThrows, WorkFails
<1>10. ASSUME UNCHANGED <<promise, depth, failures>>,
              \/ up /\ Persists
              \/ UNCHANGED <<up, file, saved>>
              \/ ~up' /\ (UNCHANGED <<file, saved>> \/ Tears)
       PROVE  TellsInv'
  <2>1. Resolved' = Resolved /\ Rejected' = Rejected /\ Busy' = Busy
    BY <1>10, OutcomesKept
  <2>2. Tells(depth)' <=> Tells(depth)
    BY <1>10, <2>1 DEF Tells
  <2>. QED BY <1>1, <1>10, <2>1, <2>2 DEF TellsInv, Tells, Tears
<1>11. ASSUME NEW k \in LeaseTask, ReleaseLease(k) PROVE TellsInv'
  BY <1>10, <1>11 DEF ReleaseLease, Releases, chainVars
<1>12. ASSUME NEW k \in LeaseTask, NEW ttl \in Ttl, AcquireLease(k, ttl) PROVE TellsInv'
  BY <1>10, <1>12 DEF AcquireLease, Asks, chainVars
<1>13. ASSUME NEW k \in LeaseTask,
              ReleaseThrows(k) \/ \E ttl \in Ttl : AcquireThrows(k, ttl)
       PROVE  TellsInv'
  BY <1>0, <1>13 DEF ReleaseThrows, AcquireThrows
<1>14. ASSUME NEW t \in Task, Refuse(t) PROVE TellsInv'
  <2>1. /\ promise[t] = "none" /\ promise' = [promise EXCEPT ![t] = "refused"]
        /\ UNCHANGED <<up, depth, file, saved, failures>>
    BY <1>14 DEF Refuse, Called, fileVars
  <2>2. Resolved' = Resolved /\ Rejected' = Rejected /\ Busy' = Busy
    BY <1>2, <2>1, OutcomesKept
  <2>. QED BY <2>1, <2>2 DEF TellsInv, Tells
<1>15. CASE Crash
  <2>1. Resolved' = Resolved /\ Rejected' = Rejected /\ Busy' = Busy
    <3>1. \A t \in Task :
             /\ promise'[t] = "resolved" <=> promise[t] = "resolved"
             /\ promise'[t] = "rejected" <=> promise[t] = "rejected"
             /\ promise'[t] \in {"working", "killed"} <=> promise[t] \in {"working", "killed"}
      BY <1>15 DEF Crash
    <3>. QED BY <3>1, OutcomesKept
  <2>2. UNCHANGED <<file, saved>> \/ file' = "torn"
    BY <1>15 DEF Crash, Tears, fileVars
  <2>3. ~up' /\ failures' = failures
    BY <1>15 DEF Crash
  <2>. QED BY <2>1, <2>2, <2>3 DEF TellsInv, Tells
<1>16. CASE Restart
  <2>1. Resolved' = Resolved /\ Rejected' = Rejected /\ Busy' = Busy
    BY <1>16, OutcomesKept DEF Restart, chainVars
  <2>2. file # "torn" /\ depth' = saved.depth /\ UNCHANGED <<file, saved, failures>>
    BY <1>16 DEF Restart, fileVars
  <2>. QED BY <2>1, <2>2 DEF TellsInv, Tells
<1>17. CASE Tick \/ UNCHANGED vars
  BY <1>10, <1>17 DEF Tick, vars, chainVars, fileVars
<1>. QED BY <1>9, <1>11, <1>12, <1>13, <1>14, <1>15, <1>16, <1>17 DEF Next

(* Only a crash kills work. *)
NobodyKilled == crashes = 0 => \A t \in Task : promise[t] # "killed"

LEMMA InitKilled == Init => NobodyKilled
BY DEF Init, Empty, NobodyKilled

LEMMA KilledStep == TypeOK /\ NobodyKilled /\ [Next]_vars => NobodyKilled'
<1> SUFFICES ASSUME TypeOK, NobodyKilled, [Next]_vars PROVE NobodyKilled'
  OBVIOUS
<1>1. ASSUME NEW t \in Task, NEW p \in Promise \ {"killed"},
             promise' = [promise EXCEPT ![t] = p], UNCHANGED crashes
      PROVE  NobodyKilled'
  BY <1>1 DEF NobodyKilled, TypeOK
<1>2. ASSUME UNCHANGED <<promise, crashes>> PROVE NobodyKilled'
  BY <1>2 DEF NobodyKilled
<1>3. ASSUME NEW t \in Task, Refuse(t) \/ Enqueue(t) \/ EnqueueThrows(t) PROVE NobodyKilled'
  BY <1>1, <1>3 DEF Refuse, Enqueue, EnqueueThrows, Insert, Called, Promise
<1>4. ASSUME NEW t \in Task, StartRun(t) \/ StartThrows(t) PROVE NobodyKilled'
  BY <1>1, <1>4 DEF StartRun, StartThrows, Starts, Moves, Promise
<1>5. ASSUME NEW t \in Task, WorkSucceeds(t) \/ SuccessThrows(t) \/ WorkFails(t)
      PROVE  NobodyKilled'
  BY <1>1, <1>5 DEF WorkSucceeds, SuccessThrows, WorkFails, Moves, Promise
<1>6. ASSUME NEW k \in LeaseTask,
             \/ \E ttl \in Ttl : AcquireLease(k, ttl) \/ AcquireThrows(k, ttl)
             \/ ReleaseLease(k) \/ ReleaseThrows(k)
      PROVE  NobodyKilled'
  BY <1>2, <1>6 DEF AcquireLease, AcquireThrows, Asks, ReleaseLease, ReleaseThrows, Releases, chainVars
<1>7. CASE Crash
  BY <1>7 DEF Crash, TypeOK, NobodyKilled
<1>8. CASE Restart \/ Tick \/ UNCHANGED vars
  BY <1>2, <1>8 DEF Restart, Tick, vars, chainVars
<1>. QED BY <1>3, <1>4, <1>5, <1>6, <1>7, <1>8 DEF Next

(* The counters of the queue tell what happened to its tasks, over crashes and *)
(* restarts, as long as no persist() failed.                                   *)
THEOREM Told == Spec => []DepthTellsOutcomes
<1>1. Init => TellsInv
  <2> SUFFICES ASSUME Init PROVE Tells(Fresh.depth)
    BY FreshType DEF Init, TellsInv, Fresh
  <2>1. \A S \in {{"resolved"}, {"rejected"}, {"working", "killed"}} :
          {t \in Task : promise[t] \in S} = {}
    BY DEF Init, Empty
  <2>2. Resolved = 0 /\ Rejected = 0 /\ Busy = 0
    BY <2>1, FS_EmptySet DEF Resolved, Rejected, Busy, Tally
  <2>. QED BY <2>2 DEF Tells, Fresh
<1>2. TellsInv /\ NobodyKilled => DepthTellsOutcomes
  <2> SUFFICES ASSUME TellsInv, NobodyKilled, up, failures = 0
      PROVE  /\ depth.completed = Are({"resolved"}) /\ depth.failed = Are({"rejected"})
             /\ crashes = 0 => depth.running = Are({"working"})
    BY DEF DepthTellsOutcomes
  <2>1. Tells(depth)
    BY DEF TellsInv
  <2>2. ASSUME crashes = 0 PROVE depth.running = Are({"working"})
    <3>1. {t \in Task : promise[t] \in {"working", "killed"}} = {t \in Task : promise[t] \in {"working"}}
      BY <2>2 DEF NobodyKilled
    <3>. QED BY <2>1, <3>1 DEF Tells, Busy, Tally, Are
  <2>. QED BY <2>1, <2>2 DEF Tells, Resolved, Rejected, Tally, Are
<1>. QED BY <1>1, <1>2, InitType, InitKilled, TypeStep, TellsStep, KilledStep, PTL DEF Spec

------------------------------------------------------------------------------
(* Refinement                                                                  *)

Chained == Live \cup Settled

(* Tasks are called in the order of their numbers. *)
OrderInv ==
    \A t, u \in Task : t < u /\ promise[t] = "none" => promise[u] = "none"

(* The tail is the last run in line. *)
TailInv ==
    /\ tail = None => \A t \in Task : promise[t] \notin Live
    /\ tail # None =>
        /\ promise[tail] \in Chained
        /\ \A t \in Task : promise[t] \in Live => t <= tail

(* A run in line awaits the one before it, and none stands between them. *)
ChainInv ==
    \A t \in Task : promise[t] \in Live =>
        /\ prev[t] = None => \A u \in Task : promise[u] \in Live => t <= u
        /\ prev[t] # None =>
            /\ promise[prev[t]] \in Chained
            /\ \A u \in Task : promise[u] \in Live /\ u < t => u <= prev[t]

(* Once a run has started, nobody called before it is in line. *)
StartedInv ==
    \A t, u \in Task :
        promise[t] \in {"working"} \cup Settled /\ u < t => promise[u] \notin Live

SerialInv == TypeOK /\ OrderInv /\ TailInv /\ ChainInv /\ StartedInv

USE DEF Chained

LEMMA TaskOrder == \A t \in Task : t \in Nat /\ t > 0
BY TaskAssumption DEF Task

(* A call is the first of its task, and follows every other call. *)
LEMMA CalledLast ==
    ASSUME SerialInv, NEW t \in Task, Called(t)
    PROVE  /\ promise[t] = "none"
           /\ \A u \in Task : u < t <=> promise[u] # "none"
           /\ \A u \in Task : promise[u] \in Chained => u < t
<1>1. promise[t] = "none" /\ \A u \in 1 .. (t - 1) : promise[u] # "none"
  BY DEF Called
<1>2. ASSUME NEW u \in Task PROVE u < t <=> promise[u] # "none"
  <2>1. t \in Nat /\ u \in Nat /\ u > 0
    BY TaskOrder
  <2>2. u < t => promise[u] # "none"
    BY <1>1, <2>1
  <2>3. t < u => promise[u] = "none"
    BY <1>1 DEF SerialInv, OrderInv
  <2>. QED BY <1>1, <2>1, <2>2, <2>3
<1>. QED BY <1>1, <1>2

(* A call that is refused. *)
LEMMA RefuseSerial ==
    ASSUME SerialInv, NEW t \in Task, Refuse(t)
    PROVE  OrderInv' /\ TailInv' /\ ChainInv' /\ StartedInv'
<1>1. /\ promise[t] = "none" /\ promise'[t] = "refused"
      /\ \A u \in Task \ {t} : promise'[u] = promise[u]
      /\ UNCHANGED <<prev, tail>>
  BY DEF Refuse, Called, SerialInv, TypeOK
<1>2. \A u \in Task : u < t => promise[u] # "none"
  BY CalledLast DEF Refuse
<1>3. \A u \in Task : prev[u] \in Task \cup {None} /\ tail \in Task \cup {None}
  BY DEF SerialInv, TypeOK
<1>4. OrderInv'
  BY <1>1, <1>2, TaskOrder DEF SerialInv, OrderInv
<1>5. TailInv'
  BY <1>1, <1>3 DEF SerialInv, TailInv
<1>6. ChainInv'
  <2> SUFFICES ASSUME NEW i \in Task, promise'[i] \in Live
               PROVE  /\ prev[i] = None => \A u \in Task : promise'[u] \in Live => i <= u
                      /\ prev[i] # None =>
                          /\ promise'[prev[i]] \in Chained
                          /\ \A u \in Task : promise'[u] \in Live /\ u < i => u <= prev[i]
    BY <1>1 DEF ChainInv
  <2>1. promise[i] \in Live /\ \A u \in Task : promise'[u] \in Live => promise[u] \in Live
    BY <1>1
  <2>2. ASSUME prev[i] # None PROVE promise'[prev[i]] \in Chained
    <3>1. prev[i] \in Task /\ promise[prev[i]] \in Chained
      BY <1>3, <2>1, <2>2 DEF SerialInv, ChainInv
    <3>. QED BY <1>1, <3>1
  <2>. QED BY <2>1, <2>2 DEF SerialInv, ChainInv
<1>7. StartedInv'
  BY <1>1 DEF SerialInv, StartedInv
<1>. QED BY <1>4, <1>5, <1>6, <1>7

(* A call that is admitted, whether or not its write goes through. *)
LEMMA InsertSerial ==
    ASSUME SerialInv, NEW t \in Task, Insert(t)
    PROVE  OrderInv' /\ TailInv' /\ ChainInv' /\ StartedInv'
<1>1. /\ promise[t] = "none" /\ promise'[t] = "pending"
      /\ \A u \in Task \ {t} : promise'[u] = promise[u] /\ prev'[u] = prev[u]
      /\ tail' = t /\ prev'[t] = tail
  BY DEF Insert, Called, SerialInv, TypeOK
<1>2. /\ \A u \in Task : u < t <=> promise[u] # "none"
      /\ \A u \in Task : promise[u] \in Chained => u < t
  BY CalledLast DEF Insert
<1>3. /\ \A u \in Task : prev[u] \in Task \cup {None}
      /\ tail \in Task \cup {None} /\ t # None
  BY TaskAssumption DEF SerialInv, TypeOK
<1>4. OrderInv'
  BY <1>1, <1>2, TaskOrder DEF SerialInv, OrderInv
<1>5. TailInv'
  BY <1>1, <1>2, <1>3, TaskOrder DEF TailInv
<1>6. ASSUME NEW i \in Task, promise'[i] \in Live
      PROVE  /\ prev'[i] = None => \A u \in Task : promise'[u] \in Live => i <= u
             /\ prev'[i] # None =>
                 /\ promise'[prev'[i]] \in Chained
                 /\ \A u \in Task : promise'[u] \in Live /\ u < i => u <= prev'[i]
  <2>1. CASE i = t
    <3>1. CASE tail = None
      BY <1>1, <2>1, <3>1, TaskOrder DEF SerialInv, TailInv
    <3>2. CASE tail # None
      <4>1. tail \in Task /\ promise[tail] \in Chained /\ tail # t
        BY <1>1, <1>3, <3>2 DEF SerialInv, TailInv
      <4>2. \A u \in Task : promise'[u] \in Live /\ u < i => u <= tail
        BY <1>1, <2>1, <3>2, TaskOrder DEF SerialInv, TailInv
      <4>. QED BY <1>1, <2>1, <3>2, <4>1, <4>2
    <3>. QED BY <3>1, <3>2
  <2>2. CASE i # t
    <3>1. prev'[i] = prev[i] /\ promise[i] \in Live /\ i < t
      BY <1>1, <1>2, <1>6, <2>2
    <3>2. CASE prev[i] = None
      BY <1>1, <3>1, <3>2, TaskOrder DEF SerialInv, ChainInv
    <3>3. CASE prev[i] # None
      <4>1. promise[prev[i]] \in Chained /\ prev[i] \in Task /\ prev[i] # t
        BY <1>1, <1>3, <3>1, <3>3 DEF SerialInv, ChainInv
      <4>2. \A u \in Task : promise'[u] \in Live /\ u < i => u <= prev[i]
        BY <1>1, <3>1, <3>3, TaskOrder DEF SerialInv, ChainInv
      <4>. QED BY <1>1, <3>1, <3>3, <4>1, <4>2
    <3>. QED BY <3>2, <3>3
  <2>. QED BY <2>1, <2>2
<1>7. ChainInv'
  BY <1>6 DEF ChainInv
<1>8. StartedInv'
  <2> SUFFICES ASSUME NEW i \in Task, NEW u \in Task, u < i,
                      promise'[i] \in {"working"} \cup Settled
               PROVE  promise'[u] \notin Live
    BY DEF StartedInv
  <2>1. i # t /\ promise[i] \in {"working"} \cup Settled
    BY <1>1
  <2>2. i < t
    BY <1>2, <2>1
  <2>3. u # t
    BY <2>2, TaskOrder
  <2>. QED BY <1>1, <2>1, <2>3 DEF SerialInv, StartedInv
<1>. QED BY <1>4, <1>5, <1>7, <1>8

(* A run moves on along the chain: the links stay as they are. *)
LEMMA MovesSerial ==
    ASSUME SerialInv, NEW t \in Task, NEW s, NEW p \in {"working"} \cup Settled,
           Moves(t, s, p), promise[t] \in Live,
           \A u \in Task : u < t => promise[u] \notin Live
    PROVE  OrderInv' /\ TailInv' /\ ChainInv' /\ StartedInv'
<1>1. /\ promise'[t] = p
      /\ \A u \in Task \ {t} : promise'[u] = promise[u]
      /\ UNCHANGED <<prev, tail>>
      /\ p \in Chained
  BY DEF Moves, SerialInv, TypeOK
<1>2. /\ \A u \in Task : prev[u] \in Task \cup {None}
      /\ tail \in Task \cup {None}
  BY DEF SerialInv, TypeOK
<1>3. OrderInv'
  BY <1>1 DEF SerialInv, OrderInv
<1>4. TailInv'
  BY <1>1, <1>2 DEF SerialInv, TailInv
<1>5. ChainInv'
  <2> SUFFICES ASSUME NEW i \in Task, promise'[i] \in Live
               PROVE  /\ prev[i] = None => \A u \in Task : promise'[u] \in Live => i <= u
                      /\ prev[i] # None =>
                          /\ promise'[prev[i]] \in Chained
                          /\ \A u \in Task : promise'[u] \in Live /\ u < i => u <= prev[i]
    BY <1>1 DEF ChainInv
  <2>1. \A u \in Task : promise'[u] \in Live => promise[u] \in Live
    BY <1>1
  <2>. QED BY <1>1, <1>2, <2>1 DEF SerialInv, ChainInv
<1>6. StartedInv'
  BY <1>1 DEF SerialInv, StartedInv
<1>. QED BY <1>3, <1>4, <1>5, <1>6

(* The run whose turn it is has nobody before it in line. *)
LEMMA TurnIsFirst ==
    ASSUME SerialInv, NEW t \in Task, TurnOf(t)
    PROVE  \A u \in Task : u < t => promise[u] \notin Live
<1>1. promise[t] \in Live /\ prev[t] \in Task \cup {None}
  BY DEF TurnOf, SerialInv, TypeOK
<1>2. CASE prev[t] = None
  BY <1>1, <1>2, TaskOrder DEF SerialInv, ChainInv
<1>3. CASE prev[t] # None
  <2>1. prev[t] \in Task /\ promise[prev[t]] \in Settled
    BY <1>1, <1>3 DEF TurnOf
  <2> SUFFICES ASSUME NEW u \in Task, u < t, promise[u] \in Live
               PROVE  FALSE
    OBVIOUS
  <2>2. u <= prev[t]
    BY <1>1, <1>3 DEF SerialInv, ChainInv
  <2>3. u # prev[t]
    BY <2>1
  <2>4. u < prev[t]
    BY <2>1, <2>2, <2>3, TaskOrder
  <2>. QED BY <2>1, <2>4 DEF SerialInv, StartedInv
<1>. QED BY <1>1, <1>2, <1>3

LEMMA SerialStep == SerialInv /\ [Next]_vars => SerialInv'
<1> SUFFICES ASSUME SerialInv, [Next]_vars PROVE SerialInv'
  OBVIOUS
<1>1. TypeOK'
  BY TypeStep DEF SerialInv
<1>2. OrderInv' /\ TailInv' /\ ChainInv' /\ StartedInv'
  <2>1. ASSUME NEW t \in Task, Refuse(t) \/ Enqueue(t) \/ EnqueueThrows(t)
        PROVE  OrderInv' /\ TailInv' /\ ChainInv' /\ StartedInv'
    BY <2>1, RefuseSerial, InsertSerial DEF Enqueue, EnqueueThrows
  <2>2. ASSUME NEW t \in Task, StartRun(t) \/ StartThrows(t)
        PROVE  OrderInv' /\ TailInv' /\ ChainInv' /\ StartedInv'
    <3>1. TurnOf(t) /\ promise[t] \in Live
      BY <2>2 DEF StartRun, StartThrows, Starts, TurnOf
    <3>2. Moves(t, "running", "working") \/ Moves(t, "running", "stillborn")
      BY <2>2 DEF StartRun, StartThrows, Starts
    <3>. QED BY <3>1, <3>2, TurnIsFirst, MovesSerial
  <2>3. ASSUME NEW t \in Task, WorkSucceeds(t) \/ SuccessThrows(t) \/ WorkFails(t)
        PROVE  OrderInv' /\ TailInv' /\ ChainInv' /\ StartedInv'
    <3>1. promise[t] = "working"
      BY <2>3 DEF WorkSucceeds, SuccessThrows, WorkFails, Working
    <3>2. Moves(t, "succeeded", "resolved") \/ Moves(t, "failed", "rejected")
      BY <2>3 DEF WorkSucceeds, SuccessThrows, WorkFails
    <3>3. \A u \in Task : u < t => promise[u] \notin Live
      BY <3>1 DEF SerialInv, StartedInv
    <3>. QED BY <3>1, <3>2, <3>3, MovesSerial
  <2>4. CASE Crash
    <3>1. /\ tail' = None /\ UNCHANGED prev
          /\ \A u \in Task :
                /\ promise'[u] \notin Live
                /\ promise'[u] = "none" <=> promise[u] = "none"
                /\ promise'[u] \in Settled => promise[u] \in Settled
      BY <2>4 DEF Crash, SerialInv, TypeOK
    <3>. QED BY <3>1 DEF SerialInv, OrderInv, TailInv, ChainInv, StartedInv
  <2>5. ASSUME UNCHANGED <<promise, prev, tail>>
        PROVE  OrderInv' /\ TailInv' /\ ChainInv' /\ StartedInv'
    BY <2>5 DEF SerialInv, OrderInv, TailInv, ChainInv, StartedInv
  <2>6. ASSUME NEW k \in LeaseTask, NEW ttl \in Ttl, AcquireLease(k, ttl) \/ AcquireThrows(k, ttl)
        PROVE  UNCHANGED <<promise, prev, tail>>
    BY <2>6 DEF AcquireLease, AcquireThrows, Asks, chainVars
  <2>7. ASSUME NEW k \in LeaseTask, ReleaseLease(k) \/ ReleaseThrows(k)
        PROVE  UNCHANGED <<promise, prev, tail>>
    BY <2>7 DEF ReleaseLease, ReleaseThrows, Releases, chainVars
  <2>8. CASE Tick \/ Restart \/ UNCHANGED vars
    BY <2>5, <2>8 DEF Tick, Restart, vars, chainVars
  <2>. QED BY <2>1, <2>2, <2>3, <2>4, <2>5, <2>6, <2>7, <2>8 DEF Next
<1>. QED BY <1>1, <1>2 DEF SerialInv

PhaseMap == [t \in Task |-> PhaseOf(promise[t])]
Ticket == [t \in Task |-> IF promise[t] = "none" THEN 0 ELSE t]

(* A change of one promise is the change of one phase. *)
LEMMA PhaseChange ==
    ASSUME TypeOK, NEW t \in Task, NEW p, promise' = [promise EXCEPT ![t] = p]
    PROVE  PhaseMap' = [PhaseMap EXCEPT ![t] = PhaseOf(p)]
BY DEF TypeOK, PhaseMap

(* A call takes the next number. *)
LEMMA TakesTicket ==
    ASSUME SerialInv, NEW t \in Task, Called(t), NEW p \in {"pending", "refused"},
           promise' = [promise EXCEPT ![t] = p]
    PROVE  /\ Mutex!TakeTicket(t, Ticket'[t])
           /\ PhaseMap' = [PhaseMap EXCEPT ![t] = PhaseOf(p)]
<1>1. promise[t] = "none" /\ PhaseMap[t] = "idle"
  BY DEF Called, PhaseMap, PhaseOf
<1>2. /\ promise'[t] = p
      /\ \A u \in Task \ {t} : promise'[u] = promise[u]
  BY DEF SerialInv, TypeOK
<1>3. /\ Ticket'[t] = t
      /\ \A u \in Task \ {t} : Ticket'[u] = Ticket[u]
  BY <1>2 DEF Ticket
<1>4. Ticket' = [Ticket EXCEPT ![t] = Ticket'[t]]
  BY <1>3 DEF Ticket
<1>5. \A u \in Task : Ticket[u] < Ticket'[t]
  <2>1. ASSUME NEW u \in Task PROVE Ticket[u] < t
    BY CalledLast, TaskOrder DEF Ticket
  <2>. QED BY <1>3, <2>1
<1>6. Ticket'[t] \in Nat
  BY <1>3, TaskOrder
<1>. QED BY <1>1, <1>4, <1>5, <1>6, PhaseChange DEF Mutex!TakeTicket, PhaseMap, Ticket, SerialInv

(* A change of a task that was called leaves the tickets as they are. *)
LEMMA TicketKept ==
    ASSUME \A t \in Task : promise'[t] = "none" <=> promise[t] = "none"
    PROVE  Ticket' = Ticket
BY DEF Ticket

(* The run whose turn it is is the next of the abstract line. *)
LEMMA TurnIsNext ==
    ASSUME SerialInv, NEW t \in Task, TurnOf(t)
    PROVE  Mutex!IsNext(t)
<1>1. promise[t] = "pending" /\ PhaseMap[t] = "waiting" /\ Ticket[t] = t
  BY DEF TurnOf, PhaseMap, PhaseOf, Ticket
<1>2. ASSUME NEW u \in Task
      PROVE  /\ PhaseMap[u] # "holding"
             /\ PhaseMap[u] = "waiting" => Ticket[t] <= Ticket[u]
  <2>1. promise[u] \in Promise /\ t \in Nat /\ u \in Nat
    BY TaskOrder DEF SerialInv, TypeOK
  <2>2. /\ PhaseMap[u] = "holding" => promise[u] = "working"
        /\ PhaseMap[u] = "waiting" => promise[u] = "pending" /\ Ticket[u] = u
    BY <2>1 DEF PhaseMap, PhaseOf, Promise, Ticket
  <2>3. u < t => promise[u] \notin Live
    BY TurnIsFirst
  <2>4. promise[u] # "working"
    <3> SUFFICES ASSUME promise[u] = "working" PROVE FALSE
      OBVIOUS
    <3>1. ~(t < u)
      BY <1>1 DEF SerialInv, StartedInv
    <3>2. t = u
      BY <2>1, <2>3, <3>1
    <3>. QED BY <1>1, <3>2
  <2>. QED BY <1>1, <2>1, <2>2, <2>3, <2>4
<1>. QED BY <1>1, <1>2 DEF Mutex!IsNext, PhaseMap, Ticket

LEMMA MutexStep ==
    SerialInv /\ [Next]_vars => [Mutex!Next]_(Mutex!mutexVars)
<1> SUFFICES ASSUME SerialInv, [Next]_vars
             PROVE  Mutex!Next \/ UNCHANGED Mutex!mutexVars
  OBVIOUS
<1>1. ASSUME NEW t \in Task, Enqueue(t) \/ EnqueueThrows(t) PROVE Mutex!Request(t, Ticket'[t])
  <2>1. Called(t) /\ promise' = [promise EXCEPT ![t] = "pending"]
    BY <1>1 DEF Enqueue, EnqueueThrows, Insert
  <2>. QED BY <2>1, TakesTicket DEF Mutex!Request, PhaseOf, PhaseMap
<1>2. ASSUME NEW t \in Task, Refuse(t) PROVE Mutex!Refuse(t, Ticket'[t])
  <2>1. Called(t) /\ promise' = [promise EXCEPT ![t] = "refused"]
    BY <1>2 DEF Refuse
  <2>. QED BY <2>1, TakesTicket DEF Mutex!Refuse, PhaseOf, PhaseMap
<1>3. ASSUME NEW t \in Task, NEW s, NEW p, p # "none", promise[t] # "none", Moves(t, s, p)
      PROVE  PhaseMap' = [PhaseMap EXCEPT ![t] = PhaseOf(p)] /\ Ticket' = Ticket
  <2>1. promise' = [promise EXCEPT ![t] = p]
    BY <1>3 DEF Moves
  <2>2. \A u \in Task : promise'[u] = "none" <=> promise[u] = "none"
    BY <1>3, <2>1 DEF SerialInv, TypeOK
  <2>. QED BY <2>1, <2>2, PhaseChange, TicketKept DEF SerialInv
<1>4. ASSUME NEW t \in Task, StartRun(t) PROVE Mutex!Grant(t)
  <2>1. TurnOf(t) /\ promise[t] # "none" /\ Moves(t, "running", "working")
    BY <1>4 DEF StartRun, Starts, TurnOf
  <2>. QED BY <1>3, <2>1, TurnIsNext DEF Mutex!Grant, PhaseOf, PhaseMap, Ticket
<1>5. ASSUME NEW t \in Task, StartThrows(t) PROVE Mutex!Withdraw(t)
  <2>1. TurnOf(t) /\ promise[t] # "none" /\ Moves(t, "running", "stillborn")
    BY <1>5 DEF StartThrows, Starts, TurnOf
  <2>. QED BY <1>3, <2>1, TurnIsNext DEF Mutex!Withdraw, PhaseOf, PhaseMap, Ticket
<1>6. ASSUME NEW t \in Task, WorkSucceeds(t) \/ SuccessThrows(t) \/ WorkFails(t)
      PROVE  Mutex!Finish(t)
  <2>1. promise[t] = "working" /\ PhaseMap[t] = "holding"
    BY <1>6 DEF WorkSucceeds, SuccessThrows, WorkFails, Working, PhaseMap, PhaseOf
  <2>2. Moves(t, "succeeded", "resolved") \/ Moves(t, "failed", "rejected")
    BY <1>6 DEF WorkSucceeds, SuccessThrows, WorkFails
  <2>. QED BY <1>3, <2>1, <2>2 DEF Mutex!Finish, PhaseOf, PhaseMap, Ticket
<1>7. CASE Crash
  <2>1. ASSUME NEW u \in Task
        PROVE  PhaseMap'[u] = IF PhaseMap[u] \in {"waiting", "holding"}
                              THEN "gone" ELSE PhaseMap[u]
    BY <1>7 DEF Crash, PhaseMap, PhaseOf, SerialInv, TypeOK, Promise
  <2>2. \A u \in Task : promise'[u] = "none" <=> promise[u] = "none"
    BY <1>7 DEF Crash
  <2>3. Ticket' = Ticket
    BY <2>2, TicketKept
  <2>. QED BY <2>1, <2>3 DEF Mutex!Next, Mutex!Abandon, PhaseMap, Ticket
<1>8. ASSUME promise' = promise PROVE UNCHANGED Mutex!mutexVars
  BY <1>8 DEF Mutex!mutexVars
<1>9. ASSUME NEW k \in LeaseTask, NEW ttl \in Ttl, AcquireLease(k, ttl) \/ AcquireThrows(k, ttl)
      PROVE  promise' = promise
  BY <1>9 DEF AcquireLease, AcquireThrows, Asks, chainVars
<1>10. ASSUME NEW k \in LeaseTask, ReleaseLease(k) \/ ReleaseThrows(k)
       PROVE  promise' = promise
  BY <1>10 DEF ReleaseLease, ReleaseThrows, Releases, chainVars
<1>11. CASE Tick \/ Restart \/ UNCHANGED vars
  BY <1>8, <1>11 DEF Tick, Restart, vars, chainVars
<1>12. (\E t \in Task : Mutex!Request(t, Ticket'[t]) \/ Mutex!Refuse(t, Ticket'[t]))
       => Mutex!Next
  BY DEF Mutex!Next, Ticket
<1>. QED
  BY <1>1, <1>2, <1>4, <1>5, <1>6, <1>7, <1>8, <1>9, <1>10, <1>11, <1>12 DEF Next, Mutex!Next

(* "Ensures that only one task runs per profile at a time": the promise chain   *)
(* of createProfileSerialQueue() is a first-come first-served mutual exclusion, *)
(* through refusals, failed writes, crashes and restarts.                      *)
THEOREM Refinement == Spec => ImplementsFifoMutex
<1>1. Init => SerialInv
  BY InitType DEF Init, SerialInv, OrderInv, TailInv, ChainInv, StartedInv, Empty
<1>2. Init => Mutex!Init
  BY DEF Init, Mutex!Init, PhaseOf, Empty
<1>. QED BY <1>1, <1>2, SerialStep, MutexStep, PTL DEF Spec, ImplementsFifoMutex, Mutex!Spec
==============================================================================
