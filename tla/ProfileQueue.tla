---------------------------- MODULE ProfileQueue ----------------------------
(***************************************************************************)
(* packages/job_queue/src/index.mjs, createProfileSerialQueue(): the tasks   *)
(* of one browser profile, chained on a promise tail, with depth counters    *)
(* and leases that are saved to a state file; the entries are not.  Queues    *)
(* of different profiles share nothing but that file.                        *)
(*                                                                           *)
(* A handler runs to completion on the event loop, so each is one action;    *)
(* its persist() may throw, and each way out is an action of its own.        *)
(***************************************************************************)
EXTENDS Integers, FiniteSets

CONSTANTS
    N,              \* bound: how many times enqueue() is called
    LeaseTask,      \* the task ids leases are asked for
    Ttl,            \* the ttlSeconds they are asked for
    MaxPending,     \* capacity.max_pending
    MaxTime, MaxLeases, MaxCrashes, MaxFailures,    \* bounds
    None

(* Tasks, numbered in the order of the calls: newId() makes a new id for each. *)
Task == 1 .. N

ASSUME TaskAssumption == N \in Nat /\ None \notin Task
ASSUME BoundAssumption == {MaxPending, MaxTime, MaxLeases, MaxCrashes, MaxFailures} \subseteq Nat
ASSUME TtlAssumption == Ttl \subseteq Nat

VARIABLES
    up,             \* the process is running
    known,          \* queues has the profile
    entries,        \* q.entries: the status of each job, "none" when absent
    promise,        \* what became of each task's run, see Promise
    prev, tail,     \* the promise each run awaits, and q.tail
    depth, leases,  \* q.queue.depth, q.queue.leases
    file, saved,    \* the state file: its condition, and what it holds
    clock,
    granted,        \* leases whose callers were given them and did not release
    acquired, crashes, failures

chainVars == <<entries, promise, prev, tail>>
fileVars == <<file, saved>>
leaseVars == <<leases, granted, acquired>>
vars == <<up, known, chainVars, depth, leaseVars, fileVars, clock, crashes, failures>>

Status == {"none", "queued", "running", "succeeded", "failed"}

(* "refused": no room; "stillborn": rejected by the persist() that precedes    *)
(* the try, work() never called; "lost", "killed": the process died first,     *)
(* while it waited or worked.                                                  *)
Promise == {"none", "refused", "pending", "working",
            "resolved", "rejected", "stillborn", "lost", "killed"}
Settled == {"resolved", "rejected", "stillborn"}
Live == {"pending", "working"}

(* leased_by is never read. *)
Lease == [task : LeaseTask, expires : Nat]
Depth == [pending : Nat, running : Int, completed : Nat, failed : Nat]

TypeOK ==
    /\ up \in BOOLEAN
    /\ known \in BOOLEAN
    /\ entries \in [Task -> Status]
    /\ promise \in [Task -> Promise]
    /\ prev \in [Task -> Task \cup {None}]
    /\ tail \in Task \cup {None}
    /\ depth \in Depth
    /\ leases \in SUBSET Lease
    /\ file \in {"absent", "whole", "torn"}
    /\ saved \in [depth : Depth, leases : SUBSET Lease]
    /\ granted \in SUBSET Lease
    /\ {clock, acquired, crashes, failures} \subseteq Nat

(* getOrCreateQueue(): a profile's state before anything happens to it. *)
Fresh == [depth |-> [pending |-> 0, running |-> 0, completed |-> 0, failed |-> 0], leases |-> {}]
Empty == [t \in Task |-> "none"]

Init ==
    /\ up = TRUE
    /\ known = FALSE
    /\ entries = Empty
    /\ promise = Empty
    /\ prev = [t \in Task |-> None]
    /\ tail = None
    /\ depth = Fresh.depth
    /\ leases = {}
    /\ file = "absent"
    /\ saved = Fresh
    /\ clock = 0
    /\ granted = {}
    /\ acquired = 0
    /\ crashes = 0
    /\ failures = 0

------------------------------------------------------------------------------
(* persist()                                                                   *)

Persists ==
    /\ file' = "whole"
    /\ saved' = [depth |-> depth', leases |-> leases']

Tears == file' = "torn" /\ saved' = Fresh

(* The file is left as it was, or writeFileSync fails after truncating it. *)
PersistThrows == UNCHANGED fileVars \/ Tears

Fails(n) ==
    /\ failures + n <= MaxFailures
    /\ failures' = failures + n

------------------------------------------------------------------------------
(* enqueue()                                                                   *)

Entry == {t \in Task : entries[t] # "none"}

Called(t) ==
    /\ up
    /\ promise[t] = "none"
    /\ \A u \in 1 .. (t - 1) : promise[u] # "none"
    /\ known' = TRUE
    /\ UNCHANGED <<up, leaseVars, clock, crashes>>

Refuse(t) ==
    /\ Called(t)
    /\ Cardinality(Entry) >= MaxPending
    /\ promise' = [promise EXCEPT ![t] = "refused"]
    /\ UNCHANGED <<entries, prev, tail, depth, fileVars, failures>>

(* Mutant of Insert: the tail is not moved to the new run. *)
InsertTailKept(t) ==
    /\ Called(t)
    /\ Cardinality(Entry) < MaxPending
    /\ entries' = [entries EXCEPT ![t] = "queued"]
    /\ promise' = [promise EXCEPT ![t] = "pending"]
    /\ prev' = [prev EXCEPT ![t] = tail]
    /\ depth' = [depth EXCEPT !.pending = Cardinality(Entry) + 1]
    /\ UNCHANGED tail

(* Entries are never removed, so they count as pending ever after. *)
Insert(t) ==
    /\ Called(t)
    /\ Cardinality(Entry) < MaxPending
    /\ entries' = [entries EXCEPT ![t] = "queued"]
    /\ promise' = [promise EXCEPT ![t] = "pending"]
    /\ prev' = [prev EXCEPT ![t] = tail]
    /\ tail' = t
    /\ depth' = [depth EXCEPT !.pending = Cardinality(Entry) + 1]

Enqueue(t) == Insert(t) /\ Persists /\ UNCHANGED failures

(* The caller gets an exception, but the run is already chained. *)
EnqueueThrows(t) == Insert(t) /\ PersistThrows /\ Fails(1)

------------------------------------------------------------------------------
(* the async function chained on the tail                                      *)

(* Mutant of TurnOf: the tail is chained on without its catch(). *)
TurnOfUncaught(t) ==
    /\ up
    /\ promise[t] = "pending"
    /\ prev[t] # None => promise[prev[t]] = "resolved"

TurnOf(t) ==
    /\ up
    /\ promise[t] = "pending"
    /\ prev[t] # None => promise[prev[t]] \in Settled

Moves(t, s, p) ==
    /\ entries' = [entries EXCEPT ![t] = s]
    /\ promise' = [promise EXCEPT ![t] = p]
    /\ UNCHANGED <<up, known, prev, tail, leaseVars, clock, crashes>>

Starts(t, p) ==
    /\ TurnOf(t)
    /\ Moves(t, "running", p)
    /\ depth' = [depth EXCEPT !.running = @ + 1]

StartRun(t) == Starts(t, "working") /\ Persists /\ UNCHANGED failures

(* This persist() stands before the try: the run rejects, work() is not called *)
(* and nothing counts depth.running down again.                                *)
StartThrows(t) == Starts(t, "stillborn") /\ PersistThrows /\ Fails(1)

Working(t) == up /\ promise[t] = "working"

(* Mutant of WorkSucceeds: no persist() after work(). *)
WorkSucceedsUnsaved(t) ==
    /\ Working(t)
    /\ Moves(t, "succeeded", "resolved")
    /\ depth' = [depth EXCEPT !.running = @ - 1, !.completed = @ + 1]
    /\ UNCHANGED <<fileVars, failures>>

WorkSucceeds(t) ==
    /\ Working(t)
    /\ Moves(t, "succeeded", "resolved")
    /\ depth' = [depth EXCEPT !.running = @ - 1, !.completed = @ + 1]
    /\ Persists
    /\ UNCHANGED failures

(* Mutant of SuccessThrows: the failed persist() is reported to the caller and  *)
(* not counted.                                                                *)
SuccessThrowsUncounted(t) ==
    /\ Working(t)
    /\ Moves(t, "failed", "rejected")
    /\ depth' = [depth EXCEPT !.running = @ - 1, !.completed = @ + 1]
    /\ PersistThrows
    /\ Fails(1)

(* The persist() after work() throws into the catch, which counts the run down *)
(* once more, and as a failure beside the success.                             *)
SuccessThrows(t) ==
    /\ Working(t)
    /\ Moves(t, "failed", "rejected")
    /\ depth' = [depth EXCEPT !.running = @ - 2, !.completed = @ + 1, !.failed = @ + 1]
    /\ \/ Persists /\ Fails(1)
       \/ PersistThrows /\ Fails(2)

WorkFails(t) ==
    /\ Working(t)
    /\ Moves(t, "failed", "rejected")
    /\ depth' = [depth EXCEPT !.running = @ - 1, !.failed = @ + 1]
    /\ \/ Persists /\ UNCHANGED failures
       \/ PersistThrows /\ Fails(1)

------------------------------------------------------------------------------
(* leases                                                                      *)

Active(lease) == lease.expires > clock
Given(lease) == granted' = granted \cup {lease}

(* Mutant of Leases: the new lease replaces the ones in force. *)
LeasesReplaced(lease) == leases' = {lease}

(* Nobody asks whether another lease is in force. *)
Leases(lease) == leases' = {l \in leases : Active(l)} \cup {lease}

Asks(k, ttl) ==
    /\ up
    /\ acquired < MaxLeases
    /\ acquired' = acquired + 1
    /\ known' = TRUE
    /\ Leases([task |-> k, expires |-> clock + ttl])
    /\ UNCHANGED <<up, chainVars, depth, clock, crashes>>

AcquireLease(k, ttl) ==
    /\ Asks(k, ttl)
    /\ Given([task |-> k, expires |-> clock + ttl])
    /\ Persists
    /\ UNCHANGED failures

(* The caller gets an exception and the lease stays in force. *)
AcquireThrows(k, ttl) ==
    /\ Asks(k, ttl)
    /\ PersistThrows
    /\ Fails(1)
    /\ UNCHANGED granted

Releases(k) ==
    /\ up
    /\ known
    /\ leases' = {l \in leases : l.task # k}
    /\ granted' = {l \in granted : l.task # k}
    /\ UNCHANGED <<up, known, chainVars, depth, acquired, clock, crashes>>

(* Mutant of ReleaseLease: no persist() after the release. *)
ReleaseLeaseUnsaved(k) == Releases(k) /\ UNCHANGED <<fileVars, failures>>

ReleaseLease(k) == Releases(k) /\ Persists /\ UNCHANGED failures

ReleaseThrows(k) == Releases(k) /\ PersistThrows /\ Fails(1)

Tick ==
    /\ clock < MaxTime
    /\ clock' = clock + 1
    /\ UNCHANGED <<up, known, chainVars, depth, leaseVars, fileVars, crashes, failures>>

------------------------------------------------------------------------------
(* crash and restart                                                           *)

(* A crash may fall inside the write of any handler. *)
Crash ==
    /\ up
    /\ crashes < MaxCrashes
    /\ crashes' = crashes + 1
    /\ up' = FALSE
    /\ known' = FALSE
    /\ UNCHANGED fileVars \/ Tears
    /\ entries' = Empty
    /\ promise' = [t \in Task |->
                      CASE promise[t] = "pending" -> "lost"
                        [] promise[t] = "working" -> "killed"
                        [] OTHER -> promise[t]]
    /\ tail' = None
    /\ depth' = Fresh.depth
    /\ leases' = {}
    /\ UNCHANGED <<prev, granted, acquired, clock, failures>>

(* load(): counters and leases as they were saved; there are no entries yet    *)
(* whose status it could reset.  A torn file makes the factory throw.          *)
Restart ==
    /\ ~up
    /\ file # "torn"
    /\ up' = TRUE
    /\ known' = (file = "whole")
    /\ depth' = saved.depth
    /\ leases' = saved.leases
    /\ UNCHANGED <<chainVars, granted, acquired, fileVars, clock, crashes, failures>>

Start(t) == StartRun(t) \/ StartThrows(t)
Settle(t) == WorkSucceeds(t) \/ SuccessThrows(t) \/ WorkFails(t)

Next ==
    \/ \E t \in Task :
          \/ Refuse(t)
          \/ Enqueue(t)
          \/ EnqueueThrows(t)
          \/ StartRun(t)
          \/ StartThrows(t)
          \/ WorkSucceeds(t)
          \/ SuccessThrows(t)
          \/ WorkFails(t)
    \/ \E k \in LeaseTask :
          \/ \E ttl \in Ttl : AcquireLease(k, ttl) \/ AcquireThrows(k, ttl)
          \/ ReleaseLease(k)
          \/ ReleaseThrows(k)
    \/ Tick
    \/ Crash
    \/ Restart

(* The event loop runs a chained continuation; that work() settles is an       *)
(* assumption on the caller.                                                   *)
Fairness == \A t \in Task : WF_vars(Start(t)) /\ WF_vars(Settle(t))

Spec == Init /\ [][Next]_vars /\ Fairness

------------------------------------------------------------------------------
(* Correctness                                                                 *)

Are(outcomes) == Cardinality({t \in Task : promise[t] \in outcomes})

(* As long as no write failed, the counters of what has ended tell what         *)
(* happened to the tasks, over crashes: each saved file has the last outcome.  *)
(* What is counted as running is right as long as nothing crashed (a restart   *)
(* goes on counting what it interrupted: see InterruptedTasksAreReset).        *)
DepthTellsOutcomes ==
    up /\ failures = 0 =>
        /\ depth.completed = Are({"resolved"})
        /\ depth.failed = Are({"rejected"})
        /\ crashes = 0 => depth.running = Are({"working"})

(* Whatever write fails, before, after or beside a task's work, each failure   *)
(* that a caller was told of is counted once as failed and each success as     *)
(* completed; only a crash can lose counts, and none makes up a failure.       *)
OutcomesAreCounted ==
    up =>
        /\ depth.failed <= Are({"rejected"})
        /\ crashes = 0 =>
             depth.failed = Are({"rejected"}) /\ depth.completed >= Are({"resolved"})

(* What acquireLease() still promises, which asks nobody and keeps no other    *)
(* worker out: a lease that was given stays on the profile's list until it     *)
(* expires or is released, over failed writes, restarts and the leases that    *)
(* others take beside it.                                                      *)
LeaseKept == up => \A l \in granted : Active(l) => l \in leases

(* As long as no write failed, nothing is in force that nobody was given, or   *)
(* that was released: a restart brings no lease back.                          *)
NoGhostLease == up /\ failures = 0 => \A l \in leases : Active(l) => l \in granted

(* Every chained task's run settles, unless the process dies. *)
EveryRunSettles ==
    \A t \in Task : (promise[t] = "pending") ~> (promise[t] \in Settled \/ ~up)

(* "Ensures that only one task runs per profile at a time": the queue is a     *)
(* first-come first-served mutual exclusion.                                   *)
PhaseOf(p) ==
    CASE p = "none" -> "idle"
      [] p = "pending" -> "waiting"
      [] p = "working" -> "holding"
      [] p \in {"resolved", "rejected"} -> "done"
      [] OTHER -> "gone"

Mutex == INSTANCE FifoMutex WITH
            Client <- Task,
            phase <- [t \in Task |-> PhaseOf(promise[t])],
            ticket <- [t \in Task |-> IF promise[t] = "none" THEN 0 ELSE t]

ImplementsFifoMutex == Mutex!Spec

(* load(): "Reset running jobs to failed on restart": after a restart no task   *)
(* that it interrupted counts as running.                                      *)
InterruptedTasksAreReset == [][~up /\ up' => depth'.running = 0]_vars

(* enqueue() refuses a task with "Queue ... is at max pending capacity": then   *)
(* MaxPending tasks are pending, waiting or at work.                           *)
RefusedOnlyWhenFull ==
    [][\A t \in Task :
          promise[t] = "none" /\ promise'[t] = "refused" => Are(Live) >= MaxPending]_vars
==============================================================================
