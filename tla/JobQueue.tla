------------------------------ MODULE JobQueue ------------------------------
(***************************************************************************)
(* providers/gpt-web-api/lib/job_queue.mjs: the in-process worker queue of  *)
(* the gateway.  Jobs are chained on one promise tail, every change of a     *)
(* job's status rewrites the whole of data/jobs.json with a synchronous,     *)
(* non-atomic write, and the constructor reloads that file.                  *)
(*                                                                           *)
(* A handler runs to completion on the event loop, so each is one action;    *)
(* its persist() may throw (no space, no permission) or be cut short by a    *)
(* crash, and each way out is an action of its own.                          *)
(***************************************************************************)
EXTENDS Naturals, FiniteSets

CONSTANTS
    Job,            \* the ids enqueue() may create, each used once
    MaxJobs,        \* maxJobs: how many records prune() keeps
    MaxFaults,      \* bound: crashes and failed writes in one behaviour
    None

ASSUME MaxJobsAssumption == MaxJobs \in Nat \ {0}
ASSUME JobAssumption == IsFiniteSet(Job) /\ None \notin Job

VARIABLES
    up,             \* the process is running
    table,          \* this.jobs: the status of each record, "none" when absent
    promise,        \* what became of each job's run, see Promise
    prev, tail,     \* the promise each run awaits, and this.tail
    ticket, issued, \* insertion order of this.jobs, over all incarnations
    file, saved,    \* jobs.json: its condition, and the records it holds
    seen,           \* the last status a client read with GET /v1/jobs/:id
    faults

vars == <<up, table, promise, prev, tail, ticket, issued, file, saved, seen, faults>>

Status == {"none", "queued", "running", "succeeded", "failed"}
Terminal == {"succeeded", "failed"}

(* "none": not enqueued yet; "refused": enqueue() threw; "stillborn": rejected *)
(* by the persist() that precedes the try, work() never called; "lost": the    *)
(* process died first.                                                         *)
Promise == {"none", "refused", "pending", "working",
            "resolved", "rejected", "stillborn", "lost"}
Settled == {"resolved", "rejected", "stillborn"}
Live == {"pending", "working"}

Empty == [j \in Job |-> "none"]

TypeOK ==
    /\ up \in BOOLEAN
    /\ table \in [Job -> Status]
    /\ promise \in [Job -> Promise]
    /\ prev \in [Job -> Job \cup {None}]
    /\ tail \in Job \cup {None}
    /\ ticket \in [Job -> Nat]
    /\ issued \in Nat
    /\ file \in {"absent", "whole", "torn"}
    /\ saved \in [Job -> Status]
    /\ seen \in [Job -> Status \cup {"unasked"}]
    /\ faults \in Nat

Init ==
    /\ up = TRUE
    /\ table = Empty
    /\ promise = [j \in Job |-> "none"]
    /\ prev = [j \in Job |-> None]
    /\ tail = None
    /\ ticket = [j \in Job |-> 0]
    /\ issued = 0
    /\ file = "absent"
    /\ saved = Empty
    /\ seen = [j \in Job |-> "unasked"]
    /\ faults = 0

------------------------------------------------------------------------------
(* persist(), prune() and a job's status                                       *)

Persist(t) == file' = "whole" /\ saved' = t

(* writeFileSync truncates before it writes: a failure that comes first leaves *)
(* the old file, a later one leaves a file JSON.parse rejects.                 *)
Tear == file' = "torn" /\ saved' = Empty
PersistThrows == UNCHANGED <<file, saved>> \/ Tear

Fault(n) ==
    /\ faults + n <= MaxFaults
    /\ faults' = faults + n

(* Mutant of Kept: the loop of prune() runs once too often. *)
KeptTooFew(t, order) ==
    [j \in Job |->
        IF t[j] # "none"
           /\ Cardinality({k \in Job : t[k] # "none" /\ order[k] > order[j]}) + 1 < MaxJobs
        THEN t[j] ELSE "none"]

(* prune() drops the oldest records, whatever their status. *)
Kept(t, order) ==
    [j \in Job |->
        IF t[j] # "none"
           /\ Cardinality({k \in Job : t[k] # "none" /\ order[k] > order[j]}) < MaxJobs
        THEN t[j] ELSE "none"]

(* A run keeps its job object, which the Map may have dropped meanwhile. *)
WithStatus(j, s) == IF table[j] = "none" THEN table ELSE [table EXCEPT ![j] = s]

(* Mutants of Reloaded: the error's name goes into the status; the test of the  *)
(* status is missing.                                                          *)
ReloadedByName(s) == IF s \in {"queued", "running"} THEN "interrupted" ELSE s
ReloadedAll(s) == IF s = "none" THEN "none" ELSE "failed"

(* load(): what was in progress is marked with an InterruptedJobError. *)
Reloaded(s) == IF s \in {"queued", "running"} THEN "failed" ELSE s

------------------------------------------------------------------------------
(* enqueue()                                                                   *)

Insert(j) ==
    /\ up
    /\ promise[j] = "none"
    /\ issued' = issued + 1
    /\ ticket' = [ticket EXCEPT ![j] = issued + 1]
    /\ table' = Kept([table EXCEPT ![j] = "queued"], ticket')
    /\ UNCHANGED <<up, seen>>

(* Mutant of Enqueue: this.tail is not moved to the new run. *)
EnqueueTailKept(j) ==
    /\ Insert(j)
    /\ Persist(table')
    /\ promise' = [promise EXCEPT ![j] = "pending"]
    /\ prev' = [prev EXCEPT ![j] = tail]
    /\ UNCHANGED <<tail, faults>>

Enqueue(j) ==
    /\ Insert(j)
    /\ Persist(table')
    /\ promise' = [promise EXCEPT ![j] = "pending"]
    /\ prev' = [prev EXCEPT ![j] = tail]
    /\ tail' = j
    /\ UNCHANGED faults

(* The record is in the Map when prune()'s persist() or the next one throws:   *)
(* no run is ever chained for it.                                              *)
EnqueueThrows(j) ==
    /\ Insert(j)
    /\ Fault(1)
    /\ PersistThrows \/ Persist(table')
    /\ promise' = [promise EXCEPT ![j] = "refused"]
    /\ UNCHANGED <<prev, tail>>

------------------------------------------------------------------------------
(* the async function chained on the tail                                      *)

(* Mutants of TurnOf: the run is not chained on the tail; the tail is chained   *)
(* on without its catch().                                                     *)
TurnOfUnchained(j) == up /\ promise[j] = "pending"

TurnOfUncaught(j) ==
    /\ up
    /\ promise[j] = "pending"
    /\ prev[j] # None => promise[prev[j]] = "resolved"

TurnOf(j) ==
    /\ up
    /\ promise[j] = "pending"
    /\ prev[j] # None => promise[prev[j]] \in Settled

Moves(j, s, p) ==
    /\ table' = WithStatus(j, s)
    /\ promise' = [promise EXCEPT ![j] = p]
    /\ UNCHANGED <<up, prev, tail, ticket, issued, seen>>

StartRun(j) ==
    /\ TurnOf(j)
    /\ Moves(j, "running", "working")
    /\ Persist(table')
    /\ UNCHANGED faults

(* This persist() stands before the try: the run rejects, work() is not called *)
(* and the record says "running" from now on.                                  *)
StartThrows(j) ==
    /\ TurnOf(j)
    /\ Fault(1)
    /\ Moves(j, "running", "stillborn")
    /\ PersistThrows

Working(j) == up /\ promise[j] = "working"

(* Mutant of WorkSucceeds: no persist() after work(). *)
WorkSucceedsUnsaved(j) ==
    /\ Working(j)
    /\ Moves(j, "succeeded", "resolved")
    /\ UNCHANGED <<file, saved, faults>>

WorkSucceeds(j) ==
    /\ Working(j)
    /\ Moves(j, "succeeded", "resolved")
    /\ Persist(table')
    /\ UNCHANGED faults

(* The persist() after work() throws into the catch, which turns the success   *)
(* into a failure and persists again.                                          *)
SuccessThrows(j) ==
    /\ Working(j)
    /\ Moves(j, "failed", "rejected")
    /\ \/ Fault(1) /\ Persist(table')
       \/ Fault(2) /\ PersistThrows

WorkFails(j) ==
    /\ Working(j)
    /\ Moves(j, "failed", "rejected")
    /\ \/ Persist(table') /\ UNCHANGED faults
       \/ Fault(1) /\ PersistThrows

------------------------------------------------------------------------------
(* crash, restart and polling                                                  *)

(* A crash that falls inside a handler's write leaves the file torn. *)
WriteImminent == \E j \in Job : promise[j] = "none" \/ TurnOf(j) \/ Working(j)

Crash ==
    /\ up
    /\ Fault(1)
    /\ up' = FALSE
    /\ UNCHANGED <<file, saved>> \/ (WriteImminent /\ Tear)
    /\ table' = Empty
    /\ promise' = [j \in Job |-> IF promise[j] \in Live THEN "lost" ELSE promise[j]]
    /\ tail' = None
    /\ UNCHANGED <<prev, ticket, issued, seen>>

(* load() reads, without writing back.  A torn file makes the constructor      *)
(* throw and the process exits: no action restarts it.                         *)
Restart ==
    /\ ~up
    /\ file # "torn"
    /\ up' = TRUE
    /\ table' = [j \in Job |-> Reloaded(saved[j])]
    /\ UNCHANGED <<promise, prev, tail, ticket, issued, file, saved, seen, faults>>

Acked(j) == promise[j] \notin {"none", "refused"}

(* GET /v1/jobs/:id, by a client that got the id ("none" stands for the 404). *)
Poll(j) ==
    /\ up
    /\ Acked(j)
    /\ seen' = [seen EXCEPT ![j] = table[j]]
    /\ UNCHANGED <<up, table, promise, prev, tail, ticket, issued, file, saved, faults>>

Start(j) == StartRun(j) \/ StartThrows(j)
Settle(j) == WorkSucceeds(j) \/ SuccessThrows(j) \/ WorkFails(j)

Next ==
    \/ \E j \in Job :
          \/ Enqueue(j)
          \/ EnqueueThrows(j)
          \/ StartRun(j)
          \/ StartThrows(j)
          \/ WorkSucceeds(j)
          \/ SuccessThrows(j)
          \/ WorkFails(j)
          \/ Poll(j)
    \/ Crash
    \/ Restart

(* The event loop runs a chained continuation, and every work() the gateway    *)
(* enqueues for chat and images settles, because withTimeout races it.         *)
Fairness == \A j \in Job : WF_vars(Start(j)) /\ WF_vars(Settle(j))

Spec == Init /\ [][Next]_vars /\ Fairness

------------------------------------------------------------------------------
(* Correctness                                                                 *)

(* README "Requests are serialized through one in-process worker queue": when  *)
(* a job is being worked on, no job enqueued before it is still waiting or     *)
(* worked on, over failed writes, evictions and restarts.                      *)
SerialFifo ==
    \A j, k \in Job :
        promise[j] = "working" /\ ticket[k] < ticket[j] => promise[k] \notin Live

(* What the table says of a finished job is what a restart from the file would *)
(* say of it.                                                                  *)
OutcomeSurvivesRestart ==
    up /\ file = "whole" =>
        \A j \in Job : table[j] \in Terminal => Reloaded(saved[j]) = table[j]

(* An acknowledged job leaves the table only because MaxJobs newer ones came:  *)
(* no failed write and no restart loses it earlier.                            *)
LostOnlyToNewer ==
    \A j \in Job :
        up /\ Acked(j) /\ table[j] = "none" =>
            Cardinality({k \in Job : ticket[k] > ticket[j]}) >= MaxJobs

(* A client that read an outcome never reads another one: it reads the same or *)
(* a 404, whatever crashes and failed writes come between the two reads.       *)
OutcomeNeverReversed ==
    [][\A j \in Job : seen[j] \in Terminal => seen'[j] \in {seen[j], "none"}]_vars

(* Every acknowledged job's run settles, unless the process dies. *)
EveryRunSettles ==
    \A j \in Job : (promise[j] = "pending") ~> (promise[j] \in Settled \/ ~up)

(* The queue is a first-come first-served mutual exclusion. *)
PhaseOf(p) ==
    CASE p = "none" -> "idle"
      [] p = "pending" -> "waiting"
      [] p = "working" -> "holding"
      [] p \in {"resolved", "rejected"} -> "done"
      [] OTHER -> "gone"

Mutex == INSTANCE FifoMutex WITH
            Client <- Job, phase <- [j \in Job |-> PhaseOf(promise[j])]

ImplementsFifoMutex == Mutex!Spec
==============================================================================
