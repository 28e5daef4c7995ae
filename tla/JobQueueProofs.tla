--------------------------- MODULE JobQueueProofs ---------------------------
(***************************************************************************)
(* Theorems about JobQueue, for every set of jobs, table size and number of  *)
(* faults.                                                                   *)
(***************************************************************************)
EXTENDS JobQueue, FiniteSetTheorems, TLAPS

------------------------------------------------------------------------------
(* Type correctness                                                            *)

LEMMA KeptType ==
    ASSUME NEW t \in [Job -> Status], NEW order
    PROVE  Kept(t, order) \in [Job -> Status]
BY DEF Kept, Status

LEMMA WithStatusType ==
    ASSUME TypeOK, NEW j \in Job, NEW s \in Status
    PROVE  WithStatus(j, s) \in [Job -> Status]
BY DEF WithStatus, TypeOK

(* What jobs.json holds after a write that did or did not go through. *)
LEMMA WriteType ==
    ASSUME TypeOK, NEW t \in [Job -> Status], PersistThrows \/ Persist(t)
    PROVE  file' \in {"absent", "whole", "torn"} /\ saved' \in [Job -> Status]
BY DEF TypeOK, PersistThrows, Persist, Tear, Empty, Status

LEMMA FaultType ==
    ASSUME TypeOK, NEW n \in Nat, Fault(n)
    PROVE  faults' \in Nat
BY DEF TypeOK, Fault

LEMMA InsertType ==
    ASSUME TypeOK, NEW j \in Job, Insert(j)
    PROVE  /\ up' \in BOOLEAN
           /\ table' \in [Job -> Status]
           /\ ticket' \in [Job -> Nat]
           /\ issued' \in Nat
           /\ seen' \in [Job -> Status \cup {"unasked"}]
<1>1. [table EXCEPT ![j] = "queued"] \in [Job -> Status]
  BY DEF TypeOK, Status
<1>2. table' \in [Job -> Status]
  BY <1>1, KeptType DEF Insert
<1>3. issued' \in Nat /\ ticket' \in [Job -> Nat]
  BY DEF TypeOK, Insert
<1>4. up' \in BOOLEAN /\ seen' \in [Job -> Status \cup {"unasked"}]
  BY DEF TypeOK, Insert
<1>. QED
  BY <1>2, <1>3, <1>4

LEMMA MovesType ==
    ASSUME TypeOK, NEW j \in Job, NEW s \in Status, NEW p \in Promise, Moves(j, s, p)
    PROVE  /\ up' \in BOOLEAN
           /\ table' \in [Job -> Status]
           /\ promise' \in [Job -> Promise]
           /\ prev' \in [Job -> Job \cup {None}]
           /\ tail' \in Job \cup {None}
           /\ ticket' \in [Job -> Nat]
           /\ issued' \in Nat
           /\ seen' \in [Job -> Status \cup {"unasked"}]
<1>1. table' \in [Job -> Status]
  BY WithStatusType DEF Moves
<1>. QED
  BY <1>1 DEF TypeOK, Moves

LEMMA TypeStep == TypeOK /\ [Next]_vars => TypeOK'
<1> SUFFICES ASSUME TypeOK, [Next]_vars PROVE TypeOK'
  OBVIOUS
<1>1. ASSUME NEW j \in Job, Enqueue(j) PROVE TypeOK'
  <2>1. Insert(j) /\ Persist(table') BY <1>1 DEF Enqueue
  <2>2. table' \in [Job -> Status] BY <2>1, InsertType
  <2>3. file' \in {"absent", "whole", "torn"} /\ saved' \in [Job -> Status]
    BY <2>1, <2>2, WriteType
  <2>. QED BY <1>1, <2>1, <2>3, InsertType DEF TypeOK, Enqueue, Promise
<1>2. ASSUME NEW j \in Job, EnqueueThrows(j) PROVE TypeOK'
  <2>1. Insert(j) /\ Fault(1) /\ (PersistThrows \/ Persist(table'))
    BY <1>2 DEF EnqueueThrows
  <2>2. table' \in [Job -> Status] BY <2>1, InsertType
  <2>3. file' \in {"absent", "whole", "torn"} /\ saved' \in [Job -> Status]
    BY <2>1, <2>2, WriteType
  <2>4. faults' \in Nat BY <2>1, FaultType
  <2>. QED BY <1>2, <2>1, <2>3, <2>4, InsertType DEF TypeOK, EnqueueThrows, Promise
<1>3. ASSUME NEW j \in Job,
             StartRun(j) \/ StartThrows(j) \/ WorkSucceeds(j) \/ SuccessThrows(j) \/ WorkFails(j)
      PROVE TypeOK'
  <2>1. PICK s \in Status, p \in Promise : Moves(j, s, p)
    BY <1>3 DEF StartRun, StartThrows, WorkSucceeds, SuccessThrows, WorkFails, Status, Promise
  <2>2. table' \in [Job -> Status] BY <2>1, MovesType
  <2>3. file' \in {"absent", "whole", "torn"} /\ saved' \in [Job -> Status]
    <3>1. PersistThrows \/ Persist(table')
      BY <1>3 DEF StartRun, StartThrows, WorkSucceeds, SuccessThrows, WorkFails
    <3>. QED BY <3>1, <2>2, WriteType
  <2>4. faults' \in Nat
    <3>1. faults' = faults \/ Fault(1) \/ Fault(2)
      BY <1>3 DEF StartRun, StartThrows, WorkSucceeds, SuccessThrows, WorkFails
    <3>. QED BY <3>1, FaultType DEF TypeOK
  <2>. QED BY <2>1, <2>3, <2>4, MovesType DEF TypeOK
<1>4. ASSUME NEW j \in Job, Poll(j) PROVE TypeOK'
  BY <1>4 DEF TypeOK, Poll
<1>5. CASE Crash
  <2>1. faults' \in Nat BY <1>5, FaultType DEF Crash
  <2>2. Empty \in [Job -> Status] BY DEF Empty, Status
  <2>3. file' \in {"absent", "whole", "torn"} /\ saved' \in [Job -> Status]
    BY <1>5, <2>2 DEF Crash, TypeOK, Tear
  <2>. QED BY <1>5, <2>1, <2>2, <2>3 DEF TypeOK, Crash, Promise
<1>6. CASE Restart
  BY <1>6 DEF TypeOK, Restart, Reloaded, Status
<1>7. CASE UNCHANGED vars
  BY <1>7 DEF TypeOK, vars
<1>. QED BY <1>1, <1>2, <1>3, <1>4, <1>5, <1>6, <1>7 DEF Next

(* Every variable keeps its type: the statuses in the table, in the file and   *)
(* in the clients' hands are those of the job record.                          *)
THEOREM TypeCorrect == Spec => []TypeOK
<1>1. Init => TypeOK
  BY DEF Init, TypeOK, Empty, Status, Promise
<1>. QED BY <1>1, TypeStep, PTL DEF Spec

------------------------------------------------------------------------------
(* Serial service.  SerialFifo alone is not inductive: that nobody earlier is  *)
(* in line when a run starts follows from the run it awaits being settled, the *)
(* chain having no gap, and the tail being its last link.                      *)

Chained == Live \cup Settled

(* Tickets number the jobs in the order of their enqueue(). *)
TicketsInv ==
    \A j \in Job :
        /\ ticket[j] <= issued
        /\ promise[j] = "none" <=> ticket[j] = 0
        /\ \A k \in Job : ticket[j] = ticket[k] /\ ticket[j] # 0 => j = k

(* this.tail is the last run that was chained, if any is left in line. *)
TailInv ==
    /\ tail = None => \A k \in Job : promise[k] \notin Live
    /\ tail # None =>
        /\ promise[tail] \in Chained
        /\ \A k \in Job : promise[k] \in Live => ticket[k] <= ticket[tail]

(* Every run in line awaits the one before it: nobody is in between. *)
ChainInv ==
    \A j \in Job : promise[j] \in Live =>
        /\ prev[j] = None =>
            \A k \in Job : promise[k] \in Live => ticket[j] <= ticket[k]
        /\ prev[j] # None =>
            /\ promise[prev[j]] \in Chained
            /\ \A k \in Job :
                  promise[k] \in Live /\ ticket[k] < ticket[j] => ticket[k] <= ticket[prev[j]]

(* Once a run has started, nobody enqueued before it is in line. *)
StartedInv ==
    \A j, k \in Job :
        promise[j] \in {"working"} \cup Settled /\ ticket[k] < ticket[j]
        => promise[k] \notin Live

SerialInv == TypeOK /\ TicketsInv /\ TailInv /\ ChainInv /\ StartedInv


USE DEF Live, Settled, Chained

(* The arrival of a job, admitted or refused, at the end of the order. *)
Arrives(j, p) ==
    /\ promise[j] = "none" /\ promise'[j] = p
    /\ \A k \in Job \ {j} : ticket'[k] = ticket[k] /\ promise'[k] = promise[k]
    /\ \A k \in Job : ticket[k] \in Nat /\ ticket[k] < ticket'[j]
    /\ ticket'[j] \in Nat

LEMMA InsertSerial ==
    ASSUME SerialInv, NEW j \in Job, Insert(j), NEW p \in {"pending", "refused"},
           promise' = [promise EXCEPT ![j] = p]
    PROVE  TicketsInv' /\ Arrives(j, p)
<1>1. /\ promise[j] = "none" /\ promise'[j] = p
      /\ ticket'[j] = issued' /\ issued' = issued + 1
      /\ \A k \in Job \ {j} : ticket'[k] = ticket[k] /\ promise'[k] = promise[k]
  BY DEF SerialInv, TypeOK, Insert
<1>2. /\ \A k \in Job : ticket[k] <= issued /\ ticket[k] \in Nat
      /\ issued \in Nat
  BY DEF SerialInv, TypeOK, TicketsInv
<1>3. TicketsInv'
  BY <1>1, <1>2 DEF SerialInv, TicketsInv
<1>. QED BY <1>1, <1>2, <1>3 DEF Arrives

LEMMA EnqueueSerial ==
    ASSUME SerialInv, NEW j \in Job, Enqueue(j)
    PROVE  TicketsInv' /\ TailInv' /\ ChainInv' /\ StartedInv'
<1>1. TicketsInv' /\ Arrives(j, "pending")
  BY InsertSerial DEF Enqueue
<1>2. /\ tail' = j /\ prev'[j] = tail
      /\ \A k \in Job \ {j} : prev'[k] = prev[k]
      /\ \A k \in Job : prev[k] \in Job \cup {None}
      /\ tail \in Job \cup {None} /\ j # None
  BY JobAssumption DEF Enqueue, SerialInv, TypeOK
<1>3. TailInv'
  BY <1>1, <1>2 DEF TailInv, Arrives
<1>4. ASSUME NEW i \in Job, promise'[i] \in Live
      PROVE  /\ prev'[i] = None =>
                  \A k \in Job : promise'[k] \in Live => ticket'[i] <= ticket'[k]
             /\ prev'[i] # None =>
                  /\ promise'[prev'[i]] \in Chained
                  /\ \A k \in Job : promise'[k] \in Live /\ ticket'[k] < ticket'[i]
                                    => ticket'[k] <= ticket'[prev'[i]]
  <2>1. CASE i = j
    BY <1>1, <1>2, <2>1 DEF SerialInv, TailInv, Arrives
  <2>2. CASE i # j
    <3>1. prev'[i] = prev[i] /\ promise[i] \in Live /\ ticket'[i] = ticket[i]
      BY <1>1, <1>2, <1>4, <2>2 DEF Arrives
    <3>2. ticket'[j] > ticket'[i]
      BY <1>1, <2>2 DEF Arrives
    <3>3. CASE prev[i] = None
      BY <1>1, <3>1, <3>2, <3>3 DEF SerialInv, ChainInv, Arrives
    <3>4. CASE prev[i] # None
      <4>1. promise[prev[i]] \in Chained /\ prev[i] \in Job
        BY <1>2, <3>1, <3>4 DEF SerialInv, ChainInv
      <4>2. prev[i] # j
        BY <1>1, <4>1 DEF Arrives
      <4>. QED BY <1>1, <3>1, <3>2, <3>4, <4>1, <4>2 DEF SerialInv, ChainInv, Arrives
    <3>. QED BY <3>3, <3>4
  <2>. QED BY <2>1, <2>2
<1>5. ChainInv'
  BY <1>4 DEF ChainInv
<1>6. StartedInv'
  BY <1>1 DEF SerialInv, StartedInv, Arrives
<1>. QED BY <1>1, <1>3, <1>5, <1>6

LEMMA EnqueueThrowsSerial ==
    ASSUME SerialInv, NEW j \in Job, EnqueueThrows(j)
    PROVE  TicketsInv' /\ TailInv' /\ ChainInv' /\ StartedInv'
<1>1. TicketsInv' /\ Arrives(j, "refused")
  BY InsertSerial DEF EnqueueThrows
<1>2. /\ tail' = tail /\ prev' = prev
      /\ \A k \in Job : prev[k] \in Job \cup {None}
      /\ tail \in Job \cup {None}
  BY DEF EnqueueThrows, SerialInv, TypeOK
<1>3. TailInv'
  BY <1>1, <1>2 DEF SerialInv, TailInv, Arrives
<1>4. ChainInv'
  <2> SUFFICES ASSUME NEW i \in Job, promise'[i] \in Live
               PROVE  /\ prev[i] = None =>
                          \A k \in Job : promise'[k] \in Live => ticket'[i] <= ticket'[k]
                      /\ prev[i] # None =>
                          /\ promise'[prev[i]] \in Chained
                          /\ \A k \in Job : promise'[k] \in Live /\ ticket'[k] < ticket'[i]
                                            => ticket'[k] <= ticket'[prev[i]]
    BY <1>2 DEF ChainInv
  <2>1. i # j /\ promise[i] \in Live
    BY <1>1 DEF Arrives
  <2>2. ASSUME prev[i] # None PROVE prev[i] \in Job \ {j} /\ promise[prev[i]] \in Chained
    BY <1>1, <1>2, <2>1, <2>2 DEF SerialInv, ChainInv, Arrives
  <2>. QED BY <1>1, <2>1, <2>2 DEF SerialInv, ChainInv, Arrives
<1>5. StartedInv'
  BY <1>1 DEF SerialInv, StartedInv, Arrives
<1>. QED BY <1>1, <1>3, <1>4, <1>5

(* A run moves on along the chain: the order and the links stay as they are. *)
LEMMA MovesSerial ==
    ASSUME SerialInv, NEW j \in Job, NEW s, NEW p \in {"working"} \cup Settled,
           Moves(j, s, p), promise[j] \in Live,
           \A k \in Job : ticket[k] < ticket[j] => promise[k] \notin Live
    PROVE  TicketsInv' /\ TailInv' /\ ChainInv' /\ StartedInv'
<1>1. /\ promise'[j] = p
      /\ \A k \in Job \ {j} : promise'[k] = promise[k]
      /\ UNCHANGED <<prev, tail, ticket, issued>>
      /\ p \in Chained
  BY DEF Moves, SerialInv, TypeOK
<1>2. /\ \A k \in Job : prev[k] \in Job \cup {None}
      /\ tail \in Job \cup {None}
  BY DEF SerialInv, TypeOK
<1>3. TicketsInv'
  BY <1>1 DEF SerialInv, TicketsInv
<1>4. TailInv'
  BY <1>1, <1>2 DEF SerialInv, TailInv
<1>5. ChainInv'
  <2> SUFFICES ASSUME NEW i \in Job, promise'[i] \in Live
               PROVE  /\ prev[i] = None =>
                          \A k \in Job : promise'[k] \in Live => ticket[i] <= ticket[k]
                      /\ prev[i] # None =>
                          /\ promise'[prev[i]] \in Chained
                          /\ \A k \in Job : promise'[k] \in Live /\ ticket[k] < ticket[i]
                                            => ticket[k] <= ticket[prev[i]]
    BY <1>1 DEF ChainInv
  <2>1. \A k \in Job : promise'[k] \in Live => promise[k] \in Live
    BY <1>1
  <2>. QED BY <1>1, <1>2, <2>1 DEF SerialInv, ChainInv
<1>6. StartedInv'
  BY <1>1 DEF SerialInv, StartedInv
<1>. QED BY <1>3, <1>4, <1>5, <1>6

(* The run whose turn it is has nobody before it in line. *)
LEMMA TurnIsFirst ==
    ASSUME SerialInv, NEW j \in Job, TurnOf(j)
    PROVE  \A k \in Job : ticket[k] < ticket[j] => promise[k] \notin Live
<1>1. promise[j] \in Live /\ prev[j] \in Job \cup {None}
      /\ \A k \in Job : ticket[k] \in Nat
  BY DEF TurnOf, SerialInv, TypeOK
<1>2. CASE prev[j] = None
  BY <1>1, <1>2 DEF SerialInv, ChainInv
<1>3. CASE prev[j] # None
  <2>1. prev[j] \in Job /\ promise[prev[j]] \in Settled
    BY <1>1, <1>3 DEF TurnOf
  <2> SUFFICES ASSUME NEW k \in Job, ticket[k] < ticket[j], promise[k] \in Live
               PROVE  FALSE
    OBVIOUS
  <2>2. ticket[k] <= ticket[prev[j]]
    BY <1>1, <1>3 DEF SerialInv, ChainInv
  <2>3. ticket[k] # ticket[prev[j]]
    BY <2>1 DEF SerialInv, TicketsInv
  <2>. QED BY <1>1, <2>1, <2>2, <2>3 DEF SerialInv, StartedInv
<1>. QED BY <1>1, <1>2, <1>3

LEMMA SerialStep == SerialInv /\ [Next]_vars => SerialInv'
<1> SUFFICES ASSUME SerialInv, [Next]_vars PROVE SerialInv'
  OBVIOUS
<1>1. TypeOK'
  BY TypeStep DEF SerialInv
<1>2. TicketsInv' /\ TailInv' /\ ChainInv' /\ StartedInv'
  <2>1. ASSUME NEW j \in Job, Enqueue(j) \/ EnqueueThrows(j)
        PROVE  TicketsInv' /\ TailInv' /\ ChainInv' /\ StartedInv'
    BY <2>1, EnqueueSerial, EnqueueThrowsSerial
  <2>2. ASSUME NEW j \in Job, StartRun(j) \/ StartThrows(j)
        PROVE  TicketsInv' /\ TailInv' /\ ChainInv' /\ StartedInv'
    <3>1. TurnOf(j) /\ promise[j] \in Live
      BY <2>2 DEF StartRun, StartThrows, TurnOf
    <3>2. Moves(j, "running", "working") \/ Moves(j, "running", "stillborn")
      BY <2>2 DEF StartRun, StartThrows
    <3>. QED BY <3>1, <3>2, TurnIsFirst, MovesSerial
  <2>3. ASSUME NEW j \in Job, WorkSucceeds(j) \/ SuccessThrows(j) \/ WorkFails(j)
        PROVE  TicketsInv' /\ TailInv' /\ ChainInv' /\ StartedInv'
    <3>1. promise[j] = "working"
      BY <2>3 DEF WorkSucceeds, SuccessThrows, WorkFails, Working
    <3>2. Moves(j, "succeeded", "resolved") \/ Moves(j, "failed", "rejected")
      BY <2>3 DEF WorkSucceeds, SuccessThrows, WorkFails
    <3>3. \A k \in Job : ticket[k] < ticket[j] => promise[k] \notin Live
      BY <3>1 DEF SerialInv, StartedInv
    <3>. QED BY <3>1, <3>2, <3>3, MovesSerial
  <2>4. CASE Crash
    <3>1. /\ tail' = None /\ UNCHANGED <<prev, ticket, issued>>
          /\ \A k \in Job :
                /\ promise'[k] \notin Live
                /\ promise'[k] = "none" <=> promise[k] = "none"
                /\ promise'[k] \in Settled => promise[k] \in Settled
      BY <2>4 DEF Crash, SerialInv, TypeOK
    <3>. QED BY <3>1 DEF SerialInv, TicketsInv, TailInv, ChainInv, StartedInv
  <2>5. ASSUME UNCHANGED <<promise, prev, tail, ticket, issued>>
        PROVE  TicketsInv' /\ TailInv' /\ ChainInv' /\ StartedInv'
    BY <2>5 DEF SerialInv, TicketsInv, TailInv, ChainInv, StartedInv
  <2>6. ASSUME NEW j \in Job, Poll(j)
        PROVE  UNCHANGED <<promise, prev, tail, ticket, issued>>
    BY <2>6 DEF Poll
  <2>7. CASE Restart
    BY <2>5, <2>7 DEF Restart
  <2>8. CASE UNCHANGED vars
    BY <2>5, <2>8 DEF vars
  <2>. QED BY <2>1, <2>2, <2>3, <2>4, <2>5, <2>6, <2>7, <2>8 DEF Next
<1>. QED BY <1>1, <1>2 DEF SerialInv

(* README "Requests are serialized through one in-process worker queue", for   *)
(* any number of jobs, evictions, failed writes, crashes and restarts.         *)
THEOREM Serial == Spec => []SerialFifo
<1>1. Init => SerialInv
  BY DEF Init, SerialInv, TypeOK, TicketsInv, TailInv, ChainInv, StartedInv,
         Empty, Status, Promise
<1>2. SerialInv => SerialFifo
  BY DEF SerialInv, StartedInv, SerialFifo
<1>. QED BY <1>1, <1>2, SerialStep, PTL DEF Spec

------------------------------------------------------------------------------
(* Outcomes.  What a restart makes of the file agrees with the table about     *)
(* every finished job: a run in progress is on file as "running", so that      *)
(* neither of its two last writes has to go through for its failure to be      *)
(* found again, and a success is only left in the table once it is on file.    *)

RecordInv ==
    \A j \in Job :
        /\ promise[j] = "pending" => table[j] \in {"none", "queued"}
        /\ promise[j] = "working" =>
            /\ table[j] \in {"none", "running"}
            /\ table[j] = "running" /\ file = "whole" => saved[j] = "running"
        /\ table[j] \in Terminal /\ file = "whole" => Reloaded(saved[j]) = table[j]

(* What a client has read is over, and neither the table nor the file tells    *)
(* another story.                                                              *)
SeenInv ==
    \A j \in Job : seen[j] \in Terminal =>
        /\ promise[j] \notin Live \cup {"none"}
        /\ table[j] \in {seen[j], "none"}
        /\ Reloaded(saved[j]) \in {seen[j], "none"}

FileInv == file # "whole" => saved = Empty

DownInv == ~up => \A j \in Job : promise[j] \notin Live

OutcomeInv == TypeOK /\ DownInv /\ RecordInv /\ SeenInv /\ FileInv


LEMMA InsertRecords ==
    ASSUME TypeOK, NEW j \in Job, Insert(j)
    PROVE  /\ promise[j] = "none"
           /\ table'[j] \in {"queued", "none"}
           /\ \A k \in Job \ {j} : table'[k] \in {table[k], "none"}
           /\ seen' = seen
BY DEF TypeOK, Insert, Kept

LEMMA MovesRecords ==
    ASSUME TypeOK, NEW j \in Job, NEW s, NEW p, Moves(j, s, p)
    PROVE  /\ promise'[j] = p
           /\ table'[j] = IF table[j] = "none" THEN "none" ELSE s
           /\ \A k \in Job \ {j} : promise'[k] = promise[k] /\ table'[k] = table[k]
           /\ seen' = seen
BY DEF TypeOK, Moves, WithStatus

(* A write goes through, leaves the file, or tears it. *)
Written == file' = "whole" /\ saved' = table'
Unwritten == UNCHANGED <<file, saved>> \/ (file' = "torn" /\ saved' = Empty)

LEMMA Writes ==
    /\ Persist(table') => Written
    /\ PersistThrows => Unwritten
BY DEF Persist, PersistThrows, Tear, Written, Unwritten

LEMMA InsertOutcome ==
    ASSUME OutcomeInv, NEW j \in Job, Insert(j), NEW p \in {"pending", "refused"},
           promise' = [promise EXCEPT ![j] = p], Written \/ Unwritten
    PROVE  RecordInv' /\ SeenInv' /\ FileInv'
<1>1. /\ promise'[j] = p /\ promise[j] = "none"
      /\ table'[j] \in {"queued", "none"}
      /\ \A k \in Job \ {j} : promise'[k] = promise[k] /\ table'[k] \in {table[k], "none"}
      /\ seen' = seen
  BY InsertRecords DEF OutcomeInv, TypeOK
<1>2. \A k \in Job : Empty[k] = "none"
  BY DEF Empty
<1>3. RecordInv'
  BY <1>1, <1>2 DEF OutcomeInv, RecordInv, Written, Unwritten, Terminal, Reloaded
<1>4. SeenInv'
  BY <1>1, <1>2 DEF OutcomeInv, SeenInv, Written, Unwritten, Terminal, Reloaded
<1>5. FileInv'
  BY DEF OutcomeInv, FileInv, Written, Unwritten
<1>. QED BY <1>3, <1>4, <1>5

(* A run moves from a to s: it is not lost what the file says of it.  A move   *)
(* to "succeeded" is written.                                                  *)
LEMMA MovesOutcome ==
    ASSUME OutcomeInv, NEW j \in Job, NEW s, NEW p, Moves(j, s, p),
           \/ promise[j] = "pending" /\ s = "running" /\ p = "working" /\ Written
           \/ promise[j] = "pending" /\ s = "running" /\ p = "stillborn" /\ Unwritten
           \/ promise[j] = "working" /\ s = "succeeded" /\ p = "resolved" /\ Written
           \/ /\ promise[j] = "working" /\ s = "failed" /\ p = "rejected"
              /\ Written \/ Unwritten
    PROVE  RecordInv' /\ SeenInv' /\ FileInv'
<1>1. /\ promise'[j] = p
      /\ table'[j] = IF table[j] = "none" THEN "none" ELSE s
      /\ \A k \in Job \ {j} : promise'[k] = promise[k] /\ table'[k] = table[k]
      /\ seen' = seen
  BY MovesRecords DEF OutcomeInv
<1>2. \A k \in Job : Empty[k] = "none"
  BY DEF Empty
<1>3. RecordInv'
  <2> SUFFICES ASSUME NEW k \in Job
      PROVE  /\ promise'[k] = "pending" => table'[k] \in {"none", "queued"}
             /\ promise'[k] = "working" =>
                 /\ table'[k] \in {"none", "running"}
                 /\ table'[k] = "running" /\ file' = "whole" => saved'[k] = "running"
             /\ table'[k] \in Terminal /\ file' = "whole" => Reloaded(saved'[k]) = table'[k]
    BY DEF RecordInv, Reloaded
  <2>1. CASE k = j
    BY <1>1, <1>2, <2>1 DEF OutcomeInv, RecordInv, Written, Unwritten, Terminal, Reloaded
  <2>2. CASE k # j
    BY <1>1, <1>2, <2>2 DEF OutcomeInv, RecordInv, Written, Unwritten, Terminal, Reloaded
  <2>. QED BY <2>1, <2>2
<1>4. SeenInv'
  BY <1>1, <1>2 DEF OutcomeInv, SeenInv, Written, Unwritten, Terminal, Reloaded
<1>5. FileInv'
  BY DEF OutcomeInv, FileInv, Written, Unwritten
<1>. QED BY <1>3, <1>4, <1>5

LEMMA OutcomeStep == OutcomeInv /\ [Next]_vars => OutcomeInv'
<1> SUFFICES ASSUME OutcomeInv, [Next]_vars PROVE OutcomeInv'
  OBVIOUS
<1>1. TypeOK'
  BY TypeStep DEF OutcomeInv
<1>2. RecordInv' /\ SeenInv' /\ FileInv'
  <2>1. ASSUME NEW j \in Job, Enqueue(j)
        PROVE  RecordInv' /\ SeenInv' /\ FileInv'
    BY <2>1, Writes, InsertOutcome DEF Enqueue
  <2>2. ASSUME NEW j \in Job, EnqueueThrows(j)
        PROVE  RecordInv' /\ SeenInv' /\ FileInv'
    BY <2>2, Writes, InsertOutcome DEF EnqueueThrows
  <2>3. ASSUME NEW j \in Job, StartRun(j) \/ StartThrows(j)
        PROVE  RecordInv' /\ SeenInv' /\ FileInv'
    <3>1. promise[j] = "pending"
      BY <2>3 DEF StartRun, StartThrows, TurnOf
    <3>2. \/ Moves(j, "running", "working") /\ Written
          \/ Moves(j, "running", "stillborn") /\ Unwritten
      BY <2>3, Writes DEF StartRun, StartThrows
    <3>. QED BY <3>1, <3>2, MovesOutcome
  <2>4. ASSUME NEW j \in Job, WorkSucceeds(j) \/ SuccessThrows(j) \/ WorkFails(j)
        PROVE  RecordInv' /\ SeenInv' /\ FileInv'
    <3>1. promise[j] = "working"
      BY <2>4 DEF WorkSucceeds, SuccessThrows, WorkFails, Working
    <3>2. \/ Moves(j, "succeeded", "resolved") /\ Written
          \/ Moves(j, "failed", "rejected") /\ (Written \/ Unwritten)
      BY <2>4, Writes DEF WorkSucceeds, SuccessThrows, WorkFails
    <3>. QED BY <3>1, <3>2, MovesOutcome
  <2>5. CASE Crash
    <3>1. /\ table' = Empty /\ Unwritten /\ seen' = seen
          /\ \A k \in Job : promise'[k] \notin Live
                          /\ (promise[k] # "none" => promise'[k] # "none")
      BY <2>5 DEF Crash, Tear, Unwritten, OutcomeInv, TypeOK
    <3>2. \A k \in Job : Empty[k] = "none"
      BY DEF Empty
    <3>. QED BY <3>1, <3>2 DEF OutcomeInv, RecordInv, SeenInv, FileInv, Unwritten, Terminal, Reloaded
  <2>6. CASE Restart
    <3>1. /\ \A k \in Job : table'[k] = Reloaded(saved[k])
          /\ UNCHANGED <<promise, file, saved, seen>>
      BY <2>6 DEF Restart
    <3>2. \A k \in Job : promise[k] \notin Live
      BY <2>6 DEF Restart, OutcomeInv, DownInv
    <3>. QED BY <3>1, <3>2 DEF OutcomeInv, RecordInv, SeenInv, FileInv, Terminal, Reloaded
  <2>7. ASSUME NEW j \in Job, Poll(j)
        PROVE  RecordInv' /\ SeenInv' /\ FileInv'
    <3>1. /\ UNCHANGED <<table, promise, file, saved>> /\ promise[j] # "none"
          /\ seen'[j] = table[j]
          /\ \A k \in Job \ {j} : seen'[k] = seen[k]
      BY <2>7 DEF Poll, Acked, OutcomeInv, TypeOK
    <3>2. \A k \in Job : Empty[k] = "none"
      BY DEF Empty
    <3>. QED BY <3>1, <3>2 DEF OutcomeInv, RecordInv, SeenInv, FileInv, Terminal, Reloaded
  <2>8. CASE UNCHANGED vars
    BY <2>8 DEF vars, OutcomeInv, RecordInv, SeenInv, FileInv
  <2>. QED BY <2>1, <2>2, <2>3, <2>4, <2>5, <2>6, <2>7, <2>8 DEF Next
<1>3. DownInv'
  <2>1. ASSUME NEW j \in Job,
               \/ Enqueue(j) \/ EnqueueThrows(j)
               \/ StartRun(j) \/ StartThrows(j)
               \/ WorkSucceeds(j) \/ SuccessThrows(j) \/ WorkFails(j)
        PROVE  up'
    BY <2>1 DEF Enqueue, EnqueueThrows, Insert, StartRun, StartThrows, WorkSucceeds,
                SuccessThrows, WorkFails, TurnOf, Working, Moves
  <2>2. CASE Crash
    BY <2>2 DEF Crash, DownInv
  <2>3. ASSUME NEW j \in Job, Poll(j) PROVE DownInv'
    BY <2>3 DEF Poll, OutcomeInv, DownInv
  <2>4. CASE Restart \/ UNCHANGED vars
    BY <2>4 DEF Restart, vars, OutcomeInv, DownInv
  <2>. QED BY <2>1, <2>2, <2>3, <2>4 DEF Next, DownInv
<1>. QED BY <1>1, <1>2, <1>3 DEF OutcomeInv

LEMMA OutcomeCorrect == Spec => []OutcomeInv
<1>1. Init => OutcomeInv
  BY DEF Init, OutcomeInv, TypeOK, DownInv, RecordInv, SeenInv, FileInv, Empty, Status,
         Promise, Terminal, Reloaded
<1>. QED BY <1>1, OutcomeStep, PTL DEF Spec

(* A restart tells the same outcome of every finished job as the table does,   *)
(* whichever persist() calls of job_queue.mjs failed before it.                *)
THEOREM OutcomeKept == Spec => []OutcomeSurvivesRestart
<1>1. OutcomeInv => OutcomeSurvivesRestart
  BY DEF OutcomeInv, RecordInv, OutcomeSurvivesRestart
<1>. QED BY <1>1, OutcomeCorrect, PTL

(* Once GET /v1/jobs/:id has answered "succeeded" or "failed", it never        *)
(* answers anything else than that or a 404.                                   *)
THEOREM OutcomeFinal == Spec => OutcomeNeverReversed
<1>1. OutcomeInv /\ [Next]_vars
      => [\A j \in Job : seen[j] \in Terminal => seen'[j] \in {seen[j], "none"}]_vars
  <2> SUFFICES ASSUME OutcomeInv, Next, NEW j \in Job, seen[j] \in Terminal
               PROVE  seen'[j] \in {seen[j], "none"}
    BY DEF vars
  <2>1. seen'[j] \in {seen[j], table[j]}
    <3>1. ASSUME NEW i \in Job, Poll(i) PROVE seen'[j] \in {seen[j], table[j]}
      BY <3>1 DEF Poll, OutcomeInv, TypeOK
    <3>2. ASSUME NEW i \in Job,
                 \/ Enqueue(i) \/ EnqueueThrows(i)
                 \/ StartRun(i) \/ StartThrows(i)
                 \/ WorkSucceeds(i) \/ SuccessThrows(i) \/ WorkFails(i)
          PROVE  seen' = seen
      BY <3>2 DEF Enqueue, EnqueueThrows, Insert, StartRun, StartThrows, WorkSucceeds,
                  SuccessThrows, WorkFails, Moves
    <3>. QED BY <3>1, <3>2 DEF Next, Crash, Restart
  <2>. QED BY <2>1 DEF OutcomeInv, SeenInv
<1>. QED BY <1>1, OutcomeCorrect, PTL DEF Spec, OutcomeNeverReversed

------------------------------------------------------------------------------
(* Eviction.  A record that is missing, from the table or from the file, has   *)
(* been outnumbered; who has been outnumbered stays so.                        *)

Newer(order, j) == {k \in Job : order[k] > order[j]}
Outnumbered(order, j) == Cardinality(Newer(order, j)) >= MaxJobs

LostInv ==
    \A j \in Job : Acked(j) =>
        /\ up /\ table[j] = "none" => Outnumbered(ticket, j)
        /\ file # "torn" /\ saved[j] = "none" => Outnumbered(ticket, j)

LEMMA CardinalityOfPart ==
    ASSUME NEW S \in SUBSET Job, NEW T \in SUBSET S
    PROVE  /\ Cardinality(S) \in Nat /\ Cardinality(T) \in Nat
           /\ Cardinality(T) <= Cardinality(S)
BY JobAssumption, FS_Subset, FS_CardinalityType

(* prune() drops only records that MaxJobs newer ones outnumber. *)
LEMMA KeptLoses ==
    ASSUME NEW t, NEW order, NEW j \in Job, t[j] # "none", Kept(t, order)[j] = "none"
    PROVE  Outnumbered(order, j)
<1> DEFINE T == {k \in Job : t[k] # "none" /\ order[k] > order[j]}
<1>1. ~(Cardinality(T) < MaxJobs)
  BY DEF Kept
<1>2. Newer(order, j) \in SUBSET Job /\ T \in SUBSET Newer(order, j)
  BY DEF Newer
<1>. QED
  BY <1>1, <1>2, CardinalityOfPart, MaxJobsAssumption DEF Outnumbered

(* A job that got its ticket before is outnumbered as much as before. *)
LEMMA OutnumberedStays ==
    ASSUME NEW j \in Job, Outnumbered(ticket, j), ticket'[j] = ticket[j],
           \A k \in Job : ticket[k] > ticket[j] => ticket'[k] = ticket[k]
    PROVE  Outnumbered(ticket', j)
<1>1. Newer(ticket', j) \in SUBSET Job /\ Newer(ticket, j) \in SUBSET Newer(ticket', j)
  BY DEF Newer
<1>. QED
  BY <1>1, CardinalityOfPart, MaxJobsAssumption DEF Outnumbered

LEMMA InsertLoses ==
    ASSUME SerialInv, LostInv, NEW j \in Job, Insert(j), NEW p \in {"pending", "refused"},
           promise' = [promise EXCEPT ![j] = p],
           \/ Written
           \/ Unwritten /\ p = "refused"
    PROVE  LostInv'
<1>1. Arrives(j, p)
  BY InsertSerial
<1>2. ASSUME NEW k \in Job, k # j, Acked(k)
      PROVE  Outnumbered(ticket, k) => Outnumbered(ticket', k)
  <2>1. \A i \in Job : ticket[i] > ticket[k] => ticket'[i] = ticket[i]
    <3>1. ticket[j] = 0 /\ ticket[k] \in Nat
      BY <1>1 DEF Arrives, SerialInv, TicketsInv
    <3>. QED BY <1>1, <3>1 DEF Arrives
  <2>. QED BY <1>1, <1>2, <2>1, OutnumberedStays DEF Arrives
<1>3. ASSUME NEW k \in Job, Acked(k)', table'[k] = "none"
      PROVE  Outnumbered(ticket', k)
  <2> DEFINE t == [table EXCEPT ![j] = "queued"]
  <2>1. table' = Kept(t, ticket') /\ up
    BY DEF Insert
  <2>2. CASE t[k] # "none"
    BY <1>3, <2>1, <2>2, KeptLoses
  <2>3. CASE t[k] = "none"
    <3>1. k # j /\ table[k] = "none"
      BY <2>3 DEF SerialInv, TypeOK
    <3>2. Acked(k)
      BY <1>1, <1>3, <3>1 DEF Acked, Arrives
    <3>. QED BY <1>2, <2>1, <3>1, <3>2 DEF LostInv
  <2>. QED BY <2>2, <2>3
<1>4. ASSUME NEW k \in Job, Acked(k)', file' # "torn", saved'[k] = "none"
      PROVE  Outnumbered(ticket', k)
  <2>1. CASE Written
    BY <1>3, <1>4, <2>1 DEF Written
  <2>2. CASE ~Written
    <3>1. UNCHANGED <<file, saved>> /\ p = "refused"
      BY <1>4, <2>2 DEF Unwritten
    <3>2. k # j /\ Acked(k)
      BY <1>1, <1>4, <3>1 DEF Acked, Arrives
    <3>. QED BY <1>2, <1>4, <3>1, <3>2 DEF LostInv
  <2>. QED BY <2>1, <2>2
<1>. QED BY <1>3, <1>4 DEF LostInv

LEMMA MovesLoses ==
    ASSUME TypeOK, LostInv, NEW j \in Job, NEW s \in Status \ {"none"}, NEW p,
           Moves(j, s, p), Acked(j), up, Written \/ Unwritten
    PROVE  LostInv'
<1>1. /\ \A k \in Job : table'[k] = "none" <=> table[k] = "none"
      /\ \A k \in Job : Acked(k)' => Acked(k)
      /\ UNCHANGED <<up, ticket>>
  BY MovesRecords DEF Moves, Acked
<1>. QED BY <1>1 DEF LostInv, Written, Unwritten

LEMMA LostStep == SerialInv /\ LostInv /\ [Next]_vars => LostInv'
<1> SUFFICES ASSUME SerialInv, LostInv, [Next]_vars PROVE LostInv'
  OBVIOUS
<1>1. ASSUME NEW j \in Job, Enqueue(j) PROVE LostInv'
  BY <1>1, Writes, InsertLoses DEF Enqueue
<1>2. ASSUME NEW j \in Job, EnqueueThrows(j) PROVE LostInv'
  BY <1>2, Writes, InsertLoses DEF EnqueueThrows
<1>3. ASSUME NEW j \in Job,
             StartRun(j) \/ StartThrows(j) \/ WorkSucceeds(j) \/ SuccessThrows(j) \/ WorkFails(j)
      PROVE  LostInv'
  <2>1. PICK s \in Status \ {"none"}, p \in Promise : Moves(j, s, p)
    BY <1>3 DEF StartRun, StartThrows, WorkSucceeds, SuccessThrows, WorkFails, Status, Promise
  <2>2. Acked(j) /\ up /\ (Written \/ Unwritten)
    BY <1>3, Writes DEF StartRun, StartThrows, WorkSucceeds, SuccessThrows, WorkFails,
                        TurnOf, Working, Acked
  <2>. QED BY <2>1, <2>2, MovesLoses DEF SerialInv
<1>4. ASSUME NEW j \in Job, Poll(j) PROVE LostInv'
  BY <1>4 DEF Poll, LostInv, Acked
<1>5. CASE Crash
  <2>1. /\ ~up' /\ ticket' = ticket
        /\ file' # "torn" => UNCHANGED <<file, saved>>
        /\ \A k \in Job : Acked(k)' => Acked(k)
    BY <1>5 DEF Crash, Tear, SerialInv, TypeOK, Acked
  <2>. QED BY <2>1 DEF LostInv
<1>6. CASE Restart
  <2>1. /\ UNCHANGED <<promise, ticket, file, saved>> /\ file # "torn"
        /\ \A k \in Job : table'[k] = "none" => saved[k] = "none"
    BY <1>6 DEF Restart, Reloaded
  <2>. QED BY <2>1 DEF LostInv, Acked
<1>7. CASE UNCHANGED vars
  BY <1>7 DEF vars, LostInv, Acked
<1>. QED BY <1>1, <1>2, <1>3, <1>4, <1>5, <1>6, <1>7 DEF Next

(* The table forgets a job that enqueue() acknowledged only for MaxJobs newer  *)
(* ones, whatever failed or crashed.                                           *)
THEOREM Lost == Spec => []LostOnlyToNewer
<1>1. Init => SerialInv /\ LostInv
  BY DEF Init, SerialInv, TypeOK, TicketsInv, TailInv, ChainInv, StartedInv, LostInv,
         Acked, Empty, Status, Promise
<1>2. LostInv => LostOnlyToNewer
  BY DEF LostInv, LostOnlyToNewer, Outnumbered, Newer
<1>. QED BY <1>1, <1>2, SerialStep, LostStep, PTL DEF Spec

------------------------------------------------------------------------------
(* Refinement                                                                  *)

PhaseMap == [j \in Job |-> PhaseOf(promise[j])]

(* A change of one promise is the change of one phase. *)
LEMMA PhaseChange ==
    ASSUME TypeOK, NEW j \in Job, NEW p, promise' = [promise EXCEPT ![j] = p]
    PROVE  PhaseMap' = [PhaseMap EXCEPT ![j] = PhaseOf(p)]
BY DEF TypeOK, PhaseMap

(* The run whose turn it is is the next of the abstract line. *)
LEMMA TurnIsNext ==
    ASSUME SerialInv, NEW j \in Job, TurnOf(j)
    PROVE  Mutex!IsNext(j)
<1>1. promise[j] = "pending" /\ PhaseMap[j] = "waiting"
  BY DEF TurnOf, PhaseMap, PhaseOf
<1>2. ASSUME NEW k \in Job
      PROVE  /\ PhaseMap[k] # "holding"
             /\ PhaseMap[k] = "waiting" => ticket[j] <= ticket[k]
  <2>1. ticket[j] \in Nat /\ ticket[k] \in Nat /\ promise[k] \in Promise
    BY DEF SerialInv, TypeOK
  <2>2. /\ PhaseMap[k] = "holding" => promise[k] = "working"
        /\ PhaseMap[k] = "waiting" => promise[k] = "pending"
    BY <2>1 DEF PhaseMap, PhaseOf, Promise
  <2>3. ticket[k] < ticket[j] => promise[k] \notin Live
    BY TurnIsFirst
  <2>4. promise[k] # "working"
    <3> SUFFICES ASSUME promise[k] = "working" PROVE FALSE
      OBVIOUS
    <3>1. ~(ticket[j] < ticket[k])
      BY <1>1 DEF SerialInv, StartedInv
    <3>2. ticket[j] = ticket[k]
      BY <2>1, <2>3, <3>1
    <3>. QED BY <1>1, <3>2 DEF SerialInv, TicketsInv
  <2>. QED BY <2>1, <2>2, <2>3, <2>4
<1>. QED BY <1>1, <1>2 DEF Mutex!IsNext, PhaseMap

LEMMA MutexStep ==
    SerialInv /\ SerialInv' /\ [Next]_vars => [Mutex!Next]_(Mutex!mutexVars)
<1> SUFFICES ASSUME SerialInv, SerialInv', [Next]_vars
             PROVE  Mutex!Next \/ UNCHANGED Mutex!mutexVars
  OBVIOUS
<1>1. ASSUME NEW j \in Job, NEW p \in {"pending", "refused"}, Insert(j),
             promise' = [promise EXCEPT ![j] = p]
      PROVE  /\ Mutex!TakeTicket(j, ticket'[j])
             /\ PhaseMap' = [PhaseMap EXCEPT ![j] = PhaseOf(p)]
  <2>1. /\ promise[j] = "none" /\ PhaseMap[j] = "idle"
        /\ ticket' = [ticket EXCEPT ![j] = ticket'[j]]
    BY <1>1 DEF Insert, PhaseMap, PhaseOf, SerialInv, TypeOK
  <2>2. ticket'[j] \in Nat /\ \A k \in Job : ticket[k] < ticket'[j]
    BY <1>1, InsertSerial DEF Arrives
  <2>. QED BY <1>1, <2>1, <2>2, PhaseChange DEF Mutex!TakeTicket, PhaseMap, SerialInv
<1>2. ASSUME NEW j \in Job, Enqueue(j) PROVE Mutex!Request(j, ticket'[j])
  <2>1. /\ Mutex!TakeTicket(j, ticket'[j])
        /\ PhaseMap' = [PhaseMap EXCEPT ![j] = PhaseOf("pending")]
    BY <1>1, <1>2 DEF Enqueue
  <2>. QED BY <2>1 DEF Mutex!Request, PhaseOf, PhaseMap
<1>3. ASSUME NEW j \in Job, EnqueueThrows(j) PROVE Mutex!Refuse(j, ticket'[j])
  <2>1. /\ Mutex!TakeTicket(j, ticket'[j])
        /\ PhaseMap' = [PhaseMap EXCEPT ![j] = PhaseOf("refused")]
    BY <1>1, <1>3 DEF EnqueueThrows
  <2>. QED BY <2>1 DEF Mutex!Refuse, PhaseOf, PhaseMap
<1>4. ASSUME NEW j \in Job, NEW s, NEW p, Moves(j, s, p)
      PROVE  PhaseMap' = [PhaseMap EXCEPT ![j] = PhaseOf(p)] /\ ticket' = ticket
  BY <1>4, PhaseChange DEF Moves, SerialInv
<1>5. ASSUME NEW j \in Job, StartRun(j) PROVE Mutex!Grant(j)
  BY <1>4, <1>5, TurnIsNext DEF StartRun, Mutex!Grant, PhaseOf, PhaseMap
<1>6. ASSUME NEW j \in Job, StartThrows(j) PROVE Mutex!Withdraw(j)
  BY <1>4, <1>6, TurnIsNext DEF StartThrows, Mutex!Withdraw, PhaseOf, PhaseMap
<1>7. ASSUME NEW j \in Job, WorkSucceeds(j) \/ SuccessThrows(j) \/ WorkFails(j)
      PROVE  Mutex!Finish(j)
  <2>1. PhaseMap[j] = "holding"
    BY <1>7 DEF WorkSucceeds, SuccessThrows, WorkFails, Working, PhaseMap, PhaseOf
  <2>2. Moves(j, "succeeded", "resolved") \/ Moves(j, "failed", "rejected")
    BY <1>7 DEF WorkSucceeds, SuccessThrows, WorkFails
  <2>. QED BY <1>4, <2>1, <2>2 DEF Mutex!Finish, PhaseOf, PhaseMap
<1>8. CASE Crash
  <2>1. ASSUME NEW k \in Job
        PROVE  PhaseMap'[k] = IF PhaseMap[k] \in {"waiting", "holding"}
                              THEN "gone" ELSE PhaseMap[k]
    BY <1>8 DEF Crash, PhaseMap, PhaseOf, SerialInv, TypeOK, Promise
  <2>2. ticket' = ticket
    BY <1>8 DEF Crash
  <2>. QED BY <2>1, <2>2 DEF Mutex!Next, Mutex!Abandon, PhaseMap
<1>9. ASSUME UNCHANGED <<promise, ticket>> PROVE UNCHANGED Mutex!mutexVars
  BY <1>9 DEF Mutex!mutexVars
<1>10. ASSUME NEW j \in Job, Poll(j) PROVE UNCHANGED <<promise, ticket>>
  BY <1>10 DEF Poll
<1>11. CASE Restart \/ UNCHANGED vars
  BY <1>9, <1>11 DEF Restart, vars
<1>. QED
  BY <1>2, <1>3, <1>5, <1>6, <1>7, <1>8, <1>9, <1>10, <1>11 DEF Next, Mutex!Next

(* The promise chain of job_queue.mjs is a first-come first-served mutual      *)
(* exclusion, through failed writes, crashes and restarts.                     *)
THEOREM Refinement == Spec => ImplementsFifoMutex
<1>1. Init => SerialInv
  BY DEF Init, SerialInv, TypeOK, TicketsInv, TailInv, ChainInv, StartedInv,
         Empty, Status, Promise
<1>2. Init => Mutex!Init
  BY DEF Init, Mutex!Init, PhaseOf
<1>. QED BY <1>1, <1>2, SerialStep, MutexStep, PTL DEF Spec, ImplementsFifoMutex, Mutex!Spec
==============================================================================
