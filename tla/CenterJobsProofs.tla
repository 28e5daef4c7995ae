-------------------------- MODULE CenterJobsProofs --------------------------
(***************************************************************************)
(* Theorems about CenterJobs, for every set of jobs and requests, every     *)
(* registry of workers and any number of restarts.                          *)
(***************************************************************************)
EXTENDS CenterJobs, FiniteSetTheorems, TLAPS

StatusSet == {"none", "queued", "running", "succeeded", "failed"}
StepSet == {"none", "provider", "legacy", "local", "collect", "synthesis"}
CallSet == {"none", "sent", "running", "done", "streamed", "failed", "refused", "missing"}
LocalSet == {"none", "running", "done", "failed"}

TypeInv ==
  /\ request \in [Job -> Request \cup {None}]
  /\ queue \in Seq(Job)
  /\ status \in [Job -> StatusSet]
  /\ step \in [Job -> StepSet]
  /\ output \in [Job -> Party \cup {None}]
  /\ call \in [Job -> [Path -> CallSet]]
  /\ local \in [Job -> LocalSet]
  /\ blind \subseteq Job
  /\ restarts \in Nat

\* The queue holds jobs that have not started, each once.
QueueInv ==
  /\ \A i \in 1 .. Len(queue) : status[queue[i]] = "queued"
  /\ \A i, k \in 1 .. Len(queue) : queue[i] = queue[k] => i = k

\* What the record of a job says of its calls and of the gateway's own run.
StartInv(j) ==
  /\ status[j] = "running" <=> step[j] # "none"
  /\ status[j] \in {"none", "queued"} =>
       /\ \A p \in Path : call[j][p] = "none"
       /\ local[j] = "none"

\* A call that may still be executed is the one the job waits for.
CallInv(j) ==
  \A p \in Path :
    /\ call[j][p] \in {"sent", "running"} => step[j] = p \/ j \in blind
    /\ call[j][p] \in {"done", "streamed"} =>
         step[j] = p \/ j \in blind \/ status[j] = "succeeded"
    /\ call[j][p] = "streamed" => request[j].stream

\* The other path is tried only when the first one is missing.
PathInv(j) ==
  call[j]["legacy"] # "none" => call[j]["provider"] \in {"none", "missing"}

LocalInv(j) ==
  /\ step[j] \in Path => local[j] = "none"
  /\ local[j] = "running" => step[j] = "local" \/ j \in blind
  /\ local[j] = "done" => status[j] = "succeeded" \/ j \in blind
  /\ AtWorker(j) # {} /\ AtGateway(j) => j \in blind

OutputInv(j) ==
  /\ output[j] # None => status[j] = "succeeded"
  /\ output[j] = "worker" => \E p \in Path : call[j][p] \in {"done", "streamed"}
  /\ output[j] = "local" => local[j] = "done"

JobInv(j) == StartInv(j) /\ CallInv(j) /\ PathInv(j) /\ LocalInv(j) /\ OutputInv(j)
Inv == TypeInv /\ QueueInv /\ \A j \in Job : JobInv(j)

-----------------------------------------------------------------------------
USE DEF StatusSet, StepSet, CallSet, LocalSet, Path

\* A job whose record, calls and run stay as they are stays consistent.
Same(j) ==
  /\ request'[j] = request[j] /\ status'[j] = status[j] /\ step'[j] = step[j]
  /\ output'[j] = output[j] /\ call'[j] = call[j] /\ local'[j] = local[j]
  /\ j \in blind' <=> j \in blind

LEMMA SameKeeps == ASSUME NEW j \in Job, JobInv(j), Same(j) PROVE JobInv(j)'
BY DEF JobInv, StartInv, CallInv, PathInv, LocalInv, OutputInv, Same, AtWorker, AtGateway

\* One job moves, the queue stays.
LEMMA OneJob ==
  ASSUME Inv, TypeInv', NEW j \in Job, JobInv(j)', UNCHANGED queue,
         \A k \in Job \ {j} : Same(k),
         status[j] # "queued" \/ status'[j] = "queued"
  PROVE  Inv'
<1>1. \A k \in Job : JobInv(k)'
  <2> TAKE k \in Job
  <2>1. CASE k = j
    BY <2>1
  <2>2. CASE k # j
    <3>1. JobInv(k) /\ Same(k)
      BY <2>2 DEF Inv
    <3>. QED BY <3>1, SameKeeps
  <2>. QED BY <2>1, <2>2
<1>2. \A k \in Job : status[k] = "queued" => status'[k] = "queued"
  BY DEF Same
<1>3. QueueInv'
  BY <1>2 DEF Inv, TypeInv, QueueInv
<1>. QED BY <1>1, <1>3 DEF Inv

LEMMA MovesTyped ==
  ASSUME TypeInv, NEW j \in Job, NEW s \in StatusSet, NEW t \in StepSet, Moves(j, s, t)
  PROVE  /\ status' \in [Job -> StatusSet] /\ step' \in [Job -> StepSet]
         /\ status'[j] = s /\ step'[j] = t
         /\ \A k \in Job \ {j} : status'[k] = status[k] /\ step'[k] = step[k]
BY DEF Moves, TypeInv

LEMMA SubmitStep == ASSUME Inv, NEW j \in Job, Submit(j) PROVE Inv'
<1>1. /\ status[j] = "none" /\ queue' = Append(queue, j)
      /\ status' = [status EXCEPT ![j] = "queued"]
      /\ request' \in [Job -> Request \cup {None}]
      /\ \A k \in Job \ {j} : request'[k] = request[k]
      /\ UNCHANGED << step, output, call, local, blind, restarts >>
  BY DEF Submit, Inv, TypeInv
<1>2. TypeInv'
  BY <1>1 DEF Inv, TypeInv
<1>3. \A k \in Job : JobInv(k)'
  <2> TAKE k \in Job
  <2>1. CASE k = j
    BY <1>1, <2>1 DEF Inv, TypeInv, JobInv, StartInv, CallInv, PathInv, LocalInv, OutputInv,
                      AtWorker, AtGateway
  <2>2. CASE k # j
    <3>1. JobInv(k) /\ Same(k)
      BY <1>1, <2>2 DEF Inv, TypeInv, Same
    <3>. QED BY <3>1, SameKeeps
  <2>. QED BY <2>1, <2>2
<1>4. QueueInv'
  <2>1. /\ Len(queue') = Len(queue) + 1 /\ Len(queue) \in Nat
        /\ queue'[Len(queue) + 1] = j
        /\ \A i \in 1 .. Len(queue) : queue'[i] = queue[i] /\ queue[i] \in Job
    BY <1>1 DEF Inv, TypeInv
  <2>2. \A i \in 1 .. Len(queue) : queue[i] # j /\ status'[queue[i]] = "queued"
    BY <1>1, <2>1 DEF Inv, TypeInv, QueueInv
  <2>3. status'[j] = "queued"
    BY <1>1 DEF Inv, TypeInv
  <2>4. \A i \in 1 .. Len(queue') : i \in 1 .. Len(queue) \/ i = Len(queue) + 1
    BY <2>1
  <2>. QED BY <2>1, <2>2, <2>3, <2>4 DEF Inv, QueueInv
<1>. QED BY <1>2, <1>3, <1>4 DEF Inv

-----------------------------------------------------------------------------
(* What a job that has its turn, or waits, may come to: each lemma is about   *)
(* the whole record of j, and the jobs that have not moved.                   *)

\* The other jobs are as they were, and so is what the center cannot see.
Alone(j) ==
  /\ request' = request /\ restarts' = restarts
  /\ blind \subseteq blind' /\ blind' \subseteq blind \cup {j}

LEMMA FailsEffect ==
  ASSUME Inv, NEW j \in Job, Fails(j), Alone(j), status[j] # "succeeded",
         j \notin blind' => /\ \A p \in Path : call[j][p] \notin {"sent", "running", "done", "streamed"}
                            /\ local[j] \in {"none", "failed"}
  PROVE  JobInv(j)' /\ \A k \in Job \ {j} : Same(k)
<1>1. /\ status'[j] = "failed" /\ step'[j] = "none"
      /\ \A k \in Job \ {j} : status'[k] = status[k] /\ step'[k] = step[k]
      /\ UNCHANGED << output, call, local >>
  BY MovesTyped DEF Fails, Inv
<1>2. \A k \in Job \ {j} : Same(k)
  BY <1>1 DEF Alone, Same
<1>3. JobInv(j)
  BY DEF Inv
<1>4. output[j] = None
  BY <1>3 DEF JobInv, OutputInv
<1>5. call[j] \in [Path -> CallSet] /\ local[j] \in LocalSet
  BY DEF Inv, TypeInv
<1>6. StartInv(j)'
  BY <1>1 DEF StartInv
<1>7. CallInv(j)'
  BY <1>1, <1>3, <1>5 DEF CallInv, JobInv, Alone
<1>8. PathInv(j)'
  BY <1>1, <1>3 DEF PathInv, JobInv
<1>9. LocalInv(j)'
  BY <1>1, <1>3, <1>5 DEF LocalInv, JobInv, AtWorker, AtGateway
<1>10. OutputInv(j)'
  BY <1>1, <1>4, PartyAssumption DEF OutputInv, Party
<1>. QED BY <1>2, <1>6, <1>7, <1>8, <1>9, <1>10 DEF JobInv

\* A request is sent when nobody is at work on the job.
LEMMA DispatchEffect ==
  ASSUME Inv, NEW j \in Job, NEW q \in Path, Dispatch(j, q), Alone(j),
         status[j] # "succeeded", local[j] = "none",
         \A p \in Path \ {q} : call[j][p] \in {"none", "missing"},
         q = "provider" => call[j]["legacy"] = "none"
  PROVE  JobInv(j)' /\ \A k \in Job \ {j} : Same(k)
<1>0. q \in StepSet /\ q # "none"
  OBVIOUS
<1>1. /\ status'[j] = "running" /\ step'[j] = q
      /\ \A k \in Job \ {j} : status'[k] = status[k] /\ step'[k] = step[k]
      /\ UNCHANGED << output, local >>
      /\ call' = [call EXCEPT ![j][q] = "sent"]
  BY <1>0, MovesTyped DEF Dispatch, Inv
<1>2. /\ call'[j][q] = "sent" /\ \A p \in Path \ {q} : call'[j][p] = call[j][p]
      /\ \A k \in Job \ {j} : call'[k] = call[k]
  BY <1>1 DEF Inv, TypeInv
<1>3. JobInv(j) /\ output[j] = None
  BY DEF Inv, JobInv, OutputInv
<1>4. StartInv(j)'
  BY <1>0, <1>1 DEF StartInv
<1>5. CallInv(j)'
  BY <1>1, <1>2 DEF CallInv
<1>6. PathInv(j)'
  BY <1>2 DEF PathInv
<1>7. LocalInv(j)'
  BY <1>1 DEF LocalInv, AtGateway
<1>8. OutputInv(j)'
  BY <1>1, <1>3, PartyAssumption DEF OutputInv, Party
<1>9. \A k \in Job \ {j} : Same(k)
  BY <1>1, <1>2 DEF Alone, Same
<1>. QED BY <1>3, <1>4, <1>5, <1>6, <1>7, <1>8, <1>9 DEF JobInv

\* The gateway runs the job itself, or fails it.
LEMMA FallbackEffect ==
  ASSUME Inv, NEW j \in Job, RunLocalFallback(j), Alone(j),
         status[j] # "succeeded", local[j] = "none",
         j \notin blind' => \A p \in Path : call[j][p] \notin {"sent", "running", "done", "streamed"}
  PROVE  JobInv(j)' /\ \A k \in Job \ {j} : Same(k)
<1>1. CASE Fails(j)
  BY <1>1, FailsEffect
<1>2. CASE Moves(j, "running", "local") /\ local' = [local EXCEPT ![j] = "running"]
           /\ UNCHANGED << output, call >>
  <2>1. /\ status'[j] = "running" /\ step'[j] = "local"
        /\ \A k \in Job \ {j} : status'[k] = status[k] /\ step'[k] = step[k]
    BY <1>2, MovesTyped DEF Inv
  <2>2. local'[j] = "running" /\ \A k \in Job \ {j} : local'[k] = local[k]
    BY <1>2 DEF Inv, TypeInv
  <2>3. JobInv(j) /\ output[j] = None
    BY DEF Inv, JobInv, OutputInv
  <2>4. StartInv(j)'
    BY <2>1 DEF StartInv
  <2>5. CallInv(j)'
    BY <1>2, <2>1, <2>3 DEF CallInv, JobInv, Alone
  <2>6. PathInv(j)'
    BY <1>2, <2>3 DEF PathInv, JobInv
  <2>7. LocalInv(j)'
    BY <1>2, <2>1, <2>2 DEF LocalInv, AtWorker
  <2>8. OutputInv(j)'
    BY <1>2, <2>3, PartyAssumption DEF OutputInv, Party
  <2>9. \A k \in Job \ {j} : Same(k)
    BY <1>2, <2>1, <2>2 DEF Alone, Same
  <2>. QED BY <2>4, <2>5, <2>6, <2>7, <2>8, <2>9 DEF JobInv
<1>. QED BY <1>1, <1>2 DEF RunLocalFallback

\* The party it waited for did the job.
LEMMA SucceedsEffect ==
  ASSUME Inv, NEW j \in Job, NEW party \in Party, Succeeds(j, party), Alone(j),
         local[j] # "running" \/ j \in blind,
         \A p \in Path : call[j][p] \notin {"sent", "running"} \/ j \in blind,
         party = "worker" => \E p \in Path : call[j][p] \in {"done", "streamed"},
         party # "local"
  PROVE  JobInv(j)' /\ \A k \in Job \ {j} : Same(k)
<1>1. /\ status'[j] = "succeeded" /\ step'[j] = "none"
      /\ \A k \in Job \ {j} : status'[k] = status[k] /\ step'[k] = step[k]
      /\ output' = [output EXCEPT ![j] = party]
      /\ UNCHANGED << call, local >>
  BY MovesTyped DEF Succeeds, Inv
<1>2. output'[j] = party /\ \A k \in Job \ {j} : output'[k] = output[k]
  BY <1>1 DEF Inv, TypeInv
<1>3. JobInv(j)
  BY DEF Inv
<1>4. StartInv(j)'
  BY <1>1 DEF StartInv
<1>5. CallInv(j)'
  BY <1>1, <1>3 DEF CallInv, JobInv, Alone
<1>6. PathInv(j)'
  BY <1>1, <1>3 DEF PathInv, JobInv
<1>7. LocalInv(j)'
  BY <1>1, <1>3 DEF LocalInv, JobInv, AtWorker, AtGateway, Alone
<1>8. OutputInv(j)'
  BY <1>1, <1>2 DEF OutputInv
<1>9. \A k \in Job \ {j} : Same(k)
  BY <1>1, <1>2 DEF Alone, Same
<1>. QED BY <1>4, <1>5, <1>6, <1>7, <1>8, <1>9 DEF JobInv

-----------------------------------------------------------------------------
(* Types                                                                     *)

LEMMA FailsTyped ==
  ASSUME TypeInv, NEW j \in Job, Fails(j), request' = request, queue' \in Seq(Job),
         blind' \subseteq Job, restarts' = restarts
  PROVE  TypeInv'
BY MovesTyped DEF Fails, TypeInv

LEMMA SucceedsTyped ==
  ASSUME TypeInv, NEW j \in Job, NEW party \in Party, Succeeds(j, party),
         request' = request, queue' \in Seq(Job), blind' \subseteq Job, restarts' = restarts
  PROVE  TypeInv'
BY MovesTyped DEF Succeeds, TypeInv

LEMMA DispatchTyped ==
  ASSUME TypeInv, NEW j \in Job, NEW q \in Path, Dispatch(j, q),
         request' = request, queue' \in Seq(Job), blind' \subseteq Job, restarts' = restarts
  PROVE  TypeInv'
<1>1. q \in StepSet
  OBVIOUS
<1>2. status' \in [Job -> StatusSet] /\ step' \in [Job -> StepSet]
  BY <1>1, MovesTyped DEF Dispatch
<1>3. call' \in [Job -> [Path -> CallSet]]
  BY DEF Dispatch, TypeInv
<1>. QED BY <1>2, <1>3 DEF Dispatch, TypeInv

LEMMA FallbackTyped ==
  ASSUME TypeInv, NEW j \in Job, RunLocalFallback(j),
         request' = request, queue' \in Seq(Job), blind' \subseteq Job, restarts' = restarts
  PROVE  TypeInv'
<1>1. CASE Fails(j)
  BY <1>1, FailsTyped
<1>2. CASE Moves(j, "running", "local") /\ local' = [local EXCEPT ![j] = "running"]
           /\ UNCHANGED << output, call >>
  <2>1. status' \in [Job -> StatusSet] /\ step' \in [Job -> StepSet]
    BY <1>2, MovesTyped
  <2>. QED BY <1>2, <2>1 DEF TypeInv
<1>. QED BY <1>1, <1>2 DEF RunLocalFallback

LEMMA CollectEffect ==
  ASSUME Inv, NEW j \in Job, NEW t \in {"collect", "synthesis"}, Moves(j, "running", t),
         UNCHANGED << output, call, local >>, Alone(j), queue' \in Seq(Job),
         status[j] \in {"queued", "running"}, step[j] \notin Path, step[j] # "local"
  PROVE  TypeInv' /\ JobInv(j)' /\ \A k \in Job \ {j} : Same(k)
<1>1. /\ status'[j] = "running" /\ step'[j] = t
      /\ \A k \in Job \ {j} : status'[k] = status[k] /\ step'[k] = step[k]
      /\ status' \in [Job -> StatusSet] /\ step' \in [Job -> StepSet]
  BY MovesTyped DEF Inv
<1>2. TypeInv'
  BY <1>1 DEF Inv, TypeInv, Alone
<1>3. JobInv(j) /\ output[j] = None
  BY DEF Inv, JobInv, OutputInv
<1>4. JobInv(j)'
  BY <1>1, <1>3, PartyAssumption
     DEF JobInv, StartInv, CallInv, PathInv, LocalInv, OutputInv, AtWorker, AtGateway, Alone, Party
<1>5. \A k \in Job \ {j} : Same(k)
  BY <1>1 DEF Alone, Same
<1>. QED BY <1>2, <1>4, <1>5

-----------------------------------------------------------------------------
(* The steps                                                                 *)

LEMMA StartStep == ASSUME Inv, NEW j \in Job, Start(j) PROVE Inv'
<1>1. /\ queue # << >> /\ j = Head(queue) /\ queue' = Tail(queue)
      /\ UNCHANGED << request, blind, restarts >>
  BY DEF Start
<1>2. /\ Len(queue) \in Nat /\ Len(queue) > 0 /\ queue[1] = j
      /\ Len(queue') = Len(queue) - 1 /\ queue' \in Seq(Job)
      /\ \A i \in 1 .. Len(queue') : queue'[i] = queue[i + 1] /\ i + 1 \in 1 .. Len(queue)
  BY <1>1 DEF Inv, TypeInv
<1>3. status[j] = "queued"
  BY <1>2 DEF Inv, QueueInv
<1>4. /\ \A p \in Path : call[j][p] = "none"
      /\ local[j] = "none" /\ step[j] = "none"
  BY <1>3 DEF Inv, TypeInv, JobInv, StartInv
<1>5. Alone(j) /\ blind' \subseteq Job
  BY <1>1 DEF Alone, Inv, TypeInv
<1>6. TypeInv' /\ JobInv(j)' /\ \A k \in Job \ {j} : Same(k)
  <2>1. CASE Research(j)
    BY <2>1, <1>2, <1>3, <1>4, <1>5, CollectEffect DEF Start, Collect
  <2>2. CASE ~Research(j)
    <3>1. Execute(j)
      BY <2>2 DEF Start
    <3>2. CASE Fails(j)
      BY <3>2, <1>1, <1>2, <1>3, <1>4, <1>5, FailsEffect, FailsTyped DEF Inv
    <3>3. CASE RunLocalFallback(j)
      BY <3>3, <1>1, <1>2, <1>3, <1>4, <1>5, FallbackEffect, FallbackTyped DEF Inv
    <3>4. ASSUME NEW q \in Path, Dispatch(j, q)
          PROVE  TypeInv' /\ JobInv(j)' /\ \A k \in Job \ {j} : Same(k)
      BY <3>4, <1>1, <1>2, <1>3, <1>4, <1>5, DispatchEffect, DispatchTyped DEF Inv
    <3>. QED BY <3>1, <3>2, <3>3, <3>4 DEF Execute
  <2>. QED BY <2>1, <2>2
<1>7. \A k \in Job : JobInv(k)'
  <2> TAKE k \in Job
  <2>1. k # j => JobInv(k) /\ Same(k)
    BY <1>6 DEF Inv
  <2>. QED BY <1>6, <2>1, SameKeeps
<1>8. QueueInv'
  <2>1. \A i \in 1 .. Len(queue') : queue'[i] \in Job \ {j}
    BY <1>2 DEF Inv, TypeInv, QueueInv
  <2>2. \A i \in 1 .. Len(queue') : status'[queue'[i]] = "queued"
    BY <1>2, <1>6, <2>1 DEF Inv, QueueInv, Same
  <2>3. \A i, k \in 1 .. Len(queue') : queue'[i] = queue'[k] => i = k
    BY <1>2 DEF Inv, QueueInv
  <2>. QED BY <2>2, <2>3 DEF QueueInv
<1>. QED BY <1>6, <1>7, <1>8 DEF Inv

\* What the catch of execute() does, whatever the worker may still be at.
LEMMA AfterErrorStep ==
  ASSUME Inv, NEW j \in Job, NEW answer, AfterError(j, answer), Alone(j), UNCHANGED queue,
         step[j] \in Path, answer = "missing" => call[j][step[j]] = "missing",
         j \notin blind' => call[j][step[j]] \in {"failed", "refused", "missing"}
  PROVE  Inv'
<1>1. /\ status[j] = "running" /\ local[j] = "none"
      /\ call[j] \in [Path -> CallSet] /\ queue' \in Seq(Job)
      /\ blind' \subseteq Job /\ request' = request /\ restarts' = restarts
  <2>1. JobInv(j) /\ step[j] # "none"
    BY DEF Inv
  <2>. QED BY <2>1 DEF Inv, TypeInv, JobInv, StartInv, LocalInv, Alone
<1>2. j \notin blind' => \A p \in Path : call[j][p] \notin {"sent", "running", "done", "streamed"}
  BY <1>1 DEF Inv, JobInv, CallInv, Alone
<1>3. CASE step[j] = "provider" /\ IsProviderPathUnavailable(answer)
  <2>1. Dispatch(j, "legacy") /\ call[j]["provider"] = "missing"
    BY <1>3 DEF AfterError, IsProviderPathUnavailable
  <2>2. TypeInv'
    BY <1>1, <2>1, DispatchTyped DEF Inv
  <2>3. JobInv(j)' /\ \A k \in Job \ {j} : Same(k)
    BY <1>1, <2>1, DispatchEffect
  <2>. QED BY <1>1, <2>2, <2>3, OneJob
<1>4. CASE ~(step[j] = "provider" /\ IsProviderPathUnavailable(answer))
  <2>1. RunLocalFallback(j)
    BY <1>4 DEF AfterError
  <2>2. TypeInv'
    BY <1>1, <2>1, FallbackTyped DEF Inv
  <2>3. JobInv(j)' /\ \A k \in Job \ {j} : Same(k)
    BY <1>1, <1>2, <2>1, FallbackEffect
  <2>. QED BY <1>1, <2>2, <2>3, OneJob
<1>. QED BY <1>3, <1>4

LEMMA ReactStep == ASSUME Inv, NEW j \in Job, React(j) PROVE Inv'
<1> DEFINE answer == call[j][step[j]]
<1>1. /\ step[j] \in Path /\ UNCHANGED << request, queue, blind, restarts >>
      /\ \/ answer \in {"done", "streamed"} /\ Succeeds(j, "worker")
         \/ answer \in {"failed", "refused", "missing"} /\ AfterError(j, answer)
  BY DEF React
<1>2. Alone(j)
  BY <1>1 DEF Alone
<1>3. CASE answer \in {"done", "streamed"} /\ Succeeds(j, "worker")
  <2>1. JobInv(j) /\ status[j] = "running" /\ "worker" \in Party
    BY <1>1 DEF Inv, JobInv, StartInv, Party
  <2>2. /\ \A p \in Path : call[j][p] \notin {"sent", "running"} \/ j \in blind
        /\ \E p \in Path : call[j][p] \in {"done", "streamed"}
        /\ local[j] = "none"
    BY <1>1, <1>3, <2>1 DEF JobInv, CallInv, LocalInv
  <2>3. JobInv(j)' /\ \A k \in Job \ {j} : Same(k)
    BY <1>2, <1>3, <2>1, <2>2, SucceedsEffect
  <2>4. TypeInv'
    BY <1>1, <1>3, <2>1, SucceedsTyped DEF Inv, TypeInv
  <2>. QED BY <1>1, <2>1, <2>3, <2>4, OneJob
<1>4. CASE answer \in {"failed", "refused", "missing"} /\ AfterError(j, answer)
  BY <1>1, <1>2, <1>4, AfterErrorStep
<1>. QED BY <1>1, <1>3, <1>4

LEMMA GiveUpStep == ASSUME Inv, NEW j \in Job, GiveUp(j) PROVE Inv'
<1>1. /\ step[j] \in Path /\ AfterError(j, "none") /\ blind' = blind \cup {j}
      /\ UNCHANGED << request, queue, restarts >>
  BY DEF GiveUp, WaitsForWorker
<1>2. Alone(j) /\ j \in blind'
  BY <1>1 DEF Alone
<1>. QED BY <1>1, <1>2, AfterErrorStep

LEMMA LocalEndsStep == ASSUME Inv, NEW j \in Job, LocalEnds(j) PROVE Inv'
<1> PICK end \in {"done", "failed"} :
      /\ local' = [local EXCEPT ![j] = end]
      /\ IF step[j] # "local" THEN UNCHANGED << status, step, output >>
         ELSE IF end = "done"
              THEN Moves(j, "succeeded", "none") /\ output' = [output EXCEPT ![j] = "local"]
              ELSE Moves(j, "failed", "none") /\ UNCHANGED output
  BY DEF LocalEnds
<1>1. /\ local[j] = "running"
      /\ UNCHANGED << request, queue, call, blind, restarts >>
  BY DEF LocalEnds
<1>2. /\ local'[j] = end /\ \A k \in Job \ {j} : local'[k] = local[k]
      /\ local' \in [Job -> LocalSet]
  BY DEF Inv, TypeInv
<1>3. JobInv(j)
  BY DEF Inv
<1>4. CASE step[j] # "local"
  <2>1. UNCHANGED << status, step, output >> /\ j \in blind
    BY <1>1, <1>3, <1>4 DEF JobInv, LocalInv
  <2>2. TypeInv'
    BY <1>1, <1>2, <2>1 DEF Inv, TypeInv
  <2>3. output[j] # "local"
    BY <1>1, <1>3 DEF JobInv, OutputInv
  <2>4. JobInv(j)'
    BY <1>1, <1>2, <1>3, <2>1, <2>3
       DEF JobInv, StartInv, CallInv, PathInv, LocalInv, OutputInv, AtWorker, AtGateway
  <2>5. \A k \in Job \ {j} : Same(k)
    BY <1>1, <1>2, <2>1 DEF Same
  <2>. QED BY <1>1, <2>1, <2>2, <2>4, <2>5, OneJob
<1>5. CASE step[j] = "local"
  <2>1. status[j] = "running" /\ output[j] = None
    BY <1>3, <1>5 DEF JobInv, StartInv, OutputInv
  <2>2. \A p \in Path : call[j][p] \notin {"sent", "running", "done", "streamed"} \/ j \in blind
    BY <1>3, <1>5, <2>1 DEF JobInv, CallInv
  <2>3. CASE end = "done"
    <3>1. /\ status' \in [Job -> StatusSet] /\ step' \in [Job -> StepSet]
          /\ status'[j] = "succeeded" /\ step'[j] = "none"
          /\ \A k \in Job \ {j} : status'[k] = status[k] /\ step'[k] = step[k]
      BY <1>5, <2>3, MovesTyped DEF Inv
    <3>2. /\ output'[j] = "local" /\ \A k \in Job \ {j} : output'[k] = output[k]
          /\ output' \in [Job -> Party \cup {None}]
      BY <1>5, <2>3 DEF Inv, TypeInv, Party
    <3>3. TypeInv'
      BY <1>1, <1>2, <3>1, <3>2 DEF Inv, TypeInv
    <3>4. JobInv(j)'
      BY <1>1, <1>2, <1>3, <2>2, <2>3, <3>1, <3>2
         DEF JobInv, StartInv, CallInv, PathInv, LocalInv, OutputInv, AtWorker, AtGateway
    <3>5. \A k \in Job \ {j} : Same(k)
      BY <1>1, <1>2, <3>1, <3>2 DEF Same
    <3>. QED BY <1>1, <2>1, <3>3, <3>4, <3>5, OneJob
  <2>4. CASE end = "failed"
    <3>1. /\ status' \in [Job -> StatusSet] /\ step' \in [Job -> StepSet]
          /\ status'[j] = "failed" /\ step'[j] = "none" /\ output' = output
          /\ \A k \in Job \ {j} : status'[k] = status[k] /\ step'[k] = step[k]
      BY <1>5, <2>4, MovesTyped DEF Inv
    <3>2. TypeInv'
      BY <1>1, <1>2, <3>1 DEF Inv, TypeInv
    <3>3. JobInv(j)'
      BY <1>1, <1>2, <1>3, <2>1, <2>2, <2>4, <3>1, PartyAssumption
         DEF JobInv, StartInv, CallInv, PathInv, LocalInv, OutputInv, AtWorker, AtGateway, Party
    <3>4. \A k \in Job \ {j} : Same(k)
      BY <1>1, <1>2, <3>1 DEF Same
    <3>. QED BY <1>1, <2>1, <3>2, <3>3, <3>4, OneJob
  <2>. QED BY <2>3, <2>4
<1>. QED BY <1>4, <1>5

LEMMA LocalTimesOutStep == ASSUME Inv, NEW j \in Job, LocalTimesOut(j) PROVE Inv'
<1>1. /\ step[j] \in {"local", "synthesis"} /\ Fails(j) /\ blind' = blind \cup {j}
      /\ UNCHANGED << request, queue, restarts >>
  BY DEF LocalTimesOut
<1>2. status[j] = "running"
  BY <1>1 DEF Inv, JobInv, StartInv
<1>3. Alone(j) /\ j \in blind' /\ blind' \subseteq Job /\ queue' \in Seq(Job)
  BY <1>1 DEF Alone, Inv, TypeInv
<1>4. TypeInv'
  BY <1>1, <1>3, FailsTyped DEF Inv
<1>5. JobInv(j)' /\ \A k \in Job \ {j} : Same(k)
  BY <1>1, <1>2, <1>3, FailsEffect
<1>. QED BY <1>1, <1>2, <1>4, <1>5, OneJob

\* A research job makes no call, and the gateway runs none for it.
LEMMA ResearchSteps ==
  ASSUME Inv, NEW j \in Job, CollectEnds(j) \/ SynthesisEnds(j)
  PROVE  Inv'
<1>1. /\ step[j] \in {"collect", "synthesis"}
      /\ \/ Fails(j) \/ Succeeds(j, "report")
         \/ Moves(j, "running", "synthesis") /\ UNCHANGED << output, call, local >>
      /\ UNCHANGED << request, queue, blind, restarts >>
  BY DEF CollectEnds, SynthesisEnds
<1>2. JobInv(j) /\ status[j] = "running"
  BY <1>1 DEF Inv, JobInv, StartInv
<1>3. /\ j \notin blind => /\ \A p \in Path : call[j][p] \notin {"sent", "running", "done", "streamed"}
                          /\ local[j] \in {"none", "failed"}
  <2>1. local[j] \in LocalSet
    BY DEF Inv, TypeInv
  <2>. QED BY <1>1, <1>2, <2>1 DEF JobInv, CallInv, LocalInv
<1>4. Alone(j) /\ blind' \subseteq Job /\ queue' \in Seq(Job) /\ blind' = blind
  BY <1>1 DEF Alone, Inv, TypeInv
<1>5. CASE Fails(j)
  <2>1. TypeInv'
    BY <1>1, <1>4, <1>5, FailsTyped DEF Inv
  <2>2. JobInv(j)' /\ \A k \in Job \ {j} : Same(k)
    BY <1>2, <1>3, <1>4, <1>5, FailsEffect
  <2>. QED BY <1>1, <1>2, <2>1, <2>2, OneJob
<1>6. CASE Succeeds(j, "report")
  <2>1. "report" \in Party /\ "report" # "local" /\ "report" # "worker"
    BY DEF Party
  <2>2. TypeInv'
    BY <1>1, <1>4, <1>6, <2>1, SucceedsTyped DEF Inv
  <2>3. JobInv(j)' /\ \A k \in Job \ {j} : Same(k)
    BY <1>2, <1>3, <1>4, <1>6, <2>1, SucceedsEffect
  <2>. QED BY <1>1, <1>2, <2>2, <2>3, OneJob
<1>7. CASE Moves(j, "running", "synthesis") /\ UNCHANGED << output, call, local >>
  BY <1>1, <1>2, <1>4, <1>7, CollectEffect, OneJob
<1>. QED BY <1>1, <1>5, <1>6, <1>7

\* The worker's steps change one call, from one that is under way.
LEMMA AnswersStep ==
  ASSUME Inv, NEW j \in Job, NEW p \in Path, NEW answer \in CallSet, Answers(j, p, answer),
         \/ call[j][p] = "sent" /\ answer \in {"missing", "refused", "running"}
         \/ call[j][p] = "running" /\ answer \in {"done", "streamed", "failed", "missing"},
         answer = "streamed" => request[j].stream
  PROVE  Inv'
<1>1. /\ call' = [call EXCEPT ![j][p] = answer]
      /\ UNCHANGED << request, queue, status, step, output, local, blind, restarts >>
  BY DEF Answers
<1>2. TypeInv'
  BY <1>1 DEF Inv, TypeInv
<1>3. /\ call'[j][p] = answer /\ \A q \in Path \ {p} : call'[j][q] = call[j][q]
      /\ \A k \in Job \ {j} : call'[k] = call[k]
  BY <1>1 DEF Inv, TypeInv
<1>4. JobInv(j)
  BY DEF Inv
<1>5. StartInv(j)'
  BY <1>1, <1>3, <1>4 DEF JobInv, StartInv
<1>6. CallInv(j)'
  BY <1>1, <1>3, <1>4 DEF JobInv, CallInv
<1>7. PathInv(j)'
  BY <1>3, <1>4 DEF JobInv, PathInv
<1>8. LocalInv(j)'
  <2>1. AtGateway(j) => j \in blind \/ AtWorker(j)' = {}
    <3>1. AtGateway(j) /\ j \notin blind => step[j] # p /\ AtWorker(j) = {}
      BY <1>4 DEF JobInv, LocalInv, AtGateway
    <3>2. call[j][p] \in {"sent", "running"} => step[j] = p \/ j \in blind
      BY <1>4 DEF JobInv, CallInv
    <3>. QED BY <3>1, <3>2
  <2>. QED BY <1>1, <1>4, <2>1 DEF JobInv, LocalInv, AtGateway
<1>9. OutputInv(j)'
  BY <1>1, <1>3, <1>4 DEF JobInv, OutputInv
<1>10. \A k \in Job \ {j} : Same(k)
  BY <1>1, <1>3 DEF Same
<1>11. JobInv(j)'
  BY <1>5, <1>6, <1>7, <1>8, <1>9 DEF JobInv
<1>. QED BY <1>1, <1>2, <1>10, <1>11, OneJob

LEMMA ReceiveStep ==
  ASSUME Inv, NEW j \in Job, NEW p \in Path, Receive(j, p) PROVE Inv'
<1>1. /\ call[j][p] = "sent"
      /\ \/ Answers(j, p, "missing") \/ Answers(j, p, "refused") \/ Answers(j, p, "running")
  BY DEF Receive
<1>. QED BY <1>1, AnswersStep

LEMMA WorkEndsStep ==
  ASSUME Inv, NEW j \in Job, NEW p \in Path, WorkEnds(j, p) PROVE Inv'
<1>1. /\ call[j][p] = "running"
      /\ \/ Answers(j, p, "streamed") /\ request[j].stream
         \/ Answers(j, p, "done") \/ Answers(j, p, "failed") \/ Answers(j, p, "missing")
  BY DEF WorkEnds
<1>. QED BY <1>1, AnswersStep

LEMMA RestartStep == ASSUME Inv, Restart PROVE Inv'
<1>1. /\ status' = [j \in Job |-> IF status[j] \in {"queued", "running"} THEN "failed" ELSE status[j]]
      /\ step' = [j \in Job |-> "none"]
      /\ queue' = << >>
      /\ blind' = blind \cup { j \in Job : status[j] \in {"queued", "running"} }
      /\ local' = [j \in Job |-> IF local[j] = "running" THEN "failed" ELSE local[j]]
      /\ restarts' = restarts + 1
      /\ UNCHANGED << request, output, call >>
  BY DEF Restart
<1>2. TypeInv'
  BY <1>1 DEF Inv, TypeInv
<1>3. QueueInv'
  BY <1>1 DEF QueueInv
<1>4. ASSUME NEW j \in Job PROVE JobInv(j)'
  <2>1. /\ status'[j] = IF status[j] \in {"queued", "running"} THEN "failed" ELSE status[j]
        /\ step'[j] = "none" /\ status[j] \in StatusSet
        /\ j \in blind' <=> j \in blind \/ status[j] \in {"queued", "running"}
        /\ local'[j] = IF local[j] = "running" THEN "failed" ELSE local[j]
    BY <1>1 DEF Inv, TypeInv
  <2>2. JobInv(j)
    BY DEF Inv
  <2>3. StartInv(j)'
    BY <1>1, <2>1, <2>2 DEF JobInv, StartInv
  <2>4. CallInv(j)'
    BY <1>1, <2>1, <2>2 DEF JobInv, StartInv, CallInv
  <2>5. PathInv(j)'
    BY <1>1, <2>2 DEF JobInv, PathInv
  <2>6. LocalInv(j)'
    BY <1>1, <2>1, <2>2 DEF JobInv, StartInv, LocalInv, AtWorker, AtGateway
  <2>7. OutputInv(j)'
    BY <1>1, <2>1, <2>2 DEF JobInv, OutputInv
  <2>. QED BY <2>3, <2>4, <2>5, <2>6, <2>7 DEF JobInv
<1>. QED BY <1>2, <1>3, <1>4 DEF Inv

-----------------------------------------------------------------------------
LEMMA InitInv == Init => Inv
<1> SUFFICES ASSUME Init PROVE Inv
  OBVIOUS
<1>1. TypeInv
  BY DEF Init, TypeInv
<1>2. QueueInv
  BY DEF Init, QueueInv
<1>3. ASSUME NEW j \in Job PROVE JobInv(j)
  BY PartyAssumption DEF Init, JobInv, StartInv, CallInv, PathInv, LocalInv, OutputInv,
     AtWorker, AtGateway, Party
<1>. QED BY <1>1, <1>2, <1>3 DEF Inv

LEMMA Step == Inv /\ [Next]_vars => Inv'
<1> SUFFICES ASSUME Inv, [Next]_vars PROVE Inv'
  OBVIOUS
<1>1. ASSUME NEW j \in Job, Submit(j) \/ GatewayStep(j) \/ CollectEnds(j) PROVE Inv'
  BY <1>1, SubmitStep, StartStep, ReactStep, GiveUpStep, LocalEndsStep, LocalTimesOutStep,
     ResearchSteps DEF GatewayStep
<1>2. ASSUME NEW j \in Job, NEW p \in Path, Receive(j, p) \/ WorkEnds(j, p) PROVE Inv'
  BY <1>2, ReceiveStep, WorkEndsStep
<1>3. CASE UNCHANGED vars
  <2>1. TypeInv' /\ QueueInv'
    BY <1>3 DEF vars, Inv, TypeInv, QueueInv
  <2>2. ASSUME NEW j \in Job PROVE JobInv(j)'
    BY <1>3, SameKeeps DEF vars, Inv, Same
  <2>. QED BY <2>1, <2>2 DEF Inv
<1>. QED BY <1>1, <1>2, <1>3, RestartStep DEF Next

(* Every variable keeps its type, whatever is asked and however it ends. *)
THEOREM TypeCorrect == Spec => []TypeInv
<1>1. Inv => TypeInv
  BY DEF Inv
<1>. QED BY InitInv, Step, <1>1, PTL DEF Spec

(* What a client reads of its job is what happened to it, and no two parties  *)
(* do the same job unless the center gave up on one of them.                  *)
THEOREM OutcomesTrue == Spec => []OutcomesAreTrue
<1>1. ASSUME Inv PROVE OutcomesAreTrue
  <2> SUFFICES ASSUME NEW j \in Job
               PROVE  /\ output[j] = "worker" =>
                           (\E p \in Path : call[j][p] = "done") \/ request[j].stream
                      /\ output[j] = "local" => local[j] = "done"
                      /\ status[j] = "failed" /\ j \notin blind => AtWorker(j) = {} /\ ~AtGateway(j)
                      /\ Cardinality(AtWorker(j)) <= 1
                      /\ AtWorker(j) # {} /\ AtGateway(j) => j \in blind
    BY DEF OutcomesAreTrue
  <2>1. JobInv(j)
    BY <1>1 DEF Inv
  <2>2. output[j] = "worker" => (\E p \in Path : call[j][p] = "done") \/ request[j].stream
    BY <2>1 DEF JobInv, OutputInv, CallInv
  <2>3. status[j] = "failed" /\ j \notin blind => AtWorker(j) = {} /\ ~AtGateway(j)
    BY <2>1 DEF JobInv, StartInv, CallInv, LocalInv, AtWorker, AtGateway
  <2>4. Cardinality(AtWorker(j)) <= 1
    <3>1. ~("legacy" \in AtWorker(j) /\ "provider" \in AtWorker(j))
      BY <2>1 DEF JobInv, PathInv, AtWorker
    <3>2. AtWorker(j) = {} \/ AtWorker(j) = {"legacy"} \/ AtWorker(j) = {"provider"}
      BY <3>1 DEF AtWorker
    <3>3. /\ Cardinality({}) = 0 /\ Cardinality({"legacy"}) = 1
          /\ Cardinality({"provider"}) = 1
      BY FS_EmptySet, FS_Singleton
    <3>. QED BY <3>2, <3>3
  <2>. QED BY <2>1, <2>2, <2>3, <2>4 DEF JobInv, OutputInv, LocalInv
<1>. QED BY InitInv, Step, <1>1, PTL DEF Spec

=============================================================================
