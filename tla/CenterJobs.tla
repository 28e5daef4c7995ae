----------------------------- MODULE CenterJobs -----------------------------
(***************************************************************************)
(* The jobs of POST /v1/jobs and POST /v1/research/jobs: they wait in the   *)
(* gateway's one worker queue, and the job whose turn it is is dispatched   *)
(* over HTTP to a worker, or run by the gateway itself.  A worker is        *)
(* apps/private-worker, another gateway, or an old one with the internal    *)
(* path alone; it does not learn that the center stopped waiting.           *)
(*                                                                         *)
(* JobQueue has the queue's records and its file; here a restart is one     *)
(* step.  A job that carries stream: true gets an event stream for an       *)
(* answer, which no party parses.                                           *)
(***************************************************************************)
EXTENDS RuntimeTiers, Sequences, FiniteSets

CONSTANTS Job, MaxRestarts,
          Request      \* what clients ask: [capability, rich, stream, worker];
                       \* the capability "research.job" is the research route's

Party == {"worker", "local", "report"}   \* who may have done a job's work

ASSUME JobAssumption == MaxRestarts \in Nat /\ None \notin Job \cup Request
ASSUME PartyAssumption == None \notin Party

VARIABLES request,     \* of each job, None before it is submitted
          queue,       \* jobs that wait for their turn, oldest first
          status,      \* of the job's record
          step,        \* what the job that has its turn is waiting for
          output,      \* whose answer a job succeeded with
          call,        \* the calls to the worker: per job and path
          local,       \* the gateway's own run of a job
          blind,       \* jobs the center stopped waiting for
          restarts

vars == << request, queue, status, step, output, call, local, blind, restarts >>

Path == {"provider", "legacy"}
Paths(w) == CASE Registry[w].server = "worker"  -> Path
              [] Registry[w].server = "gateway" -> {"provider"}
              [] Registry[w].server = "old"     -> {"legacy"}

Research(j) == request[j].capability = "research.job"
Target(j) == SelectWorker(request[j])

Init ==
  /\ request = [j \in Job |-> None]
  /\ queue = << >>
  /\ status = [j \in Job |-> "none"]
  /\ step = [j \in Job |-> "none"]
  /\ output = [j \in Job |-> None]
  /\ call = [j \in Job |-> [p \in Path |-> "none"]]
  /\ local = [j \in Job |-> "none"]
  /\ blind = {}
  /\ restarts = 0

-----------------------------------------------------------------------------
\* createJob(), of either service, up to jobQueue.enqueue().
Submit(j) ==
  /\ status[j] = "none"
  /\ \E r \in Request : request' = [request EXCEPT ![j] = r]
  /\ status' = [status EXCEPT ![j] = "queued"]
  /\ queue' = Append(queue, j)
  /\ UNCHANGED << step, output, call, local, blind, restarts >>

\* The record of the job whose turn it is, and what it waits for.
Moves(j, newStatus, newStep) ==
  /\ status' = [status EXCEPT ![j] = newStatus]
  /\ step' = [step EXCEPT ![j] = newStep]

Fails(j) == Moves(j, "failed", "none") /\ UNCHANGED << output, call, local >>

Succeeds(j, party) ==
  /\ Moves(j, "succeeded", "none")
  /\ output' = [output EXCEPT ![j] = party]
  /\ UNCHANGED << call, local >>

\* dispatchToProviderChat(), dispatchToLegacyWorker(): a request is sent.
Dispatch(j, p) ==
  /\ Moves(j, "running", p)
  /\ call' = [call EXCEPT ![j][p] = "sent"]
  /\ UNCHANGED << output, local >>

\* runLocalFallback(): the gateway itself can do chats alone.
RunLocalFallback(j) ==
  \/ /\ request[j].capability = Chat
     /\ Moves(j, "running", "local")
     /\ local' = [local EXCEPT ![j] = "running"]
     /\ UNCHANGED << output, call >>
  \/ request[j].capability # Chat /\ Fails(j)

\* execute(), up to its first wait.  A worker that cannot be selected fails the
\* job; when no worker fits, the gateway runs it.
Execute(j) ==
  \/ Unselectable(request[j]) /\ Fails(j)
  \/ ~Unselectable(request[j]) /\ Target(j) = None /\ RunLocalFallback(j)
  \/ /\ ~Unselectable(request[j]) /\ Target(j) # None
     /\ Dispatch(j, IF request[j].capability = Chat THEN "provider" ELSE "legacy")

\* A research job first reads its sources, with no timeout of the gateway's.
Collect(j) == Moves(j, "running", "collect") /\ UNCHANGED << output, call, local >>

\* The queue calls the work() of the next job when the one before has ended.
Start(j) ==
  /\ queue # << >> /\ j = Head(queue)
  /\ \A k \in Job : status[k] # "running"
  /\ queue' = Tail(queue)
  /\ IF Research(j) THEN Collect(j) ELSE Execute(j)
  /\ UNCHANGED << request, blind, restarts >>

-----------------------------------------------------------------------------
\* What comes of a dispatch.

\* Bugs the properties must catch: any error of the provider path is a reason to
\* try the other path; the timeout is left to the call on the provider path.
AnyErrorIsUnavailable(answer) == TRUE
WaitsForProvider(j) == step[j] = "provider"

\* isProviderPathUnavailable()
IsProviderPathUnavailable(answer) == answer = "missing"

\* dispatchToWorkerDetailed(), then the catch of execute().
AfterError(j, answer) ==
  IF step[j] = "provider" /\ IsProviderPathUnavailable(answer)
  THEN Dispatch(j, "legacy") ELSE RunLocalFallback(j)

WaitsForWorker(j) == step[j] \in Path

\* The worker's answer.  A 200 succeeds whatever its body is, an event stream too.
React(j) ==
  LET answer == call[j][step[j]]
  IN  /\ step[j] \in Path
      /\ \/ answer \in {"done", "streamed"} /\ Succeeds(j, "worker")
         \/ answer \in {"failed", "refused", "missing"} /\ AfterError(j, answer)
      /\ UNCHANGED << request, queue, blind, restarts >>

\* AbortSignal.timeout(), or the connection fails: an error with no status.  The
\* worker, if it has the request, goes on.
GiveUp(j) ==
  /\ WaitsForWorker(j)
  /\ blind' = blind \cup {j}
  /\ AfterError(j, "none")
  /\ UNCHANGED << request, queue, restarts >>

LocalEnds(j) ==
  /\ local[j] = "running"
  /\ \E end \in {"done", "failed"} :
       /\ local' = [local EXCEPT ![j] = end]
       /\ IF step[j] # "local" THEN UNCHANGED << status, step, output >>
          ELSE IF end = "done"
               THEN /\ Moves(j, "succeeded", "none")
                    /\ output' = [output EXCEPT ![j] = "local"]
               ELSE Moves(j, "failed", "none") /\ UNCHANGED output
  /\ UNCHANGED << request, queue, call, blind, restarts >>

\* withTimeout() gives up on the gateway's own chat, which goes on.
LocalTimesOut(j) ==
  /\ step[j] \in {"local", "synthesis"}
  /\ blind' = blind \cup {j}
  /\ Fails(j)
  /\ UNCHANGED << request, queue, restarts >>

\* Every source is read, or one cannot be; then the provider writes the report.
CollectEnds(j) ==
  /\ step[j] = "collect"
  /\ \/ Fails(j)
     \/ Moves(j, "running", "synthesis") /\ UNCHANGED << output, call, local >>
  /\ UNCHANGED << request, queue, blind, restarts >>

SynthesisEnds(j) ==
  /\ step[j] = "synthesis"
  /\ Fails(j) \/ Succeeds(j, "report")
  /\ UNCHANGED << request, queue, blind, restarts >>

-----------------------------------------------------------------------------
\* The worker.  Its answer is "done" for a 200 with a result, "streamed" for one
\* with an event stream, "missing" for a 404, 405 or 501.
Answers(j, p, answer) ==
  /\ call' = [call EXCEPT ![j][p] = answer]
  /\ UNCHANGED << request, queue, status, step, output, local, blind, restarts >>

\* A request arrives: the path, the token and the capability are checked.
Receive(j, p) ==
  LET w == Registry[Target(j)]
  IN  /\ call[j][p] = "sent"
      /\ Answers(j, p, IF p \notin Paths(Target(j)) THEN "missing"
                       ELSE IF ~w.trusts \/ request[j].capability \notin w.offers
                            THEN "refused" ELSE "running")

\* The work ends.  A gateway says 404 for a model, conversation or file it does
\* not know; once it streams it has said 200, and tells of failures in the stream.
WorkEnds(j, p) ==
  LET gateway == Registry[Target(j)].server = "gateway"
      streams == request[j].stream
  IN  /\ call[j][p] = "running"
      /\ \/ Answers(j, p, IF streams THEN "streamed" ELSE "done")
         \/ ~(gateway /\ streams) /\ Answers(j, p, "failed")
         \/ gateway /\ ~streams /\ Answers(j, p, "missing")

-----------------------------------------------------------------------------
\* The gateway restarts: the jobs that had not ended have failed.
Restart ==
  LET open == { j \in Job : status[j] \in {"queued", "running"} }
  IN  /\ restarts < MaxRestarts
      /\ restarts' = restarts + 1
      /\ status' = [j \in Job |-> IF j \in open THEN "failed" ELSE status[j]]
      /\ step' = [j \in Job |-> "none"]
      /\ queue' = << >>
      /\ blind' = blind \cup open
      /\ local' = [j \in Job |-> IF local[j] = "running" THEN "failed" ELSE local[j]]
      /\ UNCHANGED << request, output, call >>

GatewayStep(j) ==
  Start(j) \/ React(j) \/ GiveUp(j) \/ LocalEnds(j) \/ LocalTimesOut(j) \/ SynthesisEnds(j)

Next ==
  \/ \E j \in Job :
       \/ Submit(j) \/ GatewayStep(j) \/ CollectEnds(j)
       \/ \E p \in Path : Receive(j, p) \/ WorkEnds(j, p)
  \/ Restart

\* The event loop takes its turns and its timers fire.  Nothing makes a worker
\* answer, or the server of a research source.
Fairness == \A j \in Job : WF_vars(GatewayStep(j))

Spec == Init /\ [][Next]_vars /\ Fairness
-----------------------------------------------------------------------------
\* The parties that did a job's work, or are at it.
AtWorker(j) == { p \in Path : call[j][p] \in {"running", "done", "streamed"} }
AtGateway(j) == local[j] \in {"running", "done"}

\* What the client reads is what happened, over lost answers, retries on the
\* other path and fallbacks: a job that succeeded was done by the party that its
\* record names, one that failed was done by none, and no two parties work, or
\* have worked, at the same job.  The exceptions are the code's: the center
\* cannot know once it gave up waiting (blind), and a chat that asks for a
\* stream succeeds however the stream ended.
OutcomesAreTrue ==
  \A j \in Job :
    /\ output[j] = "worker" =>
         (\E p \in Path : call[j][p] = "done") \/ request[j].stream
    /\ output[j] = "local" => local[j] = "done"
    /\ status[j] = "failed" /\ j \notin blind => AtWorker(j) = {} /\ ~AtGateway(j)
    /\ Cardinality(AtWorker(j)) <= 1
    /\ AtWorker(j) # {} /\ AtGateway(j) => j \in blind

\* Every job ends, whatever the workers do or fail to do, unless a research job
\* waits for a source for ever: then the queue stands still behind it.
JobsEnd ==
  \/ \A j \in Job :
       (status[j] \in {"queued", "running"}) ~> (status[j] \in {"succeeded", "failed"})
  \/ <>[](\E j \in Job : step[j] = "collect")
=============================================================================
