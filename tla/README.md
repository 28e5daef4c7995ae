# A TLA+ model of web-api

`web-api` offers an OpenAI-style HTTP interface to web chat products that have
no API. Its core is the gateway `providers/gpt-web-api`: a Node process that
drives one logged-in browser profile over the Chrome DevTools Protocol (CDP).
Around it are packages (queues, account and proxy pools, stores, an audit log),
a private worker, two protocol shims and vendored upstream gateways.

Everything in the gateway runs on one event loop, so the interesting steps are
the stretches between two `await`s; what makes it hard is that requests
interleave at every `await`, that a timeout abandons work without stopping it,
and that state lives in JSON files which are rewritten whole.

## Inventory

| part | state | operations | what is hard | what makes it correct |
|---|---|---|---|---|
| Worker queue, `lib/job_queue.mjs` | `jobs` map, promise `tail`, `data/jobs.json` | `enqueue`, the chained run, `prune`, `persist`, `load`, `get`, `wait` | a synchronous, non-atomic write that may throw in each handler; crash between two writes; eviction of unfinished jobs | one job at a time in order; outcomes never change or disappear early |
| Session locks, `lib/session_lock.mjs` | `locks`: the tail promise of each key | `run(key, work)` | entries are removed by a microtask while other calls link themselves | exclusion and order per key; no entry left behind |
| Chat runtime, `server.mjs`, `services/chat_service.mjs`, `services/chat_state_service.mjs`, `lib/session_affinity.mjs`, `routes/openai_routes.mjs` | `conversations.json`, `session_affinity.json`, the two structures above | chat, streamed chat and image requests | `withTimeout` does not cancel; maps read before and written after a long operation | a ChatGPT thread is never driven twice at once; answered conversations stay known; every request is answered |
| Browser runtime, `services/browser_runtime.mjs` | CDP sockets, tabs, the composer in the page | submit a prompt, wait for text or an image, change composer settings | no CDP timeout; tabs shared by abandoned and new operations; snapshots of the images that were there before | a result belongs to the prompt that asked for it |
| Package queues, `packages/job_queue` | entries, depth counters, leases, a state file | `enqueue`, run, `acquireLease`, `releaseLease`, `load` | counters changed around a write that may throw; capacity; leases that expire | counters tell what became of the tasks; a lease given stays listed, and none comes back from the dead; tasks run one at a time in order |
| Provider pool, proxy pool, `packages/provider_pool`, `packages/proxy_pool` | health, leases, cooldown times | select, lease, release, record success or failure, `tick` | clocks, stale cooldowns, releases by a former holder | a leased or cooling account is not given out; every rest ends |
| Center jobs, `services/center_job_service.mjs`, `runtime_tier_policy.mjs`, and `apps/private-worker` | worker registry, HTTP dispatch | choose a worker, dispatch on one of two paths, fall back | a timed-out dispatch may still execute | a job's record says what happened; every job ends |
| Research, `services/research_service.mjs` | a job | collect sources, synthesize | the first half has no timeout | the job ends |
| Shims, `shims/*` | one stream's translation state | forward JSON, translate SSE | a stream that breaks off | exactly one terminal event, the right one |
| Canvas sessions and requests, `canvas-to-api` `SessionRegistry.js`, `RequestHandler.js`, `MessageQueue.js`, the page `canvas.html` | WebSocket sessions and their health, a message queue for each request, the operations of the browser page | add and lose sessions, pick one, forward, dequeue, retry on another, cancel, clean up, reset health | an attempt's messages outlive it; clients leave at any point; queues are closed under their readers | an answer comes from one attempt; nobody's work is cancelled or left running; every client is told |
| Canvas translation, `canvas-to-api` `FormatConverter.js` | one stream's state | translate requests, chunks and answers of four formats to and from Gemini's | parts in any order, chunks that are not frames, histories as clients send them back | well-formed streams, nothing lost, the next history holds the last answer |
| Router, adapters, routes, admin, HTTP helpers | none, or a registry filled at start-up | lookups, validation, formatting | image-thinking route outside the queue | - |
| Media and artifact stores | index files | record, list | read-modify-write | no record lost |
| Other vendored upstreams (`qwen2api`, `ds-free-api`) | account pools | acquire, wait, release | their own concurrency | exclusion and wake-ups |
| Gemini provider, workbench, contracts, ops, prompt factory | none at run time | - | - | - |

They interact by direct calls on one loop. A route handler calls
`serialize(work)`: the job enters the worker queue, its run calls
`withTimeout(work)`, the work resolves the conversation from the two files,
takes the conversation's lock, drives the browser, writes the two files, and
its result travels back through the job's promise. `centerJobService` and
`researchService` enqueue on the same queue; a center job may call another
gateway's chat route, or a private worker, over HTTP.

The canvas upstream is a process of its own. It translates an API request to
Gemini's, forwards it over a WebSocket to a browser page that is logged in to
Gemini, and translates what comes back. The chat shim stands in front of its
Chat Completions route and offers the Responses API.

`PROJECT.json` lists the components with their status and every hazard at its
line.

## Modules

- `FifoMutex` is the abstract specification: clients arrive, are served one at
  a time in order, may be refused, withdraw when their turn comes, finish, or be
  dropped all at once.
- `JobQueue` models `lib/job_queue.mjs` completely. One action is one stretch of
  synchronous code: `Enqueue` (insert, prune, persist, chain), `StartRun` (up to
  `await work()`), `WorkSucceeds`/`WorkFails` (after it). Each has its failing
  twin: `EnqueueThrows`, `StartThrows`, `SuccessThrows`, and the second disjunct
  of `WorkFails`, where `persist()` throws with the old file, or a torn one, left
  on disk. `Crash` may come anywhere and may tear a file that is about to be
  written; `Restart` is `load()`. `table` is `this.jobs` (statuses only),
  `promise` what became of each run, `prev` and `tail` the promise chain, `file`
  and `saved` the file, `seen` what a polling client read last, `ticket` the
  insertion order of the map, which `prune()` follows.
- `SessionLock` models `lib/session_lock.mjs` completely. `previous` and `locks`
  stand for the promises: a registered tail resolves when its call has released,
  since that call had awaited the tail before it. `Release` and `Cleanup` are
  two actions, because the microtask runs after the continuation of the
  releasing call has yielded.
- `ChatRuntime` composes them: `Slot` is a `FifoMutex` (what `JobQueue` is proved
  to implement), and it extends `SessionLock`, whose calls are its requests and
  whose keys its conversation ids (`LockAssumption`); its own `Unregister` is the
  lock's `Cleanup`. A request has a job in the slot and an operation with a
  program counter `op`; `Timeout` ends the job and leaves the operation running,
  as `withTimeout` does. `copy` is the map an operation read and will write back.
  A write that fails may leave its file torn, as `fs.writeFile` empties it first
  (`Tears`); a torn file is a member of `torn`, fails whatever parses it, and is
  repaired only by the next whole write. `Resolve` reads the affinity file and
  enters `sessionLocks.run`; between the two the code only reads the uploaded
  files' records. Clients name only conversations they know, from an answer or a
  list.
- `ProfileQueue` models `createProfileSerialQueue` of `packages/job_queue` for one
  profile: the chained run, the capacity test, the depth counters, the leases and
  the state file, each handler with the ways its `persist()` can throw, a crash and
  `load()`. `entries` is `q.entries`, which a restart loses while the counters and
  leases come back from `saved`. `granted` remembers the leases whose callers were
  told of them. Queues of different profiles share only the file, so one is enough.
- `AccountPool` and `ProxyPool` model the two pool packages, a command an action.
  Times are what is left of them, so that a clock is not needed: `Advance` takes a
  unit off all. `held`, `robbed`, `rest` and `owed` remember what callers were
  granted and what rest was ordered. `Pools` puts both on one clock. Both write
  their file at the end of every command, so a restart finds the state as it was.
  That supposes that the write succeeds; one that throws or tears the file is not
  modelled here.
- `RuntimeTiers` is the tier policy as operators (`RequestTier`, `EffectiveTier`,
  `SelectWorker`, `Unselectable`) over a `Registry` of workers, and `CenterJobs` the
  jobs that use it: `Start` is `execute()` up to its first wait, `React` and `GiveUp`
  the two ends of a dispatch, `Receive` and `WorkEnds` the worker, which is a private
  worker, a gateway, or an old worker with one path. A research job is here too,
  since it waits in the same queue.
- `SessionRegistry` models the canvas sessions (`SessionRegistry.js`,
  `MessageQueue.js`): connections, authentication, selection, health, and the queue
  of each request. `CanvasRequests` runs the handlers of `RequestHandler.js` over
  it. The six entry points differ in how they wait, which is `mode`: a token
  counter never retries, Gemini's real stream forwards before its first `await`.
  A `dequeue()` that resolves runs its handler in a microtask, so a message is put
  into `event[r]` and nothing but handlers moves until it is consumed (`Quiet`).
  The `pc` is `"json"` once Gemini's stream has begun with headers other than
  those of server-sent events: no error can be written into it any more.
  `ops` is what the browser pages execute and `wire` what they have sent. `reads`,
  `unwatched` and `closeHandled` are history, and part of no guard.
- `AnswerStreams` holds the translators of Gemini's answers, for the formats of
  Chat Completions, Responses, Messages and Gemini and for the chat shim: the stream
  state and what a chunk, a pseudo-stream or a whole answer adds to it, event by
  event. `PromptHistory` holds the translators of conversation histories,
  `RequestSettings` those of thinking, tools, tool choice, output format and the
  operator's forced settings, `SchemaTranslation` the rewriting of JSON schemas.
  `CanvasConversation` composes them into a conversation: `Ask` sends the history
  the client has kept, `Say` lets Gemini speak, `Read` is one read of the browser,
  of any number of frames and perhaps half of the last, and `EndTurn` files what
  the client was told. `AskWithSettings` and `AskWithSchema` end there. The schemas
  and their translation are parameters of the module (`Schema`, `TranslateSchema`),
  which only `MCCanvasConversation` gives `SchemaTranslation`'s recursive operators.
- The `MC` modules say why the bounds of their `.cfg` files suffice.
- `JobQueueProofs`, `ChatRuntimeProofs` (with those of the session lock),
  `ProfileQueueProofs`, `PoolsProofs`, `CenterJobsProofs`, `CanvasRequestsProofs`,
  `CanvasStreamsProofs` and `CanvasConversationProofs`, which extends the one
  before, hold the theorems.

Operators whose comment begins with "Mutant of", "A bug the properties must
catch" or "Bugs the properties must catch" are plausible bugs of the definition
that follows them. They are used by no specification; put in its
place, each makes TLC report the property that `PROJECT.json` pairs it with.

## Runs

| run | bounds | shows |
|---|---|---|
| `job_queue` | 3 jobs, a table of 2, 2 faults | type correctness, `SerialFifo`, `OutcomeSurvivesRestart`, `LostOnlyToNewer`, `OutcomeNeverReversed`, `EveryRunSettles`, and that the queue implements `FifoMutex` |
| `chat_runtime` | 3 requests, 1 stored conversation | `ThreadNeverShared`, `OnlyAbandonedWorkOverlaps`, `AnsweredConversationKept`, `EveryRequestAnswered`; of the locks it takes `KeyFifo`, `RegistryFollowsCalls`, `EveryOperationServed`, and that each key implements `FifoMutex` |
| `profile_queue` | 3 tasks, room for 2, 2 leases, 1 crash, 2 failed writes, 1 clock tick | `DepthTellsOutcomes`, `OutcomesAreCounted`, `LeaseKept`, `NoGhostLease`, `EveryRunSettles`, and that the queue implements `FifoMutex` |
| `canvas_requests` | 2 requests, 2 sessions, 2 attempts, 1 message on each wire, 2 faults around one request and none while there are two | `OneAttemptAnswers`, `NoOrphanWork`, `QueuesHaveOwners`, `ClientIsTold`, `ForwardedRequestsEnd` |
| `canvas_conversation` | 5 formats, 3 requests, 3 parts, 2 frames under way; all settings of a request, all schemas of one or two keywords | `StreamsAreWellFormed`, `NothingLostButByFraming`, `FinishIsTold`, `HistoryIsKept`, `ResultsFollowCalls`, `SettingsAreKept`, `SchemasAreKept` |
| `pools` | 1 account, 1 proxy, 2 workers, a lease of 1 time unit, cooldowns of 2 (account) and 1 (proxy) | `LeasesExclude`, `RestsAreKept`, `RestsEnd` |
| `center_jobs` | 2 jobs, 5 workers of 3 kinds, 1 restart | `OutcomesAreTrue`, `JobsEnd` |
| `browser_serialized` | as `chat_runtime` | fails: after a timeout two operations drive the browser at once, against README.md:207 of the gateway and the `lock_policy` note it reports |
| `conversation_continues` | as `chat_runtime` | fails: a conversation that was answered is erased from both files when an abandoned operation writes its old copies, against README.md:219 |
| `canvas_cancel` | as `canvas_requests` | fails: a client that leaves during the retry delay has the failed attempt cancelled; the next one is forwarded and nobody cancels it, against the comment at RequestHandler.js:2878 |
| `profile_capacity` | 3 tasks, room for 2, no faults | fails: a task is refused as being over the pending capacity while only one task is pending, because entries are never removed (`index.mjs:288`) |
| `profile_restart` | 3 tasks, 1 crash, no failed writes, no leases | fails: a task killed at work is counted as running after the restart, against the comment "Reset running jobs to failed on restart" (`index.mjs:265`), whose loop runs over a map that was just created |

Why the bounds are enough. With a table of two, the third job evicts the first
whatever it is doing; two faults reach the worst pair, a failed write followed
by a crash, and a success both of whose writes fail. Three requests give an
operation that outlives its job, one that starts in the freed slot, and one that
continues what either created or waits behind a lock that is never released; they
may all queue on one key, the middle one linking itself between a release and its
cleanup, while the keys of new conversations come and go. Three
tasks and room for two let a refusal come while others wait, work or are over;
two failed writes reach a success whose two writes both fail, the case that
counts `depth.running` below zero; two leases overlap, expire or outlive a
release. With two sessions and two attempts a request moves to the session the
other one waits on, and its first attempt's messages arrive during the second; two
faults reach a lost session whose request is retried and then left by its client.
Three parts give an answer with two calls, calls in two answers, and a thought
after some text; three requests let the answer to a call be answered and sent
back in a history. A lease shorter than an account's cooldown lets time pass before, within
and after each. Two jobs let one wait behind the other. The
theorems below drop the bounds for the safety properties of every passing run, but
for `SchemasAreKept`.

Deadlock is not checked where job ids, calls, requests and tasks are finite in
number; a torn `jobs.json` or queue state file really stops its process for good,
and a conversation may stop after any answer. `pools` checks it.

## Fairness

- `JobQueue`: weak fairness of each run's start (the event loop runs the
  continuation of a settled promise) and of its settling. The second is what
  `withTimeout` gives for chat and image jobs; a research job collects its
  sources outside the timeout and does not have it.
- `ChatRuntime`: weak fairness only of the queue's start, the timer, and the
  continuation of an operation whose predecessor at its lock has released
  (`EnterBrowser`). Nothing is assumed of the browser, which may stay silent, with
  the lock held: `EveryRequestAnswered` holds nevertheless. `EveryOperationServed`
  says so itself that it supposes the operations holding the lock to end.
- `ProfileQueue`: as `JobQueue`; that `work()` settles is an assumption on the
  caller, since the package has no timeout.
- `CanvasRequests`: weak fairness of each request's event loop: microtasks run, the
  timers of `dequeue()` and of the retry delay fire, a destroyed socket emits
  "close". Nothing is assumed of sessions or browsers, nor of the translation of a
  body, whose image downloads have no timeout.
- `Pools`: time passes, and the process calls both `tick()`s, which is what the
  packages ask of their caller.
- `CenterJobs`: weak fairness of the gateway's steps alone, timers included. No
  worker need answer and no research source need end; `JobsEnd` names the latter.

## Proofs

All of the following are proved for every set of jobs, calls, keys, tasks, accounts,
workers, sessions, requests and stored conversations, every table size, capacity and
threshold, and any number of faults, from the assumptions named in the modules:
`MaxJobsAssumption`, `RetriesAssumption`, `BoundAssumption` and the like say that
counts are numbers; `JobAssumption`, `TaskAssumption`, `CallAssumption`,
`KeyAssumption`, `NoneAssumption`, `RequestAssumption` and `TargetAssumption` that
ids are none of the special values (and that jobs are finitely many);
`RecordAssumption`, `EntryAssumption` and `PartyAssumption` that a record or a name
is not `None`; `TtlAssumption`, `PoolAssumption`, `ProxyAssumption` and
`RegistryAssumption` that durations, policies and workers are of the kind the code
takes; `ConnAssumption` and `NumberAssumption` that sessions and requests are
numbered; `CanvasAssumption` that the formats are among the five. Each proof module
also shows its component's types (`TypeCorrect`), but for the two of the canvas
conversation, where they are part of `StreamInv` and `HistoryInv`.

- `JobQueueProofs!Serial` (`SerialFifo`). The invariant `SerialInv` adds to the
  types: tickets number the jobs (`TicketsInv`); `tail` is the last link while
  anybody is in line (`TailInv`); each link awaits the one just before it
  (`ChainInv`); nobody is in line before one that has started (`StartedInv`).
  `SerialFifo` alone says nothing of pending jobs, so it is not inductive.
- `JobQueueProofs!OutcomeKept`, `OutcomeFinal`. `OutcomeInv` relates table, file
  and promise: a run in progress is on file as "running", so a failure whose
  write is lost is found again by `load()`, and a success stays in the table
  only once it is written.
- `JobQueueProofs!Lost`. `LostInv` says of the file what the property says of the
  table; the step lemmas are about cardinalities of the sets of newer jobs.
- `JobQueueProofs!Refinement`: every step of the queue is a step of `FifoMutex`
  or a stutter, using `SerialInv`.
- `ChatRuntimeProofs!Exclusion`, `Registry`, `Refinement`, of the session lock:
  the same argument per key. `LocksOfTheRuntime` carries all three over to the
  runtime that takes the locks. The delicate step is `Cleanup`, which deletes the
  entry of a key; it needs that the deleted tail is the last of its line and has
  started.

- `ChatRuntimeProofs!ConversationExclusion`, `SerializedUnlessAbandoned`, `Kept`.
  `RuntimeInv` joins the lock's own invariant, taken over unchanged because every
  step of the runtime is a step of the lock or leaves it alone (`LockSteps`), with
  four parts: work that goes on holds the slot or was timed out (`SlotInv`); where
  an operation stands tells what it holds at the lock (`PlaceInv`); the id of a
  new conversation is in no file, copy or request until its creator has left the
  browser (`KnownInv`), which is why a new conversation needs no lock; and,
  unless something timed out, the copy an operation will write back misses nothing
  (`KeptInv`), since it is the only one active. `Kept` speaks of the files that are
  not torn: a torn one has lost all it held, which is `Tears`' doing and needs no timeout.

- `ProfileQueueProofs!Leased`, `NoGhosts`. What a worker was given is in the file
  as well, unless the file is torn (`KeptInv`), and while no write failed the file
  holds nothing else that runs (`GhostInv`): `load()` then brings back the right
  leases.
- `ProfileQueueProofs!Counted`, `Told`. Each handler is shown to move the counters
  by what it moves the number of tasks with a given promise (`Tally`). For a
  crash the same must be said of the file (`CountsInv`, `TellsInv`).
- `ProfileQueueProofs!Refinement`: the argument of `JobQueueProofs`, with task
  numbers as tickets (`OrderInv`) and `TailInv`, `ChainInv`, `StartedInv`.
- `PoolsProofs!Exclusion`, `RestKept`. A lease that runs and that nobody took is the
  one on the account's record, with the same time left (`HeldInv`); a rest that got
  an end of its own is covered by the record's `until` (`RestInv`, `OwedInv`),
  whatever the status has become.
- `CenterJobsProofs!OutcomesTrue`. Per job: calls belong to started jobs
  (`StartInv`); a call that may still be executed is the one the job waits for,
  or the center gave up on it (`CallInv`); the second path is tried only when the
  first one is missing (`PathInv`); the local run excludes the calls (`LocalInv`);
  an output names who produced it (`OutputInv`). `QueueInv`: a job is queued once.
- `CanvasRequestsProofs!Owners`, `Told`, `OneAttempt`, `NoOrphans`. `PlaceInv`: a
  handler in hand has a session, and only a waiting one is handed an event.
  `QueueInv`: a registered queue is that of the current attempt. `ClientInv`: a
  handler whose client left is told, or the request is one of the `unwatched`.
  `Told` is an action property, shown action by action from `ClientInv`: a handler
  that ends has answered, was left by its client, or cuts off a JSON stream.
  `OpsInv`: browsers execute only under an open socket, an attempt once, and unless
  unwatched under the queue its handler waits on. `WireInv`: a message that ends
  an attempt is on its way only when nobody executes the attempt any more, without
  which a handler could return while its browser still works.
- `CanvasStreamsProofs!WellFormedStreams`: for any answer, however long, of
  parts in any order, cut into any frames, joined, torn and interrupted anywhere. The
  translators are folds over the parts of a frame and the frames of a chunk, so the
  module first shows induction over `FoldLeft` (`NatSet`, `UpTo`, `FoldInduction`) as
  a fact about sets, since the library's theorems take an operator. A stream is then
  good if each event fits those before it (`AllFit`), it ends once (`EndsOnce`), and
  all blocks are closed before the end (`AllClosed`); these survive the append of one
  event that is allowed where it stands. Per format, the translator's flags tell what
  the stream they have written allows: `ResponsesLive`, `ClaudeLive`, and the like.
  `StreamInv` joins them (`Good`) with what crosses the network (`Streaming`): once
  the finish was told nothing more travels, for the code would answer a later frame
  with events after the end.
- `CanvasConversationProofs!KeptSettings`: for every schema, tool and choice, by the
  cases of the formats (`SettingsInv`); sets of tools are compared by their members,
  so the number of tools does not matter.
- `CanvasConversationProofs!KeptHistory`: for any number of turns and of parts in
  them. A history, a message, an answer and a stream are sequences out of which
  something is picked per element; `Gather(g, s)` is that walk for a function `g`,
  and its facts (`GatherConcat`, `GatherGather`) are proved once, by `SeqInduction`.
  Each translator is shown to gather over the turns (`OpenAIContentsIs`,
  `ClaudeContentsIs`, ...), although the code carries tool results and the role of
  the last content from message to message, and each turn to say to Gemini what was
  kept in it (`SaysKept`). The signatures need that a content is signed once
  (`SignedTurn`), or twice in the Gemini format. For the other half, what the client
  keeps, `HistoryInv` types the turns of each format; of a Responses stream, whose
  items come in any order, `FilesInv` says that the parts the client was told, kind
  by kind, are those it files under the indexes of that kind (`Filing`): an index is
  opened once and for one kind, and nothing is added to an index after a later one
  of its kind was opened.
- `CanvasConversationProofs!NothingIsLost`: what a client has of an answer that
  ended is what Gemini said, less the parts in `lost`. `Spoken(out)` is what a stream
  tells of each kind, and each translator is shown to add to it just what it could
  read of a chunk (`TranslateSpoken`). The invariant `LossInv` must name frames that
  no variable holds any more: there are frames (`gone`) such that those and the ones
  on the wire hold all that was said, and what was told is what `gone` holds and was
  not lost (`Deliv`). It also says that no part is in two frames, that a torn frame
  is the first on the wire, and that nothing on the wire is lost yet but the rest of
  a torn frame; without these a chunk read later could repeat or lose a part that was
  counted already (`DelivRead`). At the end the blocks hold what was told
  (`Retains`), by `Filing` for the formats whose events are indexed, the Messages
  format among them (`ClaudeFiling`).

- `CanvasConversationProofs!ToldFinish` (`FinishIsTold`): for any answer and any
  framing of it. The property looks at a stream that has ended, when nothing is left of
  the frame that carried the end, so `EndsInv` follows that frame. While something is on
  the wire, its last frame says how Gemini ended and the stream tells no end (`Closing`);
  once the wire is empty the stream tells what the frame said, unless 0 is in `lost`
  (`Closed`). It also ties the flag by which a translator remembers a call to
  the calls it has told (`CallsCounted`), since the reason a client is given depends on
  that flag and not on the events.
- `CanvasConversationProofs!FollowingResults` (`ResultsFollowCalls`): for any
  number of turns, each of any number of calls. Each turn's translation, in each
  format, is shown to reply (`Replies`): its contents begin with the results it
  was given, together where the format sends them together (`Opening`), and only
  its last content has calls, those of its answer (`CallsLast`). Since a turn's
  results are the calls of the turn before (`Linked`), the contents of a history
  form a chain (`HistoryChained`, by `SeqInduction`), which ends closed because
  the last turn has no answer yet. Nothing is claimed of a tool message that gives
  no name, nor of how the items of a Responses request are divided among contents.
  The names of the results are looked up in the history by the Messages and
  Responses translators, under the first part of a call block; that this finds
  every call needs one more invariant, that such a client has at most one call in
  a block (`AloneInv`), which in turn rests on `Filing`.

Only model-checked: of the canvas translation `SchemasAreKept`, whose schemas are
recursive, which the prover does not take; and all liveness (`EveryRunSettles`,
`EveryOperationServed`, `EveryRequestAnswered`, `ForwardedRequestsEnd`, `RestsEnd`,
`JobsEnd`), which is
beyond the prover. In `CanvasRequests` the lists
of connections are left untyped in the proofs, since the round-robin choice is an
induction over a sequence; the properties do not depend on which session is picked.

## Abstractions and what is not modelled

Results, error texts and time stamps are left out; a job's record is its status. A
file is read or written in one step; a write that fails may leave the file as it
was or torn (`Tears`), which also stands for overlapping writes that garble it. An
image job makes one image. The queue refusing a job is in `JobQueue`, not in
`ChatRuntime`. The components with status `not_modelled` in `PROJECT.json` are
listed there with the reason.

Pools: usage counters, the proxies' score, edits of `cooldown_until` by hand and
`max_concurrent_leases` (which no code reads) are left out. No caller in the
repository uses the packages, so any order of commands is possible.

Center jobs: workers, models and messages are what the tier policy and the
workers tell apart. A gateway says 404 for a conversation it does not know, which
the center takes for a missing path (`center_job_service.mjs:69`); a chat that
asks for a stream succeeds whatever the stream says; a fallback that
`withTimeout` gave up on goes on; a restart fails jobs whose remote work
continues. These are in the model, and the properties name them.

Canvas requests: a body is one chunk or none, a health record its counters.
Message contents are in `CanvasConversation`. Not modelled: writes to a socket
that is destroyed but not closed other than by the stop they cause, API keys,
the login and image upload of the page.

Canvas translation: a part of an answer is a kind and a number, a history a
sequence of answers and the client's turns. A client sends the results of its
calls and its question in one message; each call names a function of its own.
Frames are separated as the code assumes; the last one carries the finish reason.
Left out: system prompts, usage counts, numeric generation parameters, safety
settings, tool choices that are not legal in the format, and the text of the
notice for a blocked prompt. Settings and schemas are translated apart from the
history, so a request with them is not followed further. A schema has at most two
keywords whose parts are plain; the fallback for one whose conversion throws is
not modelled. The shim's other path, which asks for a stream and collects it into
one answer (`chat_responses_shim.mjs:286-342`), is not modelled either.

What the code does with settings and schemas that a client may not expect is
written as exceptions in the properties: an effort of "none" turns thoughts on; a
Messages client's "disabled" counts as unset; a list of allowed tools is passed
over in Chat Completions, and in Responses replaces the tools by references
without descriptions; a Messages client's forced hosted tool becomes an allowed
function that is not declared; `Blurred` lists the schemas that change meaning.

## Where the repository disagrees with itself

Five runs find a behaviour that a comment, a message or a document of the
repository denies; `PROJECT.json` quotes each under `findings`. Modelling met five
more disagreements that have no run. No property takes either side of them:

- Profile queue. A success whose write fails is counted down twice
  (`index.mjs:310`), so `depth.running` may fall below the minimum of 0 that
  `queue-state.schema.json:35` states and `index.mjs:4` claims to be aligned with.
  `OutcomesAreCounted` speaks of the counters of what has ended.
- Profile queue. `index.mjs:9-10` says that a lease prevents concurrent mutations.
  `acquireLease` asks nobody, so two workers can hold leases on one profile at once.
  `LeaseKept` and `NoGhostLease` say what a lease still is: listed as long as it
  runs, and none that was released or never given comes back.
- Canvas translation. A tool message that gives only the id of its call is sent on
  under an invented name; `FormatConverter.js:549` says that the OpenAI format always
  includes the name. The contents of a Responses request need not alternate in role,
  which `FormatConverter.js:467-468` says Gemini requires. `ResultsFollowCalls`
  leaves both out.
- Canvas settings. `FORCE_THINKING` is documented as applying to all requests
  (`README_EN.md:221` of the upstream); a client that turned thoughts off keeps them
  off, which `FormatConverter.js:745` describes. `ThinkingIsKept` says nothing where
  the two collide.
- Canvas requests. `RequestHandler.js:2138-2140` handles a timeout within Gemini's
  stream as "consistent with other interfaces", which tell their client of the
  error; a stream whose headers are not those of server-sent events is only ended.
  `ClientIsTold` names it (`CutOff`).

## Plan

Done so far, in the order of the first plan: the queues, locks and chat runtime
with their proofs, the pools, the center jobs and the canvas sessions with theirs,
the chat shim and the canvas translation. What is left:

1. The package's `createJobQueue`, which chains a run before it prunes and
   persists.
2. The wait and wake-up of qwen2api's account pool.
