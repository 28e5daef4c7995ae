---------------------------- MODULE CanvasRequests ----------------------------
(***************************************************************************)
(* canvas-to-api/upstream/src/core/RequestHandler.js over SessionRegistry,   *)
(* with the browser page (scripts/client/canvas.html) that executes what it  *)
(* is sent.  An API request is forwarded to one session, answered from the   *)
(* messages that come back, retried on the next session when it fails, and   *)
(* given up when its client leaves, its timeout fires or retries run out.    *)
(*                                                                           *)
(* A resolved dequeue() runs its handler in a microtask, before any socket   *)
(* or timer: a message goes into event[r], and nothing but handlers moves    *)
(* until React(r) has consumed it (Quiet).                                   *)
(***************************************************************************)
EXTENDS SessionRegistry, FiniteSets

CONSTANTS
    MaxRetries,       \* config.maxRetries: how many attempts a request gets
    InFlight,         \* bound: messages a session has on the wire
    MaxFaults         \* bound: clients and sessions lost, resets and cleanups,
                      \* by the number of requests made

ASSUME NumberAssumption == Req \subseteq Nat   \* in the order they arrive
ASSUME FaultsAssumption == MaxFaults \in [Req -> Nat]
ASSUME RetriesAssumption == MaxRetries \in Nat \ {0}
ASSUME InFlightAssumption == InFlight \in Nat \ {0}

VARIABLES
    pc,               \* where the handler of each request is
    mode,             \* which of the handlers it is
    session, attempt, \* what the handler forwards to, and the attempt number
    event,            \* what its dequeue() has just returned or thrown
    client,           \* the API client's connection
    answer,           \* how the response ended for a client still connected
    reads,            \* history: the attempts whose messages were used
    unwatched,        \* history: requests abandoned where no cancel is sent
    closeHandled,     \* history: requests whose close handler cancelled
    faults,           \* how many of them there were
    ops,              \* the requests the browsers are executing
    wire              \* messages under way from each session to the server

handlerVars == <<pc, mode, session, attempt, event, client, answer, reads,
                 unwatched, closeHandled>>
vars == <<registryVars, handlerVars, faults, ops, wire>>

(* How each entry point waits for its answer: "gemini_stream" is Gemini's real *)
(* stream, "stream" that of the other three formats, "buffered" a fake stream  *)
(* or a non-stream request, "count" a token counter, which never retries.  The *)
(* rest of an entry point is the actions below, in one of its modes.           *)
GeminiModes == {"gemini_stream", "buffered"}
OpenAIModes == {"stream", "buffered"}
ResponseModes == {"stream", "buffered"}
ClaudeModes == {"stream", "buffered"}
CountTokensModes == {"count"}
InputTokensModes == {"count"}
Mode == GeminiModes \cup OpenAIModes \cup ResponseModes \cup ClaudeModes
            \cup CountTokensModes \cup InputTokensModes

(* "json": Gemini's stream asked for without alt=sse has written the first of *)
(* its body, which is JSON and not events.                                    *)
Where == {"idle", "translating", "first", "body", "json", "delay", "done"}
Event == {"none", "response_headers", "chunk", "stream_close", "error",
          "queue_closed", "queue_timeout", "client_disconnect"}

Message == [req : Req, attempt : Nat \ {0}, kind : Event]
Operation == [req : Req, attempt : Nat \ {0}, conn : Conn, sent : 0..2]

Init ==
    /\ RegistryInit
    /\ pc = [r \in Req |-> "idle"]
    /\ mode = [r \in Req |-> None]
    /\ session = [r \in Req |-> None]
    /\ attempt = [r \in Req |-> 1]
    /\ event = [r \in Req |-> "none"]
    /\ client = [r \in Req |-> "connected"]
    /\ answer = [r \in Req |-> "none"]
    /\ reads = [r \in Req |-> {}]
    /\ unwatched = {}
    /\ closeHandled = {}
    /\ faults = 0
    /\ ops = {}
    /\ wire = [c \in Conn |-> <<>>]

(* No handler has a microtask to run: event loop callbacks may start. *)
Quiet ==
    \A r \in Req :
        /\ event[r] = "none"
        /\ ~(pc[r] = "translating" /\ mode[r] = "gemini_stream")

(* A destroyed client socket emits "close" before the loop reaches timers. *)
TimersMayRun == Quiet /\ \A r \in Req : client[r] # "broken"

Fault ==
    /\ Quiet
    /\ \A r \in Req : pc[r] # "idle" => faults < MaxFaults[r]
    /\ faults' = faults + 1

Waiting(r) == pc[r] \in {"first", "body", "json"}

-------------------------------------------------------------------------------
(* Sending to a session *)

(* _forwardRequest(): the browser aborts an older attempt of the request. *)
Forward(r, c, n) ==
    ops' = IF socket[c] = "open"
           THEN {o \in ops : o.req # r \/ o.conn # c}
                    \cup {[req |-> r, attempt |-> n, conn |-> c, sent |-> 0]}
           ELSE ops

(* What the browser aborts when told to cancel what the registry holds for r. *)
(* With no entry the attempt id sent is null, and the browser ignores it.     *)
Cancelled(r) ==
    {o \in ops : o.req = r /\ messageQueues[r] = [conn |-> o.conn, attempt |-> o.attempt]}

(* Mutant of CancelBrowserRequest: no cancel is sent. *)
CancelNothing(r) == UNCHANGED ops

CancelBrowserRequest(r) == ops' = ops \ Cancelled(r)

-------------------------------------------------------------------------------
(* The handlers: starting, waiting, ending *)

(* The handler returns, and its locals are gone. *)
Return(r, a) ==
    /\ pc' = [pc EXCEPT ![r] = "done"]
    /\ answer' = [answer EXCEPT ![r] = IF client[r] = "connected" THEN a ELSE "none"]
    /\ mode' = [mode EXCEPT ![r] = None]
    /\ session' = [session EXCEPT ![r] = None]
    /\ attempt' = [attempt EXCEPT ![r] = 1]
    /\ reads' = [reads EXCEPT ![r] = {}]
    /\ UNCHANGED roundCursor

(* Mutant of Finish: the queue stays registered. *)
FinishRegistered(r, a) == Return(r, a) /\ UNCHANGED messageQueues

(* The finally block: the queue is removed and the response ended. *)
Finish(r, a) == Return(r, a) /\ RemoveMessageQueue(r)

(* A request arrives and a session is picked, or there is none: 503. *)
Start(r) ==
    /\ Quiet
    /\ pc[r] = "idle"
    /\ faults <= MaxFaults[r]
    /\ \A q \in Req : q < r => pc[q] # "idle"
    /\ \/ /\ Pickable = {}
          /\ Finish(r, "error")
       \/ \E c \in Conn, m \in Mode :
             /\ PickConnection(c)
             /\ session' = [session EXCEPT ![r] = c]
             /\ mode' = [mode EXCEPT ![r] = m]
             /\ pc' = [pc EXCEPT ![r] = "translating"]
             /\ UNCHANGED <<attempt, answer, reads, messageQueues>>
    /\ UNCHANGED <<connectionVars, healthVars, event, client, unwatched, closeHandled,
                   ops, faults, wire>>

(* The body is translated (an image may have been fetched), or that fails; the *)
(* queue is made and the request forwarded.  A close event of the client that  *)
(* came before the close handler is registered is never seen.                  *)
Launch(r) ==
    /\ pc[r] = "translating"
    /\ mode[r] # "gemini_stream" => Quiet
    /\ \/ /\ CreateMessageQueue(r, session[r], attempt[r])
          /\ Forward(r, session[r], attempt[r])
          /\ pc' = [pc EXCEPT ![r] = "first"]
          /\ UNCHANGED <<mode, session, attempt, answer, reads, roundCursor>>
       \/ /\ ~Present(session[r]) \/ mode[r] # "gemini_stream"
          /\ Finish(r, "error")
          /\ UNCHANGED ops
    /\ UNCHANGED <<connectionVars, healthVars, event, client, unwatched, closeHandled,
                   faults, wire>>

(* dequeue() rejects when nothing came for long enough. *)
Timeout(r) ==
    /\ TimersMayRun
    /\ Waiting(r)
    /\ event' = [event EXCEPT ![r] = "queue_timeout"]
    /\ UNCHANGED <<registryVars, pc, mode, session, attempt, client, answer, reads,
                   unwatched, closeHandled, ops, faults, wire>>

NextAttempt(r) ==
    /\ attempt' = [attempt EXCEPT ![r] = @ + 1]
    /\ reads' = [reads EXCEPT ![r] = {}]
    /\ CreateMessageQueue(r, session[r], attempt[r] + 1)
    /\ Forward(r, session[r], attempt[r] + 1)
    /\ pc' = [pc EXCEPT ![r] = "first"]
    /\ UNCHANGED <<mode, session, answer, roundCursor>>

(* Mutant of Retry: it waits until the session picked is there. *)
RetryWhenPresent(r) ==
    /\ TimersMayRun
    /\ pc[r] = "delay"
    /\ NextAttempt(r)
    /\ UNCHANGED <<connectionVars, healthVars, event, client, unwatched, closeHandled,
                   faults, wire>>

(* The retry delay is over: a new attempt with a queue of its own, if the *)
(* session picked before the delay is still there.                        *)
Retry(r) ==
    /\ TimersMayRun
    /\ pc[r] = "delay"
    /\ \/ NextAttempt(r)
       \/ ~Present(session[r]) /\ Finish(r, "error") /\ UNCHANGED ops
    /\ UNCHANGED <<connectionVars, healthVars, event, client, unwatched, closeHandled,
                   faults, wire>>

-------------------------------------------------------------------------------
(* The handlers: what they do with what dequeue() gave them *)

RealStream(r) == mode[r] \in {"gemini_stream", "stream"}
Failed(r) == event[r] \in {"error", "queue_closed", "queue_timeout"}

(* Which failures are tried again on another session. *)
Retryable(r) ==
    \/ mode[r] = "buffered"
    \/ RealStream(r) /\ pc[r] = "first" /\ event[r] = "error"

(* The failure handlers that reach _handleQueueTimeout(). *)
CancelsOnTimeout(r) ==
    /\ mode[r] # "count"
    /\ ~(mode[r] = "gemini_stream" /\ pc[r] \in {"body", "json"})

Consume(r) ==
    /\ event[r] # "none"
    /\ event' = [event EXCEPT ![r] = "none"]
    /\ UNCHANGED <<connectionVars, healthVars, client, closeHandled, faults, wire>>

Continue(r) ==
    /\ Consume(r)
    /\ \/ event[r] = "response_headers" /\ pc' = [pc EXCEPT ![r] = "body"]
       \/ /\ event[r] = "chunk"
          /\ RealStream(r) => client[r] = "connected"
          /\ \/ UNCHANGED pc
             \/ mode[r] = "gemini_stream" /\ pc' = [pc EXCEPT ![r] = "json"]
    /\ UNCHANGED <<mode, session, attempt, answer, reads, unwatched, roundCursor,
                   messageQueues, ops>>

(* A real stream that finds its response not writable stops; its res.end() *)
(* keeps the close handler from cancelling.                                *)
StopWriting(r) ==
    /\ Consume(r)
    /\ event[r] = "chunk"
    /\ RealStream(r)
    /\ client[r] # "connected"
    /\ Finish(r, "none")
    /\ unwatched' = unwatched \cup {r}
    /\ UNCHANGED ops

Complete(r) ==
    /\ Consume(r)
    /\ event[r] = "stream_close"
    /\ Finish(r, "ok")
    /\ UNCHANGED <<unwatched, ops>>

Abandon(r) ==
    /\ Consume(r)
    /\ event[r] = "client_disconnect"
    /\ Finish(r, "none")
    /\ UNCHANGED <<unwatched, ops>>

SwitchSession(r) ==
    /\ attempt[r] < MaxRetries
    /\ \E c \in Conn :
          /\ PickConnection(c)
          /\ session' = [session EXCEPT ![r] = c]
    /\ pc' = [pc EXCEPT ![r] = "delay"]
    /\ UNCHANGED <<mode, attempt, answer, reads, messageQueues>>

(* Mutant of SwitchOrFail: a request out of attempts ends without an answer. *)
SwitchOrEnd(r) ==
    \/ SwitchSession(r)
    \/ /\ attempt[r] >= MaxRetries \/ Pickable = {}
       /\ Finish(r, "none")

(* The next session is picked before the delay; the queue of the failed *)
(* attempt is closed and stays registered until the delay is over.      *)
SwitchOrFail(r) ==
    \/ SwitchSession(r)
    \/ /\ attempt[r] >= MaxRetries \/ Pickable = {}
       /\ Finish(r, "error")

(* _handleRequestError() of a response that has begun writes an event into an *)
(* event stream; one of JSON it only ends.                                    *)
EndsSilently(r) == pc[r] = "json" /\ event[r] = "queue_timeout"

Fail(r) ==
    /\ Consume(r)
    /\ Failed(r)
    /\ IF Retryable(r) THEN SwitchOrFail(r)
       ELSE Finish(r, IF EndsSilently(r) THEN "none" ELSE "error")
    /\ IF event[r] = "queue_timeout" /\ CancelsOnTimeout(r)
       THEN CancelBrowserRequest(r) ELSE UNCHANGED ops
    /\ unwatched' = IF event[r] = "queue_timeout" /\ ~CancelsOnTimeout(r)
                    THEN unwatched \cup {r} ELSE unwatched

React(r) == Continue(r) \/ StopWriting(r) \/ Complete(r) \/ Abandon(r) \/ Fail(r)

-------------------------------------------------------------------------------
(* The API client *)

ClientBreaks(r) ==
    /\ Fault
    /\ client[r] = "connected"
    /\ pc[r] \notin {"idle", "done"}
    /\ client' = [client EXCEPT ![r] = "broken"]
    /\ UNCHANGED <<registryVars, pc, mode, session, attempt, event, answer, reads,
                   unwatched, closeHandled, ops, wire>>

(* The "close" event.  While the body is translated no handler is registered; *)
(* once the response has ended the handler does nothing.                      *)
ClientCloses(r) ==
    /\ Quiet
    /\ client[r] = "broken"
    /\ client' = [client EXCEPT ![r] = "left"]
    /\ IF Waiting(r) \/ pc[r] = "delay"
       THEN /\ CancelBrowserRequest(r)
            /\ RemoveMessageQueue(r)
            /\ closeHandled' = closeHandled \cup {r}
            /\ event' = IF Waiting(r) THEN [event EXCEPT ![r] = "client_disconnect"]
                        ELSE event
       ELSE UNCHANGED <<ops, messageQueues, closeHandled, event>>
    /\ unwatched' = IF pc[r] \in {"translating", "delay"}
                    THEN unwatched \cup {r} ELSE unwatched
    /\ UNCHANGED <<connectionVars, healthVars, roundCursor, pc, mode, session, attempt,
                   answer, reads, faults, wire>>

-------------------------------------------------------------------------------
(* The sessions *)

(* The close event of a session, a stale queue and a shutdown all close *)
(* queues under the handlers that wait for them.                        *)
ThrowClosed(R) ==
    event' = [r \in Req |-> IF r \in R /\ Waiting(r) THEN "queue_closed" ELSE event[r]]

Connected(c) ==
    /\ Quiet
    /\ AddConnection(c) \/ HandleAuthenticationMessage(c)
    /\ UNCHANGED <<healthVars, roundCursor, messageQueues, handlerVars, faults, ops, wire>>

(* The browser's operations end with its connection (cancelAllOperations()). *)
EndOperations(c) == ops' = {o \in ops : o.conn # c}

Rejected(c) ==
    /\ Quiet
    /\ RejectConnection(c)
    /\ EndOperations(c)
    /\ UNCHANGED <<healthVars, roundCursor, messageQueues, handlerVars, faults, wire>>

Disconnect(c) ==
    /\ Fault
    /\ LoseConnection(c)
    /\ EndOperations(c)
    /\ UNCHANGED <<healthVars, roundCursor, messageQueues, handlerVars, wire>>

SocketError(c) ==
    /\ Fault
    /\ socket[c] = "lost"
    /\ socket' = [socket EXCEPT ![c] = "closing"]
    /\ RecordConnectionFailure(c)
    /\ UNCHANGED <<connections, authenticated, roundCursor, messageQueues, handlerVars,
                   ops, wire>>

SocketClosed(c) ==
    /\ Quiet
    /\ RemoveConnection(c)
    /\ ThrowClosed(QueuesOf(c))
    /\ wire' = [wire EXCEPT ![c] = <<>>]
    /\ UNCHANGED <<healthVars, roundCursor, pc, mode, session, attempt, client, answer,
                   reads, unwatched, closeHandled, faults, ops>>

ResetHealth(c) ==
    /\ Fault
    /\ ResetConnectionHealth(c)
    /\ UNCHANGED <<connectionVars, roundCursor, messageQueues, handlerVars, ops, wire>>

(* A message arrives: it counts for the health of its session, and reaches *)
(* the handler, if the queue of its own attempt is there.  A queue closed  *)
(* for a retry is still registered, and drops it.                          *)
Deliver(c) ==
    /\ Quiet
    /\ socket[c] # "gone"
    /\ wire[c] # <<>>
    /\ wire' = [wire EXCEPT ![c] = Tail(@)]
    /\ LET m == Head(wire[c])
       IN  IF Accepts(c, m)
           THEN /\ IF m.kind = "error" THEN RecordConnectionFailure(c)
                                       ELSE RecordConnectionSuccess(c)
                /\ IF Waiting(m.req)
                   THEN /\ event' = [event EXCEPT ![m.req] = m.kind]
                        /\ reads' = [reads EXCEPT ![m.req] = @ \cup {m.attempt}]
                   ELSE UNCHANGED <<event, reads>>
           ELSE UNCHANGED <<healthVars, event, reads>>
    /\ UNCHANGED <<connectionVars, roundCursor, messageQueues, pc, mode, session, attempt,
                   client, answer, unwatched, closeHandled, faults, ops>>

(* cleanupStaleQueues(): only a response body lasts that long; a long buffered *)
(* one may have failed, and its request be in the delay before its retry.      *)
StaleCleanup(r) ==
    /\ TimersMayRun
    /\ Fault
    /\ pc[r] \in {"body", "json"} \/ (pc[r] = "delay" /\ mode[r] = "buffered")
    /\ Registered(r)
    /\ CloseQueues({r})
    /\ ThrowClosed({r})
    /\ unwatched' = IF Waiting(r) THEN unwatched \cup {r} ELSE unwatched
    /\ UNCHANGED <<connectionVars, healthVars, roundCursor, pc, mode, session, attempt,
                   client, answer, reads, closeHandled, ops, wire>>

Shutdown ==
    /\ Fault
    /\ \E c \in Conn : socket[c] \in {"open", "lost"}
    /\ CloseAll
    /\ ThrowClosed({r \in Req : Registered(r)})
    /\ ops' = {}
    /\ UNCHANGED <<healthVars, roundCursor, pc, mode, session, attempt, client, answer,
                   reads, unwatched, closeHandled, wire>>

-------------------------------------------------------------------------------
(* The browser page: headers, then the body (one chunk, or none), then the end *)
(* of the stream, or an error at any point.                                    *)

Send(o, kind) ==
    /\ Len(wire[o.conn]) < InFlight
    /\ wire' = [wire EXCEPT ![o.conn] =
            Append(@, [req |-> o.req, attempt |-> o.attempt, kind |-> kind])]

BrowserProgress(o) ==
    /\ \/ o.sent = 0 /\ Send(o, "response_headers")
       \/ o.sent = 1 /\ Send(o, "chunk")
    /\ ops' = (ops \ {o}) \cup {[o EXCEPT !.sent = @ + 1]}

BrowserEnds(o) ==
    /\ \/ Send(o, "error")
       \/ o.sent > 0 /\ Send(o, "stream_close")
    /\ ops' = ops \ {o}

BrowserStep ==
    /\ Quiet
    /\ \E o \in ops : BrowserProgress(o) \/ BrowserEnds(o)
    /\ UNCHANGED <<registryVars, handlerVars, faults>>

-------------------------------------------------------------------------------
Handle(r) == Start(r) \/ Launch(r) \/ React(r) \/ Timeout(r) \/ Retry(r)

Next ==
    \/ \E r \in Req : Handle(r) \/ ClientBreaks(r) \/ ClientCloses(r) \/ StaleCleanup(r)
    \/ \E c \in Conn :
          \/ Connected(c) \/ Rejected(c) \/ Disconnect(c) \/ SocketError(c)
          \/ SocketClosed(c) \/ ResetHealth(c) \/ Deliver(c)
    \/ BrowserStep
    \/ Shutdown

(* Microtasks run, timers fire, and a destroyed socket emits "close".  Nothing *)
(* is asked of the sessions, and nothing of the translation of a body: the     *)
(* image fetches it waits for have no timeout.                                 *)
EventLoop(r) ==
    \/ React(r) \/ Timeout(r) \/ Retry(r) \/ ClientCloses(r)
    \/ Launch(r) /\ mode[r] = "gemini_stream"

Fairness == \A r \in Req : WF_vars(EventLoop(r))

Spec == Init /\ [][Next]_vars /\ Fairness

-------------------------------------------------------------------------------
TypeOK ==
    /\ RegistryTypeOK
    /\ pc \in [Req -> Where]
    /\ mode \in [Req -> Mode \cup {None}]
    /\ session \in [Req -> Conn \cup {None}]
    /\ attempt \in [Req -> 1..MaxRetries]
    /\ event \in [Req -> Event]
    /\ client \in [Req -> {"connected", "broken", "left"}]
    /\ answer \in [Req -> {"none", "ok", "error"}]
    /\ reads \in [Req -> SUBSET (1..MaxRetries)]
    /\ unwatched \in SUBSET Req
    /\ closeHandled \in SUBSET Req
    /\ faults \in Nat
    /\ ops \in SUBSET Operation
    /\ wire \in [Conn -> Seq(Message)]

(* A response is made from one attempt only: what an attempt that was given up *)
(* on still sends is never mixed into the answer of the attempt that follows.  *)
OneAttemptAnswers == \A r \in Req : reads[r] \subseteq {attempt[r]}

(* The work the browsers do is the current attempt of a request somebody waits *)
(* for: an attempt that timed out was cancelled, and so was one whose client   *)
(* left, except on the five paths that lose track of it (unwatched): the       *)
(* client left while the body was translated, or during a retry delay, or its  *)
(* socket was found dead by a write; a timeout in Gemini's stream or a token   *)
(* count; a stale queue removed.                                               *)
NoOrphanWork ==
    \A o \in ops :
        \/ o.req \in unwatched
        \/ Waiting(o.req) /\ o.attempt = attempt[o.req] /\ client[o.req] # "left"

(* A registered queue belongs to a connection that exists and to a handler    *)
(* that has not ended: neither a lost session nor any way out of a handler    *)
(* leaves a queue behind that would swallow messages.                         *)
QueuesHaveOwners ==
    \A r \in Req :
        Registered(r) => /\ Present(messageQueues[r].conn)
                         /\ Waiting(r) \/ pc[r] = "delay"

(* A client that stayed is told how its request ended, whatever session,       *)
(* queue, timeout or retry failed on the way.  One response is only cut off:   *)
(* a Gemini JSON stream that has begun, when its next chunk does not come in   *)
(* time.                                                                       *)
CutOff(r) == pc[r] = "json" /\ event[r] = "queue_timeout"
ClientIsTold ==
    [][\A r \in Req :
          pc[r] # "done" /\ pc'[r] = "done" /\ client[r] = "connected" =>
              answer'[r] \in {"ok", "error"} \/ CutOff(r)]_vars

(* A forwarded request ends, whatever becomes of its sessions and its client. *)
ForwardedRequestsEnd ==
    \A r \in Req : (Waiting(r) \/ pc[r] = "delay") ~> pc[r] = "done"

(* RequestHandler.js:2878: the session is looked up dynamically, which "ensures *)
(* we cancel on the correct session even after retries switch sessions".        *)
ClosedClientsAreCancelled == \A o \in ops : o.req \notin closeHandled
==============================================================================
