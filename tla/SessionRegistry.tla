--------------------------- MODULE SessionRegistry ---------------------------
(***************************************************************************)
(* canvas-to-api/upstream/src/core/SessionRegistry.js: the browser sessions  *)
(* connected by WebSocket, their health, and for every API request in flight *)
(* the one session and attempt whose messages may reach its message queue.   *)
(* The registry is passive: CanvasRequests composes its operations with the  *)
(* handlers that call them.                                                  *)
(***************************************************************************)
EXTENDS Naturals, Sequences, SequencesExt

CONSTANTS
    Conn,             \* connection ids; a browser that reconnects gets a new one
    Req,              \* request ids
    None,
    Strategy,         \* config.sessionSelectionStrategy
    ErrorThreshold    \* config.sessionErrorThreshold, 0 for never

ASSUME ConnAssumption == Conn \subseteq Nat   \* in the order they connect
ASSUME NoneAssumption == None \notin Conn
ASSUME StrategyAssumption == Strategy \in {"round", "random"}
ASSUME ThresholdAssumption == ErrorThreshold \in Nat

VARIABLES
    connections,      \* the ids in the connections map, in its insertion order
    socket,           \* the server's end of each WebSocket
    authenticated, failureCount, disabled,
    roundCursor,
    messageQueues     \* request id -> the session and attempt its queue accepts

connectionVars == <<connections, socket, authenticated>>
healthVars == <<failureCount, disabled>>
registryVars == <<connections, socket, authenticated, failureCount, disabled,
                  roundCursor, messageQueues>>

(* "lost": the browser is gone and the server has not noticed (readyState is *)
(* still 1); "closing": readyState 2; "gone": the close event was handled.   *)
SocketState == {"new", "open", "lost", "closing", "gone"}

Entry == [conn : Conn, attempt : Nat \ {0}]

ASSUME EntryAssumption == None \notin Entry

RegistryTypeOK ==
    /\ connections \in Seq(Conn)
    /\ socket \in [Conn -> SocketState]
    /\ authenticated \in [Conn -> BOOLEAN]
    /\ failureCount \in [Conn -> Nat]
    /\ disabled \in [Conn -> BOOLEAN]
    /\ roundCursor \in Nat
    /\ messageQueues \in [Req -> Entry \cup {None}]

RegistryInit ==
    /\ connections = <<>>
    /\ socket = [c \in Conn |-> "new"]
    /\ authenticated = [c \in Conn |-> FALSE]
    /\ failureCount = [c \in Conn |-> 0]
    /\ disabled = [c \in Conn |-> FALSE]
    /\ roundCursor = 0
    /\ messageQueues = [r \in Req |-> None]

Present(c) == \E i \in DOMAIN connections : connections[i] = c
Registered(r) == messageQueues[r] # None

-------------------------------------------------------------------------------
(* Choosing a session *)

Available ==
    LET usable(c) == socket[c] \in {"open", "lost"} /\ ~disabled[c] /\ authenticated[c]
    IN  SelectSeq(connections, usable)

Pickable ==
    IF Available = <<>> THEN {}
    ELSE IF Strategy = "random" THEN ToSet(Available)
    ELSE {Available[1 + (roundCursor % Len(Available))]}

PickConnection(c) ==
    /\ c \in Pickable
    /\ roundCursor' = IF Strategy = "random" THEN roundCursor
                      ELSE (roundCursor + 1) % Len(Available)

-------------------------------------------------------------------------------
(* The message queues of the requests *)

CreateMessageQueue(r, c, n) ==
    /\ Present(c)
    /\ messageQueues' = [messageQueues EXCEPT ![r] = [conn |-> c, attempt |-> n]]

RemoveMessageQueue(r) == messageQueues' = [messageQueues EXCEPT ![r] = None]

QueuesOf(c) == {r \in Req : Registered(r) /\ messageQueues[r].conn = c}

(* Mutant of CloseQueues: a closed queue stays registered. *)
CloseQueuesRegistered(R) == UNCHANGED messageQueues

CloseQueues(R) ==
    messageQueues' = [r \in Req |-> IF r \in R THEN None ELSE messageQueues[r]]

(* Mutant of Accepts: a message of any attempt is taken. *)
AcceptsAnyAttempt(c, m) ==
    /\ Present(c)
    /\ authenticated[c]
    /\ Registered(m.req)
    /\ messageQueues[m.req].conn = c

(* Is message m from session c put into the queue of its request? *)
Accepts(c, m) ==
    /\ Present(c)
    /\ authenticated[c]
    /\ messageQueues[m.req] = [conn |-> c, attempt |-> m.attempt]

-------------------------------------------------------------------------------
(* The health of a session *)

RecordConnectionFailure(c) ==
    /\ failureCount' = [failureCount EXCEPT ![c] = @ + 1]
    /\ disabled' = [disabled EXCEPT
            ![c] = @ \/ (ErrorThreshold > 0 /\ failureCount[c] + 1 >= ErrorThreshold)]

RecordConnectionSuccess(c) ==
    /\ failureCount' = [failureCount EXCEPT ![c] = IF disabled[c] THEN @ ELSE 0]
    /\ UNCHANGED disabled

ResetConnectionHealth(c) ==
    /\ Present(c)
    /\ failureCount[c] > 0
    /\ failureCount' = [failureCount EXCEPT ![c] = 0]
    /\ disabled' = [disabled EXCEPT ![c] = FALSE]

-------------------------------------------------------------------------------
(* The life of a connection *)

AddConnection(c) ==
    /\ socket[c] = "new"
    /\ \A d \in Conn : d < c => socket[d] # "new"
    /\ connections' = Append(connections, c)
    /\ socket' = [socket EXCEPT ![c] = "open"]
    /\ UNCHANGED authenticated

HandleAuthenticationMessage(c) ==
    /\ socket[c] = "open"
    /\ ~authenticated[c]
    /\ authenticated' = [authenticated EXCEPT ![c] = TRUE]
    /\ UNCHANGED <<connections, socket>>

(* A wrong key, or no authentication within the timeout. *)
RejectConnection(c) ==
    /\ socket[c] = "open"
    /\ ~authenticated[c]
    /\ socket' = [socket EXCEPT ![c] = "closing"]
    /\ UNCHANGED <<connections, authenticated>>

(* The browser goes away; the server's socket may notice at once or later. *)
LoseConnection(c) ==
    /\ socket[c] = "open"
    /\ \E s \in {"lost", "closing"} : socket' = [socket EXCEPT ![c] = s]
    /\ UNCHANGED <<connections, authenticated>>

(* The close event: removeConnection() closes the session's queues. *)
RemoveConnection(c) ==
    /\ socket[c] \in {"lost", "closing"}
    /\ CloseQueues(QueuesOf(c))
    /\ \E i \in DOMAIN connections :
          /\ connections[i] = c
          /\ connections' = RemoveAt(connections, i)
    /\ socket' = [socket EXCEPT ![c] = "gone"]
    /\ UNCHANGED authenticated

(* closeAllMessageQueues() and closeAllConnections(). *)
CloseAll ==
    /\ CloseQueues(Req)
    /\ socket' = [c \in Conn |-> IF socket[c] \in {"open", "lost"} THEN "closing" ELSE socket[c]]
    /\ UNCHANGED <<connections, authenticated>>
==============================================================================
