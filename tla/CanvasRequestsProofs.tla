------------------------- MODULE CanvasRequestsProofs -------------------------
(***************************************************************************)
(* Theorems about CanvasRequests, for every set of sessions and requests,   *)
(* any number of attempts and faults and any capacity of the wires.         *)
(***************************************************************************)
EXTENDS CanvasRequests, SequenceTheorems, TLAPS

BrowserKind == {"response_headers", "chunk", "stream_close", "error"}
BrowserMessage == [req : Req, attempt : Nat \ {0}, kind : BrowserKind]
InHand == {"translating", "first", "body", "json", "delay"}

\* Every variable the theorems are about keeps its type.
RegistryTyped ==
  /\ connections \in Seq(Conn)
  /\ socket \in [Conn -> SocketState]
  /\ messageQueues \in [Req -> Entry \cup {None}]
HandlersTyped ==
  /\ pc \in [Req -> Where]
  /\ session \in [Req -> Conn \cup {None}]
  /\ attempt \in [Req -> Nat \ {0}]
  /\ event \in [Req -> Event]
  /\ client \in [Req -> {"connected", "broken", "left"}]
  /\ answer \in [Req -> {"none", "ok", "error"}]
  /\ reads \in [Req -> SUBSET Nat]
  /\ unwatched \in SUBSET Req
WiresTyped ==
  /\ ops \in SUBSET Operation
  /\ wire \in [Conn -> Seq(BrowserMessage)]
TypeInv == RegistryTyped /\ HandlersTyped /\ WiresTyped

\* A handler that has begun and not ended has a session, and only one that
\* waits is handed an event.
PlaceInv ==
  \A r \in Req :
    /\ pc[r] \in InHand => session[r] \in Conn
    /\ event[r] # "none" => Waiting(r)

\* A registered queue is that of the current attempt.
QueueInv ==
  \A r \in Req : Registered(r) => messageQueues[r].attempt = attempt[r]

\* A client is there when its request arrives; a handler is told that its
\* client left only when it did, and one that is not told is unwatched.
ClientInv ==
  \A r \in Req :
    /\ pc[r] = "idle" => client[r] = "connected"
    /\ event[r] = "client_disconnect" => client[r] # "connected"
    /\ client[r] = "left" /\ pc[r] \in InHand =>
         r \in unwatched \/ event[r] = "client_disconnect"

\* Only a session whose socket is open executes anything, each attempt once,
\* for a request whose handler has forwarded it, and unless the request is
\* unwatched, under the queue its handler waits on.
Executed(o) ==
  /\ socket[o.conn] = "open"
  /\ pc[o.req] \notin {"idle", "translating"}
  /\ pc[o.req] # "done" => o.attempt <= attempt[o.req]
  /\ o.req \notin unwatched =>
       /\ Waiting(o.req)
       /\ messageQueues[o.req] = [conn |-> o.conn, attempt |-> o.attempt]
       /\ event[o.req] \notin {"error", "stream_close", "queue_closed", "client_disconnect"}

Same(o, p) == p.req = o.req /\ p.conn = o.conn /\ p.attempt = o.attempt

OpsInv ==
  /\ \A o \in ops : Executed(o)
  /\ \A o, p \in ops : Same(o, p) => p = o

\* What is on a wire was sent by an attempt already made, and a message that
\* ends an attempt is sent when the attempt is executed no longer.
Sent(c, m) ==
  /\ pc[m.req] \notin {"idle", "translating"}
  /\ pc[m.req] # "done" => m.attempt <= attempt[m.req]
  /\ m.kind \in {"error", "stream_close"} =>
       \A o \in ops : ~(o.req = m.req /\ o.conn = c /\ o.attempt = m.attempt)

WireInv == \A c \in Conn : \A i \in DOMAIN wire[c] : Sent(c, wire[c][i])

Inv ==
  /\ TypeInv
  /\ PlaceInv
  /\ QueueInv
  /\ QueuesHaveOwners
  /\ OneAttemptAnswers
  /\ ClientInv
  /\ OpsInv
  /\ WireInv

-----------------------------------------------------------------------------
(* Connections and wires are sequences                                      *)

LEMMA PresentAppended ==
  ASSUME connections \in Seq(Conn), NEW c \in Conn,
         connections' = Append(connections, c), NEW d
  PROVE  /\ connections' \in Seq(Conn)
         /\ Present(d) => Present(d)'
<1>1. /\ connections' \in Seq(Conn)
      /\ DOMAIN connections = 1..Len(connections)
      /\ DOMAIN connections' = 1..(Len(connections) + 1)
      /\ \A i \in 1..Len(connections) : connections'[i] = connections[i]
  BY AppendProperties, LenProperties
<1> QED
  BY <1>1, LenProperties DEF Present

LEMMA PresentRemoved ==
  ASSUME connections \in Seq(Conn), NEW k \in DOMAIN connections,
         connections' = RemoveAt(connections, k), NEW d
  PROVE  /\ connections' \in Seq(Conn)
         /\ d # connections[k] /\ Present(d) => Present(d)'
<1> DEFINE s == connections
           n == Len(s)
           front == SubSeq(s, 1, k - 1)
           back == SubSeq(s, k + 1, n)
<1>1. n \in Nat /\ k \in 1..n /\ DOMAIN s = 1..n
  BY LenProperties
<1>2. /\ front \in Seq(Conn)
      /\ Len(front) = k - 1
      /\ \A i \in 1..(k - 1) : front[i] = s[i]
  BY <1>1
<1>3. /\ back \in Seq(Conn)
      /\ Len(back) = n - k
      /\ \A i \in 1..(n - k) : back[i] = s[k + i]
  BY <1>1
<1>4. connections' = front \o back
  BY DEF RemoveAt
<1> HIDE DEF s, n, front, back
<1>5. /\ connections' \in Seq(Conn)
      /\ Len(connections') = n - 1
      /\ \A i \in 1..(n - 1) :
           connections'[i] = IF i <= k - 1 THEN front[i] ELSE back[i - (k - 1)]
  <2>1. /\ front \o back \in Seq(Conn)
        /\ Len(front \o back) = Len(front) + Len(back)
        /\ \A i \in 1..(Len(front) + Len(back)) :
             (front \o back)[i] = IF i <= Len(front) THEN front[i]
                                  ELSE back[i - Len(front)]
    BY <1>2, <1>3, ConcatProperties
  <2>2. Len(front) + Len(back) = n - 1
    BY <1>1, <1>2, <1>3
  <2> QED
    BY <1>2, <1>4, <2>1, <2>2
<1>6. ASSUME d # connections[k], Present(d) PROVE Present(d)'
  <2>1. PICK i \in 1..n : s[i] = d
    BY <1>1, <1>6 DEF Present, s
  <2>2. i # k
    BY <1>6, <2>1 DEF s
  <2>3. CASE i < k
    <3>1. i \in 1..(n - 1) /\ connections'[i] = d
      BY <1>1, <1>2, <1>5, <2>1, <2>3
    <3> QED
      BY <1>5, <3>1, LenProperties DEF Present
  <2>4. CASE i > k
    <3>1. /\ i - 1 \in 1..(n - 1)
          /\ i - k \in 1..(n - k)
          /\ ~(i - 1 <= k - 1)
          /\ (i - 1) - (k - 1) = i - k
          /\ k + (i - k) = i
      BY <1>1, <2>1, <2>4
    <3>2. connections'[i - 1] = back[i - k] /\ back[i - k] = s[i]
      BY <1>3, <1>5, <3>1
    <3> QED
      BY <1>5, <2>1, <3>1, <3>2, LenProperties DEF Present
  <2> QED
    BY <1>1, <2>1, <2>2, <2>3, <2>4
<1> QED
  BY <1>5, <1>6

-----------------------------------------------------------------------------
(* The invariant speaks of few variables                                    *)

LEMMA Unmentioned ==
  ASSUME Inv,
         UNCHANGED <<connections, socket, messageQueues, pc, session, attempt, event,
                     client, answer, reads, unwatched, ops, wire>>
  PROVE  Inv'
BY DEF Inv, TypeInv, RegistryTyped, HandlersTyped, WiresTyped, PlaceInv, QueueInv,
       QueuesHaveOwners, OneAttemptAnswers, ClientInv, OpsInv, WireInv,
       Executed, Sent, Registered, Present, Waiting

(* A handler that returns unregisters its queue, and what is executed for it *)
(* then is unwatched.                                                        *)
LEMMA ReturnKeeps ==
  ASSUME Inv, NEW r \in Req, NEW a \in {"none", "ok", "error"},
         Return(r, a), RemoveMessageQueue(r),
         event' \in [Req -> Event],
         event'[r] = "none",
         \A q \in Req \ {r} : event'[q] = event[q],
         unwatched' \in SUBSET Req,
         unwatched \subseteq unwatched' /\ unwatched' \subseteq unwatched \cup {r},
         ops' \subseteq ops,
         \A o \in ops' : o.req = r => r \in unwatched',
         UNCHANGED <<connections, socket, client, wire>>
  PROVE  Inv'
<1> USE DEF Return, RemoveMessageQueue
<1>1. TypeInv'
  <2>1. RegistryTyped'
    BY DEF Inv, TypeInv, RegistryTyped
  <2>2. /\ pc' \in [Req -> Where]
        /\ session' \in [Req -> Conn \cup {None}]
        /\ attempt' \in [Req -> Nat \ {0}]
    BY DEF Inv, TypeInv, HandlersTyped, Where
  <2>3. answer' \in [Req -> {"none", "ok", "error"}]
    BY DEF Inv, TypeInv, HandlersTyped
  <2>4. reads' \in [Req -> SUBSET Nat]
    BY DEF Inv, TypeInv, HandlersTyped
  <2>5. HandlersTyped'
    BY <2>2, <2>3, <2>4 DEF Inv, TypeInv, HandlersTyped
  <2>6. WiresTyped'
    BY DEF Inv, TypeInv, WiresTyped
  <2> QED
    BY <2>1, <2>5, <2>6 DEF TypeInv
<1>2. PlaceInv'
  BY DEF Inv, PlaceInv, InHand, Waiting, TypeInv, HandlersTyped
<1>3. QueueInv' /\ QueuesHaveOwners' /\ OneAttemptAnswers'
  BY DEF Inv, QueueInv, QueuesHaveOwners, OneAttemptAnswers, Registered, Present, Waiting,
         TypeInv, HandlersTyped, RegistryTyped
<1>4. ClientInv'
  BY DEF Inv, ClientInv, InHand, TypeInv, HandlersTyped
<1>5. OpsInv'
  <2>1. ASSUME NEW o \in ops' PROVE Executed(o)'
    <3>1. o \in ops /\ o.req \in Req /\ Executed(o)
      BY DEF Inv, OpsInv, TypeInv, WiresTyped, Operation
    <3> QED
      BY <3>1 DEF Inv, Executed, Waiting, TypeInv, HandlersTyped, RegistryTyped
  <2> QED
    BY <2>1 DEF Inv, OpsInv, Same
<1>6. WireInv'
  <2> SUFFICES ASSUME NEW c \in Conn, NEW i \in DOMAIN wire[c]
               PROVE  Sent(c, wire[c][i])'
    BY DEF WireInv
  <2>1. wire[c][i] \in BrowserMessage /\ Sent(c, wire[c][i])
    BY DEF Inv, WireInv, TypeInv, WiresTyped
  <2> QED
    BY <2>1 DEF Inv, Sent, TypeInv, HandlersTyped, WiresTyped, BrowserMessage
<1> QED
  BY <1>1, <1>2, <1>3, <1>4, <1>5, <1>6 DEF Inv

(* A handler that forwards attempt n waits for it under a queue of its own. *)
LEMMA ForwardKeeps ==
  ASSUME Inv, NEW r \in Req, NEW n \in Nat \ {0},
         \/ pc[r] = "translating" /\ n = attempt[r]
         \/ pc[r] = "delay" /\ n > attempt[r],
         CreateMessageQueue(r, session[r], n), Forward(r, session[r], n),
         pc' = [pc EXCEPT ![r] = "first"],
         attempt' = [attempt EXCEPT ![r] = n],
         reads' \in {reads, [reads EXCEPT ![r] = {}]},
         n # attempt[r] => reads'[r] = {},
         UNCHANGED <<connections, socket, session, event, client, answer, unwatched, wire>>
  PROVE  Inv'
<1>1. session[r] \in Conn /\ event[r] = "none"
  BY DEF Inv, PlaceInv, InHand, Waiting
<1> DEFINE new == [req |-> r, attempt |-> n, conn |-> session[r], sent |-> 0]
           entry == [conn |-> session[r], attempt |-> n]
<1>2. new \in Operation /\ entry \in Entry /\ entry # None
  BY <1>1, EntryAssumption DEF Operation, Entry
<1>3. \A o \in ops' : (o = new /\ socket[session[r]] = "open") \/ o \in ops
  BY DEF Forward
<1>4. messageQueues' = [messageQueues EXCEPT ![r] = entry] /\ Present(session[r])
  BY DEF CreateMessageQueue
<1>5. \A o \in ops : o.req = r => r \in unwatched /\ o.attempt <= attempt[r]
  BY DEF Inv, OpsInv, Executed, Waiting
<1>6. entry.conn = session[r] /\ entry.attempt = n
  OBVIOUS
<1> HIDE DEF entry
<1>7. TypeInv'
  <2>1. RegistryTyped'
    BY <1>2, <1>4 DEF Inv, TypeInv, RegistryTyped
  <2>2. /\ pc' \in [Req -> Where]
        /\ attempt' \in [Req -> Nat \ {0}]
        /\ reads' \in [Req -> SUBSET Nat]
    BY DEF Inv, TypeInv, HandlersTyped, Where
  <2>3. HandlersTyped'
    BY <2>2 DEF Inv, TypeInv, HandlersTyped
  <2>4. WiresTyped'
    BY <1>2, <1>3 DEF Inv, TypeInv, WiresTyped
  <2> QED
    BY <2>1, <2>3, <2>4 DEF TypeInv
<1>8. PlaceInv'
  BY <1>1 DEF Inv, PlaceInv, InHand, Waiting, TypeInv, HandlersTyped
<1>9. QueueInv' /\ QueuesHaveOwners'
  BY <1>2, <1>4, <1>6
     DEF Inv, QueueInv, QueuesHaveOwners, Registered, Present, Waiting,
         TypeInv, HandlersTyped, RegistryTyped
<1>10. OneAttemptAnswers'
  BY DEF Inv, OneAttemptAnswers, TypeInv, HandlersTyped
<1>11. ClientInv'
  BY DEF Inv, ClientInv, InHand, TypeInv, HandlersTyped
<1>12. OpsInv'
  <2>1. ASSUME NEW o \in ops' PROVE Executed(o)'
    <3>1. CASE o = new /\ socket[session[r]] = "open"
      <4>1. o.req = r /\ o.conn = session[r] /\ o.attempt = n
        BY <3>1
      <4> QED
        BY <1>1, <1>4, <3>1, <4>1
           DEF Inv, Executed, Waiting, TypeInv, HandlersTyped, RegistryTyped, entry
    <3>2. CASE o \in ops
      <4>1. /\ o.req \in Req /\ o.attempt \in Nat
            /\ Executed(o)
            /\ o.req = r => r \in unwatched /\ o.attempt <= attempt[r]
        BY <1>5, <3>2 DEF Inv, OpsInv, TypeInv, WiresTyped, Operation
      <4> QED
        BY <1>4, <4>1 DEF Inv, Executed, Waiting, TypeInv, HandlersTyped, RegistryTyped
    <3> QED
      BY <1>3, <3>1, <3>2
  <2>2. \A o, p \in ops' : Same(o, p) => p = o
    <3>1. new.req = r /\ new.conn = session[r]
      OBVIOUS
    <3>2. ops' = ops \/ \A o \in ops' : o.req = r /\ o.conn = session[r] => o = new
      BY DEF Forward
    <3> HIDE DEF new
    <3> QED
      BY <1>3, <3>1, <3>2 DEF Inv, OpsInv, Same
  <2> QED
    BY <2>1, <2>2 DEF OpsInv
<1>13. WireInv'
  <2> SUFFICES ASSUME NEW c \in Conn, NEW i \in DOMAIN wire[c]
               PROVE  Sent(c, wire[c][i])'
    BY DEF WireInv
  <2> DEFINE m == wire[c][i]
  <2>1. m \in BrowserMessage /\ Sent(c, m)
    BY DEF Inv, WireInv, TypeInv, WiresTyped
  <2>2. m.req \in Req /\ m.attempt \in Nat
    BY <2>1 DEF BrowserMessage
  <2> HIDE DEF m
  <2>3. m.req = r => pc[r] = "delay" /\ m.attempt < n
    BY <2>1, <2>2 DEF Inv, Sent, TypeInv, HandlersTyped
  <2>4. ~(new.req = m.req /\ new.attempt = m.attempt)
    BY <2>2, <2>3
  <2> HIDE DEF new
  <2>5. /\ pc'[m.req] \notin {"idle", "translating"}
        /\ pc'[m.req] # "done" => m.attempt <= attempt'[m.req]
    BY <2>1, <2>2, <2>3 DEF Inv, Sent, TypeInv, HandlersTyped
  <2>6. Sent(c, m)'
    BY <1>3, <2>1, <2>4, <2>5 DEF Sent, m
  <2> QED
    BY <2>6 DEF m
<1> QED
  BY <1>7, <1>8, <1>9, <1>10, <1>11, <1>12, <1>13 DEF Inv

(* What becomes of an operation and of a message when a step changes the     *)
(* handler of r only, and moves it to no attempt of its own.                 *)
LEMMA HandlerOps ==
  ASSUME Inv, NEW r \in Req,
         pc' \in [Req -> Where], \A q \in Req \ {r} : pc'[q] = pc[q],
         pc[r] \notin {"idle", "translating"} => pc'[r] \in {"first", "body", "json", "delay"},
         pc[r] # "done",
         \A q \in Req \ {r} : event'[q] = event[q],
         unwatched \subseteq unwatched',
         ops' \subseteq ops,
         \A o \in ops' : o.req = r => r \in unwatched' \/ Executed(o)',
         UNCHANGED <<socket, messageQueues, attempt, wire>>
  PROVE  OpsInv' /\ WireInv'
<1>1. OpsInv'
  <2>1. ASSUME NEW o \in ops' PROVE Executed(o)'
    <3>1. o \in ops /\ o.req \in Req /\ Executed(o)
      BY DEF Inv, OpsInv, TypeInv, WiresTyped, Operation
    <3> QED
      BY <3>1 DEF Executed, Waiting
  <2> QED
    BY <2>1 DEF Inv, OpsInv, Same
<1>2. WireInv'
  <2> SUFFICES ASSUME NEW c \in Conn, NEW i \in DOMAIN wire[c]
               PROVE  Sent(c, wire[c][i])'
    BY DEF WireInv
  <2>1. wire[c][i] \in BrowserMessage /\ Sent(c, wire[c][i])
    BY DEF Inv, WireInv, TypeInv, WiresTyped
  <2> QED
    BY <2>1 DEF Inv, Sent, TypeInv, HandlersTyped, WiresTyped, BrowserMessage
<1> QED
  BY <1>1, <1>2

-----------------------------------------------------------------------------
(* The handlers                                                             *)

LEMMA StartKeeps == ASSUME Inv, NEW r \in Req, Start(r) PROVE Inv'
<1> USE DEF Start
<1>1. \A o \in ops : o.req # r
  BY DEF Inv, OpsInv, Executed
<1>2. event[r] = "none" /\ ~Waiting(r) /\ event \in [Req -> Event] /\ unwatched \in SUBSET Req
  BY DEF Inv, PlaceInv, Waiting, TypeInv, HandlersTyped
<1>3. CASE Finish(r, "error")
  BY <1>1, <1>2, <1>3, ReturnKeeps DEF Finish, connectionVars
<1>4. ASSUME NEW c \in Conn, session' = [session EXCEPT ![r] = c],
             pc' = [pc EXCEPT ![r] = "translating"],
             UNCHANGED <<attempt, answer, reads, messageQueues>>
      PROVE  Inv'
  <2> USE <1>4 DEF connectionVars
  <2>1. TypeInv'
    BY DEF Inv, TypeInv, RegistryTyped, HandlersTyped, WiresTyped, Where
  <2>2. PlaceInv' /\ QueueInv' /\ QueuesHaveOwners' /\ OneAttemptAnswers'
    BY DEF Inv, PlaceInv, QueueInv, QueuesHaveOwners, OneAttemptAnswers, Registered,
           Present, Waiting, InHand, TypeInv, HandlersTyped, RegistryTyped
  <2>3. ClientInv'
    BY DEF Inv, ClientInv, InHand, TypeInv, HandlersTyped
  <2>4. OpsInv' /\ WireInv'
    BY <1>1, HandlerOps DEF Inv, TypeInv, HandlersTyped, Where
  <2> QED
    BY <2>1, <2>2, <2>3, <2>4 DEF Inv
<1> QED
  BY <1>3, <1>4

LEMMA LaunchKeeps == ASSUME Inv, NEW r \in Req, Launch(r) PROVE Inv'
<1> USE DEF Launch, connectionVars
<1>1. \A o \in ops : o.req # r
  BY DEF Inv, OpsInv, Executed
<1>2. /\ event[r] = "none" /\ event \in [Req -> Event]
      /\ unwatched \in SUBSET Req
      /\ attempt[r] \in Nat \ {0} /\ attempt = [attempt EXCEPT ![r] = attempt[r]]
  BY DEF Inv, PlaceInv, Waiting, TypeInv, HandlersTyped
<1>3. CASE Finish(r, "error") /\ UNCHANGED ops
  BY <1>1, <1>2, <1>3, ReturnKeeps DEF Finish
<1>4. CASE /\ CreateMessageQueue(r, session[r], attempt[r])
           /\ Forward(r, session[r], attempt[r])
           /\ pc' = [pc EXCEPT ![r] = "first"]
           /\ UNCHANGED <<mode, session, attempt, answer, reads, roundCursor>>
  BY <1>2, <1>4, ForwardKeeps
<1> QED
  BY <1>3, <1>4

LEMMA RetryKeeps == ASSUME Inv, NEW r \in Req, Retry(r) PROVE Inv'
<1> USE DEF Retry, connectionVars
<1>1. \A o \in ops : o.req = r => r \in unwatched
  BY DEF Inv, OpsInv, Executed, Waiting
<1>2. /\ event[r] = "none" /\ event \in [Req -> Event]
      /\ unwatched \in SUBSET Req
      /\ attempt[r] + 1 \in Nat \ {0} /\ attempt[r] + 1 > attempt[r]
      /\ attempt' = [attempt EXCEPT ![r] = @ + 1] =>
           attempt' = [attempt EXCEPT ![r] = attempt[r] + 1]
  BY DEF Inv, PlaceInv, Waiting, TypeInv, HandlersTyped
<1>3. CASE Finish(r, "error") /\ UNCHANGED ops
  BY <1>1, <1>2, <1>3, ReturnKeeps DEF Finish
<1>4. CASE NextAttempt(r)
  <2>1. reads' = [reads EXCEPT ![r] = {}] /\ reads'[r] = {}
    BY <1>4 DEF NextAttempt, Inv, TypeInv, HandlersTyped
  <2> QED
    BY <1>2, <1>4, <2>1, ForwardKeeps DEF NextAttempt
<1> QED
  BY <1>3, <1>4

LEMMA TimeoutKeeps == ASSUME Inv, NEW r \in Req, Timeout(r) PROVE Inv'
<1> USE DEF Timeout, registryVars
<1>1. event[r] = "none"
  BY DEF TimersMayRun, Quiet
<1>2. TypeInv'
  BY DEF Inv, TypeInv, RegistryTyped, HandlersTyped, WiresTyped, Event
<1>3. PlaceInv' /\ QueueInv' /\ QueuesHaveOwners' /\ OneAttemptAnswers'
  BY DEF Inv, PlaceInv, QueueInv, QueuesHaveOwners, OneAttemptAnswers, Registered,
         Present, Waiting, TypeInv, HandlersTyped
<1>4. ClientInv'
  BY <1>1 DEF Inv, ClientInv, TypeInv, HandlersTyped
<1>5. OpsInv' /\ WireInv'
  <2>1. \A o \in ops' : o.req = r => Executed(o)'
    BY DEF Inv, OpsInv, Executed, Waiting, TypeInv, HandlersTyped
  <2> QED
    BY <2>1, HandlerOps DEF Inv, TypeInv, HandlersTyped, Waiting
<1> QED
  BY <1>2, <1>3, <1>4, <1>5 DEF Inv

(* A handler that consumes its event and goes on keeps everything but, when   *)
(* it goes into its delay, what it had a session execute.                     *)
LEMMA ConsumeKeeps ==
  ASSUME Inv, NEW r \in Req, Consume(r),
         pc' \in [Req -> Where], \A q \in Req \ {r} : pc'[q] = pc[q],
         pc'[r] \in {"first", "body", "json", "delay"},
         session' \in [Req -> Conn \cup {None}],
         \A q \in Req \ {r} : session'[q] = session[q],
         session'[r] \in Conn,
         unwatched' \in SUBSET Req, unwatched \subseteq unwatched',
         ops' \subseteq ops,
         pc'[r] = "delay" => \A o \in ops' : o.req = r => r \in unwatched',
         event[r] # "client_disconnect",
         UNCHANGED <<messageQueues, attempt, answer, reads>>
  PROVE  Inv'
<1> USE DEF Consume, connectionVars
<1>1. Waiting(r)
  BY DEF Inv, PlaceInv
<1>2. TypeInv'
  BY DEF Inv, TypeInv, RegistryTyped, HandlersTyped, WiresTyped, Event
<1>3. PlaceInv' /\ QueueInv' /\ QueuesHaveOwners' /\ OneAttemptAnswers'
  BY <1>1 DEF Inv, PlaceInv, QueueInv, QueuesHaveOwners, OneAttemptAnswers, Registered,
         Present, Waiting, InHand, TypeInv, HandlersTyped
<1>4. ClientInv'
  BY <1>1 DEF Inv, ClientInv, InHand, Waiting, TypeInv, HandlersTyped
<1>5. OpsInv' /\ WireInv'
  <2>1. \A o \in ops' : o.req = r => r \in unwatched' \/ Executed(o)'
    BY <1>1 DEF Inv, OpsInv, Executed, Waiting, TypeInv, HandlersTyped
  <2> QED
    BY <1>1, <2>1, HandlerOps DEF Inv, TypeInv, HandlersTyped, Waiting
<1> QED
  BY <1>2, <1>3, <1>4, <1>5 DEF Inv

LEMMA ConsumeReturns ==
  ASSUME Inv, NEW r \in Req, Consume(r), NEW a \in {"none", "ok", "error"}, Finish(r, a),
         unwatched' \in {unwatched, unwatched \cup {r}},
         ops' \subseteq ops,
         \A o \in ops' : o.req = r => r \in unwatched'
  PROVE  Inv'
<1>1. /\ event' \in [Req -> Event] /\ event'[r] = "none"
      /\ \A q \in Req \ {r} : event'[q] = event[q]
  BY DEF Consume, Inv, TypeInv, HandlersTyped, Event
<1>2. /\ unwatched' \in SUBSET Req
      /\ unwatched \subseteq unwatched' /\ unwatched' \subseteq unwatched \cup {r}
  BY DEF Inv, TypeInv, HandlersTyped
<1> QED
  BY <1>1, <1>2, ReturnKeeps DEF Finish, Consume, connectionVars

(* What is executed for a handler that fails is cancelled or unwatched. *)
LEMMA FailCancels ==
  ASSUME Inv, NEW r \in Req, Fail(r)
  PROVE  /\ ops' \subseteq ops
         /\ unwatched' \in {unwatched, unwatched \cup {r}}
         /\ \A o \in ops' : o.req = r => r \in unwatched'
<1> USE DEF Fail
<1>1. ops' \subseteq ops /\ unwatched' \in {unwatched, unwatched \cup {r}}
  BY DEF CancelBrowserRequest
<1>2. ASSUME NEW o \in ops', o.req = r, r \notin unwatched' PROVE FALSE
  <2>1. o \in ops /\ Executed(o) /\ r \notin unwatched
    BY <1>1, <1>2 DEF Inv, OpsInv
  <2>2. event[r] = "queue_timeout"
    BY <1>2, <2>1 DEF Executed, Failed
  <2>3. CancelBrowserRequest(r)
    BY <1>2, <2>2
  <2>4. o \in Cancelled(r)
    BY <1>2, <2>1 DEF Executed, Cancelled
  <2> QED
    BY <1>2, <2>3, <2>4 DEF CancelBrowserRequest
<1> QED
  BY <1>1, <1>2

LEMMA ReactKeeps == ASSUME Inv, NEW r \in Req, React(r) PROVE Inv'
<1>1. Waiting(r) /\ session[r] \in Conn /\ pc \in [Req -> Where]
      /\ session \in [Req -> Conn \cup {None}] /\ unwatched \in SUBSET Req
  BY DEF React, Continue, StopWriting, Complete, Abandon, Fail, Consume, Inv, PlaceInv,
         Waiting, InHand, TypeInv, HandlersTyped
<1>2. CASE Continue(r)
  <2>1. /\ pc' \in [Req -> Where] /\ \A q \in Req \ {r} : pc'[q] = pc[q]
        /\ pc'[r] \in {"first", "body", "json"}
    BY <1>1, <1>2 DEF Continue, Waiting, Where
  <2> QED
    BY <1>1, <1>2, <2>1, ConsumeKeeps DEF Continue
<1>3. CASE StopWriting(r)
  BY <1>3, ConsumeReturns DEF StopWriting
<1>4. ASSUME event[r] \in {"stream_close", "client_disconnect"}, NEW o \in ops, o.req = r
      PROVE  r \in unwatched
  BY <1>4 DEF Inv, OpsInv, Executed
<1>5. CASE Complete(r)
  BY <1>4, <1>5, ConsumeReturns DEF Complete
<1>6. CASE Abandon(r)
  BY <1>4, <1>6, ConsumeReturns DEF Abandon
<1>7. CASE Fail(r)
  <2>1. /\ ops' \subseteq ops
        /\ unwatched' \in {unwatched, unwatched \cup {r}}
        /\ \A o \in ops' : o.req = r => r \in unwatched'
    BY <1>7, FailCancels
  <2>2. Consume(r) /\ event[r] # "client_disconnect"
    BY <1>7 DEF Fail, Failed
  <2>3. CASE Finish(r, "error") \/ Finish(r, "none")
    BY <2>1, <2>2, <2>3, ConsumeReturns
  <2>4. CASE SwitchSession(r)
    <3>1. PICK c \in Conn : session' = [session EXCEPT ![r] = c]
      BY <2>4 DEF SwitchSession
    <3>2. /\ pc' \in [Req -> Where] /\ \A q \in Req \ {r} : pc'[q] = pc[q]
          /\ pc'[r] = "delay"
          /\ session' \in [Req -> Conn \cup {None}]
          /\ \A q \in Req \ {r} : session'[q] = session[q]
          /\ session'[r] \in Conn
          /\ UNCHANGED <<messageQueues, attempt, answer, reads>>
      BY <1>1, <2>4, <3>1 DEF SwitchSession, Where
    <3>3. unwatched' \in SUBSET Req /\ unwatched \subseteq unwatched'
      BY <1>1, <2>1
    <3> QED
      BY <2>1, <2>2, <3>2, <3>3, ConsumeKeeps
  <2> QED
    BY <1>7, <2>3, <2>4 DEF Fail, SwitchOrFail
<1> QED
  BY <1>2, <1>3, <1>5, <1>6, <1>7 DEF React

-----------------------------------------------------------------------------
(* The clients                                                              *)

LEMMA ClientBreaksKeeps == ASSUME Inv, NEW r \in Req, ClientBreaks(r) PROVE Inv'
<1> USE DEF ClientBreaks, registryVars
<1>1. TypeInv' /\ PlaceInv' /\ QueueInv' /\ QueuesHaveOwners' /\ OneAttemptAnswers'
  BY DEF Inv, TypeInv, RegistryTyped, HandlersTyped, WiresTyped, PlaceInv, QueueInv,
         QueuesHaveOwners, OneAttemptAnswers, Registered, Present, Waiting
<1>2. ClientInv'
  BY DEF Inv, ClientInv, InHand, TypeInv, HandlersTyped
<1>3. OpsInv' /\ WireInv'
  BY DEF Inv, OpsInv, WireInv, Executed, Sent, Waiting
<1> QED
  BY <1>1, <1>2, <1>3 DEF Inv

LEMMA ClientClosesKeeps == ASSUME Inv, NEW r \in Req, ClientCloses(r) PROVE Inv'
<1> USE DEF ClientCloses, connectionVars
<1>1. /\ \A q \in Req : event[q] = "none"
      /\ pc[r] \in Where \ {"idle"}
  BY DEF Quiet, Inv, ClientInv, TypeInv, HandlersTyped
<1>2. /\ \/ event' = event
         \/ Waiting(r) /\ event' = [event EXCEPT ![r] = "client_disconnect"]
      /\ unwatched' \in {unwatched, unwatched \cup {r}}
      /\ ops' \subseteq ops
      /\ messageQueues' \in {messageQueues, [messageQueues EXCEPT ![r] = None]}
  BY DEF CancelBrowserRequest, RemoveMessageQueue
<1>3. TypeInv'
  <2>1. RegistryTyped'
    BY <1>2 DEF Inv, TypeInv, RegistryTyped
  <2>2. HandlersTyped'
    BY <1>2 DEF Inv, TypeInv, HandlersTyped, Event
  <2>3. WiresTyped'
    BY <1>2 DEF Inv, TypeInv, WiresTyped
  <2> QED
    BY <2>1, <2>2, <2>3 DEF TypeInv
<1>4. PlaceInv' /\ QueueInv' /\ QueuesHaveOwners' /\ OneAttemptAnswers'
  <2>1. PlaceInv' /\ OneAttemptAnswers'
    BY <1>2 DEF Inv, PlaceInv, OneAttemptAnswers, Waiting, TypeInv, HandlersTyped
  <2>2. \A q \in Req : Registered(q)' => Registered(q) /\ UNCHANGED messageQueues[q]
    BY <1>2 DEF Registered, Inv, TypeInv, RegistryTyped
  <2>3. QueueInv' /\ QueuesHaveOwners'
    BY <2>2 DEF Inv, QueueInv, QueuesHaveOwners, Present, Waiting
  <2> QED
    BY <2>1, <2>3
<1>5. ClientInv'
  <2>1. ASSUME pc[r] \in InHand PROVE r \in unwatched' \/ event'[r] = "client_disconnect"
    BY <2>1 DEF InHand, Waiting, Inv, TypeInv, HandlersTyped
  <2>2. client' = [client EXCEPT ![r] = "left"]
    OBVIOUS
  <2> QED
    BY <1>1, <1>2, <2>1, <2>2 DEF Inv, ClientInv, InHand, TypeInv, HandlersTyped
<1>6. ASSUME NEW o \in ops', o.req = r PROVE r \in unwatched'
  <2>1. o \in ops /\ Executed(o)
    BY <1>2 DEF Inv, OpsInv
  <2>2. CASE r \in unwatched
    BY <1>2, <2>2
  <2>3. CASE r \notin unwatched
    <3>1. Waiting(r) /\ o \in Cancelled(r)
      BY <1>6, <2>1, <2>3 DEF Executed, Cancelled
    <3> QED
      BY <1>6, <3>1 DEF CancelBrowserRequest
  <2> QED
    BY <2>2, <2>3
<1>7. OpsInv'
  <2>1. ASSUME NEW o \in ops' PROVE Executed(o)'
    <3>1. o \in ops /\ o.req \in Req /\ Executed(o)
      BY <1>2 DEF Inv, OpsInv, TypeInv, WiresTyped, Operation
    <3> QED
      BY <1>2, <1>6, <3>1 DEF Executed, Waiting, Inv, TypeInv, HandlersTyped, RegistryTyped
  <2> QED
    BY <1>2, <2>1 DEF Inv, OpsInv, Same
<1>8. WireInv'
  BY <1>2 DEF Inv, WireInv, Sent
<1> QED
  BY <1>3, <1>4, <1>5, <1>7, <1>8 DEF Inv

-----------------------------------------------------------------------------
(* The sessions                                                             *)

(* A step of the sessions that leaves the handlers alone and ends what is   *)
(* executed under a socket it closes.                                       *)
LEMMA SocketsKeep ==
  ASSUME Inv, connections' \in Seq(Conn), \A c : Present(c) => Present(c)',
         socket' \in [Conn -> SocketState],
         ops' \subseteq ops, \A o \in ops' : socket'[o.conn] = "open",
         UNCHANGED <<messageQueues, pc, session, attempt, event, client, answer, reads,
                     unwatched, wire>>
  PROVE  Inv'
<1>1. TypeInv'
  BY DEF Inv, TypeInv, RegistryTyped, HandlersTyped, WiresTyped
<1>2. PlaceInv' /\ QueueInv' /\ OneAttemptAnswers' /\ ClientInv'
  BY DEF Inv, PlaceInv, QueueInv, OneAttemptAnswers, ClientInv, Registered,
         Waiting
<1>3. QueuesHaveOwners'
  BY DEF Inv, QueuesHaveOwners, Registered, Waiting
<1>4. OpsInv' /\ WireInv'
  BY DEF Inv, OpsInv, WireInv, Executed, Same, Sent, Waiting
<1> QED
  BY <1>1, <1>2, <1>3, <1>4 DEF Inv

LEMMA ConnectedKeeps == ASSUME Inv, NEW c \in Conn, Connected(c) PROVE Inv'
<1> USE DEF Connected, handlerVars
<1>1. CASE AddConnection(c)
  <2>1. connections \in Seq(Conn) /\ connections' = Append(connections, c)
    BY <1>1 DEF AddConnection, Inv, TypeInv, RegistryTyped
  <2>2. connections' \in Seq(Conn) /\ \A d : Present(d) => Present(d)'
    BY <2>1, PresentAppended
  <2>3. socket' \in [Conn -> SocketState] /\ \A o \in ops : socket'[o.conn] = "open"
    BY <1>1 DEF AddConnection, SocketState, Inv, TypeInv, RegistryTyped, WiresTyped,
                Operation, OpsInv, Executed
  <2> QED
    BY <2>2, <2>3, SocketsKeep
<1>2. CASE HandleAuthenticationMessage(c)
  BY <1>2, Unmentioned DEF HandleAuthenticationMessage
<1> QED
  BY <1>1, <1>2

(* The socket of c is closed, or its browser lost: its operations end. *)
LEMMA SocketEnds ==
  ASSUME Inv, NEW c \in Conn, NEW s \in {"lost", "closing"},
         socket' = [socket EXCEPT ![c] = s], EndOperations(c),
         UNCHANGED <<connections, messageQueues, handlerVars, wire>>
  PROVE  Inv'
<1>1. socket' \in [Conn -> SocketState]
  BY DEF Inv, TypeInv, RegistryTyped, SocketState
<1>2. ops' \subseteq ops /\ \A o \in ops' : socket'[o.conn] = "open"
  BY DEF EndOperations, Inv, OpsInv, Executed, TypeInv, RegistryTyped, WiresTyped, Operation
<1>3. connections' \in Seq(Conn) /\ \A d : Present(d) => Present(d)'
  BY DEF Inv, TypeInv, RegistryTyped, Present
<1> QED
  BY <1>1, <1>2, <1>3, SocketsKeep DEF handlerVars

LEMMA RejectedKeeps == ASSUME Inv, NEW c \in Conn, Rejected(c) PROVE Inv'
BY SocketEnds DEF Rejected, RejectConnection

LEMMA DisconnectKeeps == ASSUME Inv, NEW c \in Conn, Disconnect(c) PROVE Inv'
BY SocketEnds DEF Disconnect, LoseConnection

LEMMA SocketErrorKeeps == ASSUME Inv, NEW c \in Conn, SocketError(c) PROVE Inv'
<1> USE DEF SocketError
<1>1. socket' \in [Conn -> SocketState]
  BY DEF Inv, TypeInv, RegistryTyped, SocketState
<1>2. ops' = ops /\ \A o \in ops : socket'[o.conn] = "open"
  BY DEF Inv, OpsInv, Executed, TypeInv, RegistryTyped, WiresTyped, Operation
<1>3. connections' \in Seq(Conn) /\ \A d : Present(d) => Present(d)'
  BY DEF Inv, TypeInv, RegistryTyped, Present
<1> QED
  BY <1>1, <1>2, <1>3, SocketsKeep DEF handlerVars

LEMMA ResetHealthKeeps == ASSUME Inv, NEW c \in Conn, ResetHealth(c) PROVE Inv'
BY Unmentioned DEF ResetHealth, connectionVars, handlerVars

(* Handlers are told that their queues were closed; what a session still     *)
(* executes for one of them is unwatched.                                    *)
LEMMA QueuesClosedKeeps ==
  ASSUME Inv, Quiet, NEW R \in SUBSET Req, NEW T \in SUBSET R,
         CloseQueues(R), ThrowClosed(T),
         connections' \in Seq(Conn),
         \A q \in Req : Registered(q) /\ q \notin R /\ Present(messageQueues[q].conn) =>
           Present(messageQueues[q].conn)',
         socket' \in [Conn -> SocketState],
         unwatched' \in SUBSET Req, unwatched \subseteq unwatched',
         ops' \subseteq ops,
         \A o \in ops' : socket'[o.conn] = "open" /\ (o.req \in R => o.req \in unwatched'),
         wire' \in [Conn -> Seq(BrowserMessage)],
         \A c \in Conn : wire'[c] = wire[c] \/ wire'[c] = <<>>,
         UNCHANGED <<pc, session, attempt, client, answer, reads>>
  PROVE  Inv'
<1> USE DEF CloseQueues, ThrowClosed
<1>1. \A q \in Req :
        /\ event[q] = "none"
        /\ event'[q] = IF q \in T /\ Waiting(q) THEN "queue_closed" ELSE "none"
        /\ messageQueues'[q] = IF q \in R THEN None ELSE messageQueues[q]
  BY DEF Quiet
<1>2. TypeInv'
  <2>1. event' \in [Req -> Event] /\ messageQueues' \in [Req -> Entry \cup {None}]
    BY DEF Inv, TypeInv, RegistryTyped, HandlersTyped, Event
  <2> QED
    BY <2>1 DEF Inv, TypeInv, RegistryTyped, HandlersTyped, WiresTyped
<1>3. PlaceInv' /\ OneAttemptAnswers' /\ ClientInv'
  BY <1>1 DEF Inv, PlaceInv, OneAttemptAnswers, ClientInv, Waiting
<1>4. QueueInv' /\ QueuesHaveOwners'
  <2>1. ASSUME NEW q \in Req, Registered(q)'
        PROVE  Registered(q) /\ q \notin R /\ UNCHANGED messageQueues[q]
    BY <1>1, <2>1 DEF Registered
  <2> QED
    BY <2>1 DEF Inv, QueueInv, QueuesHaveOwners, Waiting
<1>5. OpsInv'
  <2>1. ASSUME NEW o \in ops' PROVE Executed(o)'
    <3>1. /\ o \in ops /\ o.req \in Req /\ Executed(o)
          /\ socket'[o.conn] = "open"
          /\ o.req \in R => o.req \in unwatched'
      BY DEF Inv, OpsInv, TypeInv, WiresTyped, Operation
    <3> QED
      BY <1>1, <3>1 DEF Executed, Waiting
  <2> QED
    BY <2>1 DEF Inv, OpsInv, Same
<1>6. WireInv'
  <2> SUFFICES ASSUME NEW c \in Conn, NEW i \in DOMAIN wire'[c]
               PROVE  Sent(c, wire[c][i])'
    BY DEF WireInv
  <2>1. wire'[c] = wire[c]
    <3>1. DOMAIN <<>> = {}
      OBVIOUS
    <3> QED
      BY <3>1
  <2>2. Sent(c, wire[c][i])
    BY <2>1 DEF Inv, WireInv
  <2> QED
    BY <2>1, <2>2 DEF Sent
<1> QED
  BY <1>2, <1>3, <1>4, <1>5, <1>6 DEF Inv

LEMMA SocketClosedKeeps == ASSUME Inv, NEW c \in Conn, SocketClosed(c) PROVE Inv'
<1> USE DEF SocketClosed, RemoveConnection
<1>1. PICK k \in DOMAIN connections :
        connections[k] = c /\ connections' = RemoveAt(connections, k)
  OBVIOUS
<1>2. connections \in Seq(Conn)
  BY DEF Inv, TypeInv, RegistryTyped
<1>3. /\ connections' \in Seq(Conn)
      /\ \A d : d # c /\ Present(d) => Present(d)'
  BY <1>1, <1>2, PresentRemoved
<1>4. ASSUME NEW o \in ops PROVE /\ socket'[o.conn] = "open"
                                 /\ o.req \in QueuesOf(c) => o.req \in unwatched
  <2>1. o.conn \in Conn /\ o.req \in Req /\ Executed(o) /\ o.conn # c
    BY DEF Inv, TypeInv, WiresTyped, Operation, OpsInv, Executed
  <2> QED
    BY <2>1 DEF Executed, QueuesOf, Inv, TypeInv, RegistryTyped
<1>5. socket' \in [Conn -> SocketState]
  BY DEF Inv, TypeInv, RegistryTyped, SocketState
<1>6. /\ wire' \in [Conn -> Seq(BrowserMessage)]
      /\ \A d \in Conn : wire'[d] = wire[d] \/ wire'[d] = <<>>
  BY DEF Inv, TypeInv, WiresTyped
<1>7. QueuesOf(c) \in SUBSET Req /\ unwatched \in SUBSET Req
  BY DEF QueuesOf, Inv, TypeInv, HandlersTyped
<1>8. \A q \in Req : Registered(q) /\ q \notin QueuesOf(c) /\ Present(messageQueues[q].conn) =>
        Present(messageQueues[q].conn)'
  <2>1. ASSUME NEW q \in Req, Registered(q), q \notin QueuesOf(c),
               Present(messageQueues[q].conn)
        PROVE  Present(messageQueues[q].conn)'
    <3>1. messageQueues[q].conn # c /\ UNCHANGED messageQueues[q]
      BY <2>1 DEF QueuesOf, CloseQueues
    <3>2. \A d : d = messageQueues[q].conn => Present(d)'
      BY <1>3, <2>1, <3>1
    <3> QED
      BY <3>1, <3>2
  <2> QED
    BY <2>1
<1> QED
  BY <1>3, <1>4, <1>5, <1>6, <1>7, <1>8, QueuesClosedKeeps

LEMMA StaleCleanupKeeps == ASSUME Inv, NEW r \in Req, StaleCleanup(r) PROVE Inv'
<1> USE DEF StaleCleanup, connectionVars
<1>1. /\ connections \in Seq(Conn) /\ socket \in [Conn -> SocketState]
      /\ unwatched \in SUBSET Req /\ wire \in [Conn -> Seq(BrowserMessage)]
      /\ \A o \in ops : socket[o.conn] = "open"
  BY DEF Inv, TypeInv, RegistryTyped, HandlersTyped, WiresTyped, OpsInv, Executed
<1>2. \A d : Present(d) => Present(d)'
  BY DEF Present
<1>3. Quiet /\ {r} \in SUBSET Req
  BY DEF TimersMayRun
<1>4. /\ unwatched' \in SUBSET Req /\ unwatched \subseteq unwatched'
      /\ \A o \in ops : o.req = r => r \in unwatched'
  BY <1>1 DEF Inv, OpsInv, Executed
<1>5. \A q \in Req : Registered(q) /\ q \notin {r} /\ Present(messageQueues[q].conn) =>
        Present(messageQueues[q].conn)'
  BY <1>2 DEF CloseQueues
<1> QED
  BY <1>1, <1>3, <1>4, <1>5, QueuesClosedKeeps

LEMMA ShutdownKeeps == ASSUME Inv, Shutdown PROVE Inv'
<1> USE DEF Shutdown, CloseAll
<1>1. /\ connections \in Seq(Conn) /\ wire \in [Conn -> Seq(BrowserMessage)]
      /\ unwatched \in SUBSET Req
      /\ socket' \in [Conn -> SocketState]
  BY DEF Inv, TypeInv, RegistryTyped, HandlersTyped, WiresTyped, SocketState
<1>2. \A d : Present(d) => Present(d)'
  BY DEF Present
<1>3. Quiet /\ ops' = {} /\ ops' \subseteq ops
  BY DEF Fault
<1>4. Req \in SUBSET Req /\ {r \in Req : Registered(r)} \in SUBSET Req
  OBVIOUS
<1> QED
  BY <1>1, <1>2, <1>3, <1>4, QueuesClosedKeeps

(* A message is taken off a wire and read by the handler that waits for it. *)
LEMMA DeliverKeeps == ASSUME Inv, NEW c \in Conn, Deliver(c) PROVE Inv'
<1> USE DEF Deliver, connectionVars
<1> DEFINE m == Head(wire[c])
<1>1. /\ wire[c] \in Seq(BrowserMessage) /\ wire[c] # <<>>
      /\ wire' = [wire EXCEPT ![c] = Tail(wire[c])]
  BY DEF Inv, TypeInv, WiresTyped
<1>2. /\ m \in BrowserMessage /\ Sent(c, m)
      /\ Tail(wire[c]) \in Seq(BrowserMessage)
      /\ \A i \in DOMAIN Tail(wire[c]) : i + 1 \in DOMAIN wire[c]
                                         /\ Tail(wire[c])[i] = wire[c][i + 1]
  <2>1. /\ Len(wire[c]) \in Nat /\ Len(wire[c]) >= 1 /\ DOMAIN wire[c] = 1..Len(wire[c])
        /\ m = wire[c][1] /\ 1 \in DOMAIN wire[c]
    BY <1>1, LenProperties, EmptySeq, HeadTailProperties
  <2>2. /\ Tail(wire[c]) \in Seq(BrowserMessage)
        /\ Len(Tail(wire[c])) = Len(wire[c]) - 1
        /\ DOMAIN Tail(wire[c]) = 1..(Len(wire[c]) - 1)
        /\ \A i \in 1..(Len(wire[c]) - 1) : Tail(wire[c])[i] = wire[c][i + 1]
    BY <1>1, <2>1, HeadTailProperties, LenProperties
  <2> QED
    BY <1>1, <2>1, <2>2 DEF Inv, WireInv
<1>3. m.req \in Req /\ m.attempt \in Nat \ {0} /\ m.kind \in BrowserKind
  BY <1>2 DEF BrowserMessage
<1>4. \/ /\ Accepts(c, m) /\ Waiting(m.req)
         /\ event' = [event EXCEPT ![m.req] = m.kind]
         /\ reads' = [reads EXCEPT ![m.req] = reads[m.req] \cup {m.attempt}]
      \/ UNCHANGED <<event, reads>>
  BY DEF Inv, TypeInv, HandlersTyped
<1> HIDE DEF m
<1>5. TypeInv'
  <2>1. wire' \in [Conn -> Seq(BrowserMessage)]
    BY <1>1, <1>2 DEF Inv, TypeInv, WiresTyped
  <2>2. event' \in [Req -> Event]
    BY <1>3, <1>4 DEF Inv, TypeInv, HandlersTyped, BrowserKind, Event
  <2>3. reads' \in [Req -> SUBSET Nat]
    BY <1>3, <1>4 DEF Inv, TypeInv, HandlersTyped
  <2> QED
    BY <2>1, <2>2, <2>3 DEF Inv, TypeInv, RegistryTyped, HandlersTyped, WiresTyped
<1>6. Accepts(c, m) =>
        /\ Registered(m.req)
        /\ messageQueues[m.req] = [conn |-> c, attempt |-> m.attempt]
        /\ m.attempt = attempt[m.req]
  <2>1. [conn |-> c, attempt |-> m.attempt] \in Entry
    BY <1>3 DEF Entry
  <2> QED
    BY <1>3, <2>1, EntryAssumption DEF Accepts, Registered, Inv, QueueInv
<1>7. \A r \in Req : event[r] = "none"
  BY DEF Quiet
<1>8. PlaceInv' /\ QueueInv' /\ QueuesHaveOwners'
  BY <1>3, <1>4 DEF Inv, PlaceInv, QueueInv, QueuesHaveOwners, Registered, Present, Waiting,
                    TypeInv, HandlersTyped
<1>9. OneAttemptAnswers'
  BY <1>3, <1>4, <1>6 DEF Inv, OneAttemptAnswers, TypeInv, HandlersTyped
<1>10. ClientInv'
  BY <1>3, <1>4, <1>7 DEF Inv, ClientInv, BrowserKind, TypeInv, HandlersTyped
<1>11. OpsInv'
  <2>1. ASSUME NEW o \in ops PROVE Executed(o)'
    <3>1. /\ o.req \in Req /\ o.attempt \in Nat /\ Executed(o)
      BY DEF Inv, OpsInv, TypeInv, WiresTyped, Operation
    <3>2. CASE UNCHANGED event \/ o.req # m.req \/ o.req \in unwatched
      BY <1>3, <1>4, <3>1, <3>2 DEF Executed, Waiting, Inv, TypeInv, HandlersTyped
    <3>3. CASE Accepts(c, m) /\ o.req = m.req /\ o.req \notin unwatched
               /\ event' = [event EXCEPT ![m.req] = m.kind]
      <4>1. [conn |-> c, attempt |-> m.attempt] = [conn |-> o.conn, attempt |-> o.attempt]
        BY <1>6, <3>1, <3>3 DEF Executed
      <4>2. o.conn = c /\ o.attempt = m.attempt
        BY <4>1
      <4>3. m.kind \notin {"error", "stream_close"}
        BY <1>2, <3>3, <4>2 DEF Sent
      <4> QED
        BY <1>3, <3>1, <3>3, <4>3 DEF Executed, Waiting, BrowserKind, Inv, TypeInv, HandlersTyped
    <3> QED
      BY <1>4, <3>2, <3>3
  <2> QED
    BY <2>1 DEF Inv, OpsInv, Same
<1>12. WireInv'
  <2> SUFFICES ASSUME NEW d \in Conn, NEW i \in DOMAIN wire'[d]
               PROVE  Sent(d, wire[d][i])'
    BY DEF WireInv
  <2>1. PICK j \in DOMAIN wire[d] : wire'[d][i] = wire[d][j]
    BY <1>1, <1>2 DEF Inv, TypeInv, WiresTyped
  <2>2. Sent(d, wire[d][j])
    BY DEF Inv, WireInv
  <2> QED
    BY <2>1, <2>2 DEF Sent
<1> QED
  BY <1>5, <1>8, <1>9, <1>10, <1>11, <1>12 DEF Inv

-----------------------------------------------------------------------------
(* The browser pages                                                        *)

(* A page sends a message for o, which goes on or ends.                      *)
LEMMA SendKeeps ==
  ASSUME Inv, NEW o \in ops, NEW kind \in BrowserKind, Send(o, kind),
         \/ ops' = ops \ {o}
         \/ /\ kind \notin {"error", "stream_close"}
            /\ \E p \in Operation : Same(o, p) /\ ops' = (ops \ {o}) \cup {p},
         UNCHANGED <<registryVars, handlerVars>>
  PROVE  Inv'
<1> USE DEF Send, registryVars, handlerVars
<1> DEFINE m == [req |-> o.req, attempt |-> o.attempt, kind |-> kind]
           c == o.conn
<1>1. /\ o \in Operation /\ o.req \in Req /\ o.attempt \in Nat \ {0} /\ c \in Conn
      /\ Executed(o)
  BY DEF Inv, OpsInv, TypeInv, WiresTyped, Operation
<1>2. m \in BrowserMessage /\ m.req = o.req /\ m.attempt = o.attempt /\ m.kind = kind
  BY <1>1 DEF BrowserMessage
<1>3. wire' = [wire EXCEPT ![c] = Append(wire[c], m)] /\ wire[c] \in Seq(BrowserMessage)
  BY <1>1 DEF Inv, TypeInv, WiresTyped
<1> HIDE DEF m
<1>4. /\ Append(wire[c], m) \in Seq(BrowserMessage)
      /\ \A i \in DOMAIN Append(wire[c], m) :
           \/ i \in DOMAIN wire[c] /\ Append(wire[c], m)[i] = wire[c][i]
           \/ Append(wire[c], m)[i] = m
  BY <1>2, <1>3, AppendProperties, LenProperties
<1>5. ASSUME NEW q \in ops' PROVE \E p \in ops : Same(p, q) /\ (p = o => q \notin ops \ {o})
  BY <1>5 DEF Same
<1>6. ops' \subseteq Operation /\ \A p, q \in ops' : Same(p, q) => q = p
  BY <1>1 DEF Inv, OpsInv, Same, TypeInv, WiresTyped
<1>7. TypeInv'
  BY <1>1, <1>3, <1>4, <1>6 DEF Inv, TypeInv, RegistryTyped, HandlersTyped, WiresTyped
<1>8. /\ PlaceInv' /\ QueueInv' /\ QueuesHaveOwners' /\ OneAttemptAnswers'
      /\ ClientInv'
  BY DEF Inv, PlaceInv, QueueInv, QueuesHaveOwners, OneAttemptAnswers, ClientInv,
         Registered, Present, Waiting
<1>9. OpsInv'
  <2>1. ASSUME NEW q \in ops' PROVE Executed(q)'
    <3>1. PICK p \in ops : Same(p, q)
      BY <1>5
    <3>2. Executed(p)
      BY DEF Inv, OpsInv
    <3> QED
      BY <3>1, <3>2 DEF Same, Executed, Waiting
  <2> QED
    BY <1>6, <2>1 DEF OpsInv
<1>10. WireInv'
  <2> SUFFICES ASSUME NEW d \in Conn, NEW i \in DOMAIN wire'[d]
               PROVE  Sent(d, wire[d][i])'
    BY DEF WireInv
  <2>1. CASE i \in DOMAIN wire[d] /\ wire'[d][i] = wire[d][i]
    <3>1. Sent(d, wire[d][i])
      BY <2>1 DEF Inv, WireInv
    <3>2. ASSUME wire[d][i].kind \in {"error", "stream_close"}, NEW q \in ops'
          PROVE  ~(q.req = wire[d][i].req /\ q.conn = d /\ q.attempt = wire[d][i].attempt)
      <4>1. PICK p \in ops : Same(p, q)
        BY <1>5
      <4> QED
        BY <3>1, <3>2, <4>1 DEF Sent, Same
    <3> QED
      BY <2>1, <3>1, <3>2 DEF Sent
  <2>2. CASE d = c /\ wire'[d][i] = m
    <3>1. /\ pc[m.req] \notin {"idle", "translating"}
          /\ pc[m.req] # "done" => m.attempt <= attempt[m.req]
      BY <1>1, <1>2 DEF Executed
    <3>2. ASSUME m.kind \in {"error", "stream_close"}, NEW q \in ops'
          PROVE  ~(q.req = m.req /\ q.conn = c /\ q.attempt = m.attempt)
      <4>1. q \in ops /\ q # o
        BY <1>2, <3>2
      <4> QED
        BY <1>2, <4>1 DEF Inv, OpsInv, Same
    <3> QED
      BY <2>2, <3>1, <3>2 DEF Sent
  <2>3. \/ i \in DOMAIN wire[d] /\ wire'[d][i] = wire[d][i]
        \/ d = c /\ wire'[d][i] = m
    BY <1>1, <1>3, <1>4 DEF Inv, TypeInv, WiresTyped
  <2> QED
    BY <2>1, <2>2, <2>3
<1> QED
  BY <1>7, <1>8, <1>9, <1>10 DEF Inv

LEMMA BrowserStepKeeps == ASSUME Inv, BrowserStep PROVE Inv'
<1> USE DEF BrowserStep
<1>1. PICK o \in ops : BrowserProgress(o) \/ BrowserEnds(o)
  OBVIOUS
<1>2. CASE BrowserEnds(o)
  BY <1>1, <1>2, SendKeeps DEF BrowserEnds, BrowserKind
<1>3. CASE BrowserProgress(o)
  <2> DEFINE p == [o EXCEPT !.sent = @ + 1]
  <2>1. o \in Operation /\ o.sent \in {0, 1}
    BY <1>3 DEF BrowserProgress, Inv, TypeInv, WiresTyped
  <2>2. p \in Operation /\ Same(o, p)
    BY <2>1 DEF Operation, Same
  <2>3. \E kind \in {"response_headers", "chunk"} : Send(o, kind)
    BY <1>3 DEF BrowserProgress
  <2>4. ops' = (ops \ {o}) \cup {p}
    BY <1>3 DEF BrowserProgress
  <2> HIDE DEF p
  <2> QED
    BY <2>2, <2>3, <2>4, SendKeeps DEF BrowserKind
<1> QED
  BY <1>1, <1>2, <1>3

-----------------------------------------------------------------------------
(* The theorems                                                             *)

LEMMA InitInv == Init => Inv
<1> SUFFICES ASSUME Init PROVE Inv
  OBVIOUS
<1> USE DEF Init, RegistryInit
<1>1. TypeInv
  BY DEF TypeInv, RegistryTyped, HandlersTyped, WiresTyped, SocketState, Where, Event
<1>2. OpsInv /\ WireInv
  BY DEF OpsInv, WireInv
<1>3. PlaceInv /\ QueueInv /\ QueuesHaveOwners /\ OneAttemptAnswers /\ ClientInv
  BY DEF PlaceInv, QueueInv, QueuesHaveOwners, OneAttemptAnswers, ClientInv, InHand,
         Registered
<1> QED
  BY <1>1, <1>2, <1>3 DEF Inv

LEMMA NextInv == Inv /\ [Next]_vars => Inv'
<1> SUFFICES ASSUME Inv, [Next]_vars PROVE Inv'
  OBVIOUS
<1>1. ASSUME NEW r \in Req, Handle(r) PROVE Inv'
  BY <1>1, StartKeeps, LaunchKeeps, ReactKeeps, TimeoutKeeps, RetryKeeps DEF Handle
<1>2. ASSUME NEW r \in Req, ClientBreaks(r) \/ ClientCloses(r) \/ StaleCleanup(r)
      PROVE  Inv'
  BY <1>2, ClientBreaksKeeps, ClientClosesKeeps, StaleCleanupKeeps
<1>3. ASSUME NEW c \in Conn, \/ Connected(c) \/ Rejected(c) \/ Disconnect(c)
                             \/ SocketError(c) \/ SocketClosed(c) \/ ResetHealth(c)
                             \/ Deliver(c)
      PROVE  Inv'
  BY <1>3, ConnectedKeeps, RejectedKeeps, DisconnectKeeps, SocketErrorKeeps,
     SocketClosedKeeps, ResetHealthKeeps, DeliverKeeps
<1>4. CASE BrowserStep \/ Shutdown
  BY <1>4, BrowserStepKeeps, ShutdownKeeps
<1>5. CASE UNCHANGED vars
  BY <1>5, Unmentioned DEF vars, registryVars, handlerVars
<1> QED
  BY <1>1, <1>2, <1>3, <1>4, <1>5 DEF Next

\* The variables of the registry's queues, the handlers and the wires keep
\* their types, whatever messages, faults and retries come in what order.
THEOREM TypeCorrect == Spec => []TypeInv
<1>1. Inv => TypeInv
  BY DEF Inv
<1> QED
  BY <1>1, InitInv, NextInv, PTL DEF Spec

\* A registered message queue has a connection that exists and a handler that
\* waits on it or is about to replace it (SessionRegistry.removeConnection and
\* every way out of a handler).
THEOREM Owners == Spec => []QueuesHaveOwners
<1>1. Inv => QueuesHaveOwners
  BY DEF Inv
<1> QED
  BY <1>1, InitInv, NextInv, PTL DEF Spec

\* A response is made from the messages of one attempt
\* (SessionRegistry._handleIncomingMessage's check of the attempt id).
THEOREM OneAttempt == Spec => []OneAttemptAnswers
<1>1. Inv => OneAttemptAnswers
  BY DEF Inv
<1> QED
  BY <1>1, InitInv, NextInv, PTL DEF Spec

\* A client that stayed connected is told how its request ended
\* (RequestHandler's handlers and their error paths), unless its response is
\* the JSON of a Gemini stream that has begun and times out.
THEOREM Told == Spec => ClientIsTold
<1> DEFINE Ends(r) == pc[r] # "done" /\ pc'[r] = "done" /\ client[r] = "connected"
           Said(r) == answer'[r] \in {"ok", "error"} \/ CutOff(r)
<1>1. ASSUME Inv, NEW r \in Req, NEW q \in Req, Handle(q), Ends(r) PROVE Said(r)
  <2>1. pc \in [Req -> Where] /\ answer \in [Req -> {"none", "ok", "error"}]
    BY <1>1 DEF Inv, TypeInv, HandlersTyped
  <2>2. ASSUME NEW a, Finish(q, a)
        PROVE  q = r /\ answer'[r] = a
    BY <1>1, <2>1, <2>2 DEF Finish, Return
  <2>3. CASE Start(q) \/ Launch(q) \/ Retry(q) \/ Timeout(q)
    BY <1>1, <2>1, <2>2, <2>3 DEF Start, Launch, Retry, NextAttempt, Timeout
  <2>4. CASE Continue(q)
    BY <1>1, <2>1, <2>4 DEF Continue
  <2>5. CASE StopWriting(q) \/ Complete(q)
    BY <1>1, <2>2, <2>5 DEF StopWriting, Complete
  <2>6. CASE Abandon(q)
    BY <1>1, <2>2, <2>6 DEF Abandon, Inv, ClientInv
  <2>7. CASE Fail(q)
    <3>1. CASE SwitchSession(q)
      BY <1>1, <2>1, <3>1 DEF SwitchSession
    <3>2. CASE Finish(q, "error")
      BY <2>2, <3>2
    <3>3. CASE EndsSilently(q) /\ Finish(q, "none")
      BY <2>2, <3>3 DEF EndsSilently, CutOff
    <3> QED
      BY <2>7, <3>1, <3>2, <3>3 DEF Fail, SwitchOrFail
  <2> QED
    BY <1>1, <2>3, <2>4, <2>5, <2>6, <2>7 DEF Handle, React
<1>2. ASSUME NEW r \in Req, Ends(r), Next PROVE \E q \in Req : Handle(q)
  BY <1>2 DEF Next, ClientBreaks, ClientCloses, StaleCleanup, Connected, Rejected,
     Disconnect, SocketError, SocketClosed, ResetHealth, Deliver, BrowserStep, Shutdown,
     handlerVars
<1>3. ASSUME NEW r \in Req, Ends(r), UNCHANGED vars PROVE FALSE
  BY <1>3 DEF vars, handlerVars
<1>4. Inv /\ [Next]_vars => [\A r \in Req : Ends(r) => Said(r)]_vars
  BY <1>1, <1>2, <1>3
<1> QED
  BY <1>4, InitInv, NextInv, PTL DEF Spec, ClientIsTold

\* The browsers work only on the current attempt of a request that is waited
\* for, but for the five paths that send no cancel (RequestHandler's
\* _handleQueueTimeout, _setupClientDisconnectHandler).
THEOREM NoOrphans == Spec => []NoOrphanWork
<1>1. Inv => NoOrphanWork
  <2> SUFFICES ASSUME Inv, NEW o \in ops, o.req \notin unwatched
               PROVE  Waiting(o.req) /\ o.attempt = attempt[o.req] /\ client[o.req] # "left"
    BY DEF NoOrphanWork
  <2>1. o.req \in Req /\ o.conn \in Conn /\ o.attempt \in Nat \ {0} /\ Executed(o)
    BY DEF Inv, OpsInv, TypeInv, WiresTyped, Operation
  <2>2. [conn |-> o.conn, attempt |-> o.attempt] \in Entry
    BY <2>1 DEF Entry
  <2>3. Registered(o.req) /\ messageQueues[o.req].attempt = o.attempt
    BY <2>1, <2>2, EntryAssumption DEF Executed, Registered
  <2>4. o.attempt = attempt[o.req]
    BY <2>1, <2>3 DEF Inv, QueueInv
  <2> QED
    BY <2>1, <2>4 DEF Executed, Waiting, Inv, ClientInv, InHand
<1> QED
  BY <1>1, InitInv, NextInv, PTL DEF Spec
=============================================================================
