----------------------------- MODULE ChatRuntime -----------------------------
(***************************************************************************)
(* How the gateway serves a request on the one browser profile: server.mjs   *)
(* (serialize, withTimeout), services/chat_service.mjs,                      *)
(* services/chat_state_service.mjs and lib/session_affinity.mjs, over the    *)
(* worker queue (FifoMutex, which JobQueue implements) and the conversation  *)
(* lock (SessionLock).                                                       *)
(*                                                                           *)
(* Each request has two lives.  Its job holds the worker slot until the work *)
(* settles or withTimeout gives up on it; the provider operation the job     *)
(* started is never cancelled, and goes on alone after a timeout.            *)
(***************************************************************************)
EXTENDS SessionLock

CONSTANTS
    N,              \* bound: how many requests are sent
    Conv,           \* conversation ids stored before the server started
    New, Image      \* targets that name no conversation

(* Northbound requests, numbered in the order they are sent. *)
Request == 1 .. N

ASSUME RequestAssumption == N \in Nat /\ Request \cap Conv = {}
ASSUME TargetAssumption ==
    /\ New # Image
    /\ {New, Image, NoKey} \cap (Request \cup Conv) = {}

(* createConversationId(): a request for a new conversation names it. *)
Id == Conv \cup Request

(* Every call of run() is a chat request's, under its conversation id. *)
ASSUME LockAssumption == Call = Request /\ Key = Id

VARIABLES
    slot, arrival,              \* the worker queue, as a FifoMutex
    target,                     \* what each request asked for
    op,                         \* where its provider operation is
    copy,                       \* the map its operation last read from a file
    conversations, affinity,    \* ids in conversations.json, session_affinity.json
    torn,                       \* which of them cannot be parsed
    answer                      \* what the client was told

slotVars == <<slot, arrival>>
storeVars == <<conversations, affinity, torn>>
vars == <<slotVars, lockVars, target, op, copy, storeVars, answer>>

Slot == INSTANCE FifoMutex WITH Client <- Request, phase <- slot, ticket <- arrival

Stage == {"none", "reading", "resolving", "queued", "browser", "storing",
          "binding", "bound", "succeeded", "failed"}

TypeOK ==
    /\ Slot!TypeOK
    /\ LockTypeOK
    /\ target \in [Request -> Id \cup {New, Image}]
    /\ op \in [Request -> Stage]
    /\ copy \in [Request -> SUBSET Id]
    /\ conversations \in SUBSET Id
    /\ affinity \in SUBSET Id
    /\ torn \in SUBSET {"conversations", "affinity"}
    /\ answer \in [Request -> {"none", "ok", "error", "timeout"}]

Init ==
    /\ Slot!Init
    /\ LockInit
    /\ target = [r \in Request |-> New]
    /\ op = [r \in Request |-> "none"]
    /\ copy = [r \in Request |-> {}]
    /\ conversations = Conv
    /\ affinity = Conv
    /\ torn = {}
    /\ answer = [r \in Request |-> "none"]

(* Mutant of IdOf: no id is created for a new conversation. *)
IdOfRequested(r) == target[r]

IdOf(r) == IF target[r] = New THEN r ELSE target[r]

------------------------------------------------------------------------------
(* The worker queue                                                            *)

(* A client knows an id from an answer or from GET /v1/conversations. *)
Known == Conv \cup conversations \cup {IdOf(r) : r \in {q \in Request : answer[q] = "ok" /\ target[q] # Image}}

(* serialize(): enqueue and wait. *)
Submit(r) ==
    /\ \A q \in 1 .. (r - 1) : slot[q] # "idle"
    /\ Slot!Request(r, r)
    /\ \E t \in Known \cup {New, Image} : target' = [target EXCEPT ![r] = t]
    /\ UNCHANGED <<lockVars, op, copy, storeVars, answer>>

(* Mutant of Start: the work is called by the handler, not by the queue. *)
StartUnqueued(r) ==
    /\ slot[r] = "waiting"
    /\ slot' = [slot EXCEPT ![r] = "holding"]
    /\ op' = [op EXCEPT ![r] = IF target[r] = Image THEN "browser" ELSE "reading"]
    /\ UNCHANGED <<arrival, lockVars, target, copy, storeVars, answer>>

(* The job runs: withTimeout calls the work and starts its timer. *)
Start(r) ==
    /\ Slot!Grant(r)
    /\ op' = [op EXCEPT ![r] = IF target[r] = Image THEN "browser" ELSE "reading"]
    /\ UNCHANGED <<lockVars, target, copy, storeVars, answer>>

(* Mutant of Timeout: the timer covers the browser call only. *)
TimeoutInBrowser(r) ==
    /\ op[r] = "browser"
    /\ Slot!Finish(r)
    /\ answer' = [answer EXCEPT ![r] = "timeout"]
    /\ UNCHANGED <<lockVars, target, op, copy, storeVars>>

(* The timer wins the race: the job fails and the next one may start.  Nothing *)
(* tells the operation.                                                        *)
Timeout(r) ==
    /\ Slot!Finish(r)
    /\ answer' = [answer EXCEPT ![r] = "timeout"]
    /\ UNCHANGED <<lockVars, target, op, copy, storeVars>>

(* The operation wins the race, or ends when nobody listens any more. *)
Ends(r, outcome) ==
    /\ op' = [op EXCEPT ![r] = IF outcome = "ok" THEN "succeeded" ELSE "failed"]
    /\ IF slot[r] = "holding"
       THEN Slot!Finish(r) /\ answer' = [answer EXCEPT ![r] = outcome]
       ELSE UNCHANGED <<slotVars, answer>>

At(r, stage) == op[r] = stage

Goes(r, stage) ==
    /\ op' = [op EXCEPT ![r] = stage]
    /\ UNCHANGED <<slotVars, answer>>

------------------------------------------------------------------------------
(* resolveChatTarget() and the session lock                                    *)

ReadConversations(r) ==
    /\ At(r, "reading")
    /\ "conversations" \notin torn
    /\ Goes(r, "resolving")
    /\ copy' = [copy EXCEPT ![r] = conversations]
    /\ UNCHANGED <<lockVars, target, storeVars>>

(* Mutant of Resolve: an existing conversation is not locked either. *)
ResolveUnlocked(r) ==
    /\ At(r, "resolving")
    /\ target[r] \in copy[r] \cup affinity \cup {New}
    /\ RunUnlocked(r)
    /\ Goes(r, "browser")
    /\ UNCHANGED <<target, copy, storeVars>>

(* The affinity record, or the caller, names the lock; a new conversation has  *)
(* none.                                                                       *)
Resolve(r) ==
    /\ At(r, "resolving")
    /\ \/ /\ target[r] = New
          /\ RunUnlocked(r)
          /\ Goes(r, "browser")
       \/ /\ "affinity" \notin torn
          /\ target[r] \in copy[r] \cup affinity
          /\ RunLocked(r, target[r])
          /\ Goes(r, "queued")
    /\ UNCHANGED <<target, copy, storeVars>>

(* An unknown conversation or file, another provider's conversation, no text,  *)
(* or a file that cannot be read.                                              *)
ResolveFails(r) ==
    /\ op[r] \in {"reading", "resolving"}
    /\ Ends(r, "error")
    /\ UNCHANGED <<lockVars, target, copy, storeVars>>

EnterBrowser(r) ==
    /\ At(r, "queued")
    /\ Acquire(r)
    /\ Goes(r, "browser")
    /\ UNCHANGED <<target, copy, storeVars>>

------------------------------------------------------------------------------
(* The browser, then storeConversation()                                       *)

BrowserReplies(r) ==
    /\ At(r, "browser")
    /\ IF target[r] = Image THEN Ends(r, "ok") ELSE Goes(r, "storing")
    /\ UNCHANGED <<lockVars, target, copy, storeVars>>

(* The finally block of run() releases the lock with the outcome. *)
Unlocks(r) == IF target[r] = Image THEN UNCHANGED lockVars ELSE Release(r)

BrowserFails(r) ==
    /\ At(r, "browser")
    /\ Unlocks(r)
    /\ Ends(r, "error")
    /\ UNCHANGED <<target, copy, storeVars>>

(* The whole map that was read before the browser operation is written back. *)
WriteConversations(r) ==
    /\ At(r, "storing")
    /\ conversations' = copy[r] \cup {IdOf(r)}
    /\ torn' = torn \ {"conversations"}
    /\ Goes(r, "binding")
    /\ UNCHANGED <<lockVars, target, copy, affinity>>

ReadAffinity(r) ==
    /\ At(r, "binding")
    /\ "affinity" \notin torn
    /\ copy' = [copy EXCEPT ![r] = affinity]
    /\ Goes(r, "bound")
    /\ UNCHANGED <<lockVars, target, storeVars>>

(* Mutant of WriteAffinity: the record is written without the ones beside it. *)
WriteAffinityAlone(r) ==
    /\ At(r, "bound")
    /\ affinity' = {IdOf(r)}
    /\ torn' = torn \ {"affinity"}
    /\ Unlocks(r)
    /\ Ends(r, "ok")
    /\ UNCHANGED <<target, copy, conversations>>

WriteAffinity(r) ==
    /\ At(r, "bound")
    /\ affinity' = copy[r] \cup {IdOf(r)}
    /\ torn' = torn \ {"affinity"}
    /\ Unlocks(r)
    /\ Ends(r, "ok")
    /\ UNCHANGED <<target, copy, conversations>>

(* A write that fails may have emptied its file before: what is left of it is   *)
(* not JSON.                                                                   *)
Tears(r) ==
    \/ /\ At(r, "storing")
       /\ conversations' = {}
       /\ torn' = torn \cup {"conversations"}
       /\ UNCHANGED affinity
    \/ /\ At(r, "bound")
       /\ affinity' = {}
       /\ torn' = torn \cup {"affinity"}
       /\ UNCHANGED conversations

StoreFails(r) ==
    /\ op[r] \in {"storing", "binding", "bound"}
    /\ UNCHANGED storeVars \/ Tears(r)
    /\ Unlocks(r)
    /\ Ends(r, "error")
    /\ UNCHANGED <<target, copy>>

Unregister(r) ==
    /\ Cleanup(r)
    /\ UNCHANGED <<slotVars, target, op, copy, storeVars, answer>>

Next ==
    \E r \in Request :
        \/ Submit(r)
        \/ Start(r)
        \/ Timeout(r)
        \/ ReadConversations(r)
        \/ Resolve(r)
        \/ ResolveFails(r)
        \/ EnterBrowser(r)
        \/ BrowserReplies(r)
        \/ BrowserFails(r)
        \/ WriteConversations(r)
        \/ ReadAffinity(r)
        \/ WriteAffinity(r)
        \/ StoreFails(r)
        \/ Unregister(r)

(* The queue starts the next job, the timer fires, and a lock whose tail has    *)
(* resolved is taken.  The browser owes nothing: a CDP call has no timeout of  *)
(* its own and may never be answered.                                          *)
Fairness ==
    \A r \in Request : WF_vars(Start(r)) /\ WF_vars(Timeout(r)) /\ WF_vars(EnterBrowser(r))

Spec == Init /\ [][Next]_vars /\ Fairness

------------------------------------------------------------------------------
(* Correctness                                                                 *)

InBrowser(r) == op[r] = "browser"
Abandoned(r) == answer[r] = "timeout"

(* README "Existing conversations execute behind a session lock keyed by       *)
(* conversation_id": no two operations drive the same conversation at once,    *)
(* even when one of them outlived its job's timeout, or created the            *)
(* conversation the other one continues.                                       *)
ThreadNeverShared ==
    \A r, q \in Request :
        /\ r # q /\ InBrowser(r) /\ InBrowser(q)
        /\ Image \notin {target[r], target[q]}
        => IdOf(r) # IdOf(q)

(* Operations overlap in the browser only if all but one of them were          *)
(* abandoned by a timeout.                                                     *)
OnlyAbandonedWorkOverlaps ==
    \A r, q \in Request :
        InBrowser(r) /\ InBrowser(q) /\ r # q => Abandoned(r) \/ Abandoned(q)

(* As long as nothing timed out, a file that can be read at all holds every    *)
(* conversation whose id a client was given: although each file is rewritten   *)
(* whole from a copy that was read earlier, and a write may fail before,       *)
(* between or within the two, no rewrite leaves a file that is in order and    *)
(* lacks an answered conversation.  (A torn file loses all it held: nothing is *)
(* claimed of it.)                                                             *)
AnsweredConversationKept ==
    (\A r \in Request : ~Abandoned(r)) =>
        \A r \in Request :
            answer[r] = "ok" /\ target[r] # Image =>
                /\ "conversations" \notin torn => IdOf(r) \in conversations
                /\ "affinity" \notin torn => IdOf(r) \in affinity

(* Every submitted request is answered, even if the browser never replies to   *)
(* any operation and a conversation lock is never released.                    *)
EveryRequestAnswered ==
    \A r \in Request : (slot[r] = "waiting") ~> (answer[r] # "none")

(* No operation waits for ever for its conversation: if every operation that   *)
(* got its lock comes to an end, whatever end, each one that waits gets its    *)
(* own, also behind operations whose jobs were given up long ago.              *)
EveryOperationServed ==
    (\A r \in Request : []<>(pc[r] # "working")) =>
        \A r \in Request : (pc[r] = "waiting") ~> (pc[r] = "working")

(* README "Requests are serialized through one in-process worker queue", and   *)
(* lock_policy.note "All provider operations are serialized through the single *)
(* browser profile".                                                           *)
BrowserOperationsSerialized ==
    \A r, q \in Request : InBrowser(r) /\ InBrowser(q) => r = q

(* README "Chat can continue an existing local conversation_id": an id that a  *)
(* client was given is found again in one of the two files, if both can be     *)
(* read.                                                                       *)
AnsweredConversationContinues ==
    torn = {} => \A r \in Request :
        answer[r] = "ok" /\ target[r] # Image => IdOf(r) \in conversations \cup affinity
==============================================================================
