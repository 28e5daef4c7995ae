------------------------------ MODULE FifoMutex ------------------------------
(***************************************************************************)
(* What a promise chain promises: one client at a time, in the order of     *)
(* arrival.  This is the abstract specification that the worker queue of     *)
(* lib/job_queue.mjs and the per-conversation lock of lib/session_lock.mjs   *)
(* implement (see JobQueue and SessionLock), and that ChatRuntime uses as    *)
(* its worker slot.                                                          *)
(***************************************************************************)
EXTENDS Naturals

CONSTANT Client     \* every client that may ever ask for the resource, once

VARIABLES
    phase,          \* where each client is
    ticket          \* its place in the order of arrival, 0 before it arrives

mutexVars == <<phase, ticket>>

Phase == {"idle", "waiting", "holding", "done", "gone"}

TypeOK ==
    /\ phase \in [Client -> Phase]
    /\ ticket \in [Client -> Nat]

Init ==
    /\ phase = [c \in Client |-> "idle"]
    /\ ticket = [c \in Client |-> 0]

(* A client arrives with a number above every number taken so far. *)
TakeTicket(c, n) ==
    /\ phase[c] = "idle"
    /\ n \in Nat
    /\ \A d \in Client : ticket[d] < n
    /\ ticket' = [ticket EXCEPT ![c] = n]

(* It joins the line. *)
Request(c, n) ==
    /\ TakeTicket(c, n)
    /\ phase' = [phase EXCEPT ![c] = "waiting"]

(* It is turned away. *)
Refuse(c, n) ==
    /\ TakeTicket(c, n)
    /\ phase' = [phase EXCEPT ![c] = "gone"]

(* Nobody is served, and nobody that came before c still waits. *)
IsNext(c) ==
    /\ phase[c] = "waiting"
    /\ \A d \in Client :
          /\ phase[d] # "holding"
          /\ phase[d] = "waiting" => ticket[c] <= ticket[d]

Grant(c) ==
    /\ IsNext(c)
    /\ phase' = [phase EXCEPT ![c] = "holding"]
    /\ UNCHANGED ticket

(* A client whose turn has come leaves without being served. *)
Withdraw(c) ==
    /\ IsNext(c)
    /\ phase' = [phase EXCEPT ![c] = "gone"]
    /\ UNCHANGED ticket

Finish(c) ==
    /\ phase[c] = "holding"
    /\ phase' = [phase EXCEPT ![c] = "done"]
    /\ UNCHANGED ticket

(* The service stops: everyone in line, and the one being served, is dropped. *)
Abandon ==
    /\ phase' = [c \in Client |->
                    IF phase[c] \in {"waiting", "holding"} THEN "gone" ELSE phase[c]]
    /\ UNCHANGED ticket

Next ==
    \/ \E c \in Client :
          \/ Request(c, ticket'[c])
          \/ Refuse(c, ticket'[c])
          \/ Grant(c)
          \/ Withdraw(c)
          \/ Finish(c)
    \/ Abandon

Spec == Init /\ [][Next]_mutexVars
==============================================================================
