-------------------------- MODULE MCCanvasRequests --------------------------
(* Two requests and two sessions: one session is retried on while the other   *)
(* request, still waiting on the first, competes for it.                      *)
EXTENDS CanvasRequests

(* Two faults around one request, none while there are two. *)
MCMaxFaults == [r \in Req |-> IF r = 1 THEN 2 ELSE 0]
==============================================================================
