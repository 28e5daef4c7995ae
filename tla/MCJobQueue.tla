----------------------------- MODULE MCJobQueue -----------------------------
(* Three jobs, a table of two: the third enqueue evicts the first, whatever it *)
(* is doing.  Two faults reach a failed write followed by a crash, and a       *)
(* success whose two writes both fail.                                         *)
EXTENDS JobQueue
==============================================================================
