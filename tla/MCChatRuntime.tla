---------------------------- MODULE MCChatRuntime ----------------------------
(* Two requests suffice for an operation that outlives its job and one that    *)
(* starts in the freed slot; the third meets both, continues what the first    *)
(* created, or waits behind a lock that is held for ever.  All three may queue *)
(* on one conversation's lock, the middle one linking itself between a release *)
(* and its cleanup, and conversations of other keys come and go beside them.   *)
EXTENDS ChatRuntime
==============================================================================
