---------------------------- MODULE MCCenterJobs ----------------------------
(***************************************************************************)
(* Two jobs, so that one waits behind the other, and one restart.  The      *)
(* registry has a private worker, a gateway with a higher priority and the  *)
(* browser's tier, an old worker, one whose token is wrong, and a disabled  *)
(* one.  Plain chats go to the first, rich ones to the second; the others   *)
(* are asked for by name or capability, and no worker offers pictures.      *)
(***************************************************************************)
EXTENDS CenterJobs, TLC

Ask(capability, rich, stream, worker) ==
  [capability |-> capability, rich |-> rich, stream |-> stream, worker |-> worker]

Configured(server, capabilities, offers, priority) ==
  [enabled |-> TRUE, tier |-> None, server |-> server, trusts |-> TRUE,
   capabilities |-> capabilities, offers |-> offers, priority |-> priority]

MCRegistry ==
  1 :> Configured("worker", {Chat}, {Chat}, 1) @@
  2 :> Configured("gateway", {Chat, Study}, {Chat}, 2) @@
  3 :> [Configured("old", {Other}, {Other}, 0) EXCEPT !.tier = Text] @@
  4 :> [Configured("old", {Chat}, {Chat}, 0) EXCEPT !.trusts = FALSE] @@
  5 :> [Configured("worker", {"*"}, {Chat}, 9) EXCEPT !.enabled = FALSE]

MCRequest ==
  { Ask(Chat, rich, stream, None) : rich, stream \in BOOLEAN } \cup
  { Ask(Chat, FALSE, FALSE, w) : w \in {4, 5} } \cup
  { Ask(capability, FALSE, FALSE, None) :
      capability \in {Other, Study, Picture, "research.job"} }
=============================================================================
