---------------------------- MODULE RuntimeTiers ----------------------------
(***************************************************************************)
(* Which worker a job is sent to: services/runtime_tier_policy.mjs and      *)
(* selectWorker() of services/center_job_service.mjs.                       *)
(***************************************************************************)
EXTENDS Integers

CONSTANTS Registry,   \* the configured workers: their records by id, a number
          None

Text == "tier0_lightweight_text"
Browser == "tier1_browser_capability"
LongRunning == "tier3_long_running"
Chat == "chat.completion"
Other == "job.execute"        \* a capability no rule is about
Study == "research.run"       \* one that names research
Picture == "image.generation" \* one that names images, vision or files

\* A worker's record says what the center's configuration says of it (enabled,
\* capabilities, priority, tier or None) and what is true of its server: the
\* paths it serves, whether it accepts the token, and what it can do.
Worker == DOMAIN Registry

ASSUME RegistryAssumption ==
  /\ Worker \subseteq Nat
  /\ None \notin Worker

-----------------------------------------------------------------------------
\* A chat that carries files, tools or pictures needs the browser.
RequestedTier(r) ==
  CASE r.capability = Study                -> LongRunning
    [] r.capability = Picture              -> Browser
    [] r.capability = Chat /\ r.rich       -> Browser
    [] r.capability = Chat /\ ~r.rich      -> Text
    [] OTHER                               -> None

InferredTier(capabilities) == IF capabilities = {Chat} THEN Text ELSE Browser

WorkerTier(w) ==
  IF Registry[w].tier # None THEN Registry[w].tier ELSE InferredTier(Registry[w].capabilities)

TierDistance(tier, requested) ==
  CASE requested \in {None, tier}                    -> 0
    [] requested = Text /\ tier = Browser            -> 1
    [] requested = Browser /\ tier = Text            -> 1
    [] requested \in {Text, Browser}                 -> 2
    [] OTHER                                         -> 1

\* compareWorkersForJob(): tier first, then priority, then the id.
Before(v, w, r) ==
  LET distance(x) == TierDistance(WorkerTier(x), RequestedTier(r))
      priority(x) == Registry[x].priority
  IN  \/ distance(v) < distance(w)
      \/ /\ distance(v) = distance(w)
         /\ \/ priority(v) > priority(w)
            \/ priority(v) = priority(w) /\ v < w

Supports(w, capability) == Registry[w].capabilities \cap {capability, "*"} # {}
Candidates(r) == { w \in Worker : Registry[w].enabled /\ Supports(w, r.capability) }

\* A worker the request names is the only one that will do: selectWorker()
\* throws when it is unknown, disabled or cannot do the job.
Unselectable(r) == r.worker # None /\ r.worker \notin Candidates(r)
SelectWorker(r) ==
  IF r.worker # None THEN r.worker
  ELSE IF Candidates(r) = {} THEN None
  ELSE CHOOSE w \in Candidates(r) : \A v \in Candidates(r) \ {w} : Before(w, v, r)
=============================================================================
