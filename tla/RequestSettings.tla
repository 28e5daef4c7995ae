-------------------------- MODULE RequestSettings --------------------------
(***************************************************************************)
(* What becomes of the settings of a request (the suffixes of its model's   *)
(* name, thinking, tools, tool choice, output format) when the Canvas       *)
(* adapter turns it into the configuration of a Gemini request, with what   *)
(* the operator forces on every request (FormatConverter.js,                *)
(* RequestHandler.js).  Each format has its own translator; the native      *)
(* Gemini request is completed, not translated.                             *)
(*                                                                         *)
(* Settings are those every format can name; a model's name is its          *)
(* suffixes.  Numbers (temperature, lengths, budgets) are copied and left   *)
(* out, and so are tool descriptions and schemas, except that they are      *)
(* there ("described").                                                     *)
(***************************************************************************)
EXTENDS Integers, SequencesExt, FiniteSets

Function == {"f", "g"}            \* functions of the client's own
Hosted == {"search", "fetch"}     \* tools the provider runs

Choice(mode, only, listed) == [mode |-> mode, only |-> only, listed |-> listed]

\* The streaming suffix is the last of the name, or it is part of the name.
ParseStreamingMode(name) ==
  IF name # <<>> /\ Last(name) \in {"real", "fake"}
  THEN [name |-> Front(name), streaming |-> Last(name)]
  ELSE [name |-> name, streaming |-> "none"]

ParseThinkingLevel(name) ==
  IF name # <<>> /\ Last(name) = "level"
  THEN [name |-> Front(name), suffixed |-> TRUE]
  ELSE [name |-> name, suffixed |-> FALSE]

\* How an answer is delivered, by the path or "stream", the suffix and the
\* server's streaming mode.
StreamMode(wants, name, server) ==
  LET suffix == ParseStreamingMode(name).streaming
  IN  CASE ~wants -> "whole"
        [] wants /\ suffix # "none" -> suffix
        [] OTHER -> server

\* includeThoughts is forced when the client left it unset, and a suffix
\* replaces whatever level was there.
Thoughts(asked, own, force, suffixed) ==
  [ thoughts |-> IF force.thinking /\ asked = "unset" THEN "on" ELSE asked,
    level    |-> IF suffixed THEN "suffix" ELSE own ]

AddTool(tools, tool) == IF tool \in Range(tools) THEN tools ELSE Append(tools, tool)
Declared(names) == IF names = {} THEN <<>> ELSE << "functions" >>

\* ensureServerSideToolInvocations()
EnsureServerSide(c) ==
  [c EXCEPT !.serverSide = "functions" \in Range(c.tools) /\ Range(c.tools) # {"functions"}]

ForceTools(c, force) ==
  LET searched == IF force.search THEN AddTool(c.tools, "search") ELSE c.tools
  IN  [c EXCEPT !.tools = IF force.url THEN AddTool(searched, "fetch") ELSE searched]

\* A bug the properties must catch: the tools are looked at before some are added.
FinalizeEarly(c, force) == ForceTools(EnsureServerSide(c), force)

\* _finalizeGoogleRequest(), for the three translated formats.
Finalize(c, force) == EnsureServerSide(ForceTools(c, force))

-----------------------------------------------------------------------------
(* Chat Completions *)

\* thinking_config, of which only include_thoughts is read, else
\* reasoning_effort, whatever it says.
OpenAIThinking(w, force, suffixed) ==
  Thoughts(CASE w.thinking \in {"on", "quiet"} -> "on"
             [] w.thinking = "off" -> "off"
             [] OTHER -> "unset", "none", force, suffixed)

OpenAITools(w) ==
  [tools |-> Declared(w.tools), functions |-> w.tools, described |-> w.tools]

\* A list of allowed tools has no name, and is passed over.
OpenAIChoice(w) ==
  CASE w.choice.listed -> [mode |-> "unset", allowed |-> {}]
    [] OTHER -> [mode |-> w.choice.mode, allowed |-> w.choice.only]

OpenAIOutput(w) ==
  [mime |-> IF w.output \in {"json", "schema"} THEN "json" ELSE "unset",
   schema |-> w.output = "schema"]

-----------------------------------------------------------------------------
(* Messages *)

\* Only "enabled" is read; its budget is logged.
ClaudeThinking(w, force, suffixed) ==
  Thoughts(IF w.thinking = "on" THEN "on" ELSE "unset", "none", force, suffixed)

ClaudeOutput(w) ==
  [mime |-> IF w.output = "schema" THEN "json" ELSE w.output, schema |-> w.output = "schema"]

\* The server tools become hosted tools, after the functions.
ClaudeTools(w) ==
  LET names    == w.tools \cap Function
      searched == IF "search" \in w.tools THEN AddTool(Declared(names), "search")
                  ELSE Declared(names)
  IN  [tools |-> IF "fetch" \in w.tools THEN AddTool(searched, "fetch") ELSE searched,
       functions |-> names, described |-> names]

\* The chosen tool's name is allowed, be it a function's or not.
ClaudeChoice(w) == [mode |-> w.choice.mode, allowed |-> w.choice.only]

-----------------------------------------------------------------------------
(* Responses *)

\* A "reasoning" setting turns thoughts on, whatever its effort.
ResponsesThinking(w, force, suffixed) ==
  Thoughts(IF w.thinking = "unset" THEN "unset" ELSE "on", "none", force, suffixed)

\* The tools of an allowed list replace the request's; they are references.
ResponsesTools(w) ==
  LET effective == IF w.choice.listed THEN w.choice.only ELSE w.tools
      names     == effective \cap Function
  IN  [tools |-> IF "search" \in effective THEN Append(Declared(names), "search")
                 ELSE Declared(names),
       functions |-> names, described |-> IF w.choice.listed THEN {} ELSE names]

\* A chosen hosted tool is only made sure of.
ResponsesChoice(w) ==
  CASE w.choice.listed -> [mode |-> w.choice.mode, allowed |-> w.choice.only \cap Function]
    [] ~w.choice.listed /\ w.choice.only = {"search"} -> [mode |-> "unset", allowed |-> {}]
    [] OTHER -> [mode |-> w.choice.mode, allowed |-> w.choice.only]

ResponsesOutput(w) ==
  [mime |-> IF w.output \in {"json", "schema"} THEN "json" ELSE "unset",
   schema |-> w.output = "schema"]

-----------------------------------------------------------------------------
(* Gemini *)

\* A "detailed" client gives a level without saying whether it wants thoughts.
GeminiThinking(w, force, suffixed) ==
  Thoughts(IF w.thinking = "detailed" THEN "unset" ELSE w.thinking,
           IF w.thinking = "detailed" THEN "own" ELSE "none", force, suffixed)

Snake(tool) == IF tool = "search" THEN "google_search" ELSE "url_context"

\* The client's tools, whichever way it spells the hosted ones.
GeminiTools(w) ==
  LET names     == w.tools \cap Function
      Listed(t) == IF t \notin w.tools THEN <<>> ELSE << IF w.snake THEN Snake(t) ELSE t >>
  IN  [tools |-> Declared(names) \o Listed("search") \o Listed("fetch"),
       functions |-> names, described |-> names]

GeminiChoice(w) == [mode |-> w.choice.mode, allowed |-> w.choice.only]

GeminiOutput(w) ==
  [mime |-> IF w.output = "schema" THEN "json" ELSE w.output, schema |-> w.output = "schema"]

\* _buildProxyRequest() adds what the operator forces.
CompleteTools(c, force) == EnsureServerSide(ForceTools(c, force))

-----------------------------------------------------------------------------
(* The chat shim *)

\* responsesRequestToChatRequest(): of the settings only the model's name goes
\* on, the request's or the one it is mapped to.
Forwarded(w) ==
  [w EXCEPT !.thinking = "unset", !.output = "unset", !.tools = {},
            !.choice = Choice("unset", {}, FALSE)]

-----------------------------------------------------------------------------
\* The request to Gemini as it is first put together.
Asked(name, thinking, offer, choice, output) ==
  [name |-> name, thoughts |-> thinking.thoughts, level |-> thinking.level,
   tools |-> offer.tools, functions |-> offer.functions, described |-> offer.described,
   serverSide |-> FALSE, mode |-> choice.mode, allowed |-> choice.allowed,
   mime |-> output.mime, schema |-> output.schema]

\* A translated name is stripped of both suffixes; so is the model in a path.
Config(format, wish, force) ==
  LET w        == IF format = "shim" THEN Forwarded(wish) ELSE wish
      named    == ParseThinkingLevel(ParseStreamingMode(w.name).name)
      suffixed == named.suffixed
  IN  CASE format \in {"openai", "shim"} ->
             Finalize(Asked(named.name, OpenAIThinking(w, force, suffixed), OpenAITools(w),
                            OpenAIChoice(w), OpenAIOutput(w)), force)
        [] format = "claude" ->
             Finalize(Asked(named.name, ClaudeThinking(w, force, suffixed), ClaudeTools(w),
                            ClaudeChoice(w), ClaudeOutput(w)), force)
        [] format = "responses" ->
             Finalize(Asked(named.name, ResponsesThinking(w, force, suffixed), ResponsesTools(w),
                            ResponsesChoice(w), ResponsesOutput(w)), force)
        [] format = "gemini" ->
             CompleteTools(Asked(named.name, GeminiThinking(w, force, suffixed), GeminiTools(w),
                                 GeminiChoice(w), GeminiOutput(w)), force)

-----------------------------------------------------------------------------
(* What a client may ask, in each format.                                   *)

Thinking(format) ==
  CASE format = "openai" -> {"unset", "on", "off", "quiet", "detailed"}
    [] format = "claude" -> {"unset", "on", "off"}
    [] format \in {"responses", "shim"} -> {"unset", "on", "quiet"}
    [] format = "gemini" -> {"unset", "on", "off", "detailed"}

Tools(format) ==
  CASE format = "openai" -> SUBSET Function
    [] format \in {"responses", "shim"} -> SUBSET (Function \cup {"search"})
    [] OTHER -> SUBSET (Function \cup Hosted)

\* A mode, one tool that must be used, or a list of those that may be: Gemini
\* names functions only, and needs no form of its own for a list.
ToolChoices(format, tools) ==
  { Choice(m, {}, FALSE) : m \in {"unset", "auto", "none"} }
    \cup (IF tools = {} THEN {} ELSE { Choice("required", {}, FALSE) })
    \cup (CASE format = "gemini" ->
                 { Choice("required", s, FALSE) : s \in SUBSET (tools \cap Function) \ {{}} }
            [] format = "claude" -> { Choice("required", {t}, FALSE) : t \in tools }
            [] OTHER -> { Choice("required", {t}, FALSE) : t \in tools }
                          \cup { Choice("auto", s, TRUE) : s \in SUBSET tools \ {{}} }
                          \cup { Choice("required", s, TRUE) : s \in SUBSET tools \ {{}} })

Names == { <<>>, << "level" >>, << "level", "real" >>, << "fake", "level" >> }
Outputs == {"unset", "text", "json", "schema"}
ForcedSettings == [thinking : BOOLEAN, search : BOOLEAN, url : BOOLEAN]

-----------------------------------------------------------------------------
(* What the configuration must say.                                         *)

\* Thoughts are told or not as the client said, and of one that said nothing as
\* the operator forces.  The exceptions are the code's: an effort of "none"
\* turns thoughts on, and a Messages client's "disabled" says nothing.  Nothing
\* is claimed where another client turns them off and the operator forces them.
\* The level is the name's, else a native client's own.
ThinkingIsKept(format, w, force, c) ==
  LET silent == w.thinking \in {"unset", "detailed"} \/ (format = "claude" /\ w.thinking = "off")
      contrary == force.thinking /\ w.thinking = "off" /\ ~silent
  IN  /\ ~contrary =>
           c.thoughts = CASE silent /\ force.thinking -> "on"
                          [] silent /\ ~force.thinking -> "unset"
                          [] OTHER -> IF w.thinking = "quiet" THEN "on" ELSE w.thinking
      /\ c.level = CASE ParseThinkingLevel(ParseStreamingMode(w.name).name).suffixed -> "suffix"
                     [] OTHER -> IF format = "gemini" /\ w.thinking = "detailed" THEN "own"
                                 ELSE "none"

\* A native client's hosted tools in snake case are not recognized as the ones
\* the operator forces.
Offered(c) == { t \in Hosted : {t, Snake(t)} \cap Range(c.tools) # {} }

\* Gemini is offered every tool the client offers (of a Responses client's
\* list, those) and those the operator forces, each once.
ToolsAreKept(format, w, force, c) ==
  LET listed == format = "responses" /\ w.choice.listed
      mine   == IF listed THEN w.choice.only ELSE w.tools
  IN  /\ c.functions = mine \cap Function
      /\ "functions" \in Range(c.tools) <=> c.functions # {}
      /\ c.described = IF listed THEN {} ELSE c.functions
      /\ Offered(c) = (mine \cap Hosted) \cup (IF force.search THEN {"search"} ELSE {})
                        \cup (IF force.url THEN {"fetch"} ELSE {})
      /\ ~w.snake =>
           Len(c.tools) = Cardinality(Offered(c)) + (IF c.functions # {} THEN 1 ELSE 0)
      /\ c.serverSide <=> c.functions # {} /\ Offered(c) # {}

\* The client's choice binds Gemini, which accepts names of declared functions
\* only.  The exceptions are the code's: a list of allowed tools is passed over
\* in Chat Completions, a chosen hosted tool does not bind a Responses answer
\* and is an undeclared function in Messages.
ChoiceIsKept(format, w, c) ==
  LET hosted == ~w.choice.listed /\ w.choice.only \cap Hosted # {}
  IN  /\ c.mode = (IF (format = "openai" /\ w.choice.listed) \/ (format = "responses" /\ hosted)
                   THEN "unset" ELSE w.choice.mode)
      /\ c.allowed = (IF format = "openai" /\ w.choice.listed THEN {}
                      ELSE IF format = "claude" THEN w.choice.only
                      ELSE w.choice.only \cap Function)
      /\ ~(format = "claude" /\ hosted) => c.allowed \subseteq c.functions

\* An answer is JSON when the client asked for that, and of its schema.
OutputIsKept(w, c) ==
  /\ c.mime = "json" <=> w.output \in {"json", "schema"}
  /\ c.schema <=> w.output = "schema"
=============================================================================
