------------------------ MODULE CanvasConversation ------------------------
(***************************************************************************)
(* A conversation of one client with Gemini through the Canvas adapter: the *)
(* client sends its history, the adapter translates it (PromptHistory), the *)
(* browser streams Gemini's answer over a network that joins and tears its  *)
(* frames, the adapter translates each chunk (AnswerStreams), and what the  *)
(* client kept of the answer is the history of its next request.           *)
(* Settings (RequestSettings) and schemas (SchemaTranslation, a parameter   *)
(* here) are translated apart from the history and from each other, so a    *)
(* request with settings, or with a schema, is translated and its answer    *)
(* not followed.                                                            *)
(*                                                                         *)
(* Delivery between the browser and the adapter, retries and cancellation   *)
(* are in CanvasRequests; here chunks arrive in order, or the answer is     *)
(* interrupted.                                                             *)
(***************************************************************************)
EXTENDS AnswerStreams, PromptHistory, RequestSettings

CONSTANTS Format,     \* the formats clients use, of the five
          Schema,     \* the schemas clients send
          TranslateSchema(_, _),  \* what Gemini is sent for one, by its use
          MaxTurns,   \* bound: requests in a conversation
          MaxParts,   \* bound: parts Gemini says in a conversation
          InFlight    \* bound: frames between Gemini and the adapter

ASSUME CanvasAssumption ==
  /\ Format \subseteq {"openai", "responses", "claude", "gemini", "shim"}
  /\ MaxTurns \in Nat /\ MaxParts \in Nat /\ InFlight \in Nat

VARIABLES format,     \* the client's format
          full,       \* the client adds the optional fields
          settings,   \* of a request: << wish, what is forced >> or << schema, use >>
          config,     \* and the configuration or schema Gemini was sent
          phase,      \* "ask", "answer", "failed", "configured" or "offered"
          mode,       \* "real" stream, "fake" stream or "whole" body
          history,    \* the client's turns
          contents,   \* the last request, translated
          wire,       \* frames and torn pieces the browser has not read
          state,      \* the translator's stream state
          ending,     \* how Gemini ended this answer ("no": not yet)
          said,       \* the parts of this answer
          lost,       \* those whose frame travelled broken; 0: its ending
          cut,        \* this answer was interrupted
          used        \* parts said in the conversation

answerVars == << mode, history, contents, wire, state, ending, said, lost, cut, used >>
vars == << format, full, settings, config, phase, answerVars >>

Kinds == {"thought", "text", "image", "call"}
Reasons == {"none", "STOP", "MAX_TOKENS"}
Answers(n) == UNION { [1 .. k -> Kinds] : k \in 0 .. n }

StreamState == CASE format = "responses" -> ResponsesStart
                 [] format = "claude" -> ClaudeStart
                 [] format = "gemini" -> GeminiStart
                 [] OTHER -> OpenAIStart

Translate(chunk) == CASE format = "responses" -> ResponsesChunk(state, chunk)
                      [] format = "claude" -> ClaudeChunk(state, chunk)
                      [] format = "gemini" -> GeminiChunk(state, chunk)
                      [] OTHER -> OpenAIChunk(state, chunk)

Whole(parts) == CASE format = "responses" -> ResponsesWhole(parts)
                  [] format = "claude" -> ClaudeWhole(parts)
                  [] format = "openai" -> OpenAIWhole(parts)
                  [] format = "gemini" -> GeminiWhole(parts)
                  [] format = "shim" -> ShimWhole(OpenAIWhole(parts))

\* What the client was told once the adapter's response has ended.
Told(out) == IF format = "shim" THEN ShimEnd(out) ELSE out

Blocks(out) == IF format \in {"openai", "shim"} THEN OpenAIBlocks(Told(out))
               ELSE IF format = "gemini" THEN GeminiBlocks(out) ELSE IndexedBlocks(out)

Init ==
  /\ format \in Format
  /\ full \in BOOLEAN
  /\ settings = <<>>
  /\ config = <<>>
  /\ phase = "ask"
  /\ mode = "whole"
  /\ history = <<>>
  /\ contents = <<>>
  /\ wire = <<>>
  /\ state = StreamState
  /\ ending = "no"
  /\ said = <<>>
  /\ lost = {}
  /\ cut = FALSE
  /\ used = 0

-----------------------------------------------------------------------------
\* The calls of the last answer, which the client must answer first.
OpenCalls ==
  IF history = <<>> THEN <<>>
  ELSE [i \in DOMAIN OfBlocks(history[Len(history)].blocks, "call") |->
          OfBlocks(history[Len(history)].blocks, "call")[i].id]

\* A request: results of the open calls, a question, or both.
Ask ==
  /\ phase = "ask"
  /\ Len(history) < MaxTurns
  /\ \E asks \in BOOLEAN, m \in { StreamMode(wants, name, server) : wants \in BOOLEAN,
                                name \in Names, server \in {"real", "fake"} } :
       /\ asks \/ OpenCalls # <<>>
       /\ mode' = m
       /\ history' = Append(history, Turn(OpenCalls, asks))
  /\ contents' = Contents(format, history', full)
  /\ phase' = "answer"
  /\ state' = StreamState
  /\ ending' = "no"
  /\ said' = <<>>
  /\ lost' = {}
  /\ cut' = FALSE
  /\ UNCHANGED << format, full, settings, config, wire, used >>

\* A request with any settings; a Gemini client may spell them in snake case.
AskWithSettings ==
  /\ phase = "ask" /\ history = <<>> /\ ~full
  /\ \E thinking \in Thinking(format), name \in Names, output \in Outputs,
        force \in ForcedSettings, tools \in Tools(format), snake \in BOOLEAN :
       \E choice \in ToolChoices(format, tools) :
         /\ snake => format = "gemini"
         /\ settings' = << [thinking |-> thinking, name |-> name, output |-> output,
                            tools |-> tools, choice |-> choice, snake |-> snake], force >>
  /\ config' = Config(format, settings'[1], settings'[2])
  /\ phase' = "configured"
  /\ UNCHANGED << format, full, answerVars >>

\* A request with any schema, of a tool or of the answer.  The translators of
\* the three formats call the same function, SchemaTranslation's; one stands
\* for them.
AskWithSchema ==
  /\ phase = "ask" /\ history = <<>> /\ ~full /\ format \in {"openai", "gemini"}
  /\ \E schema \in Schema, use \in {"tool", "answer", "native"} :
       /\ use = "native" <=> format = "gemini"
       /\ settings' = << schema, use >>
       /\ config' = TranslateSchema(schema, use)
  /\ phase' = "offered"
  /\ UNCHANGED << format, full, answerVars >>

\* The turn ends: the client files the blocks of the answer.
EndTurn(blocks) ==
  /\ history' = [history EXCEPT ![Len(history)].blocks = blocks]
  /\ phase' = "ask"

\* A frame, and what it says of the answer's end ("no": nothing).
Ended(parts, how) ==
  Frame(parts, IF how \in {"no", "blocked"} THEN "none" ELSE how, how = "blocked")

NewParts(kinds) == [i \in DOMAIN kinds |-> [kind |-> kinds[i], id |-> used + i]]

\* A stream: Gemini sends one more frame, the last one with a finish reason,
\* with none, or in place of an answer to a prompt it blocks.
Say ==
  /\ phase = "answer" /\ mode = "real" /\ ending = "no"
  /\ Len(wire) < InFlight
  /\ \E kinds \in Answers(MaxParts - used), how \in Reasons \cup {"no", "blocked"} :
       /\ how = "no" => kinds # <<>>
       /\ how = "blocked" => kinds = <<>> /\ said = <<>>
       /\ wire' = Append(wire, Ended(NewParts(kinds), how))
       /\ said' = said \o NewParts(kinds)
       /\ used' = used + Len(kinds)
       /\ ending' = how
  /\ UNCHANGED << format, full, settings, config, phase, mode, history, contents, state, lost, cut >>

\* What the framing of a chunk costs: its torn frames, and for two of the
\* translators every frame of a chunk that is not one frame.  A Gemini client
\* is given the bytes themselves.
Broken(chunk) ==
  LET frames == { i \in DOMAIN chunk :
                    /\ format # "gemini"
                    /\ chunk[i].torn \/ (Len(chunk) > 1 /\ format # "responses") }
  IN  UNION { { p.id : p \in Range(chunk[i].parts) }
              \cup (IF chunk[i].finish # "none" \/ chunk[i].blocked THEN {0} ELSE {})
              : i \in frames }

\* The browser reads some frames, perhaps half of the last one, and the adapter
\* translates them.
Read ==
  /\ phase = "answer" /\ mode = "real"
  /\ \E k \in DOMAIN wire, tear \in BOOLEAN :
       LET half  == [wire[k] EXCEPT !.torn = TRUE]
           chunk == IF tear THEN Append(SubSeq(wire, 1, k - 1), half) ELSE SubSeq(wire, 1, k)
           rest  == SubSeq(wire, k + 1, Len(wire))
       IN  /\ tear => ~wire[k].torn
           /\ wire' = IF tear THEN << half >> \o rest ELSE rest
           /\ state' = Translate(chunk)
           /\ lost' = lost \cup Broken(chunk)
  /\ UNCHANGED << format, full, settings, config, phase, mode, history, contents, ending, said, cut, used >>

\* STREAM_END: a Chat Completions stream also gets its [DONE].
End ==
  /\ phase = "answer" /\ mode = "real" /\ ending # "no" /\ wire = <<>>
  /\ state' = IF format \in {"openai", "shim"} THEN Emit(state, << Event("done", "none", 0, 0) >>)
              ELSE state
  /\ EndTurn(Blocks(state'.out))
  /\ UNCHANGED << format, full, settings, config, mode, contents, wire, ending, said, lost, cut, used >>

\* A fake stream or a whole answer: one body with every part.
AnswerAtOnce ==
  /\ phase = "answer" /\ mode # "real"
  /\ \E kinds \in Answers(MaxParts - used), how \in Reasons \cup {"blocked"} :
       /\ how = "blocked" => kinds = <<>>
       /\ said' = NewParts(kinds)
       /\ used' = used + Len(kinds)
       /\ ending' = how
       /\ state' = IF mode = "whole" THEN state
                   ELSE LET r == IF format = "gemini" THEN GeminiPseudo(state, Ended(said', how))
                                 ELSE Translate(<< Ended(said', how) >>)
                        IN  IF format \in {"openai", "shim"}
                            THEN Emit(r, << Event("done", "none", 0, 0) >>) ELSE r
       /\ EndTurn(IF mode = "whole" THEN Whole(said') ELSE Blocks(state'.out))
  /\ UNCHANGED << format, full, settings, config, mode, contents, wire, lost, cut >>

\* A bug the properties must catch: the error takes no sequence number.
SilentError == Emit(state, << [Event("error", "none", 0, 0) EXCEPT !.seq = 1] >>)

\* The error event a started stream ends with, numbered after the others.
ErrorEvent == IF format = "responses" THEN Push(state, "error", "none", 0, 0)
              ELSE Emit(state, << Event("error", "none", 0, 0) >>)

\* The browser fails, its queue is closed or it is silent for too long.  The
\* chat shim passes over the event, and its client keeps a finished answer; a
\* Gemini stream that is JSON and has begun may end without the event.
Interrupt ==
  /\ phase = "answer" /\ mode # "whole"
  /\ \/ state' = ErrorEvent
     \/ format = "gemini" /\ mode = "real" /\ state.out # <<>> /\ UNCHANGED state
  /\ cut' = TRUE
  /\ wire' = <<>>
  /\ IF format = "shim" THEN EndTurn(Blocks(state'.out))
     ELSE /\ phase' = "failed"
          /\ UNCHANGED history
  /\ UNCHANGED << format, full, settings, config, mode, contents, ending, said, lost, used >>

\* The request fails before its response starts: an HTTP error.
Refuse ==
  /\ phase = "answer" /\ state.out = <<>>
  /\ mode = "real" => said = <<>>
  /\ phase' = "failed"
  /\ UNCHANGED << format, full, settings, config, mode, history, contents, wire, state, ending, said, lost,
                  cut, used >>

Next == Ask \/ AskWithSettings \/ AskWithSchema \/ Say \/ Read \/ End \/ AnswerAtOnce \/ Interrupt \/ Refuse
Spec == Init /\ [][Next]_vars
-----------------------------------------------------------------------------
Out == Told(state.out)
Before(i, stage, index) == \E j \in 1 .. i - 1 : Out[j].stage = stage /\ Out[j].index = index
Terminal == { i \in DOMAIN Out : Out[i].stage = "finish" }

\* Whatever the order of the parts and wherever an error interrupts them, the
\* events a client is told make a well-formed stream: a Responses stream is
\* numbered without a gap, blocks and items are opened once and in the order of
\* their indexes, nothing is added to one before it is opened or after it is
\* closed, and all are closed when the answer finishes, after which only [DONE]
\* or an error follows.  The exception is the code's: a thought that Gemini has
\* after some text goes to the thinking block a Messages client saw closed.
StreamsAreWellFormed ==
  /\ format = "responses" => \A i \in DOMAIN Out : Out[i].seq = i
  /\ \A i, j \in Terminal : i = j
  /\ \A i \in Terminal, j \in DOMAIN Out : j > i => Out[j].stage \in {"done", "error"}
  /\ format \in {"responses", "claude"} =>
       /\ \A i \in DOMAIN Out : Out[i].stage = "open" =>
            /\ ~Before(i, "open", Out[i].index)
            /\ \A k \in 0 .. Out[i].index - 1 : Before(i, "open", k)
       /\ \A i \in DOMAIN Out : Out[i].stage \in {"delta", "text_done", "close_part", "close"} =>
            /\ Before(i, "open", Out[i].index)
            /\ Before(i, "close", Out[i].index) =>
                 format = "claude" /\ Out[i].kind = "thought" /\ Out[i].stage = "delta"
       /\ \A i \in Terminal, j \in DOMAIN Out :
            Out[j].stage = "open" => Before(i, "close", Out[j].index)

\* What Gemini said of these kinds, less what the framing cost.
Received(kinds) ==
  FlattenSeq([i \in DOMAIN said |->
    IF said[i].kind \in kinds /\ said[i].id \notin lost THEN << said[i].id >> ELSE <<>>])
Kept(kind) == LET b == OfBlocks(history[Len(history)].blocks, kind)
              IN  [i \in DOMAIN b |-> b[i].id]

\* A client that was given an answer to the end has all of it, once and in the
\* order Gemini said it, streamed or whole: only parts whose frame travelled
\* torn (or, in two of the formats, joined to another) are missing.  A
\* Responses client gets no images, and behind the chat shim there are neither
\* thoughts nor calls, and an interrupted answer may pass for a finished one.
NothingLostButByFraming ==
  phase = "ask" /\ history # <<>> /\ ~cut =>
    /\ Kept("text") = Received(IF format \in {"responses", "gemini"} THEN {"text"}
                               ELSE {"text", "image"})
    /\ Kept("image") = (IF format = "gemini" THEN Received({"image"}) ELSE <<>>)
    /\ Kept("call") = (IF format = "shim" THEN <<>> ELSE Received({"call"}))
    /\ Kept("thought") = (IF format = "shim" THEN <<>> ELSE Received({"thought"}))

\* A stream that ends without an error has told the client that the answer is
\* finished, and why (for its calls, if a call arrived), exactly when Gemini
\* gave a reason and its frame arrived unbroken.  A blocked prompt finishes a
\* Chat Completions stream only; and the chat shim always reports a finish.
FinishIsTold ==
  phase = "ask" /\ history # <<>> /\ mode # "whole" =>
    /\ format # "shim" =>
         (Terminal # {} <=> /\ 0 \notin lost
                            /\ \/ ending \in Reasons \ {"none"}
                               \/ ending = "blocked" /\ format = "openai")
    /\ format = "shim" => Terminal # {}
    /\ format \in {"openai", "claude", "gemini"} /\ ending # "blocked" =>
         \A i \in Terminal :
           Out[i].kind = IF format # "gemini" /\ Kept("call") # <<>> THEN "call" ELSE ending

-----------------------------------------------------------------------------
ModelSaid(kind) ==
  FlattenSeq([i \in DOMAIN contents |->
    IF contents[i].role = "model" THEN OfKind(contents[i].parts, {kind}) ELSE <<>>])
ClientKept(kind) ==
  LET b == OfBlocks(AllBlocks(SubSeq(history, 1, Len(history) - 1)), kind)
  IN  [i \in DOMAIN b |-> b[i].id]

\* The history Gemini is sent holds everything the client kept of its earlier
\* answers, each part once and in order: calls and images always, thoughts in
\* the Messages and Gemini formats, and text, except from a Responses client
\* that sends back the output items it was given, whose answers are left out of
\* the conversation.  The first call of each content is signed, and no other,
\* unless a Gemini client kept the signature of the first: then the next one is.
HistoryIsKept ==
  phase = "answer" =>
    /\ ModelSaid("call") = ClientKept("call")
    /\ ModelSaid("text") = (IF format = "responses" /\ ~full THEN <<>> ELSE ClientKept("text"))
    /\ ModelSaid("image") = ClientKept("image")
    /\ ModelSaid("thought") =
         (IF format \in {"claude", "gemini"} THEN ClientKept("thought") ELSE <<>>)
    /\ \A i \in DOMAIN contents :
         LET calls == PartsOfKind(contents[i].parts, {"call"})
         IN  \A j \in DOMAIN calls : calls[j].signed <=>
               j = 1 \/ (j = 2 /\ format = "gemini" /\ full)

CallsIn(parts) == OfKind(parts, {"call"})
ResultsIn(parts) == PartsOfKind(parts, {"response"})
ResultIdsIn(parts) == OfKind(parts, {"response"})
SentParts == FlattenSeq([i \in DOMAIN contents |-> contents[i].parts])

\* Gemini finds every result of its calls, in their order and by the names of
\* their functions, and right after the calls: a content with calls is followed
\* by one content with all their results.  Nothing is claimed of the names where
\* a tool message gives only the id of its call, nor of how the items of a
\* Responses request are divided among contents.
ResultsFollowCalls ==
  phase = "answer" =>
    /\ CallsIn(SentParts) = ResultIdsIn(SentParts)
    /\ (format = "openai" => full) =>
         \A i \in DOMAIN ResultsIn(SentParts) :
           ResultsIn(SentParts)[i].name = ResultsIn(SentParts)[i].id
    /\ format # "responses" => \A i \in DOMAIN contents :
         CallsIn(contents[i].parts) # <<>> =>
           /\ i < Len(contents)
           /\ contents[i + 1].role = "user"
           /\ ResultIdsIn(contents[i + 1].parts) = CallsIn(contents[i].parts)
           /\ format # "gemini" =>
                Len(contents[i + 1].parts) = Len(CallsIn(contents[i].parts))

-----------------------------------------------------------------------------
\* Whatever the format, the settings of a request reach Gemini as the client
\* meant them, completed by what the operator forces, and in a form Gemini
\* accepts, with the exceptions named in the four parts.  The chat shim passes
\* over all settings but the model's name.
SettingsAreKept ==
  phase = "configured" =>
    LET w == IF format = "shim"
             THEN [settings[1] EXCEPT !.thinking = "unset", !.tools = {}, !.output = "unset",
                                      !.choice = Choice("unset", {}, FALSE)]
             ELSE settings[1]
        force == settings[2]
    IN  /\ ThinkingIsKept(format, w, force, config)
        /\ ToolsAreKept(format, w, force, config)
        /\ ChoiceIsKept(format, w, config)
        /\ OutputIsKept(w, config)
=============================================================================
