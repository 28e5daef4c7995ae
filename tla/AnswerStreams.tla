--------------------------- MODULE AnswerStreams ---------------------------
(***************************************************************************)
(* How the Canvas adapter turns Gemini's answer into the formats it serves: *)
(* Chat Completions ("openai"), Responses ("responses"), Messages           *)
(* ("claude") and Gemini's own ("gemini"), and what a Responses client      *)
(* behind the generic chat shim ("shim") sees of the first                  *)
(* (FormatConverter.js, RequestHandler.js, chat_responses_shim.mjs).        *)
(*                                                                         *)
(* An answer is a sequence of frames; a frame carries parts, and the last   *)
(* one a finish reason.  A part is a kind and an identity; the text or the  *)
(* arguments in it are left out.  A translator is a function of its stream  *)
(* state and of one chunk as the browser read it from the network: a        *)
(* sequence of whole frames and of torn pieces.  The state's "out" is what  *)
(* was written to the client.                                               *)
(***************************************************************************)
EXTENDS Integers, SequencesExt

\* A frame; a torn one is one of the pieces it arrives in.
Frame(parts, finish, blocked) ==
  [torn |-> FALSE, parts |-> parts, finish |-> finish, blocked |-> blocked]

\* An event: its stage, the kind of content, the index of the block, item or
\* tool call, the part it carries (0: none) and the Responses sequence number.
Event(stage, kind, index, part) ==
  [stage |-> stage, kind |-> kind, index |-> index, part |-> part, seq |-> 0]
Emit(s, events) == [s EXCEPT !.out = @ \o events]

Absent == -1

\* The Chat Completions and the Messages translators parse a chunk as one
\* frame: a torn frame is not JSON, and neither are two frames together.
Readable(chunk) == Len(chunk) = 1 /\ ~chunk[1].torn

-----------------------------------------------------------------------------
(* Chat Completions *)

OpenAIStart == [role |-> FALSE, calls |-> 0, out |-> <<>>]

OpenAIKind(kind) == IF kind = "image" THEN "text" ELSE kind

\* One chunk per part; the first one also carries the role.
OpenAIPart(s, p) ==
  LET named == IF s.role THEN s ELSE Emit(s, << Event("start", "none", 0, 0) >>)
      index == IF p.kind = "call" THEN s.calls ELSE 0
  IN  Emit([named EXCEPT !.role = TRUE,
                         !.calls = IF p.kind = "call" THEN @ + 1 ELSE @],
           << Event("delta", OpenAIKind(p.kind), index, p.id) >>)

\* A bug the properties must catch: calls count in their own frame only.
OpenAIFrameForgets(s, f) ==
  LET told == FoldLeft(OpenAIPart, s, f.parts)
  IN  CASE f.blocked -> Emit(s, << Event("delta", "notice", 0, 0),
                                   Event("finish", "STOP", 0, 0) >>)
        [] ~f.blocked /\ f.finish = "none" -> told
        [] OTHER -> Emit(told, << Event("finish",
                                        IF told.calls > s.calls THEN "call" ELSE f.finish,
                                        0, 0) >>)

\* One frame: its parts, then the finish, "call" if the stream had any call.
OpenAIFrame(s, f) ==
  LET told == FoldLeft(OpenAIPart, s, f.parts)
  IN  CASE f.blocked -> Emit(s, << Event("delta", "notice", 0, 0),
                                   Event("finish", "STOP", 0, 0) >>)
        [] ~f.blocked /\ f.finish = "none" -> told
        [] OTHER -> Emit(told, << Event("finish",
                                        IF told.calls > 0 THEN "call" ELSE f.finish, 0, 0) >>)

\* translateGoogleToOpenAIStream()
OpenAIChunk(s, chunk) == IF Readable(chunk) THEN OpenAIFrame(s, chunk[1]) ELSE s

-----------------------------------------------------------------------------
(* Responses *)

ResponsesStart ==
  [seq |-> 0, created |-> FALSE, next |-> 0, message |-> Absent, reasoning |-> Absent,
   noticed |-> FALSE, completed |-> FALSE, out |-> <<>>]

\* pushEvent(): every event takes the next sequence number.
Push(s, stage, kind, index, part) ==
  [s EXCEPT !.seq = @ + 1,
            !.out = Append(@, [Event(stage, kind, index, part) EXCEPT !.seq = s.seq + 1])]

EnsureMessageItem(s) ==
  IF s.message # Absent THEN s
  ELSE Push(Push([s EXCEPT !.message = s.next, !.next = @ + 1],
                 "open", "text", s.next, 0),
            "open_part", "text", s.next, 0)

\* The item and, at its first text, its one summary part.
EnsureReasoningItem(s) ==
  IF s.reasoning # Absent THEN s
  ELSE Push(Push([s EXCEPT !.reasoning = s.next, !.next = @ + 1],
                 "open", "thought", s.next, 0),
            "open_part", "thought", s.next, 0)

FinalizeReasoningItem(s) ==
  IF s.reasoning = Absent THEN s
  ELSE Push(Push(Push(s, "text_done", "thought", s.reasoning, 0),
                 "close_part", "thought", s.reasoning, 0),
            "close", "thought", s.reasoning, 0)

FinalizeMessageItem(s) ==
  IF s.message = Absent THEN s
  ELSE Push(Push(Push(s, "text_done", "text", s.message, 0),
                 "close_part", "text", s.message, 0),
            "close", "text", s.message, 0)

\* A call is opened, told and closed at once, at an index of its own.
PushCall(s, p) ==
  [ Push(Push(Push(s, "open", "call", s.next, 0), "delta", "call", s.next, p.id),
         "close", "call", s.next, 0)
    EXCEPT !.next = @ + 1 ]

ResponsesPart(s, p) ==
  CASE p.kind = "thought" ->
         LET r == EnsureReasoningItem(s)
         IN  Push(r, "delta", "thought", r.reasoning, p.id)
    [] p.kind = "text" ->
         LET r == EnsureMessageItem(s)
         IN  Push(r, "delta", "text", r.message, p.id)
    [] p.kind = "image" /\ ~s.noticed ->
         LET r == EnsureMessageItem([s EXCEPT !.noticed = TRUE])
         IN  Push(r, "delta", "notice", r.message, 0)
    [] p.kind = "image" /\ s.noticed -> s
    [] p.kind = "call" -> PushCall(s, p)

\* handleGoogleResponseObject(); a blocked prompt is only logged.
ResponsesFrame(s, f) ==
  LET begun == IF s.created THEN s
               ELSE Push(Push([s EXCEPT !.created = TRUE], "start", "none", 0, 0),
                         "start", "none", 0, 0)
      told  == FoldLeft(ResponsesPart, begun, f.parts)
  IN  CASE f.blocked -> s
        [] ~f.blocked /\ (f.finish = "none" \/ told.completed) -> told
        [] OTHER -> [ Push(FinalizeMessageItem(FinalizeReasoningItem(told)),
                           "finish", f.finish, 0, 0)
                      EXCEPT !.completed = TRUE ]

\* A bug the properties must catch: a chunk is taken for one frame.
ResponsesFirstFrame(s, chunk) ==
  IF chunk[1].torn THEN s ELSE ResponsesFrame(s, chunk[1])

\* translateGoogleToResponseAPIStream(): a chunk is split into its frames, and
\* one that is not JSON is passed over.
ResponsesPiece(s, f) == IF f.torn THEN s ELSE ResponsesFrame(s, f)
ResponsesChunk(s, chunk) == FoldLeft(ResponsesPiece, s, chunk)

-----------------------------------------------------------------------------
(* Messages *)

ClaudeStart ==
  [started |-> FALSE, next |-> 0, thinking |-> Absent, thinkingOpen |-> FALSE,
   text |-> Absent, textOpen |-> FALSE, tool |-> FALSE, out |-> <<>>]

StopThinking(s) ==
  IF ~s.thinkingOpen THEN s
  ELSE Emit([s EXCEPT !.thinkingOpen = FALSE], << Event("close", "thought", s.thinking, 0) >>)

StopText(s) ==
  IF ~s.textOpen THEN s
  ELSE Emit([s EXCEPT !.textOpen = FALSE], << Event("close", "text", s.text, 0) >>)

\* A thought goes to the one thinking block, whether or not text closed it.
ClaudeThought(s, p) ==
  LET r == IF s.thinking # Absent THEN s
           ELSE Emit([s EXCEPT !.thinking = s.next, !.thinkingOpen = TRUE, !.next = @ + 1],
                     << Event("open", "thought", s.next, 0) >>)
  IN  Emit(r, << Event("delta", "thought", r.thinking, p.id) >>)

\* Text, and an image as a Markdown link.
ClaudeText(s, p) ==
  LET t == StopThinking(s)
      r == IF t.text # Absent THEN t
           ELSE Emit([t EXCEPT !.text = t.next, !.textOpen = TRUE, !.next = @ + 1],
                     << Event("open", "text", t.next, 0) >>)
  IN  Emit(r, << Event("delta", "text", r.text, p.id) >>)

ClaudeCall(s, p) ==
  Emit([s EXCEPT !.next = @ + 1, !.tool = TRUE],
       << Event("open", "call", s.next, 0), Event("delta", "call", s.next, p.id),
          Event("close", "call", s.next, 0) >>)

ClaudePart(s, p) ==
  CASE p.kind = "thought" -> ClaudeThought(s, p)
    [] p.kind \in {"text", "image"} -> ClaudeText(s, p)
    [] p.kind = "call" -> ClaudeCall(s, p)

\* message_delta with the stop reason, then message_stop.
ClaudeFinish(s, f) ==
  Emit(StopThinking(StopText(s)),
       << Event("stop_reason", IF s.tool THEN "call" ELSE f.finish, 0, 0),
          Event("finish", IF s.tool THEN "call" ELSE f.finish, 0, 0) >>)

\* A blocked prompt is only logged.
ClaudeFrame(s, f) ==
  LET begun == IF s.started THEN s
               ELSE Emit([s EXCEPT !.started = TRUE], << Event("start", "none", 0, 0) >>)
      told  == FoldLeft(ClaudePart, begun, f.parts)
  IN  CASE f.blocked -> s
        [] ~f.blocked /\ f.finish = "none" -> told
        [] OTHER -> ClaudeFinish(told, f)

\* translateGoogleToClaudeStream()
ClaudeChunk(s, chunk) == IF Readable(chunk) THEN ClaudeFrame(s, chunk[1]) ELSE s

-----------------------------------------------------------------------------
(* Gemini: the client is given the bytes, and puts the pieces together.     *)

GeminiStart == [half |-> FALSE, out |-> <<>>]

PassOn(s, parts, f) ==
  Emit(s, [i \in DOMAIN parts |-> Event("delta", parts[i].kind, 0, parts[i].id)]
            \o (IF f.finish = "none" THEN <<>> ELSE << Event("finish", f.finish, 0, 0) >>)
            \o (IF f.blocked THEN << Event("delta", "notice", 0, 0) >> ELSE <<>>))

GeminiFrame(s, f) ==
  IF f.torn /\ ~s.half THEN [s EXCEPT !.half = TRUE]
  ELSE PassOn([s EXCEPT !.half = FALSE], f.parts, f)

\* _handleRealStreamResponse(): chunks are passed on as they are.
GeminiChunk(s, chunk) == FoldLeft(GeminiFrame, s, chunk)

PartsOfKind(parts, kinds) ==
  FlattenSeq([i \in DOMAIN parts |-> IF parts[i].kind \in kinds THEN << parts[i] >> ELSE <<>>])

\* _handlePseudoStreamResponse(): the thoughts of a whole answer, and then the
\* rest with its finish reason.
GeminiPseudo(s, f) ==
  PassOn(PassOn(s, PartsOfKind(f.parts, {"thought"}), Frame(<<>>, "none", FALSE)),
         PartsOfKind(f.parts, {"text", "image", "call"}), f)

Block(kind, parts) == [kind |-> kind, parts |-> parts]

\* A Gemini client keeps the parts as they came.
GeminiBlocks(out) ==
  FlattenSeq([i \in DOMAIN out |-> IF out[i].stage = "delta" /\ out[i].part # 0
                                  THEN << Block(out[i].kind, << out[i].part >>) >> ELSE <<>>])

-----------------------------------------------------------------------------
(* What the client keeps of an answer: its blocks in order.                 *)

Carried(out, kind) ==
  FlattenSeq([i \in DOMAIN out |->
    IF out[i].stage = "delta" /\ out[i].kind = kind /\ out[i].part # 0
    THEN << out[i].part >> ELSE <<>>])
NonEmpty(blocks) ==
  FlattenSeq([i \in DOMAIN blocks |-> IF blocks[i].parts # <<>> THEN << blocks[i] >> ELSE <<>>])
EachAlone(kind, ids) == [i \in DOMAIN ids |-> Block(kind, << ids[i] >>)]

\* A Chat Completions client concatenates the deltas of each kind.
OpenAIBlocks(out) ==
  NonEmpty(<< Block("thought", Carried(out, "thought")), Block("text", Carried(out, "text")) >>)
    \o EachAlone("call", Carried(out, "call"))

\* A Responses or a Messages client files each delta under its index.
Filed(out, kind, index) ==
  FlattenSeq([i \in DOMAIN out |->
    IF out[i].stage = "delta" /\ out[i].kind = kind /\ out[i].index = index /\ out[i].part # 0
    THEN << out[i].part >> ELSE <<>>])
IndexedBlocks(out) ==
  NonEmpty(FlattenSeq([i \in DOMAIN out |->
    IF out[i].stage = "open"
    THEN << Block(out[i].kind, Filed(out, out[i].kind, out[i].index)) >> ELSE <<>>]))

-----------------------------------------------------------------------------
(* Whole answers: the same translations of one JSON body.                   *)

OfKind(parts, kinds) ==
  FlattenSeq([i \in DOMAIN parts |-> IF parts[i].kind \in kinds THEN << parts[i].id >> ELSE <<>>])

\* convertGoogleToOpenAINonStream()
OpenAIWhole(parts) ==
  NonEmpty(<< Block("thought", OfKind(parts, {"thought"})),
              Block("text", OfKind(parts, {"text", "image"})) >>)
    \o EachAlone("call", OfKind(parts, {"call"}))

\* convertGoogleToResponseAPINonStream(): reasoning, the calls, the message.
ResponsesWhole(parts) ==
  NonEmpty(<< Block("thought", OfKind(parts, {"thought"})) >>)
    \o EachAlone("call", OfKind(parts, {"call"}))
    \o NonEmpty(<< Block("text", OfKind(parts, {"text"})) >>)

\* convertGoogleToClaudeNonStream(): one block per part.
ClaudeWhole(parts) ==
  [i \in DOMAIN parts |-> Block(OpenAIKind(parts[i].kind), << parts[i].id >>)]

\* _handleNonStreamResponse(): the body as it came.
GeminiWhole(parts) ==
  [i \in DOMAIN parts |-> Block(parts[i].kind, << parts[i].id >>)]

-----------------------------------------------------------------------------
(* The chat shim: a Responses client of a Chat Completions stream.          *)

\* proxyResponsesStream(): deltas of content and finish reasons are told, and
\* every other event of the worker, an error among them, is passed over.
ShimEvents(out) ==
  << Event("start", "none", 0, 0) >>
    \o FlattenSeq([i \in DOMAIN out |->
         IF \/ out[i].stage = "delta" /\ out[i].kind \in {"text", "notice"}
            \/ out[i].stage = "finish"
         THEN << out[i] >> ELSE <<>>])

\* When the worker's stream ends without a finish reason, it is completed.
ShimEnd(out) ==
  LET told == ShimEvents(out)
  IN  IF \E i \in DOMAIN told : told[i].stage = "finish" THEN told
      ELSE Append(told, Event("finish", "STOP", 0, 0))

\* extractChatMessageText(): of a whole answer, only the message's text.
ShimWhole(blocks) ==
  FlattenSeq([i \in DOMAIN blocks |-> IF blocks[i].kind = "text" THEN << blocks[i] >> ELSE <<>>])
=============================================================================
