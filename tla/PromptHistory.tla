--------------------------- MODULE PromptHistory ---------------------------
(***************************************************************************)
(* How the Canvas adapter turns the conversation a client sends into the    *)
(* "contents" of a Gemini request (FormatConverter.js): the messages of     *)
(* Chat Completions and Messages, the items of Responses, the contents of a *)
(* Gemini client, and the items a Responses client sends through the        *)
(* generic chat shim.                                                       *)
(*                                                                         *)
(* A conversation is a sequence of turns.  A turn is what the client sends  *)
(* (the results of the calls of the turn before, then perhaps a question)   *)
(* and the blocks it kept of the answer.  A content is a role and parts; a  *)
(* function response names a function, and each call here is of a function  *)
(* of its own, so that name stands for the call.  "full" is a client that   *)
(* adds what its format leaves optional: the function's name to a tool      *)
(* message, the plain text of an answer in place of its output items, the   *)
(* signatures of the calls.                                                 *)
(***************************************************************************)
EXTENDS Integers, SequencesExt

Unknown == 0      \* the "unknown_function" of the code

Turn(results, asks) == [results |-> results, asks |-> asks, blocks |-> <<>>]
Content(role, parts) == [role |-> role, parts |-> parts]
Part(kind, id) == [kind |-> kind, id |-> id, name |-> Unknown, signed |-> FALSE]
Response(id, name) == [kind |-> "response", id |-> id, name |-> name, signed |-> FALSE]
Question == Part("text", 0)

PartsOf(block) == [i \in DOMAIN block.parts |-> Part(block.kind, block.parts[i])]
OfBlocks(blocks, kind) ==
  FlattenSeq([i \in DOMAIN blocks |-> IF blocks[i].kind = kind THEN PartsOf(blocks[i]) ELSE <<>>])
AllBlocks(history) == FlattenSeq([i \in DOMAIN history |-> history[i].blocks])

\* The translation in progress: the contents and the pending tool results.
Nothing == [contents |-> <<>>, pending |-> <<>>]
AddContent(c, role, parts) ==
  IF parts = <<>> THEN c ELSE [c EXCEPT !.contents = Append(@, Content(role, parts))]

\* Gemini wants the first call of a content signed: a call that is not gets a
\* dummy signature.
SignFirst(parts) ==
  LET open == { i \in DOMAIN parts : parts[i].kind = "call" /\ ~parts[i].signed }
  IN  IF open = {} THEN parts ELSE [parts EXCEPT ![Min(open)].signed = TRUE]

FlushToolParts(c) == [AddContent(c, "user", c.pending) EXCEPT !.pending = <<>>]

-----------------------------------------------------------------------------
(* Chat Completions *)

Message(role, parts) == [role |-> role, parts |-> parts]
ToolMessage(call, full) == Message("tool", << Response(call, IF full THEN call ELSE Unknown) >>)

\* A turn as messages; a client keeps neither thoughts nor their order.
OpenAIMessages(turn, full) ==
  [i \in DOMAIN turn.results |-> ToolMessage(turn.results[i], full)]
    \o (IF turn.asks THEN << Message("user", << Question >>) >> ELSE <<>>)
    \o << Message("assistant", OfBlocks(turn.blocks, "call") \o OfBlocks(turn.blocks, "text")) >>

\* Tool messages wait to be merged into one user content.
OpenAITool(c, m) == [c EXCEPT !.pending = @ \o m.parts]

\* A bug the properties must catch: a tool message is a content of its own.
OpenAIMessageAlone(c, m) ==
  IF m.role = "tool" THEN AddContent(c, "user", m.parts)
  ELSE AddContent(FlushToolParts(c), IF m.role = "assistant" THEN "model" ELSE "user",
                  SignFirst(m.parts))

\* A bug the properties must catch: an assistant's text beside calls is skipped.
OpenAICallsOnly(c, m) ==
  LET calls == SelectSeq(m.parts, LAMBDA p : p.kind = "call")
  IN  IF m.role = "tool" THEN OpenAITool(c, m)
      ELSE AddContent(FlushToolParts(c), IF m.role = "assistant" THEN "model" ELSE "user",
                      SignFirst(IF calls = <<>> THEN m.parts ELSE calls))

\* Any other message flushes them; the calls of an assistant's come first.
OpenAIMessage(c, m) ==
  IF m.role = "tool" THEN OpenAITool(c, m)
  ELSE AddContent(FlushToolParts(c), IF m.role = "assistant" THEN "model" ELSE "user",
                  SignFirst(m.parts))

\* translateOpenAIToGoogle()
OpenAIContents(messages) == FlushToolParts(FoldLeft(OpenAIMessage, Nothing, messages)).contents

-----------------------------------------------------------------------------
(* Messages *)

\* toolIdToNameMap: a result carries the id of its call only.
ToolName(history, call) ==
  IF \E i \in DOMAIN AllBlocks(history) :
        AllBlocks(history)[i].kind = "call" /\ AllBlocks(history)[i].parts[1] = call
  THEN call ELSE Unknown

ClaudeResults(history, results) ==
  [i \in DOMAIN results |-> Response(results[i], ToolName(history, results[i]))]

\* The turns, with the results of calls by the names of their functions.
ClaudeTurns(history) ==
  [i \in DOMAIN history |-> [history[i] EXCEPT !.results = ClaudeResults(history, @)]]

\* The user's message of a turn: results are held back, and other content in
\* the same message flushes them.
ClaudeUser(c, turn) ==
  LET held == IF turn.results = <<>> THEN FlushToolParts(c)
              ELSE [c EXCEPT !.pending = @ \o turn.results]
  IN  IF turn.asks THEN AddContent(FlushToolParts(held), "user", << Question >>) ELSE held

\* The assistant's message: its blocks in order.
ClaudeAssistant(c, turn) ==
  AddContent(FlushToolParts(c), "model",
             SignFirst(FlattenSeq([i \in DOMAIN turn.blocks |-> PartsOf(turn.blocks[i])])))

\* A client sends no message for an empty answer.
ClaudeTurn(c, turn) ==
  LET asked == ClaudeUser(c, turn)
  IN  IF turn.blocks = <<>> THEN asked ELSE ClaudeAssistant(asked, turn)

\* translateClaudeToGoogle()
ClaudeContents(history) ==
  FlushToolParts(FoldLeft(ClaudeTurn, Nothing, ClaudeTurns(history))).contents

-----------------------------------------------------------------------------
(* Responses *)

\* The item of a block.  Reasoning has no content, and of a message only the
\* input kinds of text are read, never "output_text".
ResponsesItem(block, full) ==
  CASE block.kind = "call" -> << Content("model", SignFirst(PartsOf(block))) >>
    [] block.kind = "text" /\ full -> << Content("model", PartsOf(block)) >>
    [] OTHER -> <<>>

\* callIdToName: filled from the function_call items before any is translated.
CallName(history, call) == ToolName(history, call)

ResponsesTurn(history, turn, full) ==
  [i \in DOMAIN turn.results |->
     Content("user", << Response(turn.results[i], CallName(history, turn.results[i])) >>)]
    \o (IF turn.asks THEN << Content("user", << Question >>) >> ELSE <<>>)
    \o FlattenSeq([i \in DOMAIN turn.blocks |-> ResponsesItem(turn.blocks[i], full)])

\* translateOpenAIResponseToGoogle(): every item is a content of its own.
ResponsesContents(history, full) ==
  FlattenSeq([i \in DOMAIN history |-> ResponsesTurn(history, history[i], full)])

-----------------------------------------------------------------------------
(* The chat shim *)

\* responsesInputToMessages(): the items that have a role; the text of an
\* output item is kept.
ShimMessages(turn) ==
  (IF turn.asks THEN << Message("user", << Question >>) >> ELSE <<>>)
    \o (IF turn.blocks = <<>> THEN <<>>
        ELSE << Message("assistant", OfBlocks(turn.blocks, "text")) >>)

-----------------------------------------------------------------------------
(* Gemini *)

\* The contents of a turn; a client may keep the signature Gemini gave the
\* first call of its answer.
GeminiTurn(turn, full) ==
  LET answer == FlattenSeq([i \in DOMAIN turn.blocks |-> PartsOf(turn.blocks[i])])
  IN  << Content("user", [i \in DOMAIN turn.results |->
                            Response(turn.results[i], turn.results[i])]
                         \o (IF turn.asks THEN << Question >> ELSE <<>>)) >>
        \o (IF answer = <<>> THEN <<>>
            ELSE << Content("model", IF full THEN SignFirst(answer) ELSE answer) >>)

\* _buildProxyRequest(): the contents are signed by ensureThoughtSignature().
GeminiContents(history, full) ==
  LET sent == FlattenSeq([i \in DOMAIN history |-> GeminiTurn(history[i], full)])
  IN  [i \in DOMAIN sent |-> [sent[i] EXCEPT !.parts = SignFirst(@)]]

-----------------------------------------------------------------------------
Contents(format, history, full) ==
  CASE format = "openai" ->
         OpenAIContents(FlattenSeq([i \in DOMAIN history |-> OpenAIMessages(history[i], full)]))
    [] format = "shim" ->
         OpenAIContents(FlattenSeq([i \in DOMAIN history |-> ShimMessages(history[i])]))
    [] format = "claude" -> ClaudeContents(history)
    [] format = "responses" -> ResponsesContents(history, full)
    [] format = "gemini" -> GeminiContents(history, full)
=============================================================================
