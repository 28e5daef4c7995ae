------------------------ MODULE MCCanvasConversation ------------------------
(***************************************************************************)
(* The conversation with the adapter's translation of schemas.              *)
(*                                                                         *)
(* Every format, three requests and three parts: enough for two calls in    *)
(* one answer, calls in two answers, a thought after text, and a frame      *)
(* joined to one neighbour and torn at another.  A conversation may stop    *)
(* after its last answer or a failure, so deadlock is not checked.          *)
(***************************************************************************)
EXTENDS CanvasConversation, SchemaTranslation

MCFormat == {"openai", "responses", "claude", "gemini", "shim"}

\* The schema of a tool or of an answer admits for Gemini exactly the values it
\* admits for the client (_convertSchemaToGemini()), whatever the order of its
\* keywords, in unions, lists of types and properties of any name; the
\* exceptions are named with Blurred.
SchemasAreKept ==
  phase = "offered" => MeansTheSame(settings[1], settings[2], config)
=============================================================================
