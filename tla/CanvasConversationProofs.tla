---------------------- MODULE CanvasConversationProofs ----------------------
(***************************************************************************)
(* Theorems about CanvasConversation: the settings of a request reach       *)
(* Gemini as the client meant them (KeptSettings); what a client keeps of   *)
(* an answer, in whichever format, reaches Gemini again with its next       *)
(* question (KeptHistory), each call with its result right after it         *)
(* (FollowingResults); a client that was given an answer to the end has all *)
(* of it but what the framing lost (NothingIsLost), and was told that it is *)
(* the end, and why (ToldFinish).                                           *)
(*                                                                         *)
(* Each translator of a history is shown to be a gathering over its turns   *)
(* (OpenAIContentsIs, ClaudeContentsIs, ...), each turn to say what was     *)
(* kept in it (SaysKept) and to reply to the turn before (Replies), and the *)
(* events of a stream to be filed without loss (Filing, Retains), each call *)
(* in a block of its own (AloneInv).                                        *)
(***************************************************************************)
EXTENDS CanvasStreamsProofs

-----------------------------------------------------------------------------
(* The tools of a request. *)

\* The tools of a request to Gemini, by name.
ToolWord == {"functions", "search", "fetch", "google_search", "url_context"}

\* The tools are these, and none is there twice.
Counts(x, tools) == IF x \in Range(tools) THEN 1 ELSE 0
NoTwice(tools) ==
  /\ Range(tools) \subseteq {"functions", "search", "fetch"}
  /\ Len(tools) = Counts("functions", tools) + Counts("search", tools) + Counts("fetch", tools)

\* Appending to a sequence adds to its range.
LEMMA RangeAppend ==
  ASSUME NEW q \in Seq(ToolWord), NEW t \in ToolWord
  PROVE  /\ Append(q, t) \in Seq(ToolWord) /\ Len(Append(q, t)) = Len(q) + 1
         /\ Range(Append(q, t)) = Range(q) \cup {t}
<1> DEFINE r == Append(q, t)
<1>1. /\ r \in Seq(ToolWord) /\ Len(r) = Len(q) + 1 /\ r[Len(q) + 1] = t
      /\ DOMAIN r = 1 .. Len(q) + 1 /\ DOMAIN q = 1 .. Len(q) /\ Len(q) \in Nat
      /\ \A i \in 1 .. Len(q) : r[i] = q[i]
  OBVIOUS
<1> HIDE DEF r
<1>2. \A i \in 1 .. Len(q) + 1 : i \in 1 .. Len(q) \/ i = Len(q) + 1  BY <1>1
<1>3. \A x : x \in Range(r) <=> \E i \in DOMAIN r : r[i] = x  BY DEF Range
<1>4. \A x : x \in Range(q) <=> \E i \in DOMAIN q : q[i] = x  BY DEF Range
<1>5. \A x : x \in Range(r) <=> x \in Range(q) \/ x = t
  <2>1. ASSUME NEW x \in Range(r) PROVE x \in Range(q) \/ x = t
    <3>1. PICK i \in DOMAIN r : r[i] = x  BY <1>3
    <3> QED BY <3>1, <1>1, <1>2, <1>4
  <2>2. ASSUME NEW x \in Range(q) PROVE x \in Range(r)
    <3>1. PICK i \in DOMAIN q : q[i] = x  BY <1>4
    <3>2. i \in DOMAIN r /\ r[i] = x  BY <3>1, <1>1
    <3> QED BY <3>2, <1>3
  <2>3. t \in Range(r)
    <3>1. Len(q) + 1 \in DOMAIN r  BY <1>1
    <3> QED BY <3>1, <1>1, <1>3
  <2> QED BY <2>1, <2>2, <2>3
<1> QED BY <1>1, <1>5 DEF r

\* A tool is added once.
LEMMA AddToolIs ==
  ASSUME NEW q \in Seq(ToolWord), NEW t \in ToolWord
  PROVE  /\ AddTool(q, t) \in Seq(ToolWord)
         /\ Range(AddTool(q, t)) = Range(q) \cup {t}
         /\ NoTwice(q) /\ t \in {"functions", "search", "fetch"} => NoTwice(AddTool(q, t))
<1>1. CASE t \in Range(q)
  <2>1. AddTool(q, t) = q  BY <1>1 DEF AddTool
  <2> QED BY <1>1, <2>1
<1>2. CASE t \notin Range(q)
  <2> DEFINE r == Append(q, t)
  <2>1. AddTool(q, t) = r  BY <1>2 DEF AddTool
  <2>2. r \in Seq(ToolWord) /\ Len(r) = Len(q) + 1 /\ Range(r) = Range(q) \cup {t}  BY RangeAppend
  <2> HIDE DEF r
  <2>3. ASSUME NoTwice(q), t \in {"functions", "search", "fetch"} PROVE NoTwice(r)
    <3>1. /\ Range(r) \subseteq {"functions", "search", "fetch"}
          /\ Len(q) = Counts("functions", q) + Counts("search", q) + Counts("fetch", q)
      BY <2>2, <2>3 DEF NoTwice
    <3>2. \A x \in {"functions", "search", "fetch"} :
            /\ Counts(x, q) \in {0, 1}
            /\ Counts(x, r) = IF x = t THEN 1 ELSE Counts(x, q)
      BY <2>2 DEF Counts
    <3>3. Counts(t, q) = 0  BY <1>2 DEF Counts
    <3>4. Len(r) = Counts("functions", r) + Counts("search", r) + Counts("fetch", r)
      <4>1. CASE t = "functions"  BY <4>1, <2>2, <3>1, <3>2, <3>3
      <4>2. CASE t = "search"  BY <4>2, <2>2, <3>1, <3>2, <3>3
      <4>3. CASE t = "fetch"  BY <4>3, <2>2, <3>1, <3>2, <3>3
      <4> QED BY <4>1, <4>2, <4>3, <2>3
    <3> QED BY <3>1, <3>4 DEF NoTwice
  <2> QED BY <2>1, <2>2, <2>3
<1> QED BY <1>1, <1>2

\* What the operator forces is added to the tools.
Forced(tools, force) ==
  LET searched == IF force.search THEN AddTool(tools, "search") ELSE tools
  IN  IF force.url THEN AddTool(searched, "fetch") ELSE searched
ForcedSet(force) ==
  (IF force.search THEN {"search"} ELSE {}) \cup (IF force.url THEN {"fetch"} ELSE {})

\* Both tools the operator may force are added, each once.
LEMMA ForcedIs ==
  ASSUME NEW q \in Seq(ToolWord), NEW force
  PROVE  /\ Forced(q, force) \in Seq(ToolWord)
         /\ Range(Forced(q, force)) = Range(q) \cup ForcedSet(force)
         /\ NoTwice(q) => NoTwice(Forced(q, force))
<1> DEFINE s == IF force.search THEN AddTool(q, "search") ELSE q
           r == Forced(q, force)
<1>1. "search" \in ToolWord /\ "fetch" \in ToolWord  BY DEF ToolWord
<1>2. /\ s \in Seq(ToolWord) /\ Range(s) = Range(q) \cup (IF force.search THEN {"search"} ELSE {})
      /\ NoTwice(q) => NoTwice(s)
  BY <1>1, AddToolIs
<1>3. r = IF force.url THEN AddTool(s, "fetch") ELSE s  BY DEF Forced
<1> HIDE DEF s, r
<1>4. /\ r \in Seq(ToolWord) /\ Range(r) = Range(s) \cup (IF force.url THEN {"fetch"} ELSE {})
      /\ NoTwice(s) => NoTwice(r)
  <2>1. CASE force.url  BY <2>1, <1>1, <1>2, <1>3, AddToolIs
  <2>2. CASE ~force.url  BY <2>2, <1>2, <1>3
  <2> QED BY <2>1, <2>2
<1> QED BY <1>2, <1>4 DEF ForcedSet, r

\* What the last steps leave of a request as it was put together.
LEMMA FinalizeIs ==
  ASSUME NEW name, NEW thinking, NEW offer, NEW choice, NEW output, NEW force
  PROVE  LET c == Finalize(Asked(name, thinking, offer, choice, output), force) IN
         /\ c.thoughts = thinking.thoughts /\ c.level = thinking.level
         /\ c.tools = Forced(offer.tools, force)
         /\ c.functions = offer.functions /\ c.described = offer.described
         /\ c.serverSide <=> "functions" \in Range(c.tools) /\ Range(c.tools) # {"functions"}
         /\ c.mode = choice.mode /\ c.allowed = choice.allowed
         /\ c.mime = output.mime /\ c.schema = output.schema
<1> DEFINE a == Asked(name, thinking, offer, choice, output)
           t == Forced(offer.tools, force)
           b == [a EXCEPT !.tools = t]
           c == [b EXCEPT !.serverSide = "functions" \in Range(b.tools) /\ Range(b.tools) # {"functions"}]
<1>1. ForceTools(a, force) = b
  <2>1. a.tools = offer.tools  BY DEF Asked
  <2> HIDE DEF a
  <2> QED BY <2>1 DEF ForceTools, Forced
<1>2. Finalize(a, force) = c
  <2> HIDE DEF a, b
  <2> QED BY <1>1 DEF Finalize, EnsureServerSide
<1> DEFINE p == "functions" \in Range(t) /\ Range(t) # {"functions"}
<1> HIDE DEF t, p
<1>3. b.tools = t  BY DEF Asked
<1>4. c = [[a EXCEPT !.tools = t] EXCEPT !.serverSide = p]
  <2> HIDE DEF a
  <2>1. [a EXCEPT !.tools = t].tools = t  BY <1>3
  <2> QED BY <2>1 DEF p
<1>5. /\ c.thoughts = thinking.thoughts /\ c.level = thinking.level /\ c.tools = t
      /\ c.functions = offer.functions /\ c.described = offer.described
      /\ c.mode = choice.mode /\ c.allowed = choice.allowed
      /\ c.mime = output.mime /\ c.schema = output.schema
  <2> HIDE DEF c
  <2> QED BY <1>4 DEF Asked
<1>6. c.serverSide <=> p
  <2> HIDE DEF c
  <2> QED BY <1>4 DEF Asked
<1> HIDE DEF c, b, a
<1> QED BY <1>2, <1>5, <1>6 DEF p, t, a

-----------------------------------------------------------------------------
(* The tools each format lists. *)

\* Declared functions are one tool.
LEMMA DeclaredIs ==
  ASSUME NEW names
  PROVE  /\ Declared(names) \in Seq(ToolWord) /\ NoTwice(Declared(names))
         /\ Range(Declared(names)) = IF names = {} THEN {} ELSE {"functions"}
<1>1. CASE names = {}
  <2>1. Declared(names) = << >> /\ Len(<< >>) = 0 /\ << >> \in Seq(ToolWord)  BY <1>1 DEF Declared
  <2>2. Range(<< >>) = {}  BY DEF Range
  <2> QED BY <2>1, <2>2, <1>1 DEF NoTwice, Counts
<1>2. CASE names # {}
  <2> DEFINE q == << "functions" >>
  <2>1. Declared(names) = q /\ Len(q) = 1 /\ q \in Seq(ToolWord) /\ q[1] = "functions" /\ DOMAIN q = {1}
    BY <1>2 DEF Declared, ToolWord
  <2> HIDE DEF q
  <2>2. Range(q) = {"functions"}  BY <2>1 DEF Range
  <2> QED BY <2>1, <2>2, <1>2 DEF NoTwice, Counts
<1> QED BY <1>1, <1>2

\* What the tools of a request list: that there are functions, and the hosted
\* tools as they are spelled.
Lists(tools, mine, snake) ==
  /\ tools \in Seq(ToolWord)
  /\ "functions" \in Range(tools) <=> mine \cap Function # {}
  /\ IF snake THEN /\ "google_search" \in Range(tools) <=> "search" \in mine
                   /\ "url_context" \in Range(tools) <=> "fetch" \in mine
                   /\ Range(tools) \cap Hosted = {}
     ELSE /\ "search" \in Range(tools) <=> "search" \in mine
          /\ "fetch" \in Range(tools) <=> "fetch" \in mine
          /\ NoTwice(tools)

\* A Chat Completions client's tools are functions.
LEMMA OpenAILists ==
  ASSUME NEW w, w.tools \in SUBSET Function
  PROVE  Lists(OpenAITools(w).tools, w.tools, FALSE)
<1>1. OpenAITools(w).tools = Declared(w.tools) /\ w.tools \cap Function = w.tools
      /\ "search" \notin w.tools /\ "fetch" \notin w.tools
  BY DEF OpenAITools, Function
<1> QED BY <1>1, DeclaredIs DEF Lists

\* A Messages client's server tools are listed after its functions.
LEMMA ClaudeLists ==
  ASSUME NEW w
  PROVE  Lists(ClaudeTools(w).tools, w.tools, FALSE)
<1> DEFINE n == w.tools \cap Function
           d == Declared(n)
           s == IF "search" \in w.tools THEN AddTool(d, "search") ELSE d
           t == IF "fetch" \in w.tools THEN AddTool(s, "fetch") ELSE s
<1>1. ClaudeTools(w).tools = t  BY DEF ClaudeTools
<1>2. /\ d \in Seq(ToolWord) /\ NoTwice(d)
      /\ Range(d) = IF n = {} THEN {} ELSE {"functions"}
      /\ "search" \in ToolWord /\ "fetch" \in ToolWord
  BY DeclaredIs DEF ToolWord
<1> HIDE DEF d
<1>3. /\ s \in Seq(ToolWord) /\ NoTwice(s)
      /\ Range(s) = Range(d) \cup (IF "search" \in w.tools THEN {"search"} ELSE {})
  BY <1>2, AddToolIs
<1> HIDE DEF s
<1>4. /\ t \in Seq(ToolWord) /\ NoTwice(t)
      /\ Range(t) = Range(s) \cup (IF "fetch" \in w.tools THEN {"fetch"} ELSE {})
  BY <1>2, <1>3, AddToolIs
<1> HIDE DEF t
<1> QED BY <1>1, <1>2, <1>3, <1>4 DEF Lists

\* A Responses client's tools, or those of its allowed list.
LEMMA ResponsesLists ==
  ASSUME NEW w, NEW mine, mine = IF w.choice.listed THEN w.choice.only ELSE w.tools,
         "fetch" \notin mine
  PROVE  Lists(ResponsesTools(w).tools, mine, FALSE)
<1> DEFINE n == mine \cap Function
           d == Declared(n)
           s == IF "search" \in mine THEN AddTool(d, "search") ELSE d
<1>1. /\ d \in Seq(ToolWord) /\ NoTwice(d)
      /\ Range(d) = IF n = {} THEN {} ELSE {"functions"}
      /\ "search" \in ToolWord
  BY DeclaredIs DEF ToolWord
<1>2. ResponsesTools(w).tools = IF "search" \in mine THEN Append(d, "search") ELSE d
  BY DEF ResponsesTools
<1>3. AddTool(d, "search") = Append(d, "search")
  <2> HIDE DEF d
  <2>1. "search" \notin Range(d)  BY <1>1
  <2> QED BY <2>1 DEF AddTool
<1> HIDE DEF d
<1>4. /\ s \in Seq(ToolWord) /\ NoTwice(s)
      /\ Range(s) = Range(d) \cup (IF "search" \in mine THEN {"search"} ELSE {})
  BY <1>1, AddToolIs
<1>5. ResponsesTools(w).tools = s  BY <1>2, <1>3
<1> HIDE DEF s
<1> QED BY <1>1, <1>4, <1>5 DEF Lists

\* To concatenate one tool is to append it.
LEMMA ToolAppend ==
  ASSUME NEW q \in Seq(ToolWord), NEW t \in ToolWord
  PROVE  q \o << t >> = Append(q, t)
<1>1. q \o << t >> \in Seq(ToolWord) /\ Append(q, t) \in Seq(ToolWord)  OBVIOUS
<1>2. Len(q \o << t >>) = Len(q) + 1 /\ Len(Append(q, t)) = Len(q) + 1
      /\ \A i \in 1 .. Len(q) + 1 : (q \o << t >>)[i] = Append(q, t)[i]
  OBVIOUS
<1> QED BY <1>1, <1>2, SeqEqual

\* A Gemini client's tools, as it spells them.
LEMMA GeminiLists ==
  ASSUME NEW w, w.snake \in BOOLEAN
  PROVE  Lists(GeminiTools(w).tools, w.tools, w.snake)
<1> DEFINE n == w.tools \cap Function
           d == Declared(n)
           x == IF w.snake THEN "google_search" ELSE "search"
           y == IF w.snake THEN "url_context" ELSE "fetch"
           s == IF "search" \in w.tools THEN Append(d, x) ELSE d
           t == IF "fetch" \in w.tools THEN Append(s, y) ELSE s
<1>1. /\ d \in Seq(ToolWord) /\ NoTwice(d)
      /\ Range(d) = IF n = {} THEN {} ELSE {"functions"}
      /\ x \in ToolWord /\ y \in ToolWord
  BY DeclaredIs DEF ToolWord
<1>2. GeminiTools(w).tools = (d \o (IF "search" \notin w.tools THEN <<>> ELSE << x >>))
                               \o (IF "fetch" \notin w.tools THEN <<>> ELSE << y >>)
  BY DEF GeminiTools, Snake
<1> HIDE DEF d, x, y
<1>3. /\ s \in Seq(ToolWord) /\ d \o (IF "search" \notin w.tools THEN <<>> ELSE << x >>) = s
      /\ Range(s) = Range(d) \cup (IF "search" \in w.tools THEN {x} ELSE {})
  BY <1>1, ToolAppend, RangeAppend
<1> HIDE DEF s
<1>4. /\ t \in Seq(ToolWord) /\ s \o (IF "fetch" \notin w.tools THEN <<>> ELSE << y >>) = t
      /\ Range(t) = Range(s) \cup (IF "fetch" \in w.tools THEN {y} ELSE {})
  BY <1>1, <1>3, ToolAppend, RangeAppend
<1>5. ~w.snake => NoTwice(t)
  <2>1. SUFFICES ASSUME ~w.snake PROVE NoTwice(t)  OBVIOUS
  <2>2. x = "search" /\ y = "fetch"  BY <2>1 DEF x, y
  <2>3. s = IF "search" \in w.tools THEN AddTool(d, "search") ELSE d
    BY <2>2, <1>1 DEF s, AddTool
  <2>4. NoTwice(s)  BY <2>2, <2>3, <1>1, AddToolIs
  <2>5. "fetch" \notin Range(s)  BY <2>2, <1>1, <1>3
  <2>6. t = IF "fetch" \in w.tools THEN AddTool(s, "fetch") ELSE s  BY <2>2, <2>5 DEF AddTool
  <2>7. NoTwice(AddTool(s, "fetch"))  BY <2>2, <2>4, <1>1, <1>3, AddToolIs
  <2> HIDE DEF t
  <2> QED BY <2>4, <2>6, <2>7
<1> HIDE DEF t
<1>6. GeminiTools(w).tools = t  BY <1>2, <1>3, <1>4
<1>7. CASE w.snake  BY <1>7, <1>1, <1>3, <1>4, <1>6 DEF Lists, x, y, Hosted
<1>8. CASE ~w.snake  BY <1>8, <1>1, <1>3, <1>4, <1>5, <1>6 DEF Lists, x, y
<1> QED BY <1>7, <1>8

-----------------------------------------------------------------------------
(* The tools that are offered. *)

\* The cardinalities of sets of at most two elements.
LEMMA SmallSets ==
  /\ Cardinality({}) = 0 /\ IsFiniteSet({})
  /\ \A x : Cardinality({x}) = 1 /\ IsFiniteSet({x})
  /\ \A x, y : x # y => Cardinality({x, y}) = 2
<1>1. Cardinality({}) = 0 /\ IsFiniteSet({})  BY FS_EmptySet
<1>2. ASSUME NEW x PROVE Cardinality({x}) = 1 /\ IsFiniteSet({x})  BY FS_Singleton
<1>3. ASSUME NEW x, NEW y, x # y PROVE Cardinality({x, y}) = 2
  <2>1. {x, y} = {x} \cup {y} /\ y \notin {x}  BY <1>3
  <2>2. Cardinality({x} \cup {y}) = Cardinality({x}) + 1  BY <1>2, <2>1, FS_AddElement
  <2>3. Cardinality({x, y}) = Cardinality({x}) + 1  BY <2>1, <2>2
  <2>4. Cardinality({x}) = 1  BY <1>2
  <2> QED BY <2>3, <2>4
<1> QED BY <1>1, <1>2, <1>3

\* The tools of a configuration: what the operator forces added to a list.
Tooled(c, tools, mine, force) ==
  /\ c.tools = Forced(tools, force) /\ c.functions = mine \cap Function
  /\ c.serverSide <=> "functions" \in Range(c.tools) /\ Range(c.tools) # {"functions"}
AllOffered(c, mine, snake, force) ==
  /\ "functions" \in Range(c.tools) <=> c.functions # {}
  /\ Offered(c) = (mine \cap Hosted) \cup (IF force.search THEN {"search"} ELSE {})
                    \cup (IF force.url THEN {"fetch"} ELSE {})
  /\ ~snake => Len(c.tools) = Cardinality(Offered(c)) + (IF c.functions # {} THEN 1 ELSE 0)
  /\ c.serverSide <=> c.functions # {} /\ Offered(c) # {}

\* Each tool the client lists and the operator forces is offered, once.
LEMMA ToolsKept ==
  ASSUME NEW tools, NEW mine, NEW snake, Lists(tools, mine, snake), NEW force, NEW c,
         Tooled(c, tools, mine, force)
  PROVE  AllOffered(c, mine, snake, force)
<1>0. /\ c.tools = Forced(tools, force) /\ c.functions = mine \cap Function
      /\ c.serverSide <=> "functions" \in Range(c.tools) /\ Range(c.tools) # {"functions"}
  BY DEF Tooled
<1> DEFINE R == Range(c.tools)
           Q == Range(tools)
<1>1. /\ tools \in Seq(ToolWord)
      /\ "functions" \in Q <=> mine \cap Function # {}
  BY DEF Lists
<1>2. /\ c.tools \in Seq(ToolWord) /\ R = Q \cup ForcedSet(force)
      /\ NoTwice(tools) => NoTwice(c.tools)
  <2> DEFINE F == Forced(tools, force)
  <2>1. F \in Seq(ToolWord) /\ Range(F) = Q \cup ForcedSet(force) /\ (NoTwice(tools) => NoTwice(F))
    BY <1>1, ForcedIs
  <2>2. c.tools = F  BY <1>0
  <2> HIDE DEF F
  <2> QED BY <2>1, <2>2
<1>3. Q \subseteq ToolWord /\ R \subseteq ToolWord
  <2>1. \A q \in Seq(ToolWord) : Range(q) \subseteq ToolWord  BY DEF Range
  <2> QED BY <2>1, <1>1, <1>2
<1>4. /\ "search" \in Offered(c) <=> "search" \in R \/ "google_search" \in R
      /\ "fetch" \in Offered(c) <=> "fetch" \in R \/ "url_context" \in R
      /\ Offered(c) \subseteq {"search", "fetch"}
  BY DEF Offered, Snake, Hosted
<1>5. ForcedSet(force) \subseteq {"search", "fetch"} /\ ("search" \in ForcedSet(force) <=> force.search)
      /\ ("fetch" \in ForcedSet(force) <=> force.url)
  BY DEF ForcedSet
<1>6. ~snake => Q \subseteq {"functions", "search", "fetch"} /\ NoTwice(tools)  BY DEF Lists, NoTwice
<1>7. /\ ~snake => /\ "search" \in Q <=> "search" \in mine
                   /\ "fetch" \in Q <=> "fetch" \in mine
      /\ snake => /\ "google_search" \in Q <=> "search" \in mine
                  /\ "url_context" \in Q <=> "fetch" \in mine
                  /\ "search" \notin Q /\ "fetch" \notin Q
  BY DEF Lists, Hosted
<1> HIDE DEF R, Q
<1>8. "functions" \in R <=> c.functions # {}  BY <1>0, <1>1, <1>2, <1>5
<1>9. /\ "search" \in Offered(c) <=> "search" \in mine \/ force.search
      /\ "fetch" \in Offered(c) <=> "fetch" \in mine \/ force.url
  <2>1. CASE snake  BY <2>1, <1>2, <1>4, <1>5, <1>7
  <2>2. CASE ~snake
    <3>1. "google_search" \notin Q /\ "url_context" \notin Q  BY <2>2, <1>6
    <3> QED BY <3>1, <2>2, <1>2, <1>4, <1>5, <1>7
  <2> QED BY <2>1, <2>2
<1>10. Offered(c) = (mine \cap Hosted) \cup (IF force.search THEN {"search"} ELSE {})
                      \cup (IF force.url THEN {"fetch"} ELSE {})
  BY <1>4, <1>9 DEF Hosted
<1>11. ASSUME ~snake
       PROVE  Len(c.tools) = Cardinality(Offered(c)) + (IF c.functions # {} THEN 1 ELSE 0)
  <2>1. NoTwice(c.tools)  BY <1>2, <1>6, <1>11
  <2>2. R \subseteq {"functions", "search", "fetch"}  BY <2>1 DEF NoTwice, R
  <2>3. Len(c.tools) = (IF "functions" \in R THEN 1 ELSE 0) + (IF "search" \in R THEN 1 ELSE 0)
                         + (IF "fetch" \in R THEN 1 ELSE 0)
    BY <2>1 DEF NoTwice, Counts, R
  <2>4. /\ "search" \in Offered(c) <=> "search" \in R
        /\ "fetch" \in Offered(c) <=> "fetch" \in R
    BY <2>2, <1>4
  <2>5. Cardinality(Offered(c)) = (IF "search" \in R THEN 1 ELSE 0) + (IF "fetch" \in R THEN 1 ELSE 0)
    <3>1. CASE "search" \in R /\ "fetch" \in R
      <4>1. Offered(c) = {"search", "fetch"}  BY <3>1, <2>4, <1>4
      <4>2. Cardinality({"search", "fetch"}) = 2  BY SmallSets
      <4> QED BY <4>1, <4>2, <3>1
    <3>2. CASE "search" \in R /\ "fetch" \notin R
      <4>1. Offered(c) = {"search"}  BY <3>2, <2>4, <1>4
      <4>2. Cardinality({"search"}) = 1  BY SmallSets
      <4> QED BY <4>1, <4>2, <3>2
    <3>3. CASE "search" \notin R /\ "fetch" \in R
      <4>1. Offered(c) = {"fetch"}  BY <3>3, <2>4, <1>4
      <4>2. Cardinality({"fetch"}) = 1  BY SmallSets
      <4> QED BY <4>1, <4>2, <3>3
    <3>4. CASE "search" \notin R /\ "fetch" \notin R
      <4>1. Offered(c) = {}  BY <3>4, <2>4, <1>4
      <4> QED BY <4>1, <3>4, SmallSets
    <3> QED BY <3>1, <3>2, <3>3, <3>4
  <2> DEFINE a == IF "functions" \in R THEN 1 ELSE 0
             b == IF "search" \in R THEN 1 ELSE 0
             d == IF "fetch" \in R THEN 1 ELSE 0
  <2>6. a = IF c.functions # {} THEN 1 ELSE 0  BY <1>8
  <2>7. a \in Nat /\ b \in Nat /\ d \in Nat  OBVIOUS
  <2>8. Len(c.tools) = a + b + d /\ Cardinality(Offered(c)) = b + d  BY <2>3, <2>5
  <2> HIDE DEF a, b, d
  <2>9. Len(c.tools) = Cardinality(Offered(c)) + a  BY <2>7, <2>8
  <2> QED BY <2>6, <2>9
<1>12. c.serverSide <=> c.functions # {} /\ Offered(c) # {}
  <2>1. "functions" \in R => (R # {"functions"} <=> Offered(c) # {})
    <3>1. ASSUME "functions" \in R, R # {"functions"} PROVE Offered(c) # {}
      <4>1. PICK x \in R : x # "functions"  BY <3>1
      <4>2. x \in {"search", "fetch", "google_search", "url_context"}  BY <4>1, <1>3 DEF ToolWord
      <4> QED BY <4>1, <4>2, <1>4
    <3>2. ASSUME Offered(c) # {} PROVE R # {"functions"}
      <4>1. "search" \in Offered(c) \/ "fetch" \in Offered(c)  BY <3>2, <1>4
      <4> QED BY <4>1, <1>4
    <3> QED BY <3>1, <3>2
  <2>2. c.serverSide <=> "functions" \in R /\ R # {"functions"}  BY <1>0 DEF R
  <2> QED BY <2>1, <2>2, <1>8
<1> QED BY <1>8, <1>10, <1>11, <1>12 DEF R, AllOffered

-----------------------------------------------------------------------------
(* What a client may choose. *)

\* The requests with settings of a client of this format.
Wishes(f) ==
  { w \in [thinking : Thinking(f), name : Names, output : Outputs, tools : Tools(f),
           choice : [mode : {"unset", "auto", "none", "required"}, only : SUBSET (Function \cup Hosted),
                     listed : BOOLEAN],
           snake : BOOLEAN] :
      w.choice \in ToolChoices(f, w.tools) /\ (w.snake => f = "gemini") }

\* A choice is among the tools offered, and for Gemini among the functions.
LEMMA ChoicesTyped ==
  ASSUME NEW f, NEW tools \in SUBSET (Function \cup Hosted), NEW ch \in ToolChoices(f, tools)
  PROVE  /\ ch \in [mode : {"unset", "auto", "none", "required"}, only : SUBSET (Function \cup Hosted),
                    listed : BOOLEAN]
         /\ ch.only \subseteq tools
         /\ f = "gemini" => ch.only \subseteq Function /\ ~ch.listed
         /\ f = "claude" => ~ch.listed
         /\ ~ch.listed /\ f # "gemini" => ch.only = {} \/ \E t \in tools : ch.only = {t}
<1>1. CASE ch \in { Choice(m, {}, FALSE) : m \in {"unset", "auto", "none"} }
  <2>1. PICK m \in {"unset", "auto", "none"} : ch = Choice(m, {}, FALSE)  BY <1>1
  <2> QED BY <2>1 DEF Choice
<1>2. CASE ch = Choice("required", {}, FALSE)  BY <1>2 DEF Choice
<1>3. CASE f = "gemini" /\ ch \in { Choice("required", s, FALSE) : s \in SUBSET (tools \cap Function) \ {{}} }
  <2>1. PICK s \in SUBSET (tools \cap Function) : ch = Choice("required", s, FALSE)  BY <1>3
  <2> QED BY <2>1, <1>3 DEF Choice
<1>4. CASE ch \in { Choice("required", {t}, FALSE) : t \in tools } /\ f # "gemini"
  <2>1. PICK t \in tools : ch = Choice("required", {t}, FALSE)  BY <1>4
  <2> QED BY <2>1, <1>4 DEF Choice
<1>5. CASE /\ f # "gemini" /\ f # "claude"
           /\ ch \in { Choice("auto", s, TRUE) : s \in SUBSET tools \ {{}} }
                    \cup { Choice("required", s, TRUE) : s \in SUBSET tools \ {{}} }
  <2>1. PICK s \in SUBSET tools : ch = Choice("auto", s, TRUE) \/ ch = Choice("required", s, TRUE)
    BY <1>5
  <2>2. CASE ch = Choice("auto", s, TRUE)  BY <2>2, <1>5 DEF Choice
  <2>3. CASE ch = Choice("required", s, TRUE)  BY <2>3, <1>5 DEF Choice
  <2> QED BY <2>1, <2>2, <2>3
<1>6. CASE f = "gemini"
  <2>1. ToolChoices(f, tools) =
          { Choice(m, {}, FALSE) : m \in {"unset", "auto", "none"} }
            \cup (IF tools = {} THEN {} ELSE { Choice("required", {}, FALSE) })
            \cup { Choice("required", s, FALSE) : s \in SUBSET (tools \cap Function) \ {{}} }
    BY <1>6 DEF ToolChoices
  <2> QED BY <2>1, <1>1, <1>2, <1>3, <1>6
<1>7. CASE f = "claude"
  <2>1. ToolChoices(f, tools) =
          { Choice(m, {}, FALSE) : m \in {"unset", "auto", "none"} }
            \cup (IF tools = {} THEN {} ELSE { Choice("required", {}, FALSE) })
            \cup { Choice("required", {t}, FALSE) : t \in tools }
    BY <1>7 DEF ToolChoices
  <2> QED BY <2>1, <1>1, <1>2, <1>4, <1>7
<1>8. CASE f # "gemini" /\ f # "claude"
  <2>1. ToolChoices(f, tools) =
          { Choice(m, {}, FALSE) : m \in {"unset", "auto", "none"} }
            \cup (IF tools = {} THEN {} ELSE { Choice("required", {}, FALSE) })
            \cup ({ Choice("required", {t}, FALSE) : t \in tools }
                   \cup { Choice("auto", s, TRUE) : s \in SUBSET tools \ {{}} }
                   \cup { Choice("required", s, TRUE) : s \in SUBSET tools \ {{}} })
    BY <1>8 DEF ToolChoices
  <2> QED BY <2>1, <1>1, <1>2, <1>4, <1>5, <1>8
<1> QED BY <1>6, <1>7, <1>8

-----------------------------------------------------------------------------
(* What a translator sees. *)

\* The settings a format's translator sees: the chat shim forwards none.
Seen(f, w) ==
  IF f = "shim" THEN [w EXCEPT !.thinking = "unset", !.tools = {}, !.output = "unset",
                               !.choice = Choice("unset", {}, FALSE)]
  ELSE w

WishRecord ==
  [thinking : {"unset", "on", "off", "quiet", "detailed"}, name : Names, output : Outputs,
   tools : SUBSET (Function \cup Hosted),
   choice : [mode : {"unset", "auto", "none", "required"}, only : SUBSET (Function \cup Hosted),
             listed : BOOLEAN],
   snake : BOOLEAN]

\* The settings of a request have their types.
LEMMA WishTyped ==
  ASSUME NEW f \in Formats, NEW w \in Wishes(f)
  PROVE  /\ w \in WishRecord /\ w.thinking \in Thinking(f) /\ w.tools \in Tools(f)
         /\ w.choice \in ToolChoices(f, w.tools) /\ (w.snake => f = "gemini")
<1>1. /\ w.thinking \in Thinking(f) /\ w.tools \in Tools(f)
      /\ w.choice \in ToolChoices(f, w.tools) /\ (w.snake => f = "gemini")
  BY DEF Wishes
<1>2. Thinking(f) \subseteq {"unset", "on", "off", "quiet", "detailed"}  BY DEF Thinking, Formats
<1>3. Tools(f) \subseteq SUBSET (Function \cup Hosted)
  BY DEF Tools, Formats, Function, Hosted
<1>4. w \in WishRecord  BY <1>2, <1>3 DEF Wishes, WishRecord
<1> QED BY <1>1, <1>4

\* What a translator sees is a wish, and what the shim forwards is what it sees.
LEMMA SeenTyped ==
  ASSUME NEW f \in Formats, NEW w \in Wishes(f)
  PROVE  LET v == Seen(f, w) IN
         /\ v \in WishRecord /\ v = IF f = "shim" THEN Forwarded(w) ELSE w
         /\ v.name = w.name /\ v.snake = w.snake
         /\ f = "shim" => /\ v.thinking = "unset" /\ v.tools = {} /\ v.output = "unset"
                          /\ v.choice = Choice("unset", {}, FALSE)
<1> DEFINE v == Seen(f, w)
           n == Choice("unset", {}, FALSE)
<1>1. w \in WishRecord  BY WishTyped
<1>2. n \in [mode : {"unset", "auto", "none", "required"}, only : SUBSET (Function \cup Hosted),
             listed : BOOLEAN]
  BY DEF Choice
<1> HIDE DEF n
<1>3. "unset" \in Outputs  BY DEF Outputs
<1>4. CASE f = "shim"
  <2>1. v = [w EXCEPT !.thinking = "unset", !.tools = {}, !.output = "unset", !.choice = n]
    BY <1>4 DEF Seen, n
  <2>2. Forwarded(w) = [w EXCEPT !.thinking = "unset", !.output = "unset", !.tools = {}, !.choice = n]
    BY DEF Forwarded, n
  <2> HIDE DEF v
  <2>3. Forwarded(w) = v  BY <2>1, <2>2, <1>1 DEF WishRecord
  <2>4. v \in WishRecord  BY <2>1, <1>1, <1>2, <1>3 DEF WishRecord
  <2>5. /\ v.name = w.name /\ v.snake = w.snake
        /\ v.thinking = "unset" /\ v.tools = {} /\ v.output = "unset" /\ v.choice = n
    BY <2>1, <1>1 DEF WishRecord
  <2> QED BY <2>3, <2>4, <2>5, <1>4 DEF v, n
<1>5. CASE f # "shim"
  <2>1. v = w  BY <1>5 DEF Seen
  <2> QED BY <2>1, <1>1, <1>5 DEF v
<1> QED BY <1>4, <1>5

-----------------------------------------------------------------------------
(* The configuration, piece by piece. *)

\* The pieces of a request, by format.
ThinkingOf(f, v, force, suffixed) ==
  CASE f \in {"openai", "shim"} -> OpenAIThinking(v, force, suffixed)
    [] f = "claude" -> ClaudeThinking(v, force, suffixed)
    [] f = "responses" -> ResponsesThinking(v, force, suffixed)
    [] f = "gemini" -> GeminiThinking(v, force, suffixed)
OfferOf(f, v) ==
  CASE f \in {"openai", "shim"} -> OpenAITools(v)
    [] f = "claude" -> ClaudeTools(v)
    [] f = "responses" -> ResponsesTools(v)
    [] f = "gemini" -> GeminiTools(v)
ChoiceOf(f, v) ==
  CASE f \in {"openai", "shim"} -> OpenAIChoice(v)
    [] f = "claude" -> ClaudeChoice(v)
    [] f = "responses" -> ResponsesChoice(v)
    [] f = "gemini" -> GeminiChoice(v)
OutputOf(f, v) ==
  CASE f \in {"openai", "shim"} -> OpenAIOutput(v)
    [] f = "claude" -> ClaudeOutput(v)
    [] f = "responses" -> ResponsesOutput(v)
    [] f = "gemini" -> GeminiOutput(v)
Suffixed(v) == ParseThinkingLevel(ParseStreamingMode(v.name).name).suffixed

\* The configuration is put together of the pieces, with what is forced.
LEMMA ConfigIs ==
  ASSUME NEW f \in Formats, NEW w \in Wishes(f), NEW force
  PROVE  LET v == Seen(f, w)
             c == Config(f, w, force) IN
         /\ c.thoughts = ThinkingOf(f, v, force, Suffixed(v)).thoughts
         /\ c.level = ThinkingOf(f, v, force, Suffixed(v)).level
         /\ c.tools = Forced(OfferOf(f, v).tools, force)
         /\ c.functions = OfferOf(f, v).functions /\ c.described = OfferOf(f, v).described
         /\ c.serverSide <=> "functions" \in Range(c.tools) /\ Range(c.tools) # {"functions"}
         /\ c.mode = ChoiceOf(f, v).mode /\ c.allowed = ChoiceOf(f, v).allowed
         /\ c.mime = OutputOf(f, v).mime /\ c.schema = OutputOf(f, v).schema
<1> DEFINE v == Seen(f, w)
           name == ParseThinkingLevel(ParseStreamingMode(v.name).name).name
           t == ThinkingOf(f, v, force, Suffixed(v))
           o == OfferOf(f, v)
           ch == ChoiceOf(f, v)
           out == OutputOf(f, v)
           d == Finalize(Asked(name, t, o, ch, out), force)
           c == Config(f, w, force)
<1>1. v = IF f = "shim" THEN Forwarded(w) ELSE w  BY SeenTyped DEF Formats
<1>2. \A a : CompleteTools(a, force) = Finalize(a, force)  BY DEF CompleteTools, Finalize
<1> HIDE DEF v
<1>3. c = d
  <2>1. CASE f \in {"openai", "shim"}
    BY <2>1, <1>1 DEF Config, ThinkingOf, OfferOf, ChoiceOf, OutputOf, Suffixed
  <2>2. CASE f = "claude"
    BY <2>2, <1>1 DEF Config, ThinkingOf, OfferOf, ChoiceOf, OutputOf, Suffixed
  <2>3. CASE f = "responses"
    BY <2>3, <1>1 DEF Config, ThinkingOf, OfferOf, ChoiceOf, OutputOf, Suffixed
  <2>4. CASE f = "gemini"
    BY <2>4, <1>1, <1>2 DEF Config, ThinkingOf, OfferOf, ChoiceOf, OutputOf, Suffixed
  <2> QED BY <2>1, <2>2, <2>3, <2>4 DEF Formats
<1> HIDE DEF c, t, o, ch, out, name
<1>4. /\ d.thoughts = t.thoughts /\ d.level = t.level
      /\ d.tools = Forced(o.tools, force)
      /\ d.functions = o.functions /\ d.described = o.described
      /\ d.serverSide <=> "functions" \in Range(d.tools) /\ Range(d.tools) # {"functions"}
      /\ d.mode = ch.mode /\ d.allowed = ch.allowed
      /\ d.mime = out.mime /\ d.schema = out.schema
  BY FinalizeIs
<1> HIDE DEF d
<1> QED BY <1>3, <1>4 DEF c, t, o, ch, out, v

\* What Thoughts gives.
LEMMA ThoughtsAre ==
  ASSUME NEW asked, NEW own, NEW force, NEW suffixed
  PROVE  /\ Thoughts(asked, own, force, suffixed).thoughts =
              IF force.thinking /\ asked = "unset" THEN "on" ELSE asked
         /\ Thoughts(asked, own, force, suffixed).level = IF suffixed THEN "suffix" ELSE own
BY DEF Thoughts

\* Thoughts are told or not as the client said, whatever its format.
LEMMA ThinkingKept ==
  ASSUME NEW f \in Formats, NEW v, v.thinking \in Thinking(f), f = "shim" => v.thinking = "unset",
         NEW force, NEW c,
         c.thoughts = ThinkingOf(f, v, force, Suffixed(v)).thoughts,
         c.level = ThinkingOf(f, v, force, Suffixed(v)).level
  PROVE  ThinkingIsKept(f, v, force, c)
<1> DEFINE silent == v.thinking \in {"unset", "detailed"} \/ (f = "claude" /\ v.thinking = "off")
           asked == IF silent THEN "unset" ELSE IF v.thinking = "quiet" THEN "on" ELSE v.thinking
           own == IF f = "gemini" /\ v.thinking = "detailed" THEN "own" ELSE "none"
           x == Suffixed(v)
<1> HIDE DEF x
<1>1. ThinkingOf(f, v, force, x) = Thoughts(asked, own, force, x)
  <2>1. CASE f \in {"openai", "shim"}
    <3>1. ThinkingOf(f, v, force, x) = OpenAIThinking(v, force, x)  BY <2>1 DEF ThinkingOf
    <3>2. own = "none"  BY <2>1
    <3>3. asked = CASE v.thinking \in {"on", "quiet"} -> "on"
                    [] v.thinking = "off" -> "off"
                    [] OTHER -> "unset"
      BY <2>1 DEF Thinking, Formats
    <3> QED BY <3>1, <3>2, <3>3 DEF OpenAIThinking
  <2>2. CASE f = "claude"
    <3>1. ThinkingOf(f, v, force, x) = ClaudeThinking(v, force, x)  BY <2>2 DEF ThinkingOf
    <3>2. own = "none" /\ asked = IF v.thinking = "on" THEN "on" ELSE "unset"
      BY <2>2 DEF Thinking
    <3> QED BY <3>1, <3>2 DEF ClaudeThinking
  <2>3. CASE f = "responses"
    <3>1. ThinkingOf(f, v, force, x) = ResponsesThinking(v, force, x)  BY <2>3 DEF ThinkingOf
    <3>2. own = "none" /\ asked = IF v.thinking = "unset" THEN "unset" ELSE "on"
      BY <2>3 DEF Thinking
    <3> QED BY <3>1, <3>2 DEF ResponsesThinking
  <2>4. CASE f = "gemini"
    <3>1. ThinkingOf(f, v, force, x) = GeminiThinking(v, force, x)  BY <2>4 DEF ThinkingOf
    <3>2. /\ own = IF v.thinking = "detailed" THEN "own" ELSE "none"
          /\ asked = IF v.thinking = "detailed" THEN "unset" ELSE v.thinking
      BY <2>4 DEF Thinking
    <3> QED BY <3>1, <3>2 DEF GeminiThinking
  <2> QED BY <2>1, <2>2, <2>3, <2>4 DEF Formats
<1>2. /\ c.thoughts = IF force.thinking /\ asked = "unset" THEN "on" ELSE asked
      /\ c.level = IF x THEN "suffix" ELSE own
  BY <1>1, ThoughtsAre DEF x
<1>3. c.thoughts = CASE silent /\ force.thinking -> "on"
                     [] silent /\ ~force.thinking -> "unset"
                     [] OTHER -> IF v.thinking = "quiet" THEN "on" ELSE v.thinking
  <2>1. CASE silent  BY <2>1, <1>2
  <2>2. CASE ~silent
    <3>1. asked # "unset"  BY <2>2
    <3> QED BY <2>2, <3>1, <1>2
  <2> QED BY <2>1, <2>2
<1> HIDE DEF silent, asked
<1> QED BY <1>2, <1>3 DEF ThinkingIsKept, silent, x, Suffixed

\* The offers of the formats, each of what its client listed.
LEMMA OffersKept ==
  ASSUME NEW f \in Formats, NEW v, v.tools \in Tools(f), v.choice.only \subseteq v.tools,
         v.choice.listed \in BOOLEAN, v.snake \in BOOLEAN, v.snake => f = "gemini",
         f = "shim" => v.tools = {},
         NEW mine, mine = IF f = "responses" /\ v.choice.listed THEN v.choice.only ELSE v.tools
  PROVE  /\ Lists(OfferOf(f, v).tools, mine, v.snake)
         /\ OfferOf(f, v).functions = mine \cap Function
         /\ OfferOf(f, v).described =
              IF f = "responses" /\ v.choice.listed THEN {} ELSE OfferOf(f, v).functions
<1>1. CASE f = "openai"
  <2>1. v.tools \in SUBSET Function  BY <1>1 DEF Tools
  <2>2. OfferOf(f, v) = OpenAITools(v) /\ v.snake = FALSE /\ mine = v.tools  BY <1>1 DEF OfferOf
  <2>3. Lists(OpenAITools(v).tools, v.tools, FALSE)  BY <2>1, OpenAILists
  <2>4. OpenAITools(v).functions = v.tools /\ OpenAITools(v).described = v.tools  BY DEF OpenAITools
  <2> QED BY <2>1, <2>2, <2>3, <2>4, <1>1
<1>2. CASE f = "claude"
  <2>1. OfferOf(f, v) = ClaudeTools(v) /\ v.snake = FALSE /\ mine = v.tools  BY <1>2 DEF OfferOf
  <2>2. Lists(ClaudeTools(v).tools, v.tools, FALSE)  BY ClaudeLists
  <2>3. ClaudeTools(v).functions = v.tools \cap Function
        /\ ClaudeTools(v).described = v.tools \cap Function
    BY DEF ClaudeTools
  <2> QED BY <2>1, <2>2, <2>3, <1>2
<1>3. CASE f = "responses"
  <2>1. "fetch" \notin v.tools  BY <1>3 DEF Tools, Function
  <2>2. OfferOf(f, v) = ResponsesTools(v) /\ v.snake = FALSE  BY <1>3 DEF OfferOf
  <2>3. mine = (IF v.choice.listed THEN v.choice.only ELSE v.tools) /\ "fetch" \notin mine
    BY <2>1, <1>3
  <2>4. Lists(ResponsesTools(v).tools, mine, FALSE)  BY <2>3, ResponsesLists
  <2>5. ResponsesTools(v).functions = mine \cap Function
        /\ ResponsesTools(v).described = IF v.choice.listed THEN {} ELSE mine \cap Function
    BY <2>3 DEF ResponsesTools
  <2> QED BY <2>2, <2>4, <2>5, <1>3
<1>4. CASE f = "gemini"
  <2>1. OfferOf(f, v) = GeminiTools(v) /\ mine = v.tools  BY <1>4 DEF OfferOf
  <2>2. Lists(GeminiTools(v).tools, v.tools, v.snake)  BY GeminiLists
  <2>3. GeminiTools(v).functions = v.tools \cap Function
        /\ GeminiTools(v).described = v.tools \cap Function
    BY DEF GeminiTools
  <2> QED BY <2>1, <2>2, <2>3, <1>4
<1>5. CASE f = "shim"
  <2>1. OfferOf(f, v) = OpenAITools(v) /\ v.snake = FALSE /\ mine = {} /\ v.tools = {}  BY <1>5 DEF OfferOf
  <2>2. Lists(OpenAITools(v).tools, v.tools, FALSE)  BY <2>1, OpenAILists
  <2>3. OpenAITools(v).functions = v.tools /\ OpenAITools(v).described = v.tools  BY DEF OpenAITools
  <2> QED BY <2>1, <2>2, <2>3, <1>5
<1> QED BY <1>1, <1>2, <1>3, <1>4, <1>5 DEF Formats

-----------------------------------------------------------------------------
(* The choice and the output. *)

\* The choice binds as the client said, in every format.
LEMMA ChoiceKept ==
  ASSUME NEW f \in Formats, NEW v \in WishRecord, v.tools \in Tools(f),
         v.choice \in ToolChoices(f, v.tools),
         f = "shim" => v.choice = Choice("unset", {}, FALSE),
         NEW c, c.mode = ChoiceOf(f, v).mode, c.allowed = ChoiceOf(f, v).allowed,
         c.functions = (IF f = "responses" /\ v.choice.listed THEN v.choice.only ELSE v.tools) \cap Function
  PROVE  ChoiceIsKept(f, v, c)
<1> DEFINE only == v.choice.only
           listed == v.choice.listed
           hosted == ~listed /\ only \cap Hosted # {}
<1>0. v.tools \in SUBSET (Function \cup Hosted)  BY DEF WishRecord
<1>1. /\ only \in SUBSET (Function \cup Hosted) /\ listed \in BOOLEAN
      /\ only \subseteq v.tools
      /\ f = "gemini" => only \subseteq Function /\ ~listed
      /\ f = "claude" => ~listed
      /\ ~listed /\ f # "gemini" => only = {} \/ \E t \in v.tools : only = {t}
  BY <1>0, ChoicesTyped
<1>2. CASE f \in {"openai", "shim"}
  <2>1. v.tools \subseteq Function \/ f = "shim"  BY <1>2 DEF Tools
  <2>2. f = "shim" => only = {} /\ ~listed  BY DEF Choice
  <2>3. only \cap Function = only  BY <2>1, <2>2, <1>1, <1>2
  <2>5. ChoiceOf(f, v) = OpenAIChoice(v)  BY <1>2 DEF ChoiceOf
  <2>6. CASE listed
    <3>1. f = "openai" /\ OpenAIChoice(v) = [mode |-> "unset", allowed |-> {}]
      BY <2>2, <2>6, <1>2 DEF OpenAIChoice
    <3> QED BY <3>1, <2>5, <2>6 DEF ChoiceIsKept
  <2>7. CASE ~listed
    <3>1. OpenAIChoice(v) = [mode |-> v.choice.mode, allowed |-> only]  BY <2>7 DEF OpenAIChoice
    <3>2. c.mode = v.choice.mode /\ c.allowed = only  BY <3>1, <2>5
    <3>3. f # "responses" /\ f # "claude" /\ c.functions = v.tools \cap Function  BY <1>2
    <3> QED BY <3>2, <3>3, <2>3, <2>7, <1>1 DEF ChoiceIsKept
  <2> QED BY <2>6, <2>7
<1>3. CASE f = "claude"
  <2>1. c.mode = v.choice.mode /\ c.allowed = only  BY <1>3 DEF ChoiceOf, ClaudeChoice
  <2>2. c.functions = v.tools \cap Function /\ ~listed  BY <1>1, <1>3
  <2>3. only \cap Hosted = {} => only \subseteq v.tools \cap Function  BY <1>1
  <2> QED BY <2>1, <2>2, <2>3, <1>3 DEF ChoiceIsKept
<1>4. CASE f = "responses"
  <2>0. ChoiceOf(f, v) = ResponsesChoice(v)  BY <1>4 DEF ChoiceOf
  <2>1. "fetch" \notin v.tools /\ Function \cap Hosted = {}  BY <1>4 DEF Tools, Function, Hosted
  <2>2. CASE listed
    <3>1. ResponsesChoice(v) = [mode |-> v.choice.mode, allowed |-> only \cap Function]
      BY <2>2 DEF ResponsesChoice
    <3>2. c.mode = v.choice.mode /\ c.allowed = only \cap Function  BY <3>1, <2>0
    <3>3. c.functions = only \cap Function  BY <2>2, <1>4
    <3> QED BY <3>2, <3>3, <2>2, <1>4 DEF ChoiceIsKept
  <2>3. CASE hosted
    <3>1. only = {"search"}
      <4>1. PICK t \in v.tools : only = {t}  BY <2>3, <1>1, <1>4
      <4>2. t \in Hosted /\ t # "fetch"  BY <4>1, <2>1, <2>3
      <4> QED BY <4>1, <4>2 DEF Hosted
    <3>2. ResponsesChoice(v) = [mode |-> "unset", allowed |-> {}]  BY <2>3, <3>1 DEF ResponsesChoice
    <3>3. c.mode = "unset" /\ c.allowed = {}  BY <3>2, <2>0
    <3>4. only \cap Function = {}  BY <3>1 DEF Function
    <3> QED BY <3>3, <3>4, <2>3, <1>4 DEF ChoiceIsKept
  <2>4. CASE ~listed /\ ~hosted
    <3>1. only # {"search"}  BY <2>4 DEF Hosted
    <3>2. ResponsesChoice(v) = [mode |-> v.choice.mode, allowed |-> only]  BY <2>4, <3>1 DEF ResponsesChoice
    <3>3. c.mode = v.choice.mode /\ c.allowed = only  BY <3>2, <2>0
    <3>4. only \cap Function = only  BY <2>4, <1>1
    <3>5. c.functions = v.tools \cap Function  BY <2>4, <1>4
    <3> QED BY <3>3, <3>4, <3>5, <2>4, <1>1, <1>4 DEF ChoiceIsKept
  <2> QED BY <2>2, <2>3, <2>4
<1>5. CASE f = "gemini"
  <2>1. c.mode = v.choice.mode /\ c.allowed = only  BY <1>5 DEF ChoiceOf, GeminiChoice
  <2>2. c.functions = v.tools \cap Function /\ ~listed /\ only \cap Function = only  BY <1>1, <1>5
  <2> QED BY <2>1, <2>2, <1>1, <1>5 DEF ChoiceIsKept
<1> QED BY <1>2, <1>3, <1>4, <1>5 DEF Formats

\* The answer is of the form the client asked for, in every format.
LEMMA OutputKept ==
  ASSUME NEW f \in Formats, NEW v, v.output \in Outputs, NEW c,
         c.mime = OutputOf(f, v).mime, c.schema = OutputOf(f, v).schema
  PROVE  OutputIsKept(v, c)
<1>1. CASE f \in {"openai", "shim"}
  <2>1. OutputOf(f, v) = OpenAIOutput(v)  BY <1>1 DEF OutputOf
  <2>2. OpenAIOutput(v).schema <=> v.output = "schema"  BY DEF OpenAIOutput
  <2>3. OpenAIOutput(v).mime = "json" <=> v.output \in {"json", "schema"}
    BY DEF OpenAIOutput, Outputs
  <2> QED BY <2>1, <2>2, <2>3 DEF OutputIsKept
<1>2. CASE f = "claude"
  <2>1. OutputOf(f, v) = ClaudeOutput(v)  BY <1>2 DEF OutputOf
  <2>2. ClaudeOutput(v).schema <=> v.output = "schema"  BY DEF ClaudeOutput
  <2>3. ClaudeOutput(v).mime = "json" <=> v.output \in {"json", "schema"}
    BY DEF ClaudeOutput, Outputs
  <2> QED BY <2>1, <2>2, <2>3 DEF OutputIsKept
<1>3. CASE f = "responses"
  <2>1. OutputOf(f, v) = ResponsesOutput(v)  BY <1>3 DEF OutputOf
  <2>2. ResponsesOutput(v).schema <=> v.output = "schema"  BY DEF ResponsesOutput
  <2>3. ResponsesOutput(v).mime = "json" <=> v.output \in {"json", "schema"}
    BY DEF ResponsesOutput, Outputs
  <2> QED BY <2>1, <2>2, <2>3 DEF OutputIsKept
<1>4. CASE f = "gemini"
  <2>1. OutputOf(f, v) = GeminiOutput(v)  BY <1>4 DEF OutputOf
  <2>2. GeminiOutput(v).schema <=> v.output = "schema"  BY DEF GeminiOutput
  <2>3. GeminiOutput(v).mime = "json" <=> v.output \in {"json", "schema"}
    BY DEF GeminiOutput, Outputs
  <2> QED BY <2>1, <2>2, <2>3 DEF OutputIsKept
<1> QED BY <1>1, <1>2, <1>3, <1>4 DEF Formats

-----------------------------------------------------------------------------
(* Settings are kept. *)

\* All four parts, of any settings and anything the operator forces.
LEMMA WishKept ==
  ASSUME NEW f \in Formats, NEW w \in Wishes(f), NEW force
  PROVE  LET v == Seen(f, w)
             c == Config(f, w, force) IN
         /\ ThinkingIsKept(f, v, force, c) /\ ToolsAreKept(f, v, force, c)
         /\ ChoiceIsKept(f, v, c) /\ OutputIsKept(v, c)
<1> DEFINE v == Seen(f, w)
           c == Config(f, w, force)
           none == Choice("unset", {}, FALSE)
<1>1. /\ w \in WishRecord /\ w.thinking \in Thinking(f) /\ w.tools \in Tools(f)
      /\ w.choice \in ToolChoices(f, w.tools) /\ (w.snake => f = "gemini")
  BY WishTyped DEF Formats
<1>2. /\ v \in WishRecord /\ v.snake = w.snake
      /\ f = "shim" => v.thinking = "unset" /\ v.tools = {} /\ v.output = "unset" /\ v.choice = none
      /\ f # "shim" => v = w
  <2>1. /\ v \in WishRecord /\ v.snake = w.snake
        /\ f = "shim" => v.thinking = "unset" /\ v.tools = {} /\ v.output = "unset" /\ v.choice = none
    BY SeenTyped DEF Formats
  <2>2. f # "shim" => v = w  BY DEF Seen
  <2> QED BY <2>1, <2>2
<1>3. /\ c.thoughts = ThinkingOf(f, v, force, Suffixed(v)).thoughts
      /\ c.level = ThinkingOf(f, v, force, Suffixed(v)).level
      /\ c.tools = Forced(OfferOf(f, v).tools, force)
      /\ c.functions = OfferOf(f, v).functions /\ c.described = OfferOf(f, v).described
      /\ c.serverSide <=> "functions" \in Range(c.tools) /\ Range(c.tools) # {"functions"}
      /\ c.mode = ChoiceOf(f, v).mode /\ c.allowed = ChoiceOf(f, v).allowed
      /\ c.mime = OutputOf(f, v).mime /\ c.schema = OutputOf(f, v).schema
  BY ConfigIs
<1> HIDE DEF v, c
<1>4. /\ v.thinking \in Thinking(f) /\ v.tools \in Tools(f) /\ v.choice \in ToolChoices(f, v.tools)
      /\ v.output \in Outputs /\ v.snake \in BOOLEAN /\ v.choice.listed \in BOOLEAN
      /\ v.tools \in SUBSET (Function \cup Hosted)
  <2>1. v.output \in Outputs /\ v.snake \in BOOLEAN /\ v.choice.listed \in BOOLEAN
        /\ v.tools \in SUBSET (Function \cup Hosted)
    BY <1>2 DEF WishRecord
  <2>2. CASE f # "shim"  BY <2>1, <2>2, <1>1, <1>2
  <2>3. CASE f = "shim"
    <3>1. "unset" \in Thinking(f) /\ {} \in Tools(f)  BY <2>3 DEF Thinking, Tools
    <3>2. none \in ToolChoices(f, {})  BY <2>3 DEF ToolChoices
    <3> HIDE DEF none
    <3> QED BY <3>1, <3>2, <2>1, <2>3, <1>2
  <2> QED BY <2>2, <2>3
<1>5. ThinkingIsKept(f, v, force, c)  BY <1>2, <1>3, <1>4, ThinkingKept
<1>6. v.choice.only \subseteq v.tools  BY <1>4, ChoicesTyped
<1> DEFINE listed == f = "responses" /\ v.choice.listed
           mine == IF listed THEN v.choice.only ELSE v.tools
<1>7. /\ Lists(OfferOf(f, v).tools, mine, v.snake)
      /\ OfferOf(f, v).functions = mine \cap Function
      /\ OfferOf(f, v).described = IF listed THEN {} ELSE OfferOf(f, v).functions
  BY <1>1, <1>2, <1>4, <1>6, OffersKept
<1>8. ToolsAreKept(f, v, force, c)
  <2> DEFINE tools == OfferOf(f, v).tools
  <2>0. Lists(tools, mine, v.snake) /\ c.functions = mine \cap Function  BY <1>3, <1>7
  <2>1. Tooled(c, tools, mine, force)  BY <1>3, <1>7 DEF Tooled
  <2> HIDE DEF tools, mine
  <2>1a. AllOffered(c, mine, v.snake, force)  BY <2>0, <2>1, ToolsKept
  <2>2. c.described = IF listed THEN {} ELSE c.functions  BY <1>3, <1>7
  <2> QED BY <2>0, <2>1a, <2>2 DEF AllOffered, ToolsAreKept, mine
<1>9. ChoiceIsKept(f, v, c)
  <2>1. c.functions = mine \cap Function  BY <1>3, <1>7
  <2> QED BY <2>1, <1>2, <1>3, <1>4, ChoiceKept
<1>10. OutputIsKept(v, c)  BY <1>3, <1>4, OutputKept
<1> QED BY <1>5, <1>8, <1>9, <1>10 DEF v, c

\* A configuration is that of a request's settings.
SettingsInv ==
  /\ format \in Formats
  /\ phase = "configured" =>
       \E w \in Wishes(format), force \in ForcedSettings :
         settings = << w, force >> /\ config = Config(format, w, force)

\* Only a request with settings makes a configuration.
LEMMA SettingsStep ==
  ASSUME SettingsInv, [Next]_vars
  PROVE  SettingsInv'
<1>1. CASE AskWithSettings
  <2>1. format' = format /\ format \in Formats  BY <1>1 DEF AskWithSettings, SettingsInv
  <2>2. PICK thinking \in Thinking(format), name \in Names, output \in Outputs,
             force \in ForcedSettings, tools \in Tools(format), snake \in BOOLEAN :
          \E choice \in ToolChoices(format, tools) :
            /\ snake => format = "gemini"
            /\ settings' = << [thinking |-> thinking, name |-> name, output |-> output,
                               tools |-> tools, choice |-> choice, snake |-> snake], force >>
    BY <1>1 DEF AskWithSettings
  <2>2a. PICK choice \in ToolChoices(format, tools) :
           /\ snake => format = "gemini"
           /\ settings' = << [thinking |-> thinking, name |-> name, output |-> output,
                              tools |-> tools, choice |-> choice, snake |-> snake], force >>
    BY <2>2
  <2> DEFINE w == [thinking |-> thinking, name |-> name, output |-> output,
                   tools |-> tools, choice |-> choice, snake |-> snake]
  <2>3. w \in Wishes(format)
    <3>1. tools \in SUBSET (Function \cup Hosted)  BY <2>1 DEF Tools, Formats, Function, Hosted
    <3>2. choice \in [mode : {"unset", "auto", "none", "required"}, only : SUBSET (Function \cup Hosted),
                      listed : BOOLEAN]
      BY <3>1, ChoicesTyped
    <3> QED BY <3>2, <2>2a DEF Wishes
  <2> HIDE DEF w
  <2>4. settings' = << w, force >>  BY <2>2a DEF w
  <2>5. config' = Config(format, settings'[1], settings'[2])  BY <1>1 DEF AskWithSettings
  <2>6. config' = Config(format, w, force)  BY <2>4, <2>5
  <2> QED BY <2>1, <2>3, <2>4, <2>6 DEF SettingsInv
<1>2. CASE Ask  BY <1>2 DEF Ask, SettingsInv
<1>3. CASE AskWithSchema  BY <1>3 DEF AskWithSchema, SettingsInv
<1>4. CASE Say  BY <1>4 DEF Say, SettingsInv
<1>5. CASE Read  BY <1>5 DEF Read, SettingsInv
<1>6. CASE End  BY <1>6 DEF End, EndTurn, SettingsInv
<1>7. CASE AnswerAtOnce  BY <1>7 DEF AnswerAtOnce, EndTurn, SettingsInv
<1>8. CASE Interrupt  BY <1>8 DEF Interrupt, EndTurn, SettingsInv
<1>9. CASE Refuse  BY <1>9 DEF Refuse, SettingsInv
<1>10. CASE UNCHANGED vars  BY <1>10 DEF vars, SettingsInv
<1> QED BY <1>1, <1>2, <1>3, <1>4, <1>5, <1>6, <1>7, <1>8, <1>9, <1>10 DEF Next

\* So every configuration keeps the settings.
LEMMA SettingsInvKept == SettingsInv => SettingsAreKept
<1>1. SUFFICES ASSUME SettingsInv, phase = "configured" PROVE SettingsAreKept
  BY DEF SettingsAreKept
<1>2. PICK w \in Wishes(format), force \in ForcedSettings :
        settings = << w, force >> /\ config = Config(format, w, force)
  BY <1>1 DEF SettingsInv
<1> DEFINE v == Seen(format, w)
<1>3. /\ ThinkingIsKept(format, v, force, config) /\ ToolsAreKept(format, v, force, config)
      /\ ChoiceIsKept(format, v, config) /\ OutputIsKept(v, config)
  BY <1>1, <1>2, WishKept DEF SettingsInv
<1>4. settings[1] = w /\ settings[2] = force  BY <1>2
<1> QED BY <1>3, <1>4 DEF SettingsAreKept, Seen

\* Whatever the format, the settings of a request, and what the operator
\* forces, the configuration Gemini is sent keeps them: every combination of
\* thinking, tools, choice and output format, with the exceptions
\* SettingsAreKept names.
THEOREM KeptSettings == Spec => []SettingsAreKept
<1>1. Init => SettingsInv  BY CanvasAssumption DEF Init, SettingsInv, Formats
<1>2. SettingsInv /\ [Next]_vars => SettingsInv'  BY SettingsStep
<1>3. SettingsInv => SettingsAreKept  BY SettingsInvKept
<1> QED BY <1>1, <1>2, <1>3, PTL DEF Spec

-----------------------------------------------------------------------------
(* Translating a chat history: one message. *)

\* The values of a fold, one for each prefix.
Walks(r, f, base, q, n) == r[0] = base /\ \A i \in 1 .. n : r[i] = f[<< r[i - 1], q[i] >>]

\* A fold has a walk: the value after each element.
LEMMA WalkExists ==
  ASSUME NEW V, NEW D, NEW f \in [V \X D -> V], NEW base \in V, NEW q \in Seq(D)
  PROVE  \E r \in [0 .. Len(q) -> V] : Walks(r, f, base, q, Len(q))
<1> DEFINE n == Len(q)
<1>1. PICK g \in [SUBSET (1 .. n) -> V] : Folds(g, f, base, q, n)  BY FoldExists
<1> DEFINE r == [i \in 0 .. n |-> g[1 .. i]]
<1>2. n \in Nat /\ \A i \in 0 .. n : 1 .. i \in SUBSET (1 .. n)  OBVIOUS
<1>3. r \in [0 .. n -> V]  BY <1>2
<1>4. r[0] = base
  <2>1. 1 .. 0 = {} /\ {} \in SUBSET (1 .. n) /\ 0 \in 0 .. n  BY <1>2
  <2>2. g[{}] = base  BY <2>1, <1>1 DEF Folds
  <2> QED BY <2>1, <2>2
<1>5. ASSUME NEW i \in 1 .. n PROVE r[i] = f[<< r[i - 1], q[i] >>]
  <2> DEFINE t == 1 .. i
  <2>1. t \in SUBSET (1 .. n) /\ i \in t /\ t \ {i} = 1 .. i - 1 /\ i \in 0 .. n /\ i - 1 \in 0 .. n
        /\ i \in Nat /\ t \in SUBSET (1 .. i) /\ t # {}
    BY <1>2
  <2> HIDE DEF t
  <2>2. Max(t) = i  BY <2>1, MaxIs
  <2>3. g[t] = f[<< g[t \ {Max(t)}], q[Max(t)] >>]  BY <1>1, <2>1 DEF Folds
  <2> QED BY <2>1, <2>2, <2>3 DEF t
<1> HIDE DEF r
<1>6. Walks(r, f, base, q, n)  BY <1>4, <1>5 DEF Walks
<1> QED BY <1>3, <1>6

\* A message, and the translation in progress.
MessageRec == [role : {"tool", "user", "assistant"}, parts : Seq(PartRec)]
Progress == [contents : Seq(ContentRec), pending : Seq(PartRec)]
NotEmpty(role, parts) == IF parts = << >> THEN << >> ELSE << Content(role, parts) >>

\* A content is filed unless it is empty.
LEMMA NotEmptyTyped ==
  ASSUME NEW role \in {"user", "model"}, NEW parts \in Seq(PartRec)
  PROVE  NotEmpty(role, parts) \in Seq(ContentRec)
<1>1. Content(role, parts) \in ContentRec  BY DEF Content, ContentRec
<1> QED BY <1>1 DEF NotEmpty

\* What addContent does to the progress of a translation.
LEMMA AddContentIs ==
  ASSUME NEW c \in Progress, NEW role \in {"user", "model"}, NEW parts \in Seq(PartRec)
  PROVE  LET r == AddContent(c, role, parts) IN
         /\ r \in Progress /\ r.pending = c.pending
         /\ r.contents = c.contents \o NotEmpty(role, parts)
<1> DEFINE r == AddContent(c, role, parts)
<1>1. c.contents \in Seq(ContentRec) /\ c.pending \in Seq(PartRec)  BY DEF Progress
<1>2. CASE parts = << >>
  <2>1. r = c /\ c.contents \o << >> = c.contents  BY <1>1, <1>2 DEF AddContent
  <2> QED BY <2>1, <1>2 DEF NotEmpty
<1>3. CASE parts # << >>
  <2> DEFINE x == Content(role, parts)
             s == c.contents
  <2>1. x \in ContentRec  BY DEF Content, ContentRec
  <2>2. r = [c EXCEPT !.contents = Append(s, x)]  BY <1>3 DEF AddContent
  <2> HIDE DEF x, s
  <2>3. s \in Seq(ContentRec)  BY <1>1 DEF s
  <2>4. Append(s, x) \in Seq(ContentRec) /\ Append(s, x) = s \o << x >>  BY <2>1, <2>3
  <2>5. r \in Progress /\ r.pending = c.pending /\ r.contents = Append(s, x)
    BY <2>2, <2>4, <1>1 DEF Progress
  <2> QED BY <2>4, <2>5, <1>3 DEF NotEmpty, x, s
<1> QED BY <1>2, <1>3

\* What flushing the pending tool results does.
LEMMA FlushIs ==
  ASSUME NEW c \in Progress
  PROVE  LET r == FlushToolParts(c) IN
         /\ r \in Progress /\ r.pending = << >>
         /\ r.contents = c.contents \o NotEmpty("user", c.pending)
<1> DEFINE a == AddContent(c, "user", c.pending)
<1>1. c.pending \in Seq(PartRec)  BY DEF Progress
<1>2. a \in Progress /\ a.contents = c.contents \o NotEmpty("user", c.pending)  BY <1>1, AddContentIs
<1> DEFINE r == FlushToolParts(c)
           e == << >>
<1>3. r = [a EXCEPT !.pending = e]  BY DEF FlushToolParts
<1>4. e \in Seq(PartRec)  OBVIOUS
<1> HIDE DEF a, r, e
<1>5. r \in Progress /\ r.pending = e /\ r.contents = a.contents  BY <1>2, <1>3, <1>4 DEF Progress
<1> QED BY <1>2, <1>5 DEF r, e

\* What one message of a chat history does.
LEMMA OpenAIMessageIs ==
  ASSUME NEW c \in Progress, NEW m \in MessageRec
  PROVE  LET r == OpenAIMessage(c, m) IN
         /\ r \in Progress
         /\ m.role = "tool" => r.contents = c.contents /\ r.pending = c.pending \o m.parts
         /\ m.role # "tool" =>
              /\ r.pending = << >>
              /\ r.contents = (c.contents \o NotEmpty("user", c.pending))
                   \o NotEmpty(IF m.role = "assistant" THEN "model" ELSE "user", SignFirst(m.parts))
<1>1. c.contents \in Seq(ContentRec) /\ c.pending \in Seq(PartRec) /\ m.parts \in Seq(PartRec)
  BY DEF Progress, MessageRec
<1>2. CASE m.role = "tool"
  <2>1. OpenAIMessage(c, m) = [c EXCEPT !.pending = c.pending \o m.parts]
    BY <1>2 DEF OpenAIMessage, OpenAITool
  <2>2. c.pending \o m.parts \in Seq(PartRec)  BY <1>1
  <2> QED BY <2>1, <2>2, <1>1, <1>2 DEF Progress
<1>3. CASE m.role # "tool"
  <2> DEFINE a == FlushToolParts(c)
             role == IF m.role = "assistant" THEN "model" ELSE "user"
             s == SignFirst(m.parts)
  <2>1. a \in Progress /\ a.pending = << >> /\ a.contents = c.contents \o NotEmpty("user", c.pending)
    BY FlushIs
  <2>2. s \in Seq(PartRec)  BY <1>1, SignFirstKeeps
  <2>3. OpenAIMessage(c, m) = AddContent(a, role, s)  BY <1>3 DEF OpenAIMessage
  <2>4. role \in {"user", "model"}  OBVIOUS
  <2> HIDE DEF a, role, s
  <2> DEFINE r == AddContent(a, role, s)
  <2>5. r \in Progress /\ r.pending = a.pending /\ r.contents = a.contents \o NotEmpty(role, s)
    BY <2>1, <2>2, <2>4, AddContentIs
  <2> HIDE DEF r
  <2> QED BY <2>1, <2>3, <2>5, <1>3 DEF r, role, s
<1> QED BY <1>2, <1>3

\* Induction over the messages, for OpenAIMessage.
LEMMA OpenAIMessagesFold ==
  ASSUME NEW V, NEW D, NEW base \in V, NEW q \in Seq(D),
         \A v \in V, d \in D : OpenAIMessage(v, d) \in V,
         NEW J, << 0, base >> \in J,
         \A i \in 1 .. Len(q), v \in V :
           << i - 1, v >> \in J => << i, OpenAIMessage(v, q[i]) >> \in J
  PROVE  /\ FoldLeft(OpenAIMessage, base, q) \in V
         /\ << Len(q), FoldLeft(OpenAIMessage, base, q) >> \in J
<1> DEFINE f == [x \in V \X D |-> OpenAIMessage(x[1], x[2])]
           Is(g) == g = [t \in SUBSET (DOMAIN q) |->
                           IF t = {} THEN base ELSE OpenAIMessage(g[t \ {Max(t)}], q[Max(t)])]
           c == CHOOSE g : Is(g)
<1>1. f \in [V \X D -> V] /\ \A v \in V, d \in D : f[<< v, d >>] = OpenAIMessage(v, d)  OBVIOUS
<1>2. DOMAIN q = 1 .. Len(q) /\ \A i \in 1 .. Len(q) : q[i] \in D  OBVIOUS
<1>3. \A t \in SUBSET (1 .. Len(q)) : t \ {Max(t)} \in SUBSET (1 .. Len(q))  OBVIOUS
<1> HIDE DEF f
<1>4. PICK g \in [SUBSET (1 .. Len(q)) -> V] : Folds(g, f, base, q, Len(q))  BY <1>1, FoldExists
<1>5. Is(g)
  <2>1. ASSUME NEW t \in SUBSET (1 .. Len(q))
        PROVE  g[t] = IF t = {} THEN base ELSE OpenAIMessage(g[t \ {Max(t)}], q[Max(t)])
    <3>1. CASE t # {}
      <4>1. Max(t) \in 1 .. Len(q) /\ g[t] = f[<< g[t \ {Max(t)}], q[Max(t)] >>]
        BY <1>4, <3>1 DEF Folds
      <4>2. g[t \ {Max(t)}] \in V  BY <1>3, <1>4
      <4> QED BY <4>1, <4>2, <1>1, <1>2, <3>1
    <3>2. CASE t = {}  BY <1>4, <3>2 DEF Folds
    <3> QED BY <3>1, <3>2
  <2> QED BY <2>1, <1>2, <1>4
<1>6. Is(c)  BY <1>5
<1>7. FoldLeft(OpenAIMessage, base, q) = c[1 .. Len(q)]
  BY <1>2, Zenon DEF FoldLeft, MapThenFoldSet
<1> HIDE DEF c
<1>8. c[{}] = base /\ \A t \in SUBSET (1 .. Len(q)) :
        t # {} => c[t] = OpenAIMessage(c[t \ {Max(t)}], q[Max(t)])  BY <1>2, <1>6
<1>9. \A t \in SUBSET (1 .. Len(q)) : t # {} => Max(t) \in 1 .. Len(q)  BY <1>4 DEF Folds
<1>10. \A t \in SUBSET (1 .. Len(q)) :
         t # {} /\ c[t \ {Max(t)}] \in V => c[t] = f[<< c[t \ {Max(t)}], q[Max(t)] >>]
  BY <1>1, <1>2, <1>8, <1>9
<1>11. \A i \in 1 .. Len(q), v \in V : << i - 1, v >> \in J => << i, f[<< v, q[i] >>] >> \in J
  BY <1>1, <1>2
<1>12. c[1 .. Len(q)] \in V /\ << Len(q), c[1 .. Len(q)] >> \in J
  <2>1. Steps(c, f, V, base, q)  BY <1>8, <1>10 DEF Steps
  <2>2. Keeps(J, f, V, base, q)  BY <1>11 DEF Keeps
  <2> QED BY <1>1, <2>1, <2>2, FoldInduction
<1> QED BY <1>7, <1>12

Run(q) == FoldLeft(OpenAIMessage, Nothing, q)

\* One more message is translated after the others.
LEMMA RunAppend ==
  ASSUME NEW q \in Seq(MessageRec), NEW m \in MessageRec
  PROVE  Run(q) \in Progress /\ Run(Append(q, m)) = OpenAIMessage(Run(q), m)
<1> DEFINE a == Append(q, m)
           n == Len(q)
           V == Progress
           D == MessageRec
           f == [x \in V \X D |-> OpenAIMessage(x[1], x[2])]
<1>1. a \in Seq(D) /\ Len(a) = n + 1 /\ a[n + 1] = m /\ (\A i \in 1 .. n : a[i] = q[i]) /\ n \in Nat
  OBVIOUS
<1>2. \A v \in V, d \in D : OpenAIMessage(v, d) \in V  BY OpenAIMessageIs
<1>3. Nothing \in V
  <2>1. << >> \in Seq(ContentRec) /\ << >> \in Seq(PartRec)  OBVIOUS
  <2> QED BY <2>1 DEF Nothing, Progress
<1>4. f \in [V \X D -> V] /\ \A v \in V, d \in D : f[<< v, d >>] = OpenAIMessage(v, d)  BY <1>2
<1> HIDE DEF a, V, D, f
<1>5. PICK r \in [0 .. n + 1 -> V] : Walks(r, f, Nothing, a, n + 1)
  <2>1. PICK r \in [0 .. Len(a) -> V] : Walks(r, f, Nothing, a, Len(a))  BY <1>1, <1>3, <1>4, WalkExists
  <2> QED BY <2>1, <1>1
<1>6. \A i \in 1 .. n + 1 : a[i] \in D  BY <1>1
<1>7. \A i \in 1 .. n + 1 : r[i] = OpenAIMessage(r[i - 1], a[i])
  <2>1. ASSUME NEW i \in 1 .. n + 1 PROVE r[i] = OpenAIMessage(r[i - 1], a[i])
    <3>1. i - 1 \in 0 .. n + 1  BY <1>1
    <3>2. r[i - 1] \in V /\ a[i] \in D  BY <3>1, <1>6
    <3>3. r[i] = f[<< r[i - 1], a[i] >>]  BY <1>5 DEF Walks
    <3> QED BY <3>2, <3>3, <1>4
  <2> QED BY <2>1
<1> DEFINE J == { x \in (0 .. n + 1) \X V : x[2] = r[x[1]] }
<1>8. << 0, Nothing >> \in J  BY <1>1, <1>3, <1>5 DEF Walks
<1>9. \A i \in 1 .. n + 1, v \in V : << i - 1, v >> \in J => << i, OpenAIMessage(v, a[i]) >> \in J
  <2>1. ASSUME NEW i \in 1 .. n + 1, NEW v \in V, << i - 1, v >> \in J
        PROVE  << i, OpenAIMessage(v, a[i]) >> \in J
    <3>1. v = r[i - 1]  BY <2>1
    <3>2. OpenAIMessage(v, a[i]) = r[i]  BY <3>1, <1>7
    <3>3. i \in 0 .. n + 1 /\ r[i] \in V  BY <1>1
    <3> QED BY <3>2, <3>3
  <2> QED BY <2>1
<1>10. \A i \in 1 .. n, v \in V : << i - 1, v >> \in J => << i, OpenAIMessage(v, q[i]) >> \in J
  <2>1. ASSUME NEW i \in 1 .. n, NEW v \in V, << i - 1, v >> \in J
        PROVE  << i, OpenAIMessage(v, q[i]) >> \in J
    <3>1. i \in 1 .. n + 1 /\ a[i] = q[i]  BY <1>1
    <3>2. << i, OpenAIMessage(v, a[i]) >> \in J
      <4> HIDE DEF J
      <4> QED BY <3>1, <2>1, <1>9
    <3> QED BY <3>1, <3>2
  <2> QED BY <2>1
<1>11. q \in Seq(D)  BY DEF D
<1>12. Run(q) \in V /\ << n, Run(q) >> \in J
  <2> HIDE DEF J
  <2> QED BY <1>2, <1>3, <1>8, <1>10, <1>11, OpenAIMessagesFold DEF Run
<1>13. Run(a) \in V /\ << Len(a), Run(a) >> \in J
  <2>1. \A i \in 1 .. Len(a), v \in V : << i - 1, v >> \in J => << i, OpenAIMessage(v, a[i]) >> \in J
    <3> HIDE DEF J
    <3> QED BY <1>1, <1>9
  <2> HIDE DEF J
  <2> QED BY <1>1, <1>2, <1>3, <1>8, <2>1, OpenAIMessagesFold DEF Run
<1>14. Run(q) = r[n] /\ Run(a) = r[n + 1]  BY <1>1, <1>12, <1>13
<1>15. r[n + 1] = OpenAIMessage(r[n], m)
  <2>1. n + 1 \in 1 .. n + 1 /\ (n + 1) - 1 = n  BY <1>1
  <2> QED BY <2>1, <1>1, <1>7
<1> QED BY <1>12, <1>14, <1>15 DEF a, V

-----------------------------------------------------------------------------
(* Translating a chat history: results and answers. *)

\* How a sequence with one more element is recognised.
OneLonger(F, t, m) ==
  /\ F = [i \in 1 .. Len(t) + 1 |-> F[i]]
  /\ \A i \in 1 .. Len(t) : F[i] = t[i]
  /\ F[Len(t) + 1] = m

\* A function that agrees with a sequence and has one value more is an Append.
LEMMA AppendIs ==
  ASSUME NEW T, NEW t \in Seq(T), NEW m \in T, NEW F, OneLonger(F, t, m)
  PROVE  F = Append(t, m)
<1> DEFINE n == Len(t)
<1>1. n \in Nat /\ \A i \in 1 .. n : t[i] \in T  OBVIOUS
<1> HIDE DEF n
<1>0. F = [i \in 1 .. n + 1 |-> F[i]] /\ (\A i \in 1 .. n : F[i] = t[i]) /\ F[n + 1] = m
  BY DEF n, OneLonger
<1>2. ASSUME NEW i \in 1 .. n + 1 PROVE F[i] \in T
  <2>1. i = n + 1 \/ i \in 1 .. n  BY <1>1
  <2>2. CASE i = n + 1  BY <1>0, <2>2
  <2>3. CASE i \in 1 .. n  BY <1>0, <1>1, <2>3
  <2> QED BY <2>1, <2>2, <2>3
<1>3. F \in Seq(T)
  <2>1. F \in [1 .. n + 1 -> T]  BY <1>0, <1>2
  <2>2. n + 1 \in Nat  BY <1>1
  <2> QED BY <2>1, <2>2
<1>4. Len(F) = n + 1
  <2>1. DOMAIN F = 1 .. n + 1  BY <1>0
  <2> QED BY <2>1, <1>3, <1>1
<1>5. t \in Seq(T) /\ F \in Seq(T) /\ Len(F) = Len(t) + 1 /\ F[Len(t) + 1] = m
      /\ \A i \in 1 .. Len(t) : F[i] = t[i]
  BY <1>0, <1>3, <1>4 DEF n
<1> QED BY <1>5

\* The contents a translation in progress stands for.
View(c) == c.contents \o NotEmpty("user", c.pending)

\* What would be sent if the history ended here.
LEMMA ViewTyped ==
  ASSUME NEW c \in Progress
  PROVE  View(c) \in Seq(ContentRec) /\ (c.pending = << >> => View(c) = c.contents)
<1>1. c.contents \in Seq(ContentRec) /\ c.pending \in Seq(PartRec)  BY DEF Progress
<1>2. NotEmpty("user", c.pending) \in Seq(ContentRec)  BY <1>1, NotEmptyTyped
<1>3. c.pending = << >> => View(c) = c.contents
  <2>1. SUFFICES ASSUME c.pending = << >> PROVE View(c) = c.contents  OBVIOUS
  <2>2. NotEmpty("user", c.pending) = << >>  BY <2>1 DEF NotEmpty
  <2>3. c.contents \o << >> = c.contents  BY <1>1
  <2> QED BY <2>2, <2>3 DEF View
<1>4. View(c) \in Seq(ContentRec)
  <2> DEFINE a == c.contents
             b == NotEmpty("user", c.pending)
  <2>1. a \in Seq(ContentRec) /\ b \in Seq(ContentRec)  BY <1>1, <1>2
  <2> HIDE DEF a, b
  <2>2. a \o b \in Seq(ContentRec)  BY <2>1
  <2> QED BY <2>2 DEF View, a, b
<1> QED BY <1>3, <1>4

\* A message that is not a tool's adds its parts.
Role(m) == IF m.role = "assistant" THEN "model" ELSE "user"

\* A user or assistant message adds its content to that view.
LEMMA MessageView ==
  ASSUME NEW q \in Seq(MessageRec), NEW m \in MessageRec, m.role # "tool"
  PROVE  LET r == Run(Append(q, m)) IN
         /\ r \in Progress /\ r.pending = << >>
         /\ View(r) = View(Run(q)) \o NotEmpty(Role(m), SignFirst(m.parts))
<1> DEFINE c == Run(q)
           r == Run(Append(q, m))
<1>1. c \in Progress /\ r = OpenAIMessage(c, m)  BY RunAppend
<1> HIDE DEF c, r
<1>2. r \in Progress /\ r.pending = << >>
      /\ r.contents = View(c) \o NotEmpty(Role(m), SignFirst(m.parts))
  BY <1>1, OpenAIMessageIs DEF View, Role
<1>3. View(r) = r.contents  BY <1>2, ViewTyped
<1> QED BY <1>2, <1>3 DEF c, r

\* The results of calls, by the names given.
Resps(results, names) == [i \in DOMAIN results |-> Response(results[i], names[results[i]])]
ToolMsgs(results, more) == [i \in DOMAIN results |-> ToolMessage(results[i], more)]
ToolNames(more) == [x \in Int |-> IF more THEN x ELSE Unknown]

\* One response part per tool result.
LEMMA RespsTyped ==
  ASSUME NEW results \in Seq(Int), NEW names \in [Int -> Int]
  PROVE  Resps(results, names) \in Seq(PlainPart) /\ Len(Resps(results, names)) = Len(results)
<1>1. \A x \in Int : Response(x, names[x]) \in PlainPart  BY DEF Response, PlainPart, PartRec
<1>2. DOMAIN results = 1 .. Len(results) /\ Len(results) \in Nat
      /\ \A i \in 1 .. Len(results) : results[i] \in Int  OBVIOUS
<1> QED BY <1>1, <1>2 DEF Resps

\* Tool messages only add to the pending results.
LEMMA ToolsRun ==
  ASSUME NEW q \in Seq(MessageRec), NEW results \in Seq(Int), NEW more \in BOOLEAN
  PROVE  LET r == Run(q \o ToolMsgs(results, more)) IN
         /\ ToolMsgs(results, more) \in Seq(MessageRec) /\ r \in Progress
         /\ r.contents = Run(q).contents
         /\ r.pending = Run(q).pending \o Resps(results, ToolNames(more))
<1> DEFINE names == ToolNames(more)
           P(s) == /\ ToolMsgs(s, more) \in Seq(MessageRec)
                   /\ Run(q \o ToolMsgs(s, more)) \in Progress
                   /\ Run(q \o ToolMsgs(s, more)).contents = Run(q).contents
                   /\ Run(q \o ToolMsgs(s, more)).pending = Run(q).pending \o Resps(s, names)
           J == { s \in Seq(Int) : P(s) }
<1>0. names \in [Int -> Int]  BY DEF ToolNames, Unknown
<1>1. << >> \in J
  <2>1. q \o << >> = q /\ << >> \in Seq(MessageRec) /\ << >> \in Seq(Int)  OBVIOUS
  <2>2. ToolMsgs(<< >>, more) = << >> /\ Resps(<< >>, names) = << >>  BY DEF ToolMsgs, Resps
  <2>3. Run(q) \in Progress
    <3>1. \E m : m \in MessageRec
      <4>1. << >> \in Seq(PartRec)  OBVIOUS
      <4>2. [role |-> "tool", parts |-> << >>] \in MessageRec  BY <4>1 DEF MessageRec
      <4> QED BY <4>2
    <3> QED BY <3>1, RunAppend
  <2>4. Run(q).pending \in Seq(PartRec)  BY <2>3 DEF Progress
  <2>5. Run(q).pending \o << >> = Run(q).pending
    <3> DEFINE p == Run(q).pending
    <3>1. p \in Seq(PartRec)  BY <2>4
    <3> HIDE DEF p
    <3>2. p \o << >> = p  BY <3>1
    <3> QED BY <3>2 DEF p
  <2>6. P(<< >>)  BY <2>1, <2>2, <2>3, <2>5
  <2> QED BY <2>1, <2>6
<1>2. ASSUME NEW s \in Seq(Int), NEW x \in Int, s \in J PROVE Append(s, x) \in J
  <2> DEFINE a == Append(s, x)
             m == ToolMessage(x, more)
             t == ToolMsgs(s, more)
             c == Run(q \o t)
             p == Run(q).pending
             y == Response(x, names[x])
             u == Resps(s, names)
  <2>1. t \in Seq(MessageRec) /\ c \in Progress /\ c.contents = Run(q).contents /\ c.pending = p \o u
    BY <1>2
  <2>2. a \in Seq(Int) /\ Len(a) = Len(s) + 1 /\ a[Len(s) + 1] = x /\ (\A i \in 1 .. Len(s) : a[i] = s[i])
        /\ DOMAIN s = 1 .. Len(s) /\ DOMAIN a = 1 .. Len(s) + 1
    OBVIOUS
  <2>3. y \in PlainPart /\ y \in PartRec  BY <1>0 DEF Response, PlainPart, PartRec
  <2>4. m = Message("tool", << y >>)  BY DEF ToolMessage, ToolNames
  <2>5. m \in MessageRec /\ m.role = "tool" /\ m.parts = << y >>
    <3>1. << y >> \in Seq(PartRec)  BY <2>3
    <3> HIDE DEF y
    <3> QED BY <2>4, <3>1 DEF Message, MessageRec
  <2>6. ToolMsgs(a, more) = Append(t, m)
    <3>1. DOMAIN t = 1 .. Len(s) /\ \A i \in 1 .. Len(s) : t[i] = ToolMessage(s[i], more)
      BY <2>2 DEF ToolMsgs
    <3> HIDE DEF a, m, t
    <3>2. Len(t) = Len(s)  BY <3>1, <2>1
    <3>3. Append(t, m) = [i \in 1 .. Len(s) + 1 |-> ToolMessage(a[i], more)]
      <4> DEFINE F == [i \in 1 .. Len(s) + 1 |-> ToolMessage(a[i], more)]
      <4>1. F[Len(s) + 1] = m  BY <2>2 DEF m
      <4>2. \A i \in 1 .. Len(s) : F[i] = t[i]  BY <2>2, <3>1
      <4>3. F = [i \in 1 .. Len(s) + 1 |-> F[i]]  OBVIOUS
      <4> HIDE DEF F
      <4>4. OneLonger(F, t, m)
        BY <4>1, <4>2, <4>3, <3>2 DEF OneLonger
      <4>5. t \in Seq(MessageRec) /\ m \in MessageRec  BY <2>1, <2>5
      <4>6. F = Append(t, m)  BY <4>4, <4>5, AppendIs
      <4> QED BY <4>6 DEF F
    <3> QED BY <3>3, <2>2 DEF ToolMsgs
  <2>7. u \in Seq(PartRec) /\ Len(u) = Len(s)
    <3>1. u \in Seq(PlainPart) /\ Len(u) = Len(s)  BY <1>0, RespsTyped
    <3> QED BY <3>1 DEF PlainPart
  <2>8. Resps(a, names) = Append(u, y)
    <3>1. \A i \in 1 .. Len(s) : u[i] = Response(s[i], names[s[i]])  BY <2>2 DEF Resps
    <3> HIDE DEF a, u, names
    <3>2. Append(u, y) = [i \in 1 .. Len(s) + 1 |-> Response(a[i], names[a[i]])]
      <4> DEFINE F == [i \in 1 .. Len(s) + 1 |-> Response(a[i], names[a[i]])]
      <4>1. F[Len(s) + 1] = y  BY <2>2
      <4>2. \A i \in 1 .. Len(s) : F[i] = u[i]  BY <2>2, <3>1
      <4>3. F = [i \in 1 .. Len(s) + 1 |-> F[i]]  OBVIOUS
      <4> HIDE DEF y, F
      <4>4. OneLonger(F, u, y)
        BY <4>1, <4>2, <4>3, <2>7 DEF OneLonger
      <4>5. u \in Seq(PartRec) /\ y \in PartRec  BY <2>7, <2>3
      <4>6. F = Append(u, y)  BY <4>4, <4>5, AppendIs
      <4> QED BY <4>6 DEF F
    <3> QED BY <3>2, <2>2 DEF Resps
  <2>9. Append(t, m) \in Seq(MessageRec) /\ q \o t \in Seq(MessageRec)
        /\ q \o Append(t, m) = Append(q \o t, m)
    <3> HIDE DEF t, m
    <3> QED BY <2>1, <2>5
  <2>10. p \in Seq(PartRec)
    <3>1. Run(q) \in Progress  BY <2>5, RunAppend
    <3> QED BY <3>1 DEF Progress
  <2> DEFINE k == q \o t
             r == Run(Append(k, m))
  <2>11. r = OpenAIMessage(c, m)
    <3>1. k \in Seq(MessageRec) /\ c = Run(k)  BY <2>9
    <3> HIDE DEF k, m, c
    <3> QED BY <3>1, <2>5, RunAppend
  <2> HIDE DEF a, m, t, p, u, y, c
  <2>12. r \in Progress /\ r.contents = c.contents /\ r.pending = c.pending \o m.parts
    <3> HIDE DEF r
    <3> QED BY <2>1, <2>5, <2>11, OpenAIMessageIs
  <2>13. (p \o u) \o << y >> = p \o Append(u, y)
    <3>1. << y >> \in Seq(PartRec) /\ Append(u, y) = u \o << y >>  BY <2>3, <2>7
    <3> DEFINE w == << y >>
    <3>2. w \in Seq(PartRec) /\ Append(u, y) = u \o w  BY <3>1
    <3> HIDE DEF w
    <3>3. p \in Seq(PartRec) /\ u \in Seq(PartRec) /\ w \in Seq(PartRec)  BY <3>2, <2>7, <2>10
    <3>4. Regroups(p, u, w)  BY <3>3, ConcatAssoc
    <3> QED BY <3>2, <3>4, Zenon DEF w, Regroups
  <2>14. P(a)  BY <2>1, <2>5, <2>6, <2>8, <2>9, <2>12, <2>13 DEF p, c
  <2> HIDE DEF P
  <2> QED BY <2>2, <2>14 DEF a
<1>3. results \in J
  <2> HIDE DEF J
  <2> QED BY <1>1, <1>2, SeqInduction
<1> QED BY <1>3

-----------------------------------------------------------------------------
(* Translating a chat history: one turn. *)

Asking(t) == IF t.asks THEN << Question >> ELSE << >>
AskMsgs(t) == IF t.asks THEN << Message("user", << Question >>) >> ELSE << >>

\* The contents of a turn: the results of calls, the question, the answer.
TurnContents(t, resps, answer) ==
  (NotEmpty("user", resps) \o NotEmpty("user", Asking(t))) \o NotEmpty("model", answer)

\* A question is one text part, which signing leaves alone.
LEMMA QuestionIs ==
  /\ Question \in PlainPart /\ Question.kind = "text" /\ Question.id = 0
  /\ SignFirst(<< Question >>) = << Question >>
<1>1. Question \in PlainPart /\ Question.kind = "text" /\ Question.id = 0
  BY Words DEF Question, Part, PlainPart, PartRec, Unknown
<1>2. Open(<< Question >>) = {}  BY <1>1 DEF Open
<1>3. SignFirst(<< Question >>) = << Question >>  BY <1>2 DEF SignFirst, Open
<1> QED BY <1>1, <1>3

\* A translation starts with nothing.
LEMMA RunStart == Run(<< >>) = Nothing /\ Nothing \in Progress /\ View(Nothing) = << >>
<1>1. << >> \in Seq(ContentRec) /\ << >> \in Seq(PartRec)  OBVIOUS
<1>2. Nothing \in Progress /\ Nothing.pending = << >> /\ Nothing.contents = << >>
  BY <1>1 DEF Nothing, Progress
<1>3. View(Nothing) = << >>  BY <1>2, ViewTyped
<1> DEFINE Is(g) == g = [t \in SUBSET (DOMAIN << >>) |->
                          IF t = {} THEN Nothing ELSE OpenAIMessage(g[t \ {Max(t)}], << >>[Max(t)])]
<1>4. Run(<< >>) = Nothing
  <2> DEFINE q == << >>
             V == Progress
             J == { << 0, Nothing >> }
  <2>1. q \in Seq(MessageRec) /\ Len(q) = 0 /\ 1 .. 0 = {}  OBVIOUS
  <2>2. \A v \in V, d \in MessageRec : OpenAIMessage(v, d) \in V  BY OpenAIMessageIs
  <2>3. \A i \in 1 .. Len(q), v \in V : << i - 1, v >> \in J => << i, OpenAIMessage(v, q[i]) >> \in J
    BY <2>1
  <2>4. << 0, Nothing >> \in J  OBVIOUS
  <2> HIDE DEF q, V, J
  <2>5. << Len(q), FoldLeft(OpenAIMessage, Nothing, q) >> \in J
    <3>1. Nothing \in V  BY <1>2 DEF V
    <3>2. q \in Seq(MessageRec)  BY <2>1
    <3> QED BY <2>2, <2>3, <2>4, <3>1, <3>2, OpenAIMessagesFold
  <2>6. FoldLeft(OpenAIMessage, Nothing, q) = Nothing  BY <2>5 DEF J
  <2> QED BY <2>6 DEF Run, q
<1> QED BY <1>2, <1>3, <1>4

\* The progress of a translation keeps its type.
LEMMA RunTyped == \A q \in Seq(MessageRec) : Run(q) \in Progress
<1>1. << >> \in Seq(PartRec)  OBVIOUS
<1>2. [role |-> "tool", parts |-> << >>] \in MessageRec  BY <1>1 DEF MessageRec
<1> QED BY <1>2, RunAppend

\* The question of a turn, and an answer.
LEMMA AskView ==
  ASSUME NEW q \in Seq(MessageRec), NEW t \in TurnRec
  PROVE  LET u == q \o AskMsgs(t) IN
         /\ AskMsgs(t) \in Seq(MessageRec) /\ u \in Seq(MessageRec)
         /\ View(Run(u)) = View(Run(q)) \o NotEmpty("user", Asking(t))
         /\ Run(q).pending = << >> => Run(u).pending = << >>
<1>0. Run(q) \in Progress  BY RunTyped
<1>1. CASE ~t.asks
  <2>1. AskMsgs(t) = << >> /\ Asking(t) = << >>  BY <1>1 DEF AskMsgs, Asking
  <2>2. q \o << >> = q /\ << >> \in Seq(MessageRec)  OBVIOUS
  <2>3. View(Run(q)) \o NotEmpty("user", << >>) = View(Run(q))
    <3> DEFINE v == View(Run(q))
    <3>1. v \in Seq(ContentRec)  BY <1>0, ViewTyped
    <3> HIDE DEF v
    <3>2. v \o << >> = v  BY <3>1
    <3> QED BY <3>2 DEF NotEmpty, v
  <2> QED BY <2>1, <2>2, <2>3
<1>2. CASE t.asks
  <2> DEFINE m == Message("user", << Question >>)
             p == << Question >>
  <2>1. AskMsgs(t) = << m >> /\ Asking(t) = p  BY <1>2 DEF AskMsgs, Asking
  <2>2. p \in Seq(PartRec)
    <3>1. Question \in PartRec  BY QuestionIs DEF PlainPart
    <3> QED BY <3>1
  <2>3. m.role = "user" /\ m.parts = p  BY DEF Message
  <2>4. m \in MessageRec
    <3> HIDE DEF p
    <3>1. m = [role |-> "user", parts |-> p]  BY DEF Message, p
    <3> QED BY <3>1, <2>2 DEF MessageRec
  <2>5. SignFirst(p) = p  BY QuestionIs
  <2> HIDE DEF m, p
  <2>6. q \o << m >> = Append(q, m) /\ << m >> \in Seq(MessageRec) /\ Append(q, m) \in Seq(MessageRec)
    BY <2>4
  <2>7. Role(m) = "user" /\ m.role # "tool"  BY <2>3 DEF Role
  <2>8. LET r == Run(Append(q, m)) IN
        r.pending = << >> /\ View(r) = View(Run(q)) \o NotEmpty(Role(m), SignFirst(m.parts))
    BY <2>4, <2>7, MessageView
  <2> QED BY <2>1, <2>3, <2>5, <2>6, <2>7, <2>8
<1> QED BY <1>1, <1>2 DEF TurnRec

\* An assistant message adds a model content.
LEMMA AnswerView ==
  ASSUME NEW q \in Seq(MessageRec), NEW parts \in Seq(PartRec)
  PROVE  LET l == << Message("assistant", parts) >>
             u == q \o l IN
         /\ l \in Seq(MessageRec) /\ u \in Seq(MessageRec) /\ Run(u).pending = << >>
         /\ View(Run(u)) = View(Run(q)) \o NotEmpty("model", SignFirst(parts))
<1> DEFINE m == Message("assistant", parts)
<1>1. m \in MessageRec /\ m.role = "assistant" /\ m.parts = parts  BY DEF Message, MessageRec
<1> HIDE DEF m
<1>2. q \o << m >> = Append(q, m) /\ << m >> \in Seq(MessageRec) /\ Append(q, m) \in Seq(MessageRec)
  BY <1>1
<1>3. Role(m) = "model" /\ m.role # "tool"  BY <1>1 DEF Role
<1>4. LET r == Run(Append(q, m)) IN
      r.pending = << >> /\ View(r) = View(Run(q)) \o NotEmpty(Role(m), SignFirst(m.parts))
  BY <1>1, <1>3, MessageView
<1> QED BY <1>1, <1>2, <1>3, <1>4 DEF m

\* The parts of an answer that a Chat Completions client sends back.
ChatParts(blocks) == OfBlocks(blocks, "call") \o OfBlocks(blocks, "text")
OpenAIAnswer(t, more) ==
  TurnContents(t, Resps(t.results, ToolNames(more)), SignFirst(ChatParts(t.blocks)))
ShimAnswer(t) == TurnContents(t, << >>, SignFirst(OfBlocks(t.blocks, "text")))

\* A part without a signature is a part.
LEMMA PlainIsPart == ASSUME NEW q \in Seq(PlainPart) PROVE q \in Seq(PartRec)
BY DEF PlainPart

\* A chat history holds no signatures.
LEMMA ChatPartsPlain ==
  ASSUME NEW blocks \in Seq(BlockRec)
  PROVE  ChatParts(blocks) \in Seq(PlainPart)
<1> DEFINE a == OfBlocks(blocks, "call")
           b == OfBlocks(blocks, "text")
<1>1. a \in Seq(PlainPart) /\ b \in Seq(PlainPart)  BY OfBlocksIs
<1> HIDE DEF a, b
<1>2. a \o b \in Seq(PlainPart)  BY <1>1
<1> QED BY <1>2 DEF a, b, ChatParts

\* One turn of a Chat Completions history adds what OpenAIAnswer says.
LEMMA OpenAITurnView ==
  ASSUME NEW q \in Seq(MessageRec), Run(q).pending = << >>, NEW t \in TurnRec, NEW more \in BOOLEAN
  PROVE  LET u == q \o OpenAIMessages(t, more) IN
         /\ OpenAIMessages(t, more) \in Seq(MessageRec) /\ u \in Seq(MessageRec)
         /\ Run(u).pending = << >> /\ View(Run(u)) = View(Run(q)) \o OpenAIAnswer(t, more)
<1> DEFINE T == ToolMsgs(t.results, more)
           A == AskMsgs(t)
           parts == ChatParts(t.blocks)
           L == << Message("assistant", parts) >>
           resps == Resps(t.results, ToolNames(more))
           x == NotEmpty("user", resps)
           y == NotEmpty("user", Asking(t))
           z == NotEmpty("model", SignFirst(parts))
           v == View(Run(q))
<1>1. t.results \in Seq(Int) /\ t.blocks \in Seq(BlockRec)  BY DEF TurnRec
<1>2. parts \in Seq(PartRec)
  <2>1. parts \in Seq(PlainPart)  BY <1>1, ChatPartsPlain
  <2> HIDE DEF parts
  <2> QED BY <2>1, PlainIsPart
<1>3. OpenAIMessages(t, more) = (T \o A) \o L  BY DEF OpenAIMessages, ToolMsgs, AskMsgs, ChatParts
<1>4. resps \in Seq(PartRec)
  <2>1. ToolNames(more) \in [Int -> Int]  BY DEF ToolNames, Unknown
  <2>2. resps \in Seq(PlainPart)  BY <1>1, <2>1, RespsTyped
  <2> HIDE DEF resps
  <2> QED BY <2>2, PlainIsPart
<1>5. Run(q) \in Progress  BY RunTyped
<1>6. v \in Seq(ContentRec) /\ v = Run(q).contents  BY <1>5, ViewTyped
<1>7. T \in Seq(MessageRec) /\ Run(q \o T).contents = Run(q).contents
      /\ Run(q \o T).pending = Run(q).pending \o resps
  BY <1>1, ToolsRun
<1> HIDE DEF resps, parts
<1>8. View(Run(q \o T)) = v \o x
  <2>1. << >> \o resps = resps  BY <1>4
  <2> QED BY <1>6, <1>7, <2>1 DEF View
<1> HIDE DEF T, v
<1>9. q \o T \in Seq(MessageRec)  BY <1>7
<1> DEFINE k == q \o T
<1>10. A \in Seq(MessageRec) /\ k \o A \in Seq(MessageRec)
       /\ View(Run(k \o A)) = View(Run(k)) \o y
  <2> HIDE DEF k
  <2>1. k \in Seq(MessageRec)  BY <1>9 DEF k
  <2> QED BY <2>1, AskView
<1> HIDE DEF A
<1> DEFINE j == k \o A
<1>11. L \in Seq(MessageRec) /\ j \o L \in Seq(MessageRec) /\ Run(j \o L).pending = << >>
       /\ View(Run(j \o L)) = View(Run(j)) \o z
  <2> HIDE DEF j, L
  <2>1. j \in Seq(MessageRec)  BY <1>10 DEF j
  <2> QED BY <1>2, <2>1, AnswerView DEF L
<1> HIDE DEF L
<1>12. j \o L = q \o ((T \o A) \o L)
  <2>1. T \in Seq(MessageRec) /\ A \in Seq(MessageRec) /\ L \in Seq(MessageRec)
    BY <1>7, <1>10, <1>11
  <2>2. Associates(q, T, A, L)  BY <2>1, ConcatFour
  <2> QED BY <2>2, Zenon DEF Associates
<1>13. x \in Seq(ContentRec) /\ y \in Seq(ContentRec) /\ z \in Seq(ContentRec)
  <2>1. Asking(t) \in Seq(PartRec)
    <3>1. Question \in PartRec  BY QuestionIs DEF PlainPart
    <3> QED BY <3>1 DEF Asking
  <2>2. SignFirst(parts) \in Seq(PartRec)  BY <1>2, SignFirstKeeps
  <2> QED BY <1>4, <2>1, <2>2, NotEmptyTyped
<1> HIDE DEF x, y, z
<1>14. ((v \o x) \o y) \o z = v \o ((x \o y) \o z)
  <2>1. v \in Seq(ContentRec)  BY <1>6
  <2>2. Associates(v, x, y, z)  BY <2>1, <1>13, ConcatFour
  <2> QED BY <2>2, Zenon DEF Associates
<1>15. View(Run(j \o L)) = v \o ((x \o y) \o z)
  <2>1. View(Run(j)) = (v \o x) \o y  BY <1>8, <1>10
  <2> QED BY <2>1, <1>11, <1>14
<1>16. OpenAIAnswer(t, more) = (x \o y) \o z
  BY DEF OpenAIAnswer, TurnContents, x, y, z, resps, parts
<1>17. (T \o A) \o L \in Seq(MessageRec)  BY <1>7, <1>10, <1>11
<1> QED BY <1>3, <1>11, <1>12, <1>15, <1>16, <1>17 DEF v

-----------------------------------------------------------------------------
(* Chat Completions histories. *)

\* The contents of a turn are contents.
LEMMA TurnContentsTyped ==
  ASSUME NEW t \in TurnRec, NEW resps \in Seq(PartRec), NEW answer \in Seq(PartRec)
  PROVE  TurnContents(t, resps, answer) \in Seq(ContentRec)
<1> DEFINE x == NotEmpty("user", resps)
           y == NotEmpty("user", Asking(t))
           z == NotEmpty("model", answer)
<1>1. Asking(t) \in Seq(PartRec)
  <2>1. Question \in PartRec  BY QuestionIs DEF PlainPart
  <2> QED BY <2>1 DEF Asking
<1>2. x \in Seq(ContentRec) /\ y \in Seq(ContentRec) /\ z \in Seq(ContentRec)
  BY <1>1, NotEmptyTyped
<1> HIDE DEF x, y, z
<1>3. (x \o y) \o z \in Seq(ContentRec)  BY <1>2, ConcatThree
<1> QED BY <1>3 DEF TurnContents, x, y, z

\* What a Chat Completions client, and the shim, sends for a turn, and what
\* becomes of it.
ChatMsgs(more) == [t \in TurnRec |-> OpenAIMessages(t, more)]
OpenAITurns(more) == [t \in TurnRec |-> OpenAIAnswer(t, more)]
ShimMsgs == [t \in TurnRec |-> ShimMessages(t)]
ShimTurns == [t \in TurnRec |-> ShimAnswer(t)]

\* The parts and the results that a Chat Completions client sends.
LEMMA ChatTyped ==
  ASSUME NEW t \in TurnRec, NEW more \in BOOLEAN
  PROVE  /\ Resps(t.results, ToolNames(more)) \in Seq(PlainPart)
         /\ ChatParts(t.blocks) \in Seq(PlainPart)
         /\ OfBlocks(t.blocks, "text") \in Seq(PlainPart)
         /\ OpenAIAnswer(t, more) \in Seq(ContentRec)
         /\ ShimAnswer(t) \in Seq(ContentRec)
<1> DEFINE r == Resps(t.results, ToolNames(more))
           a == ChatParts(t.blocks)
           b == OfBlocks(t.blocks, "text")
           e == << >>
<1>1. t.results \in Seq(Int) /\ t.blocks \in Seq(BlockRec)  BY DEF TurnRec
<1>2. ToolNames(more) \in [Int -> Int]  BY DEF ToolNames, Unknown
<1>3. r \in Seq(PlainPart)  BY <1>1, <1>2, RespsTyped
<1>4. a \in Seq(PlainPart)  BY <1>1, ChatPartsPlain
<1>5. b \in Seq(PlainPart)  BY <1>1, OfBlocksIs
<1>6. e \in Seq(PartRec)  OBVIOUS
<1> HIDE DEF r, a, b, e
<1>7. r \in Seq(PartRec) /\ SignFirst(a) \in Seq(PartRec) /\ SignFirst(b) \in Seq(PartRec)
  <2>1. r \in Seq(PartRec) /\ a \in Seq(PartRec) /\ b \in Seq(PartRec)
    BY <1>3, <1>4, <1>5, PlainIsPart
  <2> QED BY <2>1, SignFirstKeeps
<1>8. TurnContents(t, r, SignFirst(a)) \in Seq(ContentRec)  BY <1>7, TurnContentsTyped
<1>9. TurnContents(t, e, SignFirst(b)) \in Seq(ContentRec)  BY <1>6, <1>7, TurnContentsTyped
<1> QED BY <1>3, <1>4, <1>5, <1>8, <1>9 DEF r, a, b, e, OpenAIAnswer, ShimAnswer

\* A translation that merges tool messages is one of each turn by itself.
LEMMA OpenAIContentsIs ==
  ASSUME NEW h \in Seq(TurnRec), NEW more \in BOOLEAN
  PROVE  /\ Maker(OpenAITurns(more), TurnRec, ContentRec)
         /\ Contents("openai", h, more) = Gather(OpenAITurns(more), h)
<1> DEFINE g == ChatMsgs(more)
           k == OpenAITurns(more)
           P(s) == /\ Gather(g, s) \in Seq(MessageRec) /\ Run(Gather(g, s)).pending = << >>
                   /\ View(Run(Gather(g, s))) = Gather(k, s)
           J == { s \in Seq(TurnRec) : P(s) }
<1>1. Maker(k, TurnRec, ContentRec)
  <2>1. \A t \in TurnRec : OpenAIAnswer(t, more) \in Seq(ContentRec)  BY ChatTyped
  <2> QED BY <2>1 DEF Maker, OpenAITurns
<1>2. << >> \in J
  <2>1. Run(<< >>) = Nothing /\ View(Nothing) = << >> /\ Nothing.pending = << >>
    BY RunStart DEF Nothing
  <2>2. Gather(g, << >>) = << >> /\ Gather(k, << >>) = << >>  BY GatherNone
  <2>3. << >> \in Seq(TurnRec) /\ << >> \in Seq(MessageRec)  OBVIOUS
  <2> QED BY <2>1, <2>2, <2>3
<1>3. Maker(g, TurnRec, MessageRec)
  <2>1. ASSUME NEW t \in TurnRec PROVE OpenAIMessages(t, more) \in Seq(MessageRec)
    <3> DEFINE e == << >>
    <3>1. e \in Seq(MessageRec) /\ Run(e).pending = << >>  BY RunStart DEF Nothing
    <3> HIDE DEF e
    <3> QED BY <3>1, OpenAITurnView
  <2> QED BY <2>1 DEF Maker, ChatMsgs
<1>4. ASSUME NEW s \in Seq(TurnRec), NEW t \in TurnRec, s \in J PROVE Append(s, t) \in J
  <2> DEFINE q == Gather(g, s)
             u == q \o g[t]
             a == Append(s, t)
  <2>1. q \in Seq(MessageRec) /\ Run(q).pending = << >>  BY <1>4
  <2>2. View(Run(q)) = Gather(k, s)  BY <1>4
  <2>3. g[t] = OpenAIMessages(t, more) /\ k[t] = OpenAIAnswer(t, more)  BY DEF ChatMsgs, OpenAITurns
  <2> HIDE DEF g, k
  <2>4. Gather(g, a) = u /\ Gather(k, a) = Gather(k, s) \o k[t]  BY <1>1, <1>3, GatherAppend, SMTT(30)
  <2>5. a \in Seq(TurnRec)  OBVIOUS
  <2> HIDE DEF q, a
  <2>6. u \in Seq(MessageRec) /\ Run(u).pending = << >>
        /\ View(Run(u)) = View(Run(q)) \o OpenAIAnswer(t, more)
    BY <2>1, <2>3, OpenAITurnView
  <2> HIDE DEF u
  <2>7. View(Run(u)) = Gather(k, a)  BY <2>2, <2>3, <2>4, <2>6
  <2>8. P(a)  BY <2>4, <2>6, <2>7
  <2> QED BY <2>5, <2>8 DEF a
<1>5. h \in J
  <2> HIDE DEF J
  <2> QED BY <1>2, <1>4, SeqInduction
<1> DEFINE q == Gather(g, h)
<1>6. q \in Seq(MessageRec) /\ View(Run(q)) = Gather(k, h)  BY <1>5
<1>7. Contents("openai", h, more) = OpenAIContents(q)
  <2>1. Each(g, h) = [i \in DOMAIN h |-> OpenAIMessages(h[i], more)]
    <3>1. \A i \in DOMAIN h : h[i] \in TurnRec  OBVIOUS
    <3> QED BY <3>1 DEF Each, ChatMsgs
  <2>2. q = FlattenSeq([i \in DOMAIN h |-> OpenAIMessages(h[i], more)])
    BY <2>1, Zenon DEF Gather
  <2>3. Contents("openai", h, more)
          = OpenAIContents(FlattenSeq([i \in DOMAIN h |-> OpenAIMessages(h[i], more)]))
    BY DEF Contents
  <2> QED BY <2>2, <2>3
<1> HIDE DEF g, k, q
<1>8. OpenAIContents(q) = FlushToolParts(Run(q)).contents  BY DEF OpenAIContents, Run
<1>9. Run(q) \in Progress  BY <1>6, RunTyped
<1>10. FlushToolParts(Run(q)).contents = View(Run(q))  BY <1>9, FlushIs DEF View
<1> QED BY <1>1, <1>6, <1>7, <1>8, <1>10 DEF k

\* No blocks have no parts.
LEMMA NoBlocks ==
  /\ \A kind : OfBlocks(<< >>, kind) = << >>
  /\ AllParts(<< >>) = << >> /\ SignFirst(<< >>) = << >>
  /\ \A kind : KeptIn(<< >>, kind) = << >>
<1>1. \A kind : OfBlocks(<< >>, kind) = FlattenSeq(<< >>)
  <2>1. ASSUME NEW kind
        PROVE  [i \in DOMAIN << >> |-> IF << >>[i].kind = kind THEN PartsOf(<< >>[i]) ELSE << >>]
                 = << >>
    OBVIOUS
  <2> QED BY <2>1, Zenon DEF OfBlocks
<1>2. AllParts(<< >>) = FlattenSeq(<< >>)
  <2>1. [i \in DOMAIN << >> |-> PartsOf(<< >>[i])] = << >>  OBVIOUS
  <2> QED BY <2>1, Zenon DEF AllParts
<1>3. SignFirst(<< >>) = << >>
  <2> DEFINE e == << >>
  <2>1. Open(e) = {}  BY DEF Open
  <2> QED BY <2>1 DEF SignFirst, Open
<1>4. \A kind : KeptIn(<< >>, kind) = << >>  BY GatherNone DEF KeptIn
<1> QED BY <1>1, <1>2, <1>3, <1>4, FlattenNone

\* One turn of a history kept through the shim adds what ShimAnswer says.
LEMMA ShimTurnView ==
  ASSUME NEW q \in Seq(MessageRec), Run(q).pending = << >>, NEW t \in TurnRec
  PROVE  LET u == q \o ShimMessages(t) IN
         /\ ShimMessages(t) \in Seq(MessageRec) /\ u \in Seq(MessageRec)
         /\ Run(u).pending = << >> /\ View(Run(u)) = View(Run(q)) \o ShimAnswer(t)
<1> DEFINE A == AskMsgs(t)
           parts == OfBlocks(t.blocks, "text")
           L == IF t.blocks = << >> THEN << >> ELSE << Message("assistant", parts) >>
           y == NotEmpty("user", Asking(t))
           z == NotEmpty("model", SignFirst(parts))
           v == View(Run(q))
<1>1. parts \in Seq(PartRec)
  <2>1. parts \in Seq(PlainPart)
    <3>1. t.blocks \in Seq(BlockRec)  BY DEF TurnRec
    <3> QED BY <3>1, OfBlocksIs
  <2> HIDE DEF parts
  <2> QED BY <2>1, PlainIsPart
<1>2. ShimMessages(t) = A \o L  BY DEF ShimMessages, AskMsgs
<1>3. v \in Seq(ContentRec)
  <2>1. Run(q) \in Progress  BY RunTyped
  <2> QED BY <2>1, ViewTyped
<1> DEFINE j == q \o A
<1>4. A \in Seq(MessageRec) /\ j \in Seq(MessageRec)  BY AskView
<1>5. View(Run(j)) = v \o y /\ Run(j).pending = << >>  BY AskView
<1>6. y \in Seq(ContentRec) /\ z \in Seq(ContentRec)
  <2>1. Asking(t) \in Seq(PartRec)
    <3>1. Question \in PartRec  BY QuestionIs DEF PlainPart
    <3> QED BY <3>1 DEF Asking
  <2> HIDE DEF parts
  <2>2. SignFirst(parts) \in Seq(PartRec)  BY <1>1, SignFirstKeeps
  <2> QED BY <2>1, <2>2, NotEmptyTyped
<1>7. ShimAnswer(t) = y \o z
  <2> HIDE DEF parts
  <2>1. ShimAnswer(t) = (NotEmpty("user", << >>) \o y) \o z  BY DEF ShimAnswer, TurnContents, parts
  <2>2. NotEmpty("user", << >>) = << >>  BY DEF NotEmpty
  <2> HIDE DEF y, z
  <2>3. << >> \o y = y  BY <1>6
  <2> QED BY <2>1, <2>2, <2>3
<1>8. /\ L \in Seq(MessageRec) /\ j \o L \in Seq(MessageRec) /\ Run(j \o L).pending = << >>
      /\ View(Run(j \o L)) = View(Run(j)) \o z
  <2>1. CASE t.blocks # << >>
    <3> DEFINE M == << Message("assistant", parts) >>
    <3>1. L = M  BY <2>1
    <3> HIDE DEF j, L, parts
    <3>2. M \in Seq(MessageRec) /\ j \o M \in Seq(MessageRec) /\ Run(j \o M).pending = << >>
          /\ View(Run(j \o M)) = View(Run(j)) \o z
      BY <1>1, <1>4, AnswerView
    <3> HIDE DEF M
    <3> QED BY <3>1, <3>2
  <2>2. CASE t.blocks = << >>
    <3>1. L = << >>  BY <2>2
    <3>2. z = << >>  BY <2>2, NoBlocks DEF NotEmpty
    <3> DEFINE w == View(Run(j))
               e == << >>
    <3>3. w \in Seq(ContentRec)
      <4> HIDE DEF j
      <4>1. Run(j) \in Progress  BY <1>4, RunTyped
      <4> QED BY <4>1, ViewTyped
    <3>4. Run(j).pending = << >>  BY <1>5
    <3> HIDE DEF w, j, L, z
    <3>5. w \o e = w  BY <3>3
    <3>6. j \o e = j  BY <1>4
    <3>7. e \in Seq(MessageRec)  OBVIOUS
    <3>8. View(Run(j \o L)) = w  BY <3>1, <3>6 DEF w
    <3>9. w \o z = w  BY <3>2, <3>5
    <3>10. L \in Seq(MessageRec) /\ j \o L \in Seq(MessageRec)  BY <3>1, <3>6, <3>7, <1>4
    <3>11. Run(j \o L).pending = << >>  BY <3>1, <3>4, <3>6
    <3> QED BY <3>8, <3>9, <3>10, <3>11 DEF w
  <2> QED BY <2>1, <2>2
<1> HIDE DEF y, z, v, A, L, parts
<1>9. j \o L = q \o (A \o L) /\ A \o L \in Seq(MessageRec)  BY <1>4, <1>8, ConcatThree, SMTT(30)
<1>10. (v \o y) \o z = v \o (y \o z)  BY <1>3, <1>6, ConcatThree, SMTT(30)
<1> HIDE DEF j
<1>11. View(Run(j \o L)) = v \o (y \o z)  BY <1>5, <1>8, <1>10
<1> QED BY <1>2, <1>7, <1>8, <1>9, <1>11 DEF v

\* The same for the messages the chat shim makes of a Responses client's items.
LEMMA ShimContentsIs ==
  ASSUME NEW h \in Seq(TurnRec), NEW more \in BOOLEAN
  PROVE  /\ Maker(ShimTurns, TurnRec, ContentRec)
         /\ Contents("shim", h, more) = Gather(ShimTurns, h)
<1> DEFINE g == ShimMsgs
           k == ShimTurns
           P(s) == /\ Gather(g, s) \in Seq(MessageRec) /\ Run(Gather(g, s)).pending = << >>
                   /\ View(Run(Gather(g, s))) = Gather(k, s)
           J == { s \in Seq(TurnRec) : P(s) }
<1>1. Maker(k, TurnRec, ContentRec)
  <2>1. \A t \in TurnRec : ShimAnswer(t) \in Seq(ContentRec)  BY ChatTyped
  <2> QED BY <2>1 DEF Maker, ShimTurns
<1>2. << >> \in J
  <2>1. Run(<< >>) = Nothing /\ View(Nothing) = << >> /\ Nothing.pending = << >>
    BY RunStart DEF Nothing
  <2>2. Gather(g, << >>) = << >> /\ Gather(k, << >>) = << >>  BY GatherNone
  <2>3. << >> \in Seq(TurnRec) /\ << >> \in Seq(MessageRec)  OBVIOUS
  <2> QED BY <2>1, <2>2, <2>3
<1>3. Maker(g, TurnRec, MessageRec)
  <2>1. ASSUME NEW t \in TurnRec PROVE ShimMessages(t) \in Seq(MessageRec)
    <3> DEFINE e == << >>
    <3>1. e \in Seq(MessageRec) /\ Run(e).pending = << >>  BY RunStart DEF Nothing
    <3> HIDE DEF e
    <3> QED BY <3>1, ShimTurnView
  <2> QED BY <2>1 DEF Maker, ShimMsgs
<1>4. ASSUME NEW s \in Seq(TurnRec), NEW t \in TurnRec, s \in J PROVE Append(s, t) \in J
  <2> DEFINE q == Gather(g, s)
             u == q \o g[t]
             a == Append(s, t)
  <2>1. q \in Seq(MessageRec) /\ Run(q).pending = << >>  BY <1>4
  <2>2. View(Run(q)) = Gather(k, s)  BY <1>4
  <2>3. g[t] = ShimMessages(t) /\ k[t] = ShimAnswer(t)  BY DEF ShimMsgs, ShimTurns
  <2> HIDE DEF g, k
  <2>4. Gather(g, a) = u /\ Gather(k, a) = Gather(k, s) \o k[t]  BY <1>1, <1>3, GatherAppend, SMTT(30)
  <2>5. a \in Seq(TurnRec)  OBVIOUS
  <2> HIDE DEF q, a
  <2>6. u \in Seq(MessageRec) /\ Run(u).pending = << >>
        /\ View(Run(u)) = View(Run(q)) \o ShimAnswer(t)
    BY <2>1, <2>3, ShimTurnView
  <2> HIDE DEF u
  <2>7. View(Run(u)) = Gather(k, a)  BY <2>2, <2>3, <2>4, <2>6
  <2>8. P(a)  BY <2>4, <2>6, <2>7
  <2> QED BY <2>5, <2>8 DEF a
<1>5. h \in J
  <2> HIDE DEF J
  <2> QED BY <1>2, <1>4, SeqInduction
<1> DEFINE q == Gather(g, h)
<1>6. q \in Seq(MessageRec) /\ View(Run(q)) = Gather(k, h)  BY <1>5
<1>7. Contents("shim", h, more) = OpenAIContents(q)
  <2>1. Each(g, h) = [i \in DOMAIN h |-> ShimMessages(h[i])]
    <3>1. \A i \in DOMAIN h : h[i] \in TurnRec  OBVIOUS
    <3> QED BY <3>1 DEF Each, ShimMsgs
  <2>2. q = FlattenSeq([i \in DOMAIN h |-> ShimMessages(h[i])])  BY <2>1, Zenon DEF Gather
  <2>3. Contents("shim", h, more) = OpenAIContents(FlattenSeq([i \in DOMAIN h |-> ShimMessages(h[i])]))
    BY DEF Contents
  <2> QED BY <2>2, <2>3
<1> HIDE DEF g, k, q
<1>8. OpenAIContents(q) = FlushToolParts(Run(q)).contents  BY DEF OpenAIContents, Run
<1>9. Run(q) \in Progress  BY <1>6, RunTyped
<1>10. FlushToolParts(Run(q)).contents = View(Run(q))  BY <1>9, FlushIs DEF View
<1> QED BY <1>1, <1>6, <1>7, <1>8, <1>10 DEF k

-----------------------------------------------------------------------------
(* Messages histories: one turn. *)

\* A content added after the pending results.
LEMMA AddFlushed ==
  ASSUME NEW c \in Progress, NEW role \in {"user", "model"}, NEW parts \in Seq(PartRec)
  PROVE  LET r == AddContent(FlushToolParts(c), role, parts) IN
         /\ r \in Progress /\ r.pending = << >> /\ View(r) = View(c) \o NotEmpty(role, parts)
<1> DEFINE a == FlushToolParts(c)
           r == AddContent(a, role, parts)
<1>1. a \in Progress /\ a.pending = << >> /\ a.contents = View(c)  BY FlushIs DEF View
<1> HIDE DEF a
<1>2. r \in Progress /\ r.pending = a.pending /\ r.contents = a.contents \o NotEmpty(role, parts)
  BY <1>1, AddContentIs
<1> HIDE DEF r
<1>3. View(r) = r.contents  BY <1>1, <1>2, ViewTyped
<1> QED BY <1>1, <1>2, <1>3 DEF r, a

\* Nothing is added to the view of a translation by an empty content.
LEMMA ViewUnit ==
  ASSUME NEW c \in Progress, NEW role
  PROVE  View(c) \o NotEmpty(role, << >>) = View(c)
<1> DEFINE v == View(c)
           e == << >>
<1>1. v \in Seq(ContentRec)  BY ViewTyped
<1> HIDE DEF v, e
<1>2. v \o << >> = v  BY <1>1
<1>3. NotEmpty(role, e) = << >>  BY DEF NotEmpty, e
<1> QED BY <1>2, <1>3 DEF v, e

\* A turn whose results name their functions, and what becomes of it.
NamedRec == [results : Seq(PlainPart), asks : BOOLEAN, blocks : Seq(BlockRec)]
NamedContents(t) == TurnContents(t, t.results, SignFirst(AllParts(t.blocks)))

\* The parts and results of such a turn.
LEMMA NamedTyped ==
  ASSUME NEW t \in NamedRec
  PROVE  /\ t.results \in Seq(PartRec) /\ AllParts(t.blocks) \in Seq(PlainPart)
         /\ SignFirst(AllParts(t.blocks)) \in Seq(PartRec) /\ Asking(t) \in Seq(PartRec)
<1> DEFINE p == AllParts(t.blocks)
           r == t.results
<1>1. r \in Seq(PlainPart) /\ t.blocks \in Seq(BlockRec)  BY DEF NamedRec
<1>2. p \in Seq(PlainPart)  BY <1>1, AllPartsIs
<1> HIDE DEF p, r
<1>3. p \in Seq(PartRec) /\ r \in Seq(PartRec)  BY <1>1, <1>2, PlainIsPart
<1>4. SignFirst(p) \in Seq(PartRec)  BY <1>3, SignFirstKeeps
<1>5. Asking(t) \in Seq(PartRec)
  <2>1. Question \in PartRec  BY QuestionIs DEF PlainPart
  <2> QED BY <2>1 DEF Asking
<1> QED BY <1>2, <1>3, <1>4, <1>5 DEF p, r

\* A turn adds its contents, if it has no results while others are pending.
LEMMA ClaudeTurnIs ==
  ASSUME NEW c \in Progress, NEW t \in NamedRec, c.pending # << >> => t.results = << >>
  PROVE  LET r == ClaudeTurn(c, t) IN
         /\ r \in Progress /\ View(r) = View(c) \o NamedContents(t)
         /\ r.pending # << >> => t.blocks = << >>
<1> DEFINE x == NotEmpty("user", t.results)
           y == NotEmpty("user", Asking(t))
           p == SignFirst(AllParts(t.blocks))
           z == NotEmpty("model", p)
           v == View(c)
           held == IF t.results = << >> THEN FlushToolParts(c)
                   ELSE [c EXCEPT !.pending = @ \o t.results]
           asked == IF t.asks THEN AddContent(FlushToolParts(held), "user", << Question >>) ELSE held
           r == IF t.blocks = << >> THEN asked
                ELSE AddContent(FlushToolParts(asked), "model", p)
<1>1. ClaudeTurn(c, t) = r  BY DEF ClaudeTurn, ClaudeUser, ClaudeAssistant, AllParts
<1>2. /\ t.results \in Seq(PartRec) /\ p \in Seq(PartRec) /\ Asking(t) \in Seq(PartRec)
      /\ t.asks \in BOOLEAN
  BY NamedTyped DEF NamedRec
<1>3. held \in Progress /\ View(held) = v \o x
  <2>1. CASE t.results = << >>
    <3> DEFINE a == FlushToolParts(c)
    <3>1. a \in Progress /\ a.pending = << >> /\ a.contents = v  BY FlushIs DEF View
    <3> HIDE DEF a
    <3>2. View(a) = v  BY <3>1, ViewTyped
    <3>3. v \o x = v  BY <2>1, ViewUnit
    <3>4. held = a  BY <2>1 DEF a
    <3> QED BY <3>1, <3>2, <3>3, <3>4
  <2>2. CASE t.results # << >>
    <3> DEFINE s == t.results
               a == [c EXCEPT !.pending = @ \o s]
    <3>1. c.pending = << >>  BY <2>2
    <3>2. held = a  BY <2>2
    <3> HIDE DEF s
    <3>3. << >> \o s = s /\ s \in Seq(PartRec)  BY <1>2 DEF s
    <3>4. a \in Progress /\ a.contents = c.contents /\ a.pending = s
      BY <3>1, <3>3 DEF Progress
    <3>5. v = c.contents  BY <3>1, ViewTyped
    <3> HIDE DEF a
    <3>6. View(a) = v \o NotEmpty("user", s)  BY <3>4, <3>5 DEF View
    <3> QED BY <3>2, <3>4, <3>6 DEF s
  <2> QED BY <2>1, <2>2
<1> HIDE DEF held
<1>4. asked \in Progress /\ View(asked) = (v \o x) \o y
  <2>1. CASE t.asks
    <3> DEFINE q == << Question >>
               a == AddContent(FlushToolParts(held), "user", q)
    <3>1. q \in Seq(PartRec) /\ Asking(t) = q  BY <1>2, <2>1 DEF Asking
    <3> HIDE DEF q
    <3>2. a \in Progress /\ View(a) = View(held) \o NotEmpty("user", q)  BY <1>3, <3>1, AddFlushed
    <3>3. asked = a  BY <2>1 DEF q
    <3> HIDE DEF a, asked
    <3> QED BY <3>1, <3>2, <3>3, <1>3
  <2>2. CASE ~t.asks
    <3>1. asked = held /\ Asking(t) = << >>  BY <2>2 DEF Asking
    <3> HIDE DEF asked
    <3>2. View(held) \o y = View(held)  BY <3>1, <1>3, ViewUnit
    <3> QED BY <3>1, <3>2, <1>3
  <2> QED BY <2>1, <2>2, <1>2
<1> HIDE DEF asked, p
<1>5. r \in Progress /\ View(r) = ((v \o x) \o y) \o z /\ (r.pending # << >> => t.blocks = << >>)
  <2>1. CASE t.blocks # << >>
    <3> DEFINE a == AddContent(FlushToolParts(asked), "model", p)
    <3>1. a \in Progress /\ a.pending = << >> /\ View(a) = View(asked) \o z
      BY <1>2, <1>4, AddFlushed
    <3>2. r = a  BY <2>1
    <3> HIDE DEF a, r
    <3> QED BY <3>1, <3>2, <1>4
  <2>2. CASE t.blocks = << >>
    <3>1. p = << >>  BY <2>2, NoBlocks DEF p
    <3>2. View(asked) \o z = View(asked)  BY <1>4, <3>1, ViewUnit
    <3>3. r = asked  BY <2>2
    <3> HIDE DEF r, z
    <3> QED BY <2>2, <3>2, <3>3, <1>4
  <2> QED BY <2>1, <2>2
<1> HIDE DEF r
<1>6. x \in Seq(ContentRec) /\ y \in Seq(ContentRec) /\ z \in Seq(ContentRec)
  BY <1>2, NotEmptyTyped
<1>7. v \in Seq(ContentRec)  BY ViewTyped
<1> HIDE DEF x, y, z, v
<1>8. Associates(v, x, y, z)  BY <1>6, <1>7, ConcatFour
<1>9. NamedContents(t) = (x \o y) \o z  BY DEF NamedContents, TurnContents, x, y, z, p
<1>10. View(r) = v \o ((x \o y) \o z)  BY <1>5, <1>8, Zenon DEF Associates
<1> QED BY <1>1, <1>5, <1>9, <1>10 DEF v

\* Induction over the turns, for ClaudeTurn.
LEMMA ClaudeTurnsFold ==
  ASSUME NEW V, NEW D, NEW base \in V, NEW q \in Seq(D),
         \A v \in V, d \in D : ClaudeTurn(v, d) \in V,
         NEW J, << 0, base >> \in J,
         \A i \in 1 .. Len(q), v \in V :
           << i - 1, v >> \in J => << i, ClaudeTurn(v, q[i]) >> \in J
  PROVE  /\ FoldLeft(ClaudeTurn, base, q) \in V
         /\ << Len(q), FoldLeft(ClaudeTurn, base, q) >> \in J
<1> DEFINE f == [x \in V \X D |-> ClaudeTurn(x[1], x[2])]
           Is(g) == g = [t \in SUBSET (DOMAIN q) |->
                           IF t = {} THEN base ELSE ClaudeTurn(g[t \ {Max(t)}], q[Max(t)])]
           c == CHOOSE g : Is(g)
<1>1. f \in [V \X D -> V] /\ \A v \in V, d \in D : f[<< v, d >>] = ClaudeTurn(v, d)  OBVIOUS
<1>2. DOMAIN q = 1 .. Len(q) /\ \A i \in 1 .. Len(q) : q[i] \in D  OBVIOUS
<1>3. \A t \in SUBSET (1 .. Len(q)) : t \ {Max(t)} \in SUBSET (1 .. Len(q))  OBVIOUS
<1> HIDE DEF f
<1>4. PICK g \in [SUBSET (1 .. Len(q)) -> V] : Folds(g, f, base, q, Len(q))  BY <1>1, FoldExists
<1>5. Is(g)
  <2>1. ASSUME NEW t \in SUBSET (1 .. Len(q))
        PROVE  g[t] = IF t = {} THEN base ELSE ClaudeTurn(g[t \ {Max(t)}], q[Max(t)])
    <3>1. CASE t # {}
      <4>1. Max(t) \in 1 .. Len(q) /\ g[t] = f[<< g[t \ {Max(t)}], q[Max(t)] >>]
        BY <1>4, <3>1 DEF Folds
      <4>2. g[t \ {Max(t)}] \in V  BY <1>3, <1>4
      <4> QED BY <4>1, <4>2, <1>1, <1>2, <3>1
    <3>2. CASE t = {}  BY <1>4, <3>2 DEF Folds
    <3> QED BY <3>1, <3>2
  <2> QED BY <2>1, <1>2, <1>4
<1>6. Is(c)  BY <1>5
<1>7. FoldLeft(ClaudeTurn, base, q) = c[1 .. Len(q)]
  BY <1>2, Zenon DEF FoldLeft, MapThenFoldSet
<1> HIDE DEF c
<1>8. c[{}] = base /\ \A t \in SUBSET (1 .. Len(q)) :
        t # {} => c[t] = ClaudeTurn(c[t \ {Max(t)}], q[Max(t)])  BY <1>2, <1>6
<1>9. \A t \in SUBSET (1 .. Len(q)) : t # {} => Max(t) \in 1 .. Len(q)  BY <1>4 DEF Folds
<1>10. \A t \in SUBSET (1 .. Len(q)) :
         t # {} /\ c[t \ {Max(t)}] \in V => c[t] = f[<< c[t \ {Max(t)}], q[Max(t)] >>]
  BY <1>1, <1>2, <1>8, <1>9
<1>11. \A i \in 1 .. Len(q), v \in V : << i - 1, v >> \in J => << i, f[<< v, q[i] >>] >> \in J
  BY <1>1, <1>2
<1>12. c[1 .. Len(q)] \in V /\ << Len(q), c[1 .. Len(q)] >> \in J
  <2>1. Steps(c, f, V, base, q)  BY <1>8, <1>10 DEF Steps
  <2>2. Keeps(J, f, V, base, q)  BY <1>11 DEF Keeps
  <2> QED BY <1>1, <2>1, <2>2, FoldInduction
<1> QED BY <1>7, <1>12

-----------------------------------------------------------------------------
(* Messages histories. *)

\* A turn keeps the type of the translation, whatever is pending.
LEMMA ClaudeTurnTyped ==
  ASSUME NEW c \in Progress, NEW t \in NamedRec
  PROVE  ClaudeTurn(c, t) \in Progress
<1> DEFINE p == SignFirst(AllParts(t.blocks))
           s == t.results
           a == [c EXCEPT !.pending = @ \o s]
           held == IF t.results = << >> THEN FlushToolParts(c) ELSE a
           q == << Question >>
           asked == IF t.asks THEN AddContent(FlushToolParts(held), "user", q) ELSE held
           r == IF t.blocks = << >> THEN asked
                ELSE AddContent(FlushToolParts(asked), "model", p)
<1>1. ClaudeTurn(c, t) = r  BY DEF ClaudeTurn, ClaudeUser, ClaudeAssistant, AllParts
<1>2. s \in Seq(PartRec) /\ p \in Seq(PartRec)  BY NamedTyped
<1>3. q \in Seq(PartRec)
  <2>1. Question \in PartRec  BY QuestionIs DEF PlainPart
  <2> QED BY <2>1
<1> HIDE DEF p, s, q
<1>4. a \in Progress
  <2>1. c.pending \in Seq(PartRec)  BY DEF Progress
  <2>2. c.pending \o s \in Seq(PartRec)  BY <1>2, <2>1
  <2> QED BY <2>2 DEF Progress
<1> HIDE DEF a
<1>5. held \in Progress  BY <1>4, FlushIs
<1> HIDE DEF held
<1>6. asked \in Progress  BY <1>3, <1>5, AddFlushed
<1> HIDE DEF asked
<1>7. r \in Progress  BY <1>2, <1>6, AddFlushed
<1> QED BY <1>1, <1>7

\* The results of a turn are those of the calls in the answer before it.
Linked(h) ==
  \A i \in DOMAIN h :
    h[i].results = IF i = 1 THEN << >> ELSE KeptIn(h[i - 1].blocks, "call")

NamesOf(h) == [x \in Int |-> ToolName(h, x)]
ClaudeAnswer(h, t) ==
  TurnContents(t, Resps(t.results, NamesOf(h)), SignFirst(AllParts(t.blocks)))
ClaudeSent(h) == [t \in TurnRec |-> ClaudeAnswer(h, t)]

\* The parts and results of a Messages client's turn.
LEMMA ClaudeTyped ==
  ASSUME NEW h, NEW t \in TurnRec
  PROVE  /\ NamesOf(h) \in [Int -> Int]
         /\ Resps(t.results, NamesOf(h)) \in Seq(PlainPart)
         /\ AllParts(t.blocks) \in Seq(PlainPart)
         /\ ClaudeAnswer(h, t) \in Seq(ContentRec)
<1> DEFINE r == Resps(t.results, NamesOf(h))
           p == AllParts(t.blocks)
<1>1. t.results \in Seq(Int) /\ t.blocks \in Seq(BlockRec)  BY DEF TurnRec
<1>2. NamesOf(h) \in [Int -> Int]  BY DEF NamesOf, ToolName, Unknown
<1>3. r \in Seq(PlainPart)  BY <1>1, <1>2, RespsTyped
<1>4. p \in Seq(PlainPart)  BY <1>1, AllPartsIs
<1> HIDE DEF r, p
<1>5. r \in Seq(PartRec) /\ p \in Seq(PartRec)  BY <1>3, <1>4, PlainIsPart
<1>6. SignFirst(p) \in Seq(PartRec)  BY <1>5, SignFirstKeeps
<1>7. TurnContents(t, r, SignFirst(p)) \in Seq(ContentRec)  BY <1>5, <1>6, TurnContentsTyped
<1> QED BY <1>2, <1>3, <1>4, <1>7 DEF r, p, ClaudeAnswer

\* The turns as the translation of Messages meets them.
LEMMA ClaudeTurnsAre ==
  ASSUME NEW h \in Seq(TurnRec)
  PROVE  LET q == ClaudeTurns(h) IN
         /\ q \in Seq(NamedRec) /\ Len(q) = Len(h)
         /\ \A i \in 1 .. Len(h) :
              /\ q[i].results = Resps(h[i].results, NamesOf(h))
              /\ q[i].asks = h[i].asks /\ q[i].blocks = h[i].blocks
<1> DEFINE q == ClaudeTurns(h)
<1>1. DOMAIN h = 1 .. Len(h) /\ Len(h) \in Nat /\ \A i \in 1 .. Len(h) : h[i] \in TurnRec  OBVIOUS
<1>2. ASSUME NEW t \in TurnRec
      PROVE  ClaudeResults(h, t.results) = Resps(t.results, NamesOf(h))
  <2>1. \A i \in DOMAIN t.results : t.results[i] \in Int  BY DEF TurnRec
  <2>2. \A x \in Int : NamesOf(h)[x] = ToolName(h, x)  BY DEF NamesOf
  <2> QED BY <2>1, <2>2 DEF ClaudeResults, Resps
<1>3. \A t \in TurnRec : Resps(t.results, NamesOf(h)) \in Seq(PlainPart)  BY ClaudeTyped
<1>4. q = [i \in 1 .. Len(h) |-> [h[i] EXCEPT !.results = Resps(h[i].results, NamesOf(h))]]
  BY <1>1, <1>2 DEF ClaudeTurns
<1> HIDE DEF q
<1>5. ASSUME NEW i \in 1 .. Len(h)
      PROVE  /\ q[i] \in NamedRec
             /\ q[i].results = Resps(h[i].results, NamesOf(h))
             /\ q[i].asks = h[i].asks /\ q[i].blocks = h[i].blocks
  <2> DEFINE t == h[i]
             r == Resps(t.results, NamesOf(h))
  <2>1. q[i] = [t EXCEPT !.results = r]  BY <1>4
  <2>2. t \in TurnRec /\ r \in Seq(PlainPart)  BY <1>1, <1>3
  <2> HIDE DEF t, r
  <2>3. q[i] \in NamedRec /\ q[i].results = r /\ q[i].asks = t.asks /\ q[i].blocks = t.blocks
    BY <2>1, <2>2 DEF TurnRec, NamedRec
  <2> QED BY <2>3 DEF t, r
<1>6. q \in Seq(NamedRec) /\ Len(q) = Len(h)
  <2>1. q = [i \in 1 .. Len(h) |-> q[i]]  BY <1>4
  <2>2. \A i \in 1 .. Len(h) : q[i] \in NamedRec  BY <1>5
  <2> QED BY <1>1, <2>1, <2>2
<1> QED BY <1>5, <1>6 DEF q

\* The translation of Messages is one of each turn by itself.
LEMMA ClaudeContentsIs ==
  ASSUME NEW h \in Seq(TurnRec), Linked(h), NEW more
  PROVE  /\ Maker(ClaudeSent(h), TurnRec, ContentRec)
         /\ Contents("claude", h, more) = Gather(ClaudeSent(h), h)
<1> DEFINE q == ClaudeTurns(h)
           n == Len(h)
           k == [t \in NamedRec |-> NamedContents(t)]
           Pre(i) == SubSeq(q, 1, i)
           r == FoldLeft(ClaudeTurn, Nothing, q)
<1>1. q \in Seq(NamedRec) /\ Len(q) = n /\ n \in Nat
  <2>1. q \in Seq(NamedRec) /\ Len(q) = n  BY ClaudeTurnsAre
  <2> QED BY <2>1
<1>2. ASSUME NEW i \in 1 .. n
      PROVE  /\ q[i].results = Resps(h[i].results, NamesOf(h))
             /\ q[i].asks = h[i].asks /\ q[i].blocks = h[i].blocks
  BY ClaudeTurnsAre
<1>3. Maker(ClaudeSent(h), TurnRec, ContentRec)
  <2>1. \A t \in TurnRec : ClaudeAnswer(h, t) \in Seq(ContentRec)  BY ClaudeTyped
  <2> QED BY <2>1 DEF Maker, ClaudeSent
<1>4. Maker(k, NamedRec, ContentRec)
  <2>1. ASSUME NEW t \in NamedRec PROVE NamedContents(t) \in Seq(ContentRec)
    <3>1. t.results \in Seq(PartRec) /\ SignFirst(AllParts(t.blocks)) \in Seq(PartRec)
      BY NamedTyped
    <3> DEFINE a == t.results
               b == SignFirst(AllParts(t.blocks))
               none == << >>
               u == [results |-> none, asks |-> t.asks, blocks |-> t.blocks]
    <3>2. u \in TurnRec /\ u.asks = t.asks
      <4>1. none \in Seq(Int \ {0})  OBVIOUS
      <4> HIDE DEF none
      <4> QED BY <4>1 DEF TurnRec, NamedRec
    <3>3. Asking(u) = Asking(t)  BY <3>2 DEF Asking
    <3> HIDE DEF u, a, b
    <3>4. TurnContents(u, a, b) \in Seq(ContentRec)  BY <3>1, <3>2, TurnContentsTyped DEF a, b
    <3> QED BY <3>3, <3>4 DEF NamedContents, TurnContents, a, b
  <2> QED BY <2>1 DEF Maker
<1>5. ASSUME NEW i \in 2 .. n, h[i - 1].blocks = << >> PROVE q[i].results = << >>
  <2>1. i \in DOMAIN h /\ i # 1 /\ i \in 1 .. n  OBVIOUS
  <2>2. h[i].results = KeptIn(h[i - 1].blocks, "call")  BY <2>1 DEF Linked
  <2>3. h[i].results = << >>  BY <2>2, <1>5, NoBlocks
  <2>4. q[i].results = Resps(<< >>, NamesOf(h))  BY <2>1, <2>3, <1>2
  <2> QED BY <2>4 DEF Resps
<1>6. ASSUME NEW i \in 2 .. n, q[i - 1].blocks = << >> PROVE q[i].results = << >>
  <2>1. i - 1 \in 1 .. n  OBVIOUS
  <2>2. h[i - 1].blocks = << >>  BY <2>1, <1>2, <1>6
  <2> QED BY <2>2, <1>5
<1> HIDE DEF q
<1>7. Pre(0) = << >> /\ Pre(n) = q  BY <1>1
<1>8. ASSUME NEW i \in 1 .. n
      PROVE  Pre(i) = Append(Pre(i - 1), q[i]) /\ Pre(i - 1) \in Seq(NamedRec) /\ q[i] \in NamedRec
  BY <1>1
<1> DEFINE J == { x \in (0 .. n) \X Progress :
                    /\ View(x[2]) = Gather(k, Pre(x[1]))
                    /\ x[2].pending # << >> => x[1] # 0 /\ q[x[1]].blocks = << >> }
<1> HIDE DEF Pre
<1>9. << 0, Nothing >> \in J
  <2>1. Nothing \in Progress /\ View(Nothing) = << >> /\ Nothing.pending = << >>
    BY RunStart DEF Nothing
  <2> HIDE DEF k
  <2>2. Gather(k, Pre(0)) = << >>  BY <1>7, GatherNone
  <2> QED BY <2>1, <2>2, <1>1
<1>10. ASSUME NEW i \in 1 .. Len(q), NEW v \in Progress, << i - 1, v >> \in J
       PROVE  << i, ClaudeTurn(v, q[i]) >> \in J
  <2> DEFINE t == q[i]
             w == ClaudeTurn(v, t)
             s == Pre(i - 1)
  <2>1. i \in 1 .. n /\ s \in Seq(NamedRec) /\ t \in NamedRec /\ Pre(i) = Append(s, t)
    BY <1>1, <1>8
  <2>2. View(v) = Gather(k, s) /\ (v.pending # << >> => i - 1 # 0 /\ q[i - 1].blocks = << >>)
    BY <1>10
  <2>3. v.pending # << >> => t.results = << >>
    <3>1. SUFFICES ASSUME v.pending # << >> PROVE t.results = << >>  OBVIOUS
    <3>2. i - 1 # 0 /\ q[i - 1].blocks = << >>  BY <2>2, <3>1
    <3>3. i \in 2 .. n  BY <2>1, <3>2
    <3> QED BY <1>6, <3>2, <3>3
  <2>4. k[t] = NamedContents(t)  BY <2>1
  <2> HIDE DEF k, t, s
  <2>5. Gather(k, Append(s, t)) = Gather(k, s) \o k[t]  BY <2>1, <1>4, GatherAppend
  <2>6. w \in Progress /\ View(w) = View(v) \o NamedContents(t)
        /\ (w.pending # << >> => t.blocks = << >>)
    BY <2>1, <2>3, ClaudeTurnIs
  <2> HIDE DEF w
  <2>7. View(w) = Gather(k, Pre(i))  BY <2>1, <2>2, <2>4, <2>5, <2>6
  <2>8. w.pending # << >> => i # 0 /\ q[i].blocks = << >>  BY <2>1, <2>6 DEF t
  <2>9. << i, w >> \in (0 .. n) \X Progress  BY <2>1, <2>6
  <2> HIDE DEF J
  <2>10. << i, w >> \in J  BY <2>7, <2>8, <2>9 DEF J
  <2> QED BY <2>10 DEF w, t
<1>11. \A v \in Progress, d \in NamedRec : ClaudeTurn(v, d) \in Progress  BY ClaudeTurnTyped
<1>12. Nothing \in Progress  BY RunStart
<1> HIDE DEF k
<1>13. r \in Progress /\ << Len(q), r >> \in J
  <2> HIDE DEF J
  <2>1. \A i \in 1 .. Len(q), v \in Progress :
          << i - 1, v >> \in J => << i, ClaudeTurn(v, q[i]) >> \in J
    BY <1>10
  <2>2. q \in Seq(NamedRec)  BY <1>1
  <2> QED BY <1>9, <1>11, <1>12, <2>1, <2>2, ClaudeTurnsFold
<1>14. View(r) = Gather(k, q)
  <2>1. << n, r >> \in J  BY <1>1, <1>13
  <2> QED BY <2>1, <1>7
<1> HIDE DEF J, r
<1>15. Contents("claude", h, more) = FlushToolParts(r).contents
  BY DEF Contents, ClaudeContents, r, q
<1>16. FlushToolParts(r).contents = View(r)  BY <1>13, FlushIs DEF View
<1>17. Gather(k, q) = Gather(ClaudeSent(h), h)
  <2>1. ASSUME NEW i \in 1 .. n PROVE k[q[i]] = ClaudeSent(h)[h[i]]
    <3>1. h[i] \in TurnRec /\ q[i] \in NamedRec  BY <1>8
    <3>2. Asking(q[i]) = Asking(h[i])  BY <1>2 DEF Asking
    <3>3. NamedContents(q[i]) = ClaudeAnswer(h, h[i])
      <4>1. q[i].results = Resps(h[i].results, NamesOf(h)) /\ q[i].blocks = h[i].blocks  BY <1>2
      <4> QED BY <3>2, <4>1 DEF NamedContents, ClaudeAnswer, TurnContents
    <3> QED BY <3>1, <3>3 DEF k, ClaudeSent
  <2>2. DOMAIN q = 1 .. n /\ DOMAIN h = 1 .. n  BY <1>1
  <2>3. Each(k, q) = Each(ClaudeSent(h), h)  BY <2>1, <2>2 DEF Each
  <2> QED BY <2>3, Zenon DEF Gather
<1> QED BY <1>3, <1>14, <1>15, <1>16, <1>17

-----------------------------------------------------------------------------
(* Responses and Gemini histories. *)

\* The items of a block and the contents of a Responses client's turn.
Items(more) == [b \in BlockRec |-> ResponsesItem(b, more)]
ResultItems(results, names) ==
  [i \in DOMAIN results |-> Content("user", << Response(results[i], names[results[i]]) >>)]
AskItems(t) == IF t.asks THEN << Content("user", << Question >>) >> ELSE << >>
ResponsesAnswer(h, t, more) ==
  (ResultItems(t.results, NamesOf(h)) \o AskItems(t)) \o Gather(Items(more), t.blocks)
ResponsesSent(h, more) == [t \in TurnRec |-> ResponsesAnswer(h, t, more)]

\* The parts of a block, and those of an item.
LEMMA ItemTyped ==
  ASSUME NEW b \in BlockRec
  PROVE  PartsOf(b) \in Seq(PlainPart) /\ PartsOf(b) \in Seq(PartRec)
         /\ SignFirst(PartsOf(b)) \in Seq(PartRec)
<1> DEFINE p == PartsOf(b)
<1>1. p \in Seq(PlainPart)
  <2>1. Maker(EveryPart, BlockRec, PlainPart) /\ EveryPart[b] = p  BY BlockMakers DEF EveryPart
  <2> QED BY <2>1 DEF Maker
<1> HIDE DEF p
<1>2. p \in Seq(PartRec)  BY <1>1, PlainIsPart
<1>3. SignFirst(p) \in Seq(PartRec)  BY <1>2, SignFirstKeeps
<1> QED BY <1>1, <1>2, <1>3 DEF p

\* The items of a Responses history are typed.
LEMMA ResponsesTyped ==
  ASSUME NEW h, NEW t \in TurnRec, NEW more
  PROVE  /\ ResultItems(t.results, NamesOf(h)) \in Seq(ContentRec)
         /\ AskItems(t) \in Seq(ContentRec)
         /\ Maker(Items(more), BlockRec, ContentRec)
         /\ Gather(Items(more), t.blocks) \in Seq(ContentRec)
         /\ ResponsesAnswer(h, t, more) \in Seq(ContentRec)
<1> DEFINE a == ResultItems(t.results, NamesOf(h))
           b == AskItems(t)
           g == Items(more)
           c == Gather(g, t.blocks)
<1>1. t.results \in Seq(Int) /\ t.blocks \in Seq(BlockRec)  BY DEF TurnRec
<1>2. NamesOf(h) \in [Int -> Int]  BY ClaudeTyped
<1>3. a \in Seq(ContentRec)
  <2>1. ASSUME NEW x \in Int PROVE Content("user", << Response(x, NamesOf(h)[x]) >>) \in ContentRec
    <3>1. Response(x, NamesOf(h)[x]) \in PartRec  BY <1>2 DEF Response, PartRec
    <3> DEFINE q == << Response(x, NamesOf(h)[x]) >>
    <3>2. q \in Seq(PartRec)  BY <3>1
    <3> HIDE DEF q
    <3> QED BY <3>2 DEF Content, ContentRec, q
  <2>2. \A i \in DOMAIN t.results : t.results[i] \in Int  BY <1>1
  <2>3. DOMAIN t.results = 1 .. Len(t.results) /\ Len(t.results) \in Nat  BY <1>1
  <2> QED BY <2>1, <2>2, <2>3 DEF ResultItems
<1>4. b \in Seq(ContentRec)
  <2> DEFINE q == << Question >>
  <2>1. Question \in PartRec  BY QuestionIs DEF PlainPart
  <2>2. q \in Seq(PartRec)  BY <2>1
  <2> HIDE DEF q
  <2>3. Content("user", q) \in ContentRec  BY <2>2 DEF Content, ContentRec
  <2> QED BY <2>3 DEF AskItems, q
<1>5. Maker(g, BlockRec, ContentRec)
  <2>1. ASSUME NEW x \in BlockRec PROVE ResponsesItem(x, more) \in Seq(ContentRec)
    <3> DEFINE p == PartsOf(x)
               s == SignFirst(p)
    <3>1. p \in Seq(PartRec) /\ s \in Seq(PartRec)  BY ItemTyped
    <3> HIDE DEF p, s
    <3>2. Content("model", p) \in ContentRec /\ Content("model", s) \in ContentRec
      BY <3>1 DEF Content, ContentRec
    <3> DEFINE u == Content("model", p)
               w == Content("model", s)
    <3>3. ResponsesItem(x, more) \in {<< u >>, << w >>, << >>}
      BY Zenon DEF ResponsesItem, p, s
    <3>4. u \in ContentRec /\ w \in ContentRec  BY <3>2
    <3> HIDE DEF u, w
    <3>5. << u >> \in Seq(ContentRec) /\ << w >> \in Seq(ContentRec) /\ << >> \in Seq(ContentRec)
      BY <3>4
    <3> QED BY <3>3, <3>5
  <2> QED BY <2>1 DEF Maker, Items
<1> HIDE DEF g
<1>6. c \in Seq(ContentRec)  BY <1>1, <1>5, EachTyped
<1> HIDE DEF a, b, c
<1>7. (a \o b) \o c \in Seq(ContentRec)  BY <1>3, <1>4, <1>6, ConcatThree
<1> QED BY <1>3, <1>4, <1>5, <1>6, <1>7 DEF a, b, c, g, ResponsesAnswer

\* The translation of Responses items is one of each turn by itself.
LEMMA ResponsesContentsIs ==
  ASSUME NEW h \in Seq(TurnRec), NEW more
  PROVE  /\ Maker(ResponsesSent(h, more), TurnRec, ContentRec)
         /\ Contents("responses", h, more) = Gather(ResponsesSent(h, more), h)
<1>1. Maker(ResponsesSent(h, more), TurnRec, ContentRec)
  <2>1. \A t \in TurnRec : ResponsesAnswer(h, t, more) \in Seq(ContentRec)  BY ResponsesTyped
  <2> QED BY <2>1 DEF Maker, ResponsesSent
<1>2. ASSUME NEW t \in TurnRec PROVE ResponsesTurn(h, t, more) = ResponsesAnswer(h, t, more)
  <2>1. \A i \in DOMAIN t.results : t.results[i] \in Int  BY DEF TurnRec
  <2>2. \A x \in Int : NamesOf(h)[x] = CallName(h, x)  BY DEF NamesOf, CallName
  <2>3. [i \in DOMAIN t.results |->
            Content("user", << Response(t.results[i], CallName(h, t.results[i])) >>)]
          = ResultItems(t.results, NamesOf(h))
    BY <2>1, <2>2 DEF ResultItems
  <2>4. \A i \in DOMAIN t.blocks : t.blocks[i] \in BlockRec  BY DEF TurnRec
  <2>5. [i \in DOMAIN t.blocks |-> ResponsesItem(t.blocks[i], more)] = Each(Items(more), t.blocks)
    BY <2>4 DEF Each, Items
  <2>6. FlattenSeq([i \in DOMAIN t.blocks |-> ResponsesItem(t.blocks[i], more)])
          = Gather(Items(more), t.blocks)
    BY <2>5, Zenon DEF Gather
  <2> QED BY <2>3, <2>6, Zenon DEF ResponsesTurn, ResponsesAnswer, AskItems
<1>3. \A i \in DOMAIN h : h[i] \in TurnRec  OBVIOUS
<1>4. [i \in DOMAIN h |-> ResponsesTurn(h, h[i], more)] = Each(ResponsesSent(h, more), h)
  BY <1>2, <1>3 DEF Each, ResponsesSent
<1>5. Contents("responses", h, more) = ResponsesContents(h, more)  BY DEF Contents
<1>6. ResponsesContents(h, more) = Gather(ResponsesSent(h, more), h)
  BY <1>4, Zenon DEF ResponsesContents, Gather
<1> QED BY <1>1, <1>5, <1>6

\* A Gemini client's turn, and a content signed by the adapter.
GeminiParts(t) == Resps(t.results, [x \in Int |-> x]) \o Asking(t)
GeminiModel(t, more) == IF more THEN SignFirst(AllParts(t.blocks)) ELSE AllParts(t.blocks)
GeminiAnswer(t, more) ==
  << Content("user", GeminiParts(t)) >> \o NotEmpty("model", GeminiModel(t, more))
GeminiSent(more) == [t \in TurnRec |-> GeminiAnswer(t, more)]
SignOf(c) == [c EXCEPT !.parts = SignFirst(@)]
Signs == [c \in ContentRec |-> << SignOf(c) >>]
GeminiTurns(more) == [t \in TurnRec |-> Gather(Signs, GeminiAnswer(t, more))]

\* The parts of a Gemini client's turn.
LEMMA GeminiTyped ==
  ASSUME NEW t \in TurnRec, NEW more \in BOOLEAN
  PROVE  /\ Resps(t.results, [x \in Int |-> x]) \in Seq(PlainPart)
         /\ Asking(t) \in Seq(PlainPart)
         /\ GeminiParts(t) \in Seq(PartRec)
         /\ AllParts(t.blocks) \in Seq(PlainPart)
         /\ GeminiModel(t, more) \in Seq(PartRec)
         /\ GeminiAnswer(t, more) \in Seq(ContentRec)
<1> DEFINE a == Resps(t.results, [x \in Int |-> x])
           b == Asking(t)
           p == AllParts(t.blocks)
<1>1. t.results \in Seq(Int) /\ t.blocks \in Seq(BlockRec)  BY DEF TurnRec
<1>2. a \in Seq(PlainPart)
  <2>1. [x \in Int |-> x] \in [Int -> Int]  OBVIOUS
  <2> DEFINE f == [x \in Int |-> x]
  <2> HIDE DEF f
  <2>2. Resps(t.results, f) \in Seq(PlainPart)  BY <1>1, <2>1, RespsTyped DEF f
  <2> QED BY <2>2 DEF f
<1>3. b \in Seq(PlainPart)
  <2>1. Question \in PlainPart  BY QuestionIs
  <2> QED BY <2>1 DEF Asking
<1>4. p \in Seq(PlainPart)  BY <1>1, AllPartsIs
<1> HIDE DEF a, b, p
<1>5. a \o b \in Seq(PlainPart)  BY <1>2, <1>3
<1> DEFINE u == GeminiParts(t)
           m == GeminiModel(t, more)
<1>6. u \in Seq(PlainPart)  BY <1>5 DEF GeminiParts, a, b
<1> HIDE DEF u
<1>7. u \in Seq(PartRec) /\ p \in Seq(PartRec)  BY <1>4, <1>6, PlainIsPart
<1>8. SignFirst(p) \in Seq(PartRec)  BY <1>7, SignFirstKeeps
<1>9. m \in Seq(PartRec)  BY <1>7, <1>8 DEF GeminiModel, p
<1> HIDE DEF m
<1>10. << Content("user", u) >> \in Seq(ContentRec)
  <2>1. Content("user", u) \in ContentRec  BY <1>7 DEF Content, ContentRec
  <2> QED BY <2>1
<1>11. NotEmpty("model", m) \in Seq(ContentRec)  BY <1>9, NotEmptyTyped
<1> DEFINE x == << Content("user", u) >>
           y == NotEmpty("model", m)
<1> HIDE DEF x, y
<1>12. x \o y \in Seq(ContentRec)  BY <1>10, <1>11 DEF x, y
<1>13. GeminiAnswer(t, more) \in Seq(ContentRec)  BY <1>12 DEF GeminiAnswer, x, y, u, m
<1> QED BY <1>2, <1>3, <1>4, <1>7, <1>9, <1>13 DEF a, b, p, u, m

\* A signed content is a content.
LEMMA SignsMake ==
  /\ Maker(Signs, ContentRec, ContentRec)
  /\ \A c \in ContentRec : SignOf(c).role = c.role /\ SignOf(c).parts = SignFirst(c.parts)
<1>1. ASSUME NEW c \in ContentRec
      PROVE  SignOf(c) \in ContentRec /\ SignOf(c).role = c.role /\ SignOf(c).parts = SignFirst(c.parts)
  <2> DEFINE p == SignFirst(c.parts)
             d == SignOf(c)
  <2>1. c.parts \in Seq(PartRec)  BY DEF ContentRec
  <2>2. p \in Seq(PartRec)  BY <2>1, SignFirstKeeps
  <2>3. d = [c EXCEPT !.parts = p]  BY DEF SignOf
  <2> HIDE DEF p, d
  <2>4. d \in ContentRec /\ d.role = c.role /\ d.parts = p  BY <2>2, <2>3 DEF ContentRec
  <2> QED BY <2>4 DEF p, d
<1>2. \A c \in ContentRec : << SignOf(c) >> \in Seq(ContentRec)
  <2>1. \A c \in ContentRec : SignOf(c) \in ContentRec  BY <1>1
  <2> QED BY <2>1
<1> QED BY <1>1, <1>2 DEF Maker, Signs

\* The translation of Gemini's own contents is one of each turn by itself.
LEMMA GeminiContentsIs ==
  ASSUME NEW h \in Seq(TurnRec), NEW more \in BOOLEAN
  PROVE  /\ Maker(GeminiTurns(more), TurnRec, ContentRec)
         /\ Contents("gemini", h, more) = Gather(GeminiTurns(more), h)
<1> DEFINE g == GeminiSent(more)
           sent == Gather(g, h)
           k == GeminiTurns(more)
<1>1. Maker(g, TurnRec, ContentRec)
  <2>1. \A t \in TurnRec : GeminiAnswer(t, more) \in Seq(ContentRec)  BY GeminiTyped
  <2> QED BY <2>1 DEF Maker, GeminiSent
<1>2. Maker(k, TurnRec, ContentRec)
  <2>1. ASSUME NEW t \in TurnRec PROVE Gather(Signs, GeminiAnswer(t, more)) \in Seq(ContentRec)
    <3> DEFINE s == GeminiAnswer(t, more)
    <3>1. s \in Seq(ContentRec)  BY GeminiTyped
    <3> HIDE DEF s
    <3>2. Gather(Signs, s) \in Seq(ContentRec)  BY <3>1, SignsMake, EachTyped
    <3> QED BY <3>2 DEF s
  <2> QED BY <2>1 DEF Maker, GeminiTurns
<1>3. ASSUME NEW t \in TurnRec PROVE GeminiTurn(t, more) = GeminiAnswer(t, more)
  <2>1. [i \in DOMAIN t.results |-> Response(t.results[i], t.results[i])]
          = Resps(t.results, [x \in Int |-> x])
    <3>1. \A i \in DOMAIN t.results : t.results[i] \in Int  BY DEF TurnRec
    <3> QED BY <3>1 DEF Resps
  <2> DEFINE p == AllParts(t.blocks)
  <2>2. p \in Seq(PartRec)
    <3>1. p \in Seq(PlainPart)  BY GeminiTyped
    <3> HIDE DEF p
    <3> QED BY <3>1, PlainIsPart
  <2>3. p = << >> <=> GeminiModel(t, more) = << >>
    <3>1. p = << >> => SignFirst(p) = << >>  BY NoBlocks
    <3>2. SignFirst(p) = << >> => p = << >>
      <4> HIDE DEF p
      <4> DEFINE r == SignFirst(p)
      <4>1. r \in Seq(PartRec) /\ Len(r) = Len(p)  BY <2>2, SignFirstKeeps DEF Keeping
      <4> HIDE DEF r
      <4>2. r = << >> => Len(p) = 0  BY <4>1
      <4>3. Len(p) = 0 => p = << >>  BY <2>2
      <4> QED BY <4>2, <4>3 DEF r
    <3> QED BY <3>1, <3>2 DEF GeminiModel
  <2> DEFINE q == IF p = << >> THEN << >>
                  ELSE << Content("model", IF more THEN SignFirst(p) ELSE p) >>
  <2>4. q = NotEmpty("model", GeminiModel(t, more))
    <3>1. CASE p = << >>  BY <3>1, <2>3 DEF NotEmpty
    <3>2. CASE p # << >>
      <4>1. GeminiModel(t, more) # << >>  BY <3>2, <2>3
      <4> HIDE DEF p
      <4>2. q = << Content("model", IF more THEN SignFirst(p) ELSE p) >>  BY <3>2
      <4>3. NotEmpty("model", GeminiModel(t, more)) = << Content("model", GeminiModel(t, more)) >>
        BY <4>1 DEF NotEmpty
      <4> QED BY <4>2, <4>3 DEF GeminiModel, p
    <3> QED BY <3>1, <3>2
  <2>5. GeminiTurn(t, more)
          = << Content("user", [i \in DOMAIN t.results |-> Response(t.results[i], t.results[i])]
                                 \o (IF t.asks THEN << Question >> ELSE << >>)) >> \o q
    BY DEF GeminiTurn, AllParts
  <2> HIDE DEF q, p
  <2> QED BY <2>1, <2>4, <2>5, Zenon DEF GeminiAnswer, GeminiParts, Asking
<1>4. sent = FlattenSeq([i \in DOMAIN h |-> GeminiTurn(h[i], more)])
  <2>1. \A i \in DOMAIN h : h[i] \in TurnRec  OBVIOUS
  <2>2. [i \in DOMAIN h |-> GeminiTurn(h[i], more)] = Each(g, h)
    BY <1>3, <2>1 DEF Each, GeminiSent
  <2> QED BY <2>2, Zenon DEF Gather
<1> HIDE DEF g
<1>5. sent \in Seq(ContentRec)  BY <1>1, EachTyped
<1>6. \A t \in TurnRec : k[t] = Gather(Signs, g[t])  BY DEF GeminiTurns, g, GeminiSent
<1> HIDE DEF k
<1>7. Gather(Signs, sent) = Gather(k, h)
  <2>1. Maker(Signs, ContentRec, ContentRec)  BY SignsMake
  <2> QED BY <1>1, <1>2, <1>6, <2>1, GatherGather
<1> HIDE DEF sent
<1>8. [i \in DOMAIN sent |-> SignOf(sent[i])] = Gather(Signs, sent)
  <2> DEFINE f == [c \in ContentRec |-> SignOf(c)]
  <2>1. \A c \in ContentRec : SignOf(c) \in ContentRec
    <3>1. \A c \in ContentRec : Signs[c] = << SignOf(c) >> /\ Signs[c] \in Seq(ContentRec)
      BY SignsMake DEF Maker, Signs
    <3>2. ASSUME NEW c \in ContentRec PROVE SignOf(c) \in ContentRec
      <4> DEFINE d == SignOf(c)
      <4>1. << d >> \in Seq(ContentRec)  BY <3>1
      <4> HIDE DEF d
      <4>2. << d >>[1] \in ContentRec  BY <4>1
      <4> QED BY <4>2 DEF d
    <3> QED BY <3>2
  <2>2. \A c \in ContentRec : f[c] \in ContentRec /\ Signs[c] = << f[c] >> /\ f[c] = SignOf(c)
    BY <2>1 DEF Signs
  <2> HIDE DEF f
  <2>3. Gather(Signs, sent) = [i \in DOMAIN sent |-> f[sent[i]]]
    <3>1. Maker(Signs, ContentRec, ContentRec)  BY SignsMake
    <3>2. \A c \in ContentRec : f[c] \in ContentRec /\ Signs[c] = << f[c] >>  BY <2>2
    <3> QED BY <1>5, <3>1, <3>2, GatherMap
  <2>4. \A i \in DOMAIN sent : f[sent[i]] = SignOf(sent[i])  BY <1>5, <2>2
  <2> QED BY <2>3, <2>4
<1>9. Contents("gemini", h, more) = GeminiContents(h, more)  BY DEF Contents
<1>10. GeminiContents(h, more) = [i \in DOMAIN sent |-> SignOf(sent[i])]
  BY <1>4, Zenon DEF GeminiContents, SignOf
<1> QED BY <1>2, <1>7, <1>8, <1>9, <1>10 DEF k

-----------------------------------------------------------------------------
(* What a history says, kind by kind. *)

\* What a content says of the model's parts of one kind.
Said(k) == [c \in ContentRec |-> IF c.role = "model" THEN OfKind(c.parts, {k}) ELSE << >>]

\* The numbers of parts.
LEMMA OfKindTyped ==
  ASSUME NEW q \in Seq(PartRec), NEW k
  PROVE  OfKind(q, {k}) \in Seq(Int)
<1> DEFINE g == Ids(PartRec, {k})
<1>1. Maker(g, PartRec, Int) /\ OfKind(q, {k}) = Gather(g, q)  BY KindsMake, OfKindIs
<1> HIDE DEF g
<1> QED BY <1>1, EachTyped

\* There are no numbers in no parts, nor of a kind that no part has.
Lacks(q, k) == \A i \in DOMAIN q : q[i].kind # k

\* Picking out a kind that is absent gives nothing.
LEMMA LacksNone ==
  ASSUME NEW q \in Seq(PartRec), NEW k, Lacks(q, k)
  PROVE  OfKind(q, {k}) = << >> /\ PartsOfKind(q, {k}) = << >>
<1> DEFINE g == Ids(PartRec, {k})
           h == Those(PartRec, {k})
<1>1. OfKind(q, {k}) = Gather(g, q) /\ PartsOfKind(q, {k}) = Gather(h, q)  BY OfKindIs
<1>2. \A i \in DOMAIN q : q[i] \in PartRec /\ q[i].kind # k  BY DEF Lacks
<1>3. \A i \in DOMAIN q : g[q[i]] = << >> /\ h[q[i]] = << >>  BY <1>2 DEF Ids, Those
<1> HIDE DEF g, h
<1>4. Gather(g, q) = << >> /\ Gather(h, q) = << >>  BY <1>3, GatherNothing
<1> QED BY <1>1, <1>4

\* Picking out what the model said of a kind is a typed gathering.
LEMMA SaidMakes == \A k : Maker(Said(k), ContentRec, Int)
<1>1. ASSUME NEW k, NEW c \in ContentRec PROVE OfKind(c.parts, {k}) \in Seq(Int)
  <2>1. c.parts \in Seq(PartRec)  BY DEF ContentRec
  <2> QED BY <2>1, OfKindTyped
<1>2. << >> \in Seq(Int)  OBVIOUS
<1> QED BY <1>1, <1>2 DEF Maker, Said

\* What is said by a content, if it is there.
LEMMA SaidIn ==
  ASSUME NEW role \in {"user", "model"}, NEW q \in Seq(PartRec), NEW k
  PROVE  Gather(Said(k), NotEmpty(role, q)) = IF role = "model" THEN OfKind(q, {k}) ELSE << >>
<1> DEFINE g == Said(k)
           c == Content(role, q)
<1>1. c \in ContentRec /\ c.role = role /\ c.parts = q  BY DEF Content, ContentRec
<1>2. g[c] = IF role = "model" THEN OfKind(q, {k}) ELSE << >>  BY <1>1 DEF Said
<1>3. Maker(g, ContentRec, Int)  BY SaidMakes
<1> HIDE DEF g, c
<1>4. Gather(g, << c >>) = g[c]  BY <1>1, <1>3, GatherOne
<1>5. CASE q # << >>
  <2>1. NotEmpty(role, q) = << c >>  BY <1>5 DEF NotEmpty, c
  <2> QED BY <2>1, <1>2, <1>4 DEF g
<1>6. CASE q = << >>
  <2>1. NotEmpty(role, q) = << >>  BY <1>6 DEF NotEmpty
  <2>2. Gather(g, << >>) = << >>  BY GatherNone
  <2>3. OfKind(q, {k}) = << >>
    <3>1. Lacks(q, k)  BY <1>6 DEF Lacks
    <3> QED BY <3>1, LacksNone
  <2> QED BY <2>1, <2>2, <2>3 DEF g
<1> QED BY <1>5, <1>6

\* Of the contents of a turn, the answer speaks for the model.
LEMMA SaidByTurn ==
  ASSUME NEW t \in TurnRec, NEW resps \in Seq(PartRec), NEW answer \in Seq(PartRec), NEW k
  PROVE  Gather(Said(k), TurnContents(t, resps, answer)) = OfKind(answer, {k})
<1> DEFINE x == NotEmpty("user", resps)
           y == NotEmpty("user", Asking(t))
           z == NotEmpty("model", answer)
           g == Said(k)
           e == OfKind(answer, {k})
<1>1. Asking(t) \in Seq(PartRec)
  <2>1. Question \in PartRec  BY QuestionIs DEF PlainPart
  <2> QED BY <2>1 DEF Asking
<1>2. x \in Seq(ContentRec) /\ y \in Seq(ContentRec) /\ z \in Seq(ContentRec)
  BY <1>1, NotEmptyTyped
<1>3. Gather(g, x) = << >> /\ Gather(g, y) = << >> /\ Gather(g, z) = e  BY <1>1, SaidIn
<1>4. Maker(g, ContentRec, Int) /\ e \in Seq(Int)  BY SaidMakes, OfKindTyped
<1> HIDE DEF x, y, z, g, e
<1> DEFINE w == x \o y
<1>5. w \in Seq(ContentRec)  BY <1>2
<1>6. Gather(g, w) = Gather(g, x) \o Gather(g, y)  BY <1>2, <1>4, GatherConcat
<1> HIDE DEF w
<1>7. Gather(g, w \o z) = Gather(g, w) \o Gather(g, z)
  <2>1. Maker(g, ContentRec, Int)  BY <1>4
  <2>2. z \in Seq(ContentRec)  BY <1>2
  <2> QED BY <1>5, <2>1, <2>2, GatherConcat
<1>8. << >> \o << >> = << >>  OBVIOUS
<1>9. << >> \o e = e  BY <1>4
<1>10. Gather(g, w) = << >>  BY <1>3, <1>6, <1>8
<1>11. Gather(g, w \o z) = e  BY <1>3, <1>7, <1>9, <1>10
<1> QED BY <1>11 DEF TurnContents, w, x, y, z, g, e

\* The parts of these kinds that the model says in a turn are those that the
\* client kept.
SaysKept(g, kinds, none) ==
  /\ \A k \in kinds, t \in TurnRec : Gather(Said(k), g[t]) = TurnKept(k)[t]
  /\ \A k \in none, t \in TurnRec : Gather(Said(k), g[t]) = << >>

\* So it is in the conversation.
LEMMA KeptBySaying ==
  ASSUME NEW h \in Seq(TurnRec), NEW g, Maker(g, TurnRec, ContentRec),
         NEW kinds, NEW none, SaysKept(g, kinds, none)
  PROVE  /\ \A k \in kinds : Gather(Said(k), Gather(g, h)) = KeptOf(h, k)
         /\ \A k \in none : Gather(Said(k), Gather(g, h)) = << >>
<1>1. ASSUME NEW k \in kinds PROVE Gather(Said(k), Gather(g, h)) = KeptOf(h, k)
  <2> DEFINE s == Said(k)
             e == TurnKept(k)
  <2>1. Maker(s, ContentRec, Int) /\ Maker(e, TurnRec, Int)  BY SaidMakes, BlockMakers
  <2>2. \A t \in TurnRec : e[t] = Gather(s, g[t])  BY DEF SaysKept
  <2> HIDE DEF s, e
  <2>3. Gather(s, Gather(g, h)) = Gather(e, h)  BY <2>1, <2>2, GatherGather
  <2> QED BY <2>3 DEF s, e, KeptOf
<1>2. ASSUME NEW k \in none PROVE Gather(Said(k), Gather(g, h)) = << >>
  <2> DEFINE s == Said(k)
             nil == << >>
             e == [t \in TurnRec |-> nil]
  <2>1. Maker(s, ContentRec, Int)  BY SaidMakes
  <2>2. Maker(e, TurnRec, Int)
    <3>1. nil \in Seq(Int)  OBVIOUS
    <3> QED BY <3>1 DEF Maker
  <2>3. \A t \in TurnRec : Gather(s, g[t]) = nil  BY DEF SaysKept
  <2>4. \A t \in TurnRec : e[t] = nil  OBVIOUS
  <2> HIDE DEF s, e, nil
  <2>5. \A t \in TurnRec : e[t] = Gather(s, g[t])  BY <2>3, <2>4
  <2>6. Gather(s, Gather(g, h)) = Gather(e, h)  BY <2>1, <2>2, <2>5, GatherGather
  <2>7. \A i \in DOMAIN h : e[h[i]] = << >>  BY <2>4 DEF nil
  <2>8. Gather(e, h) = << >>
    <3> HIDE DEF e
    <3> QED BY <2>7, GatherNothing
  <2> QED BY <2>6, <2>8 DEF s
<1> QED BY <1>1, <1>2

\* A chat history says to Gemini what was kept of calls and text, and nothing else.
LEMMA OpenAISays ==
  ASSUME NEW more \in BOOLEAN
  PROVE  /\ SaysKept(OpenAITurns(more), {"call", "text"}, {"image", "thought"})
         /\ SaysKept(ShimTurns, {"text"}, {"call", "image", "thought"})
<1>1. ASSUME NEW t \in TurnRec, NEW k \in PartKinds
      PROVE  /\ Gather(Said(k), OpenAIAnswer(t, more))
                  = IF k \in {"call", "text"} THEN KeptIn(t.blocks, k) ELSE << >>
             /\ Gather(Said(k), ShimAnswer(t)) = IF k = "text" THEN KeptIn(t.blocks, k) ELSE << >>
  <2> DEFINE r == Resps(t.results, ToolNames(more))
             a == OfBlocks(t.blocks, "call")
             b == OfBlocks(t.blocks, "text")
             c == ChatParts(t.blocks)
             nil == << >>
             d == IF k = "call" THEN KeptIn(t.blocks, k) ELSE nil
             e == IF k = "text" THEN KeptIn(t.blocks, k) ELSE nil
             p == SignFirst(c)
             q == SignFirst(b)
  <2>1. r \in Seq(PlainPart) /\ c \in Seq(PlainPart) /\ b \in Seq(PlainPart)  BY ChatTyped
  <2>2. t.blocks \in Seq(BlockRec)  BY DEF TurnRec
  <2>3. a \in Seq(PlainPart) /\ OfKind(a, {k}) = d /\ OfKind(b, {k}) = e  BY <2>2, OfBlocksIs
  <2>5. c = a \o b  BY DEF ChatParts
  <2> HIDE DEF r, a, b, c
  <2>6. r \in Seq(PartRec) /\ a \in Seq(PartRec) /\ b \in Seq(PartRec) /\ c \in Seq(PartRec)
    BY <2>1, <2>3, PlainIsPart
  <2>7. OfKind(c, {k}) = OfKind(a, {k}) \o OfKind(b, {k})
    <3> DEFINE g == Ids(PartRec, {k})
    <3>1. Maker(g, PartRec, Int)  BY KindsMake
    <3>2. OfKind(c, {k}) = Gather(g, c) /\ OfKind(a, {k}) = Gather(g, a) /\ OfKind(b, {k}) = Gather(g, b)
      BY <2>6, OfKindIs
    <3> HIDE DEF g
    <3>3. Gather(g, a \o b) = Gather(g, a) \o Gather(g, b)  BY <2>6, <3>1, GatherConcat, SMTT(30)
    <3> QED BY <2>5, <3>2, <3>3
  <2>8. OfKind(p, {k}) = OfKind(c, {k}) /\ OfKind(q, {k}) = OfKind(b, {k})  BY <2>6, SignFirstIds
  <2>9. p \in Seq(PartRec) /\ q \in Seq(PartRec)  BY <2>6, SignFirstKeeps
  <2> HIDE DEF p, q
  <2>10. Gather(Said(k), TurnContents(t, r, p)) = OfKind(p, {k})  BY <2>6, <2>9, SaidByTurn
  <2>11. nil \in Seq(PartRec)  OBVIOUS
  <2> HIDE DEF nil
  <2>12. Gather(Said(k), TurnContents(t, nil, q)) = OfKind(q, {k})  BY <2>9, <2>11, SaidByTurn
  <2>13. d \o e = IF k \in {"call", "text"} THEN KeptIn(t.blocks, k) ELSE << >>
    <3> DEFINE w == KeptIn(t.blocks, k)
    <3>1. w \in Seq(Int)  BY <2>2, BlockMakers, EachTyped DEF KeptIn
    <3>2. k = "call" => d = w /\ e = nil  OBVIOUS
    <3>3. k = "text" => d = nil /\ e = w  OBVIOUS
    <3>4. k \notin {"call", "text"} => d = nil /\ e = nil  OBVIOUS
    <3> HIDE DEF w, d, e
    <3>5. w \o nil = w /\ nil \o w = w /\ nil \o nil = nil  BY <3>1 DEF nil
    <3> QED BY <3>2, <3>3, <3>4, <3>5 DEF w, nil
  <2>14. Gather(Said(k), OpenAIAnswer(t, more)) = d \o e
    <3> HIDE DEF d, e
    <3> QED BY <2>3, <2>7, <2>8, <2>10 DEF OpenAIAnswer, r, p, c
  <2>15. Gather(Said(k), ShimAnswer(t)) = e
    <3> HIDE DEF d, e
    <3> QED BY <2>3, <2>8, <2>12 DEF ShimAnswer, q, b, nil
  <2> DEFINE u == Gather(Said(k), OpenAIAnswer(t, more))
             v == Gather(Said(k), ShimAnswer(t))
  <2>16. u = d \o e /\ v = e  BY <2>14, <2>15
  <2> HIDE DEF u, v
  <2>17. u = IF k \in {"call", "text"} THEN KeptIn(t.blocks, k) ELSE << >>  BY <2>13, <2>16, Zenon
  <2>18. v = IF k = "text" THEN KeptIn(t.blocks, k) ELSE << >>  BY <2>16, Zenon DEF nil
  <2> QED BY <2>17, <2>18 DEF u, v
<1>2. \A t \in TurnRec : \A k : TurnKept(k)[t] = KeptIn(t.blocks, k)  BY DEF TurnKept
<1>3. \A t \in TurnRec : OpenAITurns(more)[t] = OpenAIAnswer(t, more) /\ ShimTurns[t] = ShimAnswer(t)
  BY DEF OpenAITurns, ShimTurns
<1>4. {"call", "text"} \subseteq PartKinds /\ {"image", "thought"} \subseteq PartKinds
      /\ {"call", "image", "thought"} \subseteq PartKinds /\ "text" \in PartKinds  BY DEF PartKinds
<1>5. SaysKept(OpenAITurns(more), {"call", "text"}, {"image", "thought"})
  <2>1. \A k \in {"call", "text"}, t \in TurnRec :
          Gather(Said(k), OpenAITurns(more)[t]) = TurnKept(k)[t]
    BY <1>1, <1>2, <1>3, <1>4
  <2>2. \A k \in {"image", "thought"}, t \in TurnRec :
          Gather(Said(k), OpenAITurns(more)[t]) = << >>
    <3>1. \A k \in {"image", "thought"} : k \notin {"call", "text"}  OBVIOUS
    <3> QED BY <1>1, <1>3, <1>4, <3>1
  <2> QED BY <2>1, <2>2 DEF SaysKept
<1>6. SaysKept(ShimTurns, {"text"}, {"call", "image", "thought"})
  <2>1. \A k \in {"text"}, t \in TurnRec : Gather(Said(k), ShimTurns[t]) = TurnKept(k)[t]
    BY <1>1, <1>2, <1>3, <1>4
  <2>2. \A k \in {"call", "image", "thought"}, t \in TurnRec : Gather(Said(k), ShimTurns[t]) = << >>
    <3>1. \A k \in {"call", "image", "thought"} : k # "text"  OBVIOUS
    <3> QED BY <1>1, <1>3, <1>4, <3>1
  <2> QED BY <2>1, <2>2 DEF SaysKept
<1> QED BY <1>5, <1>6

-----------------------------------------------------------------------------
(* What each format says. *)

\* A Messages client's answers are sent with everything it kept of them.
LEMMA ClaudeSays == \A h : SaysKept(ClaudeSent(h), PartKinds, {})
<1>1. ASSUME NEW h, NEW t \in TurnRec, NEW k
      PROVE  Gather(Said(k), ClaudeSent(h)[t]) = TurnKept(k)[t]
  <2> DEFINE r == Resps(t.results, NamesOf(h))
             p == AllParts(t.blocks)
             s == SignFirst(p)
  <2>1. r \in Seq(PlainPart) /\ p \in Seq(PlainPart)  BY ClaudeTyped
  <2>2. OfKind(p, {k}) = KeptIn(t.blocks, k)
    <3>1. t.blocks \in Seq(BlockRec)  BY DEF TurnRec
    <3> QED BY <3>1, AllPartsIs
  <2> HIDE DEF r, p
  <2>3. r \in Seq(PartRec) /\ p \in Seq(PartRec)  BY <2>1, PlainIsPart
  <2>4. s \in Seq(PartRec) /\ OfKind(s, {k}) = OfKind(p, {k})  BY <2>3, SignFirstKeeps, SignFirstIds
  <2> HIDE DEF s
  <2>5. Gather(Said(k), TurnContents(t, r, s)) = OfKind(s, {k})  BY <2>3, <2>4, SaidByTurn
  <2>6. ClaudeSent(h)[t] = TurnContents(t, r, s)  BY DEF ClaudeSent, ClaudeAnswer, r, s, p
  <2>7. TurnKept(k)[t] = KeptIn(t.blocks, k)  BY DEF TurnKept
  <2> QED BY <2>2, <2>4, <2>5, <2>6, <2>7
<1> QED BY <1>1 DEF SaysKept

\* Signing contents changes nothing of what they say.
LEMMA SignsSay ==
  ASSUME NEW s \in Seq(ContentRec), NEW k
  PROVE  Gather(Said(k), Gather(Signs, s)) = Gather(Said(k), s)
<1> DEFINE g == Said(k)
<1>1. Maker(g, ContentRec, Int) /\ Maker(Signs, ContentRec, ContentRec)  BY SaidMakes, SignsMake
<1>2. ASSUME NEW c \in ContentRec PROVE g[c] = Gather(g, Signs[c])
  <2> DEFINE d == SignOf(c)
  <2>1. Signs[c] = << d >>  BY DEF Signs
  <2>2. d \in ContentRec
    <3>1. Signs[c] \in Seq(ContentRec)  BY <1>1 DEF Maker
    <3> HIDE DEF d
    <3>2. << d >> \in Seq(ContentRec)  BY <2>1, <3>1
    <3>3. << d >>[1] \in ContentRec  BY <3>2
    <3> QED BY <3>3
  <2>3. d.role = c.role /\ d.parts = SignFirst(c.parts)  BY SignsMake
  <2> HIDE DEF d
  <2>4. OfKind(SignFirst(c.parts), {k}) = OfKind(c.parts, {k})
    <3>1. c.parts \in Seq(PartRec)  BY DEF ContentRec
    <3> QED BY <3>1, SignFirstIds
  <2>5. g[d] = g[c]  BY <2>2, <2>3, <2>4 DEF Said
  <2> HIDE DEF g
  <2>6. Gather(g, << d >>) = g[d]  BY <1>1, <2>2, GatherOne
  <2> QED BY <2>1, <2>5, <2>6
<1> HIDE DEF g
<1> QED BY <1>1, <1>2, GatherGather DEF g

\* A Gemini client's answers are sent with everything it kept of them.
LEMMA GeminiSays == ASSUME NEW more \in BOOLEAN PROVE SaysKept(GeminiTurns(more), PartKinds, {})
<1>1. ASSUME NEW t \in TurnRec, NEW k
      PROVE  Gather(Said(k), GeminiTurns(more)[t]) = TurnKept(k)[t]
  <2> DEFINE u == GeminiParts(t)
             m == GeminiModel(t, more)
             p == AllParts(t.blocks)
             c == Content("user", u)
             x == << c >>
             y == NotEmpty("model", m)
             g == Said(k)
             e == OfKind(m, {k})
  <2>1. u \in Seq(PartRec) /\ p \in Seq(PlainPart) /\ m \in Seq(PartRec)  BY GeminiTyped
  <2>2. OfKind(p, {k}) = KeptIn(t.blocks, k)
    <3>1. t.blocks \in Seq(BlockRec)  BY DEF TurnRec
    <3> QED BY <3>1, AllPartsIs
  <2>3. e = KeptIn(t.blocks, k)
    <3> HIDE DEF p
    <3>1. p \in Seq(PartRec)  BY <2>1, PlainIsPart
    <3>2. OfKind(SignFirst(p), {k}) = OfKind(p, {k})  BY <3>1, SignFirstIds
    <3> QED BY <2>2, <3>2 DEF GeminiModel, p
  <2>4. GeminiTurns(more)[t] = Gather(Signs, x \o y)  BY DEF GeminiTurns, GeminiAnswer
  <2>5. TurnKept(k)[t] = KeptIn(t.blocks, k)  BY DEF TurnKept
  <2> HIDE DEF u, m, p
  <2>6. c \in ContentRec /\ c.role = "user"  BY <2>1 DEF Content, ContentRec
  <2>7. g[c] = << >>  BY <2>6 DEF Said
  <2>8. Maker(g, ContentRec, Int) /\ e \in Seq(Int)  BY <2>1, SaidMakes, OfKindTyped
  <2>9. Gather(g, y) = e  BY <2>1, SaidIn
  <2>10. y \in Seq(ContentRec)  BY <2>1, NotEmptyTyped
  <2> HIDE DEF c, g, y, e
  <2>11. Gather(g, x) = << >>  BY <2>6, <2>7, <2>8, GatherOne
  <2>12. x \in Seq(ContentRec)  BY <2>6
  <2> HIDE DEF x
  <2>13. Gather(g, x \o y) = Gather(g, x) \o Gather(g, y)
    <3>1. Maker(g, ContentRec, Int)  BY <2>8
    <3> QED BY <2>10, <2>12, <3>1, GatherConcat
  <2>14. << >> \o e = e  BY <2>8
  <2> DEFINE s == x \o y
  <2>15. s \in Seq(ContentRec)  BY <2>10, <2>12
  <2>16. Gather(g, s) = e  BY <2>9, <2>11, <2>13, <2>14
  <2> HIDE DEF s
  <2>17. Gather(g, Gather(Signs, s)) = Gather(g, s)  BY <2>15, SignsSay DEF g
  <2> QED BY <2>3, <2>4, <2>5, <2>16, <2>17 DEF g, s
<1> QED BY <1>1 DEF SaysKept

\* What a Responses client sends of an answer: the calls, and the text if the
\* client sends plain text.
ItemKinds(more) == {"call"} \cup (IF more THEN {"text"} ELSE {})

\* What one output item of a Responses history says.
LEMMA ItemSays ==
  ASSUME NEW b \in BlockRec, NEW more \in BOOLEAN, NEW k \in PartKinds
  PROVE  Gather(Said(k), Items(more)[b])
           = IF k \in ItemKinds(more) THEN BlockIds(k)[b] ELSE << >>
<1> DEFINE g == Said(k)
           p == PartsOf(b)
           s == SignFirst(p)
           c == Content("model", p)
           d == Content("model", s)
<1>1. p \in Seq(PlainPart) /\ p \in Seq(PartRec) /\ s \in Seq(PartRec)  BY ItemTyped
<1>2. OfKind(p, {k}) = IF b.kind = k THEN b.parts ELSE << >>
  <2>1. OfKind(p, {k}) = Gather(Ids(PlainPart, {k}), p)
    <3> HIDE DEF p
    <3> QED BY <1>1, OfKindIs
  <2> QED BY <2>1, PartsOfIds
<1>3. Items(more)[b] = CASE b.kind = "call" -> << d >>
                        [] b.kind = "text" /\ more -> << c >>
                        [] OTHER -> << >>
  BY DEF Items, ResponsesItem
<1>4. BlockIds(k)[b] = IF b.kind = k THEN b.parts ELSE << >>  BY DEF BlockIds
<1> HIDE DEF p
<1>5. OfKind(s, {k}) = OfKind(p, {k})  BY <1>1, SignFirstIds
<1> HIDE DEF s
<1>6. c \in ContentRec /\ c.role = "model" /\ c.parts = p
      /\ d \in ContentRec /\ d.role = "model" /\ d.parts = s
  BY <1>1 DEF Content, ContentRec
<1>7. g[c] = OfKind(p, {k}) /\ g[d] = OfKind(p, {k})  BY <1>5, <1>6 DEF Said
<1>8. Maker(g, ContentRec, Int)  BY SaidMakes
<1> HIDE DEF c, d, g
<1>9. Gather(g, << c >>) = g[c] /\ Gather(g, << d >>) = g[d] /\ Gather(g, << >>) = << >>
  BY <1>6, <1>8, GatherOne, GatherNone
<1> DEFINE v == BlockIds(k)[b]
           i == Items(more)[b]
<1>10. OfKind(p, {k}) = v  BY <1>2, <1>4
<1>11. b.kind # k => v = << >>  BY <1>4
<1> HIDE DEF v, i
<1>12. CASE b.kind = "call"
  <2>1. i = << d >>  BY <1>3, <1>12 DEF i
  <2>2. Gather(g, i) = v  BY <2>1, <1>7, <1>9, <1>10
  <2>3. k \notin ItemKinds(more) => v = << >>  BY <1>11, <1>12 DEF ItemKinds
  <2> QED BY <2>2, <2>3 DEF i, v, g
<1>13. CASE b.kind = "text" /\ more
  <2>1. i = << c >>  BY <1>3, <1>13 DEF i
  <2>2. Gather(g, i) = v  BY <2>1, <1>7, <1>9, <1>10
  <2>3. k \notin ItemKinds(more) => v = << >>  BY <1>11, <1>13 DEF ItemKinds
  <2> QED BY <2>2, <2>3 DEF i, v, g
<1>14. CASE b.kind # "call" /\ ~(b.kind = "text" /\ more)
  <2>1. i = << >>  BY <1>3, <1>14 DEF i
  <2>2. Gather(g, i) = << >>  BY <2>1, <1>9
  <2>3. k \in ItemKinds(more) => v = << >>  BY <1>11, <1>14 DEF ItemKinds
  <2> QED BY <2>2, <2>3 DEF i, v, g
<1> QED BY <1>12, <1>13, <1>14

\* No content of the user speaks for the model.
LEMMA UserSays ==
  ASSUME NEW s \in Seq(ContentRec), \A i \in DOMAIN s : s[i].role = "user", NEW k
  PROVE  Gather(Said(k), s) = << >>
<1>1. \A i \in DOMAIN s : Said(k)[s[i]] = << >>  BY DEF Said
<1> DEFINE g == Said(k)
<1> HIDE DEF g
<1> QED BY <1>1, GatherNothing DEF g

\* A Responses history says what was kept of the kinds that have items.
LEMMA ResponsesSays ==
  ASSUME NEW h, NEW more \in BOOLEAN
  PROVE  SaysKept(ResponsesSent(h, more), ItemKinds(more), PartKinds \ ItemKinds(more))
<1>1. ASSUME NEW t \in TurnRec, NEW k \in PartKinds
      PROVE  Gather(Said(k), ResponsesSent(h, more)[t])
               = IF k \in ItemKinds(more) THEN KeptIn(t.blocks, k) ELSE << >>
  <2> DEFINE a == ResultItems(t.results, NamesOf(h))
             b == AskItems(t)
             f == Items(more)
             q == t.blocks
             c == Gather(f, q)
             g == Said(k)
             nil == << >>
             e == [x \in BlockRec |-> IF k \in ItemKinds(more) THEN BlockIds(k)[x] ELSE nil]
  <2>1. /\ a \in Seq(ContentRec) /\ b \in Seq(ContentRec) /\ c \in Seq(ContentRec)
        /\ Maker(f, BlockRec, ContentRec)
    BY ResponsesTyped
  <2>2. q \in Seq(BlockRec)  BY DEF TurnRec
  <2>3. \A i \in DOMAIN a : a[i].role = "user"  BY DEF ResultItems, Content
  <2>4. \A i \in DOMAIN b : b[i].role = "user"  BY DEF AskItems, Content
  <2>5. Maker(g, ContentRec, Int) /\ Maker(BlockIds(k), BlockRec, Int)  BY SaidMakes, BlockMakers
  <2>6. Maker(e, BlockRec, Int)
    <3>1. nil \in Seq(Int)  OBVIOUS
    <3> HIDE DEF nil
    <3> QED BY <2>5, <3>1 DEF Maker
  <2>7. \A x \in BlockRec : e[x] = Gather(g, f[x])  BY ItemSays DEF nil
  <2>8. ResponsesSent(h, more)[t] = (a \o b) \o c  BY DEF ResponsesSent, ResponsesAnswer
  <2> DEFINE w == KeptIn(q, k)
  <2>9. Gather(e, q) = IF k \in ItemKinds(more) THEN w ELSE nil
    <3>1. CASE k \in ItemKinds(more)
      <4>1. \A i \in DOMAIN q : e[q[i]] = BlockIds(k)[q[i]]  BY <2>2, <3>1
      <4> HIDE DEF e
      <4>2. Gather(e, q) = Gather(BlockIds(k), q)  BY <4>1, GatherSame
      <4> QED BY <3>1, <4>2 DEF KeptIn
    <3>2. CASE k \notin ItemKinds(more)
      <4>1. \A i \in DOMAIN q : e[q[i]] = << >>  BY <2>2, <3>2
      <4> HIDE DEF e, q
      <4>2. Gather(e, q) = << >>  BY <2>2, <4>1, GatherNothing
      <4> QED BY <3>2, <4>2
    <3> QED BY <3>1, <3>2
  <2>10. Gather(g, a) = << >> /\ Gather(g, b) = << >>
    <3> HIDE DEF a, b
    <3> QED BY <2>1, <2>3, <2>4, UserSays
  <2> HIDE DEF a, b, f, g, e, q
  <2>11. Gather(g, c) = Gather(e, q)  BY <2>1, <2>2, <2>5, <2>6, <2>7, GatherGather
  <2> HIDE DEF c
  <2> DEFINE d == a \o b
  <2>12. d \in Seq(ContentRec)  BY <2>1
  <2>13. Gather(g, d) = Gather(g, a) \o Gather(g, b)  BY <2>1, <2>5, GatherConcat
  <2> HIDE DEF d
  <2>14. Gather(g, d \o c) = Gather(g, d) \o Gather(g, c)
    <3>1. Maker(g, ContentRec, Int)  BY <2>5
    <3>2. c \in Seq(ContentRec)  BY <2>1
    <3> QED BY <2>12, <3>1, <3>2, GatherConcat
  <2>15. Gather(g, d) = << >>  BY <2>10, <2>13
  <2> DEFINE z == Gather(g, c)
  <2>16. z \in Seq(Int)  BY <2>1, <2>5, EachTyped
  <2> HIDE DEF z
  <2>17. << >> \o z = z  BY <2>16
  <2>18. Gather(g, d \o c) = Gather(e, q)  BY <2>11, <2>14, <2>15, <2>17 DEF z
  <2>19. Gather(g, ResponsesSent(h, more)[t]) = Gather(e, q)  BY <2>8, <2>18 DEF d
  <2> QED BY <2>9, <2>19 DEF g, q, nil
<1>2. \A t \in TurnRec : \A k : TurnKept(k)[t] = KeptIn(t.blocks, k)  BY DEF TurnKept
<1>3. ItemKinds(more) \subseteq PartKinds  BY DEF ItemKinds, PartKinds
<1>4. \A k \in ItemKinds(more), t \in TurnRec :
        Gather(Said(k), ResponsesSent(h, more)[t]) = TurnKept(k)[t]
  BY <1>1, <1>2, <1>3
<1>5. \A k \in PartKinds \ ItemKinds(more), t \in TurnRec :
        Gather(Said(k), ResponsesSent(h, more)[t]) = << >>
  BY <1>1
<1> QED BY <1>4, <1>5 DEF SaysKept

-----------------------------------------------------------------------------
(* Signatures. *)

\* A content whose first n calls are signed, and no others.
SignedContent(n) == { c \in ContentRec : SignedTo(c.parts, n) }

\* Parts without calls are signed as one likes.
LEMMA LackingSigned ==
  ASSUME NEW q \in Seq(PartRec), Lacks(q, "call"), NEW n
  PROVE  SignedTo(q, n)
<1>1. CallsOf(q) = << >>  BY LacksNone DEF CallsOf
<1> QED BY <1>1 DEF SignedTo

\* Contents of parts signed at most n times.
LEMMA SignedIn ==
  ASSUME NEW role \in {"user", "model"}, NEW q \in Seq(PartRec), NEW n, SignedTo(q, n)
  PROVE  /\ Content(role, q) \in SignedContent(n)
         /\ NotEmpty(role, q) \in Seq(SignedContent(n))
<1> DEFINE c == Content(role, q)
<1>1. c \in ContentRec /\ c.parts = q  BY DEF Content, ContentRec
<1>2. c \in SignedContent(n)  BY <1>1 DEF SignedContent
<1>3. NotEmpty(role, q) = << >> \/ NotEmpty(role, q) = << c >>  BY DEF NotEmpty
<1> HIDE DEF c
<1>4. << c >> \in Seq(SignedContent(n)) /\ << >> \in Seq(SignedContent(n))  BY <1>2
<1> QED BY <1>2, <1>3, <1>4 DEF c

\* Results and questions have no calls.
LEMMA SentLacks ==
  ASSUME NEW t \in TurnRec
  PROVE  /\ \A names : Lacks(Resps(t.results, names), "call")
         /\ Asking(t) \in Seq(PartRec) /\ Lacks(Asking(t), "call")
<1>1. ASSUME NEW names PROVE Lacks(Resps(t.results, names), "call")
  <2>1. \A x, y : Response(x, y).kind = "response"  BY DEF Response
  <2> QED BY <2>1 DEF Lacks, Resps
<1>2. Question \in PartRec /\ Question.kind = "text"  BY QuestionIs DEF PlainPart
<1>3. Asking(t) \in Seq(PartRec)  BY <1>2 DEF Asking
<1>4. Lacks(Asking(t), "call")  BY <1>2 DEF Lacks, Asking
<1> QED BY <1>1, <1>3, <1>4

\* A turn is signed no more often than its answer.
LEMMA SignedTurn ==
  ASSUME NEW t \in TurnRec, NEW resps \in Seq(PartRec), Lacks(resps, "call"),
         NEW answer \in Seq(PartRec), NEW n, SignedTo(answer, n)
  PROVE  TurnContents(t, resps, answer) \in Seq(SignedContent(n))
<1> DEFINE x == NotEmpty("user", resps)
           y == NotEmpty("user", Asking(t))
           z == NotEmpty("model", answer)
           D == SignedContent(n)
<1>1. SignedTo(resps, n)  BY LackingSigned
<1>2. Asking(t) \in Seq(PartRec) /\ SignedTo(Asking(t), n)  BY SentLacks, LackingSigned
<1>3. x \in Seq(D) /\ y \in Seq(D) /\ z \in Seq(D)  BY <1>1, <1>2, SignedIn
<1> HIDE DEF x, y, z, D
<1>4. (x \o y) \o z \in Seq(D)  BY <1>3, ConcatThree
<1> QED BY <1>4 DEF TurnContents, x, y, z, D

\* Plain parts, signed.
LEMMA PlainSigned ==
  ASSUME NEW q \in Seq(PlainPart)
  PROVE  /\ q \in Seq(PartRec) /\ SignFirst(q) \in Seq(PartRec)
         /\ SignedTo(q, 0) /\ SignedTo(SignFirst(q), 1)
<1>1. q \in Seq(PartRec) /\ SignedTo(q, 0) /\ 0 \in Nat  BY PlainUnsigned
<1>2. SignedTo(SignFirst(q), 0 + 1)
  <2> DEFINE n == 0
  <2>1. n \in Nat /\ SignedTo(q, n)  BY <1>1
  <2> HIDE DEF n
  <2>2. SignedTo(SignFirst(q), n + 1)  BY <1>1, <2>1, SignsFirst
  <2> QED BY <2>2 DEF n
<1>3. SignFirst(q) \in Seq(PartRec)  BY <1>1, SignFirstKeeps
<1> DEFINE s == SignFirst(q)
<1> HIDE DEF s
<1>4. SignedTo(s, 1)  BY <1>2 DEF s
<1> QED BY <1>1, <1>3, <1>4 DEF s

\* The first call of each content is signed, and no other.
LEMMA ChatSigned ==
  ASSUME NEW more \in BOOLEAN, NEW h
  PROVE  /\ Maker(OpenAITurns(more), TurnRec, SignedContent(1))
         /\ Maker(ShimTurns, TurnRec, SignedContent(1))
         /\ Maker(ClaudeSent(h), TurnRec, SignedContent(1))
<1>1. ASSUME NEW t \in TurnRec
      PROVE  /\ OpenAIAnswer(t, more) \in Seq(SignedContent(1))
             /\ ShimAnswer(t) \in Seq(SignedContent(1))
             /\ ClaudeAnswer(h, t) \in Seq(SignedContent(1))
  <2> DEFINE r == Resps(t.results, ToolNames(more))
             u == Resps(t.results, NamesOf(h))
             a == ChatParts(t.blocks)
             b == OfBlocks(t.blocks, "text")
             p == AllParts(t.blocks)
             nil == << >>
  <2>1. r \in Seq(PlainPart) /\ a \in Seq(PlainPart) /\ b \in Seq(PlainPart)  BY ChatTyped
  <2>2. u \in Seq(PlainPart) /\ p \in Seq(PlainPart)  BY ClaudeTyped
  <2>3. Lacks(r, "call") /\ Lacks(u, "call")  BY SentLacks
  <2>4. nil \in Seq(PartRec) /\ Lacks(nil, "call")  BY DEF Lacks
  <2> HIDE DEF r, u, a, b, p, nil
  <2>5. r \in Seq(PartRec) /\ u \in Seq(PartRec)  BY <2>1, <2>2, PlainIsPart
  <2>6. SignFirst(a) \in Seq(PartRec) /\ SignedTo(SignFirst(a), 1)  BY <2>1, PlainSigned
  <2>7. SignFirst(b) \in Seq(PartRec) /\ SignedTo(SignFirst(b), 1)  BY <2>1, PlainSigned
  <2>8. SignFirst(p) \in Seq(PartRec) /\ SignedTo(SignFirst(p), 1)  BY <2>2, PlainSigned
  <2>9. TurnContents(t, r, SignFirst(a)) \in Seq(SignedContent(1))
    <3> DEFINE w == SignFirst(a)
    <3> HIDE DEF w
    <3>1. w \in Seq(PartRec) /\ SignedTo(w, 1)  BY <2>6 DEF w
    <3>2. TurnContents(t, r, w) \in Seq(SignedContent(1))  BY <2>3, <2>5, <3>1, SignedTurn
    <3> QED BY <3>2 DEF w
  <2>10. TurnContents(t, nil, SignFirst(b)) \in Seq(SignedContent(1))
    <3> DEFINE w == SignFirst(b)
    <3> HIDE DEF w
    <3>1. w \in Seq(PartRec) /\ SignedTo(w, 1)  BY <2>7 DEF w
    <3>2. TurnContents(t, nil, w) \in Seq(SignedContent(1))  BY <2>4, <3>1, SignedTurn
    <3> QED BY <3>2 DEF w
  <2>11. TurnContents(t, u, SignFirst(p)) \in Seq(SignedContent(1))
    <3> DEFINE w == SignFirst(p)
    <3> HIDE DEF w
    <3>1. w \in Seq(PartRec) /\ SignedTo(w, 1)  BY <2>8 DEF w
    <3>2. TurnContents(t, u, w) \in Seq(SignedContent(1))  BY <2>3, <2>5, <3>1, SignedTurn
    <3> QED BY <3>2 DEF w
  <2> QED BY <2>9, <2>10, <2>11 DEF OpenAIAnswer, ShimAnswer, ClaudeAnswer, r, u, a, b, p, nil
<1>2. Maker(OpenAITurns(more), TurnRec, SignedContent(1))  BY <1>1 DEF Maker, OpenAITurns
<1>3. Maker(ShimTurns, TurnRec, SignedContent(1))  BY <1>1 DEF Maker, ShimTurns
<1>4. Maker(ClaudeSent(h), TurnRec, SignedContent(1))  BY <1>1 DEF Maker, ClaudeSent
<1> QED BY <1>2, <1>3, <1>4

\* A Responses turn is signed at most once per content.
LEMMA ItemsSigned ==
  ASSUME NEW more \in BOOLEAN, NEW h
  PROVE  Maker(ResponsesSent(h, more), TurnRec, SignedContent(1))
<1> DEFINE D == SignedContent(1)
           g == Items(more)
<1>1. Maker(g, BlockRec, D)
  <2>1. ASSUME NEW b \in BlockRec PROVE ResponsesItem(b, more) \in Seq(D)
    <3> DEFINE p == PartsOf(b)
               s == SignFirst(p)
    <3>1. p \in Seq(PlainPart)  BY ItemTyped
    <3>2. ASSUME b.kind # "call" PROVE Lacks(p, "call")
      BY <3>2 DEF Lacks, PartsOf, Part
    <3> HIDE DEF p
    <3>3. p \in Seq(PartRec) /\ s \in Seq(PartRec) /\ SignedTo(s, 1)  BY <3>1, PlainSigned
    <3> HIDE DEF s
    <3>4. Content("model", s) \in D  BY <3>3, SignedIn
    <3>5. b.kind # "call" => Content("model", p) \in D
      <4>1. ASSUME b.kind # "call" PROVE SignedTo(p, 1)  BY <4>1, <3>2, <3>3, LackingSigned
      <4> QED BY <4>1, <3>3, SignedIn
    <3> DEFINE u == Content("model", p)
               w == Content("model", s)
    <3>6. \/ ResponsesItem(b, more) = << w >>
          \/ b.kind # "call" /\ ResponsesItem(b, more) = << u >>
          \/ ResponsesItem(b, more) = << >>
      <4>1. "text" # "call"  OBVIOUS
      <4> QED BY <4>1, Zenon DEF ResponsesItem, p, s
    <3>7. w \in D /\ (b.kind # "call" => u \in D)  BY <3>4, <3>5
    <3> HIDE DEF u, w, D
    <3>8. << w >> \in Seq(D) /\ (b.kind # "call" => << u >> \in Seq(D)) /\ << >> \in Seq(D)
      BY <3>7
    <3> QED BY <3>6, <3>8
  <2> QED BY <2>1 DEF Maker, Items
<1>2. ASSUME NEW t \in TurnRec PROVE ResponsesAnswer(h, t, more) \in Seq(D)
  <2> DEFINE a == ResultItems(t.results, NamesOf(h))
             b == AskItems(t)
             q == t.blocks
             c == Gather(g, q)
  <2>1. q \in Seq(BlockRec) /\ t.results \in Seq(Int)  BY DEF TurnRec
  <2>2. c \in Seq(D)
    <3> HIDE DEF g, D, q
    <3> QED BY <1>1, <2>1, EachTyped
  <2>3. a \in Seq(D)
    <3>1. ASSUME NEW x \in Int PROVE Content("user", << Response(x, NamesOf(h)[x]) >>) \in D
      <4> DEFINE y == Response(x, NamesOf(h)[x])
                 w == << y >>
      <4>1. NamesOf(h) \in [Int -> Int]  BY ClaudeTyped
      <4>2. y \in PartRec /\ y.kind = "response"  BY <4>1 DEF Response, PartRec
      <4> HIDE DEF y
      <4>3. w \in Seq(PartRec) /\ Lacks(w, "call")  BY <4>2 DEF Lacks
      <4> HIDE DEF w
      <4>4. SignedTo(w, 1)  BY <4>3, LackingSigned
      <4>5. Content("user", w) \in D  BY <4>3, <4>4, SignedIn
      <4> QED BY <4>5 DEF w, y
    <3>2. \A i \in DOMAIN t.results : t.results[i] \in Int  BY <2>1
    <3>3. DOMAIN t.results = 1 .. Len(t.results) /\ Len(t.results) \in Nat  BY <2>1
    <3> HIDE DEF D
    <3> QED BY <3>1, <3>2, <3>3 DEF ResultItems
  <2>4. b \in Seq(D)
    <3> DEFINE w == << Question >>
    <3>1. Question \in PartRec /\ Question.kind = "text"  BY QuestionIs DEF PlainPart
    <3>2. w \in Seq(PartRec) /\ Lacks(w, "call")  BY <3>1 DEF Lacks
    <3> HIDE DEF w
    <3>3. SignedTo(w, 1)  BY <3>2, LackingSigned
    <3>4. Content("user", w) \in D  BY <3>2, <3>3, SignedIn
    <3> HIDE DEF D
    <3> QED BY <3>4 DEF AskItems, w
  <2> HIDE DEF a, b, c, D
  <2>5. (a \o b) \o c \in Seq(D)  BY <2>2, <2>3, <2>4, ConcatThree
  <2> QED BY <2>5 DEF ResponsesAnswer, a, b, c
<1> QED BY <1>2 DEF Maker, ResponsesSent

\* A Gemini client that keeps a signature has the next call signed too.
LEMMA GeminiSigned ==
  ASSUME NEW more \in BOOLEAN
  PROVE  Maker(GeminiTurns(more), TurnRec, SignedContent(IF more THEN 2 ELSE 1))
<1> DEFINE m == IF more THEN 1 ELSE 0
           D == SignedContent(m)
           E == SignedContent(m + 1)
           g == [c \in D |-> << SignOf(c) >>]
<1>1. m \in Nat /\ m + 1 = (IF more THEN 2 ELSE 1)  OBVIOUS
<1>2. Maker(g, D, E)
  <2> HIDE DEF m
  <2>1. ASSUME NEW c \in D PROVE SignOf(c) \in E
    <3> DEFINE d == SignOf(c)
               s == SignFirst(c.parts)
    <3>1. c \in ContentRec /\ c.parts \in Seq(PartRec) /\ SignedTo(c.parts, m)
      BY DEF SignedContent, ContentRec
    <3>2. SignedTo(s, m + 1)
      <4> DEFINE q == c.parts
      <4>1. q \in Seq(PartRec) /\ SignedTo(q, m)  BY <3>1
      <4> HIDE DEF q
      <4>2. SignedTo(SignFirst(q), m + 1)  BY <1>1, <4>1, SignsFirst
      <4> QED BY <4>2 DEF q
    <3>3. d.parts = s  BY <3>1, SignsMake
    <3>4. d \in ContentRec
      <4>1. Signs[c] = << d >> /\ Signs[c] \in Seq(ContentRec)  BY <3>1, SignsMake DEF Maker, Signs
      <4> HIDE DEF d
      <4>2. << d >> \in Seq(ContentRec)  BY <4>1
      <4>3. << d >>[1] \in ContentRec  BY <4>2
      <4> QED BY <4>3
    <3> HIDE DEF d, s
    <3>5. d \in E  BY <3>2, <3>3, <3>4 DEF SignedContent
    <3> QED BY <3>5 DEF d
  <2> HIDE DEF D, E
  <2>2. \A c \in D : << SignOf(c) >> \in Seq(E)  BY <2>1
  <2> QED BY <2>2 DEF Maker
<1>3. ASSUME NEW t \in TurnRec PROVE GeminiAnswer(t, more) \in Seq(D)
  <2> DEFINE a == Resps(t.results, [x \in Int |-> x])
             b == Asking(t)
             u == GeminiParts(t)
             p == AllParts(t.blocks)
             w == GeminiModel(t, more)
  <2>1. a \in Seq(PlainPart) /\ b \in Seq(PlainPart) /\ p \in Seq(PlainPart)
        /\ u \in Seq(PartRec) /\ w \in Seq(PartRec)
    BY GeminiTyped
  <2>2. Lacks(a, "call") /\ Lacks(b, "call")  BY SentLacks
  <2>3. u = a \o b  BY DEF GeminiParts
  <2> HIDE DEF a, b, u, p
  <2>4. Lacks(u, "call")
    <3>1. \A i \in DOMAIN u : u[i] = IF i <= Len(a) THEN a[i] ELSE b[i - Len(a)]  BY <2>1, <2>3
    <3>2. \A i \in DOMAIN u : IF i <= Len(a) THEN i \in DOMAIN a ELSE i - Len(a) \in DOMAIN b
      BY <2>1, <2>3
    <3> QED BY <2>2, <3>1, <3>2 DEF Lacks
  <2>5. SignedTo(u, m)
    <3> HIDE DEF m
    <3> QED BY <2>1, <2>4, LackingSigned
  <2>6. SignedTo(w, m)
    <3>1. SignedTo(p, 0) /\ SignedTo(SignFirst(p), 1)  BY <2>1, PlainSigned
    <3>2. CASE more
      <4>1. w = SignFirst(p) /\ m = 1  BY <3>2 DEF GeminiModel, p
      <4> HIDE DEF w, m
      <4> QED BY <4>1, <3>1
    <3>3. CASE ~more
      <4>1. w = p /\ m = 0  BY <3>3 DEF GeminiModel, p
      <4> HIDE DEF w, m
      <4> QED BY <4>1, <3>1
    <3> QED BY <3>2, <3>3
  <2> HIDE DEF w, m
  <2> DEFINE x == << Content("user", u) >>
             y == NotEmpty("model", w)
  <2>7. Content("user", u) \in D  BY <2>1, <2>5, SignedIn
  <2>8. y \in Seq(D)  BY <2>1, <2>6, SignedIn
  <2> HIDE DEF D, y
  <2>9. x \in Seq(D)  BY <2>7
  <2> HIDE DEF x
  <2>10. x \o y \in Seq(D)  BY <2>8, <2>9
  <2> QED BY <2>10 DEF GeminiAnswer, x, y, u, w
<1>4. ASSUME NEW t \in TurnRec PROVE Gather(Signs, GeminiAnswer(t, more)) \in Seq(E)
  <2> DEFINE s == GeminiAnswer(t, more)
  <2>1. s \in Seq(D)  BY <1>3
  <2>2. \A c \in D : c \in ContentRec  BY DEF SignedContent
  <2> HIDE DEF s
  <2>3. \A i \in DOMAIN s : s[i] \in D
    <3> HIDE DEF D
    <3> QED BY <2>1
  <2>4. \A i \in DOMAIN s : g[s[i]] = Signs[s[i]]
    <3> HIDE DEF D
    <3> QED BY <2>2, <2>3 DEF Signs
  <2> HIDE DEF g, D, E
  <2>5. Gather(g, s) \in Seq(E)  BY <1>2, <2>1, EachTyped
  <2>6. Gather(Signs, s) = Gather(g, s)  BY <2>4, GatherSame
  <2> QED BY <2>5, <2>6 DEF s
<1>5. Maker(GeminiTurns(more), TurnRec, E)
  <2> HIDE DEF E
  <2> QED BY <1>4 DEF Maker, GeminiTurns
<1> HIDE DEF m
<1> QED BY <1>1, <1>5

-----------------------------------------------------------------------------
(* A history of typed turns is kept. *)

\* The kinds that a client of a format never keeps.
Dropped(f) == CASE f = "shim" -> {"image", "call", "thought"}
                [] f \in {"openai", "responses"} -> {"image"}
                [] OTHER -> {}
TurnOf(f) == { t \in TurnRec : \A k \in Dropped(f) : KeptIn(t.blocks, k) = << >> }

\* The inductive invariant of the history: each turn answers the calls of the
\* one before, and the last request is the translation of the whole.
Telling ==
  /\ history # << >> /\ history[Len(history)].blocks = << >>
  /\ contents = Contents(format, history, full)
HistoryInv ==
  /\ format \in Formats /\ full \in BOOLEAN
  /\ history \in Seq(TurnOf(format)) /\ Linked(history)
  /\ phase = "answer" => Telling

\* A history of a format is a history that keeps nothing of the kinds it drops.
LEMMA TurnOfTurn ==
  ASSUME NEW f, NEW h \in Seq(TurnOf(f))
  PROVE  h \in Seq(TurnRec) /\ \A k \in Dropped(f) : KeptOf(h, k) = << >>
<1>1. \A i \in DOMAIN h : h[i] \in TurnOf(f)  OBVIOUS
<1>2. h \in Seq(TurnRec)
  <2>1. TurnOf(f) \subseteq TurnRec  BY DEF TurnOf
  <2> QED BY <2>1
<1>3. ASSUME NEW k \in Dropped(f) PROVE KeptOf(h, k) = << >>
  <2> DEFINE g == TurnKept(k)
  <2>1. \A i \in DOMAIN h : g[h[i]] = << >>  BY <1>1 DEF TurnKept, TurnOf
  <2> HIDE DEF g
  <2>2. Gather(g, h) = << >>  BY <1>2, <2>1, GatherNothing
  <2> QED BY <2>2 DEF KeptOf, g
<1> QED BY <1>2, <1>3

\* The kinds a client of a format sends back, and those it does not.
SentKinds(f, more) == CASE f = "openai" -> {"call", "text"}
                        [] f = "shim" -> {"text"}
                        [] f = "responses" -> ItemKinds(more)
                        [] OTHER -> PartKinds
SignedCalls(f, more) == IF f = "gemini" /\ more THEN 2 ELSE 1

\* The translation of each format is one of each turn by itself.
LEMMA ContentsAre ==
  ASSUME NEW f \in Formats, NEW more \in BOOLEAN, NEW h \in Seq(TurnRec), Linked(h)
  PROVE  \E g : /\ Maker(g, TurnRec, ContentRec)
                /\ Maker(g, TurnRec, SignedContent(SignedCalls(f, more)))
                /\ Contents(f, h, more) = Gather(g, h)
                /\ SaysKept(g, SentKinds(f, more), PartKinds \ SentKinds(f, more))
<1>1. CASE f = "openai"
  <2> DEFINE g == OpenAITurns(more)
  <2>1. Maker(g, TurnRec, ContentRec) /\ Contents("openai", h, more) = Gather(g, h)
    BY OpenAIContentsIs
  <2>2. Maker(g, TurnRec, SignedContent(1))  BY ChatSigned
  <2>3. SaysKept(g, {"call", "text"}, {"image", "thought"})  BY OpenAISays
  <2>4. PartKinds \ {"call", "text"} = {"image", "thought"}  BY DEF PartKinds
  <2>5. SignedCalls(f, more) = 1 /\ SentKinds(f, more) = {"call", "text"}
    BY <1>1 DEF SignedCalls, SentKinds
  <2> HIDE DEF g
  <2> QED BY <1>1, <2>1, <2>2, <2>3, <2>4, <2>5
<1>2. CASE f = "shim"
  <2> DEFINE g == ShimTurns
  <2>1. Maker(g, TurnRec, ContentRec) /\ Contents("shim", h, more) = Gather(g, h)
    BY ShimContentsIs
  <2>2. Maker(g, TurnRec, SignedContent(1))  BY ChatSigned
  <2>3. SaysKept(g, {"text"}, {"call", "image", "thought"})  BY OpenAISays
  <2>4. PartKinds \ {"text"} = {"call", "image", "thought"}  BY DEF PartKinds
  <2>5. SignedCalls(f, more) = 1 /\ SentKinds(f, more) = {"text"}
    BY <1>2 DEF SignedCalls, SentKinds
  <2> HIDE DEF g
  <2> QED BY <1>2, <2>1, <2>2, <2>3, <2>4, <2>5
<1>3. CASE f = "claude"
  <2> DEFINE g == ClaudeSent(h)
  <2>1. Maker(g, TurnRec, ContentRec) /\ Contents("claude", h, more) = Gather(g, h)
    BY ClaudeContentsIs
  <2>2. Maker(g, TurnRec, SignedContent(1))  BY ChatSigned
  <2>3. SaysKept(g, PartKinds, {})  BY ClaudeSays
  <2>4. PartKinds \ PartKinds = {}  OBVIOUS
  <2>5. SignedCalls(f, more) = 1 /\ SentKinds(f, more) = PartKinds
    BY <1>3 DEF SignedCalls, SentKinds
  <2> HIDE DEF g
  <2> QED BY <1>3, <2>1, <2>2, <2>3, <2>4, <2>5
<1>4. CASE f = "responses"
  <2> DEFINE g == ResponsesSent(h, more)
  <2>1. Maker(g, TurnRec, ContentRec) /\ Contents("responses", h, more) = Gather(g, h)
    BY ResponsesContentsIs
  <2>2. Maker(g, TurnRec, SignedContent(1))  BY ItemsSigned
  <2>3. SaysKept(g, ItemKinds(more), PartKinds \ ItemKinds(more))  BY ResponsesSays
  <2>4. SignedCalls(f, more) = 1 /\ SentKinds(f, more) = ItemKinds(more)
    BY <1>4 DEF SignedCalls, SentKinds
  <2> HIDE DEF g
  <2> QED BY <1>4, <2>1, <2>2, <2>3, <2>4
<1>5. CASE f = "gemini"
  <2> DEFINE g == GeminiTurns(more)
  <2>1. Maker(g, TurnRec, ContentRec) /\ Contents("gemini", h, more) = Gather(g, h)
    BY GeminiContentsIs
  <2>2. Maker(g, TurnRec, SignedContent(IF more THEN 2 ELSE 1))  BY GeminiSigned
  <2>3. SaysKept(g, PartKinds, {})  BY GeminiSays
  <2>4. PartKinds \ PartKinds = {}  OBVIOUS
  <2>5. SignedCalls(f, more) = (IF more THEN 2 ELSE 1) /\ SentKinds(f, more) = PartKinds
    BY <1>5 DEF SignedCalls, SentKinds
  <2> HIDE DEF g
  <2> QED BY <1>5, <2>1, <2>2, <2>3, <2>4, <2>5
<1> QED BY <1>1, <1>2, <1>3, <1>4, <1>5 DEF Formats

\* What a client kept of its earlier answers.
LEMMA ClientKeptIs ==
  ASSUME history \in Seq(TurnRec), history # << >>, history[Len(history)].blocks = << >>, NEW k
  PROVE  ClientKept(k) = KeptOf(history, k)
<1> DEFINE n == Len(history)
           s == SubSeq(history, 1, n - 1)
           x == history[n]
           g == TurnKept(k)
           b == AllBlocks(s)
           p == BlockIds(k)
           z == Gather(g, s)
<1>1. s \in Seq(TurnRec) /\ x \in TurnRec /\ history = Append(s, x)  OBVIOUS
<1>2. x.blocks = << >>  OBVIOUS
<1>3. g[x] = << >>  BY <1>1, <1>2, NoBlocks DEF TurnKept
<1> HIDE DEF s, x
<1>4. b = Gather(TurnBlocks, s)
  <2>1. \A i \in DOMAIN s : s[i] \in TurnRec  BY <1>1
  <2>2. [i \in DOMAIN s |-> s[i].blocks] = Each(TurnBlocks, s)  BY <2>1 DEF Each, TurnBlocks
  <2> QED BY <2>2, Zenon DEF AllBlocks, Gather
<1>5. /\ Maker(p, BlockRec, Int) /\ Maker(TurnBlocks, TurnRec, BlockRec)
      /\ Maker(g, TurnRec, Int)
  BY BlockMakers
<1>6. \A t \in TurnRec : g[t] = Gather(p, TurnBlocks[t])  BY DEF TurnKept, TurnBlocks, KeptIn
<1>7. ClientKept(k) = Numbers(OfBlocks(b, k))
  BY DEF ClientKept, Numbers, s
<1> HIDE DEF g, b, p
<1>8. b \in Seq(BlockRec)  BY <1>1, <1>4, <1>5, EachTyped
<1>9. Numbers(OfBlocks(b, k)) = KeptIn(b, k)  BY <1>8, OfBlocksIs
<1>10. Gather(p, Gather(TurnBlocks, s)) = Gather(g, s)  BY <1>1, <1>5, <1>6, GatherGather
<1>11. KeptIn(b, k) = z  BY <1>4, <1>10 DEF KeptIn, p
<1>12. Gather(g, history) = Gather(g, s) \o g[x]  BY <1>1, <1>5, GatherAppend
<1>13. z \in Seq(Int)  BY <1>1, <1>5, EachTyped
<1>14. z \o << >> = z
  <2> HIDE DEF z
  <2> QED BY <1>13
<1> QED BY <1>3, <1>7, <1>9, <1>11, <1>12, <1>14 DEF KeptOf, g

\* The inductive invariant says what HistoryIsKept says.
LEMMA HistoryInvKept == HistoryInv => HistoryIsKept
<1>1. SUFFICES ASSUME HistoryInv, phase = "answer" PROVE HistoryIsKept
  BY DEF HistoryIsKept
<1>2. /\ format \in Formats /\ full \in BOOLEAN /\ Linked(history)
      /\ history \in Seq(TurnRec) /\ \A k \in Dropped(format) : KeptOf(history, k) = << >>
  BY <1>1, TurnOfTurn DEF HistoryInv
<1>3. /\ history # << >> /\ history[Len(history)].blocks = << >>
      /\ contents = Contents(format, history, full)
  BY <1>1 DEF HistoryInv, Telling
<1> DEFINE n == SignedCalls(format, full)
           S == SentKinds(format, full)
<1>4. PICK g : /\ Maker(g, TurnRec, ContentRec) /\ Maker(g, TurnRec, SignedContent(n))
               /\ contents = Gather(g, history) /\ SaysKept(g, S, PartKinds \ S)
  BY <1>2, <1>3, ContentsAre
<1>5. contents \in Seq(ContentRec) /\ contents \in Seq(SignedContent(n))
  BY <1>2, <1>4, EachTyped
<1>6. ASSUME NEW k PROVE ModelSaid(k) = Gather(Said(k), contents)
  <2>1. \A i \in DOMAIN contents : contents[i] \in ContentRec  BY <1>5
  <2>2. [i \in DOMAIN contents |->
            IF contents[i].role = "model" THEN OfKind(contents[i].parts, {k}) ELSE << >>]
          = Each(Said(k), contents)
    BY <2>1 DEF Each, Said
  <2> QED BY <2>2, Zenon DEF ModelSaid, Gather
<1>7. ASSUME NEW k \in PartKinds
      PROVE  ModelSaid(k) = IF k \in S THEN KeptOf(history, k) ELSE << >>
  <2>1. k \in S => Gather(Said(k), Gather(g, history)) = KeptOf(history, k)
    BY <1>2, <1>4, KeptBySaying
  <2>2. k \in PartKinds \ S => Gather(Said(k), Gather(g, history)) = << >>
    BY <1>2, <1>4, KeptBySaying
  <2> HIDE DEF S
  <2> QED BY <2>1, <2>2, <1>4, <1>6
<1>8. \A k : ClientKept(k) = KeptOf(history, k)  BY <1>2, <1>3, ClientKeptIs
<1> DEFINE M(k) == ModelSaid(k)
           C(k) == ClientKept(k)
<1>9. \A k \in PartKinds : M(k) = IF k \in S THEN C(k) ELSE << >>  BY <1>7, <1>8
<1>10. \A k \in Dropped(format) : C(k) = << >>  BY <1>2, <1>8
<1> HIDE DEF M, C
<1>11. "call" \in PartKinds /\ "text" \in PartKinds /\ "image" \in PartKinds /\ "thought" \in PartKinds
  BY DEF PartKinds
<1>12. M("call") = C("call")
  <2>1. "call" \in S \/ format = "shim"  BY <1>11 DEF SentKinds, ItemKinds
  <2>2. format = "shim" => C("call") = << >>  BY <1>10 DEF Dropped
  <2>3. "call" \notin S => M("call") = << >>  BY <1>9, <1>11
  <2>4. "call" \in S => M("call") = C("call")  BY <1>9, <1>11
  <2> QED BY <2>1, <2>2, <2>3, <2>4
<1>13. M("text") = (IF format = "responses" /\ ~full THEN << >> ELSE C("text"))
  <2>1. "text" \in S <=> ~(format = "responses" /\ ~full)
    BY <1>2, <1>11 DEF SentKinds, ItemKinds
  <2> HIDE DEF S
  <2> QED BY <2>1, <1>9, <1>11
<1>14. M("image") = C("image")
  <2>1. "image" \in S \/ format \in {"openai", "shim", "responses"}
    BY <1>11 DEF SentKinds
  <2>2. format \in {"openai", "shim", "responses"} => C("image") = << >>  BY <1>10 DEF Dropped
  <2>3. "image" \notin S => M("image") = << >>  BY <1>9, <1>11
  <2>4. "image" \in S => M("image") = C("image")  BY <1>9, <1>11
  <2> QED BY <2>1, <2>2, <2>3, <2>4
<1>15. M("thought") = (IF format \in {"claude", "gemini"} THEN C("thought") ELSE << >>)
  <2>1. "thought" \in S <=> format \in {"claude", "gemini"}
    BY <1>2, <1>11 DEF SentKinds, ItemKinds, Formats
  <2> HIDE DEF S
  <2> QED BY <2>1, <1>9, <1>11
<1>16. ASSUME NEW i \in DOMAIN contents
       PROVE  LET calls == PartsOfKind(contents[i].parts, {"call"})
              IN  \A j \in DOMAIN calls : calls[j].signed <=>
                    j = 1 \/ (j = 2 /\ format = "gemini" /\ full)
  <2> DEFINE c == contents[i]
             q == CallsOf(c.parts)
  <2>1. c \in SignedContent(n)  BY <1>5
  <2>2. c.parts \in Seq(PartRec) /\ SignedTo(c.parts, n)  BY <2>1 DEF SignedContent, ContentRec
  <2>3. \A j \in DOMAIN q : q[j].signed <=> j <= n  BY <2>2 DEF SignedTo
  <2>4. q \in Seq(CallPart)
    <3> DEFINE p == c.parts
    <3> HIDE DEF p
    <3>1. CallsOf(p) \in Seq(CallPart)  BY <2>2, SignFirstCalls DEF p, Commutes
    <3> QED BY <3>1 DEF p
  <2>5. n = IF format = "gemini" /\ full THEN 2 ELSE 1  BY DEF SignedCalls
  <2>6. q = PartsOfKind(contents[i].parts, {"call"})  BY DEF CallsOf
  <2> HIDE DEF n, q
  <2>7. \A j \in DOMAIN q : j \in Nat /\ j >= 1  BY <2>4
  <2>8. \A j \in DOMAIN q : j <= n <=> j = 1 \/ (j = 2 /\ format = "gemini" /\ full)
    <3>1. CASE format = "gemini" /\ full
      <4>1. n = 2  BY <2>5, <3>1
      <4>2. \A j \in DOMAIN q : j <= 2 <=> j = 1 \/ j = 2  BY <2>7
      <4> QED BY <3>1, <4>1, <4>2
    <3>2. CASE ~(format = "gemini" /\ full)
      <4>1. n = 1  BY <2>5, <3>2
      <4>2. \A j \in DOMAIN q : j <= 1 <=> j = 1  BY <2>7
      <4> QED BY <3>2, <4>1, <4>2
    <3> QED BY <3>1, <3>2
  <2>9. \A j \in DOMAIN q : q[j].signed <=> j = 1 \/ (j = 2 /\ format = "gemini" /\ full)
    BY <2>3, <2>8, Zenon
  <2> QED BY <2>6, <2>9
<1> QED BY <1>12, <1>13, <1>14, <1>15, <1>16, Zenon DEF HistoryIsKept, M, C

-----------------------------------------------------------------------------
(* Blocks and what they keep. *)

\* A block of an answer, and what it has of a kind.
LEMMA BlockIs ==
  ASSUME NEW c \in EvKind, NEW p \in Seq(PartNo)
  PROVE  LET b == Block(c, p) IN
         /\ b \in BlockRec /\ b.kind = c /\ b.parts = p
         /\ << b >> \in Seq(BlockRec)
         /\ \A k : KeptIn(<< b >>, k) = IF k = c THEN p ELSE << >>
<1> DEFINE b == Block(c, p)
<1>1. b \in BlockRec /\ b.kind = c /\ b.parts = p  BY DEF Block, BlockRec, PartNo
<1> HIDE DEF b
<1>2. ASSUME NEW k PROVE KeptIn(<< b >>, k) = IF k = c THEN p ELSE << >>
  <2> DEFINE g == BlockIds(k)
  <2>1. Maker(g, BlockRec, Int)  BY BlockMakers
  <2>2. g[b] = IF k = c THEN p ELSE << >>  BY <1>1 DEF BlockIds
  <2> HIDE DEF g
  <2>3. Gather(g, << b >>) = g[b]  BY <1>1, <2>1, GatherOne
  <2> QED BY <2>2, <2>3 DEF KeptIn, g
<1> QED BY <1>1, <1>2 DEF b

\* What two sequences of blocks have.
LEMMA KeptConcat ==
  ASSUME NEW a \in Seq(BlockRec), NEW b \in Seq(BlockRec)
  PROVE  a \o b \in Seq(BlockRec) /\ \A k : KeptIn(a \o b, k) = KeptIn(a, k) \o KeptIn(b, k)
<1>1. ASSUME NEW k PROVE KeptIn(a \o b, k) = KeptIn(a, k) \o KeptIn(b, k)
  <2> DEFINE g == BlockIds(k)
  <2>1. Maker(g, BlockRec, Int)  BY BlockMakers
  <2> HIDE DEF g
  <2>2. Gather(g, a \o b) = Gather(g, a) \o Gather(g, b)  BY <2>1, GatherConcat
  <2> QED BY <2>2 DEF KeptIn, g
<1> QED BY <1>1

\* What some blocks have of a kind is a sequence of parts.
LEMMA KeptTyped ==
  ASSUME NEW a \in Seq(BlockRec), NEW k
  PROVE  KeptIn(a, k) \in Seq(PartNo)
<1> DEFINE g == BlockIds(k)
<1>1. Maker(g, BlockRec, PartNo)
  <2>1. \A b \in BlockRec : (IF b.kind = k THEN b.parts ELSE << >>) \in Seq(PartNo)
    BY DEF BlockRec, PartNo
  <2> QED BY <2>1 DEF BlockIds, Maker
<1> HIDE DEF g
<1>2. Gather(g, a) \in Seq(PartNo)  BY <1>1, EachTyped
<1> QED BY <1>2 DEF KeptIn, g

\* To leave out the empty blocks is to lose nothing.
LEMMA NonEmptyKept ==
  ASSUME NEW blocks \in Seq(BlockRec)
  PROVE  NonEmpty(blocks) \in Seq(BlockRec) /\ \A k : KeptIn(NonEmpty(blocks), k) = KeptIn(blocks, k)
<1> DEFINE f == [b \in BlockRec |-> IF b.parts # << >> THEN << b >> ELSE << >>]
<1>1. Maker(f, BlockRec, BlockRec)
  <2>1. \A b \in BlockRec : (IF b.parts # << >> THEN << b >> ELSE << >>) \in Seq(BlockRec)  OBVIOUS
  <2> QED BY <2>1 DEF Maker
<1>2. NonEmpty(blocks) = Gather(f, blocks)
  <2>1. \A i \in DOMAIN blocks : blocks[i] \in BlockRec  OBVIOUS
  <2>2. [i \in DOMAIN blocks |-> IF blocks[i].parts # << >> THEN << blocks[i] >> ELSE << >>]
          = Each(f, blocks)
    BY <2>1 DEF Each
  <2> QED BY <2>2, Zenon DEF NonEmpty, Gather
<1>3. ASSUME NEW k PROVE Gather(BlockIds(k), Gather(f, blocks)) = Gather(BlockIds(k), blocks)
  <2> DEFINE g == BlockIds(k)
  <2>1. Maker(g, BlockRec, Int)  BY BlockMakers
  <2>2. ASSUME NEW b \in BlockRec PROVE g[b] = Gather(g, f[b])
    <3>1. CASE b.parts = << >>
      <4>1. f[b] = << >> /\ g[b] = << >>  BY <3>1 DEF BlockIds
      <4> HIDE DEF f, g
      <4> QED BY <4>1, GatherNone
    <3>2. CASE b.parts # << >>
      <4>1. f[b] = << b >>  BY <3>2
      <4> HIDE DEF f, g
      <4>2. Gather(g, << b >>) = g[b]  BY <2>1, GatherOne
      <4> QED BY <4>1, <4>2
    <3> QED BY <3>1, <3>2
  <2> HIDE DEF f, g
  <2>3. Gather(g, Gather(f, blocks)) = Gather(g, blocks)  BY <1>1, <2>1, <2>2, GatherGather
  <2> QED BY <2>3 DEF g
<1> HIDE DEF f
<1>4. Gather(f, blocks) \in Seq(BlockRec)  BY <1>1, EachTyped
<1> QED BY <1>2, <1>3, <1>4 DEF KeptIn

\* A block for each call.
LEMMA AloneKept ==
  ASSUME NEW c \in EvKind, NEW ids \in Seq(PartNo)
  PROVE  /\ EachAlone(c, ids) \in Seq(BlockRec)
         /\ \A k : KeptIn(EachAlone(c, ids), k) = IF k = c THEN ids ELSE << >>
<1> DEFINE f == [x \in PartNo |-> Block(c, << x >>)]
           h == [x \in PartNo |-> << f[x] >>]
           j == [x \in PartNo |-> << x >>]
           l == [x \in PartNo |-> x]
           a == EachAlone(c, ids)
<1>1. ASSUME NEW x \in PartNo
      PROVE  << x >> \in Seq(PartNo)  OBVIOUS
<1>2. \A x \in PartNo : f[x] \in BlockRec
  <2>1. \A x \in PartNo : Block(c, << x >>) \in BlockRec  BY <1>1, BlockIs
  <2> QED BY <2>1
<1>3. Maker(h, PartNo, BlockRec)
  <2>1. \A x \in PartNo : << f[x] >> \in Seq(BlockRec)
    <3> HIDE DEF f
    <3> QED BY <1>2
  <2> HIDE DEF f
  <2> QED BY <2>1 DEF Maker
<1>4. a = [i \in DOMAIN ids |-> f[ids[i]]]
  <2>1. \A i \in DOMAIN ids : ids[i] \in PartNo  OBVIOUS
  <2> QED BY <2>1 DEF EachAlone
<1>5. \A x \in PartNo : h[x] = << f[x] >>  OBVIOUS
<1>6. Gather(h, ids) = a
  <2> HIDE DEF f, h, a
  <2>1. Gather(h, ids) = [i \in DOMAIN ids |-> f[ids[i]]]  BY <1>2, <1>3, <1>5, GatherMap
  <2> QED BY <2>1, <1>4
<1>7. a \in Seq(BlockRec)
  <2> HIDE DEF h, a
  <2> QED BY <1>3, <1>6, EachTyped
<1>8. Maker(j, PartNo, PartNo)  BY <1>1 DEF Maker
<1>9. ASSUME NEW k PROVE KeptIn(a, k) = IF k = c THEN ids ELSE << >>
  <2> DEFINE g == BlockIds(k)
             m == [x \in PartNo |-> IF k = c THEN << x >> ELSE << >>]
  <2>1. Maker(g, BlockRec, Int)  BY BlockMakers
  <2>2. Maker(m, PartNo, Int)
    <3>1. \A x \in PartNo : (IF k = c THEN << x >> ELSE << >>) \in Seq(Int)  BY DEF PartNo
    <3> QED BY <3>1 DEF Maker
  <2>3. ASSUME NEW x \in PartNo PROVE m[x] = Gather(g, h[x])
    <3> DEFINE p == << x >>
               b == Block(c, p)
    <3>1. h[x] = << b >> /\ m[x] = IF k = c THEN p ELSE << >>  OBVIOUS
    <3>2. p \in Seq(PartNo)  BY <1>1
    <3> HIDE DEF p, h, m, g
    <3>3. KeptIn(<< b >>, k) = IF k = c THEN p ELSE << >>  BY <3>2, BlockIs
    <3> HIDE DEF b
    <3> QED BY <3>1, <3>3 DEF KeptIn, g
  <2>4. k = c => m = j  OBVIOUS
  <2>5. k # c => \A i \in DOMAIN ids : m[ids[i]] = << >>
    <3>1. \A i \in DOMAIN ids : ids[i] \in PartNo  OBVIOUS
    <3> QED BY <3>1
  <2>6. \A x \in PartNo : l[x] \in PartNo /\ j[x] = << l[x] >>  OBVIOUS
  <2>7. [i \in DOMAIN ids |-> l[ids[i]]] = ids
    <3>1. \A i \in DOMAIN ids : ids[i] \in PartNo  OBVIOUS
    <3>2. \A i \in DOMAIN ids : l[ids[i]] = ids[i]  BY <3>1
    <3> HIDE DEF l
    <3> QED BY <3>2
  <2> HIDE DEF f, h, j, l, a, g, m
  <2>8. Gather(g, Gather(h, ids)) = Gather(m, ids)  BY <1>3, <2>1, <2>2, <2>3, GatherGather
  <2>9. Gather(j, ids) = ids
    <3>1. Gather(j, ids) = [i \in DOMAIN ids |-> l[ids[i]]]  BY <1>8, <2>6, GatherMap
    <3> QED BY <3>1, <2>7
  <2>10. k # c => Gather(m, ids) = << >>
    <3>1. SUFFICES ASSUME k # c PROVE Gather(m, ids) = << >>  OBVIOUS
    <3>2. \A i \in DOMAIN ids : m[ids[i]] = << >>  BY <3>1, <2>5
    <3> QED BY <3>2, GatherNothing
  <2>11. KeptIn(a, k) = Gather(m, ids)  BY <1>6, <2>8 DEF KeptIn, g
  <2>12. CASE k = c  BY <2>12, <2>4, <2>9, <2>11
  <2>13. CASE k # c  BY <2>13, <2>10, <2>11
  <2> QED BY <2>12, <2>13
<1> QED BY <1>7, <1>9 DEF a

-----------------------------------------------------------------------------
(* Blocks without an index. *)

\* The parts told of a kind, and those filed under an index.
LEMMA CarriedIs ==
  ASSUME NEW out \in Seq(Ev), NEW k
  PROVE  /\ Carried(out, k) = ToldOf(out, k) /\ ToldOf(out, k) \in Seq(PartNo)
         /\ \A x \in Int : Filed(out, k, x) = FiledAt(out, k)[x] /\ Filed(out, k, x) \in Seq(PartNo)
<1>1. \A i \in DOMAIN out : out[i] \in Ev  OBVIOUS
<1>2. Carried(out, k) = ToldOf(out, k)
  <2>1. [i \in DOMAIN out |-> IF out[i].stage = "delta" /\ out[i].kind = k /\ out[i].part # 0
                              THEN << out[i].part >> ELSE << >>]
          = Each(Tells(k), out)
    BY <1>1 DEF Each, Tells
  <2> QED BY <2>1, Zenon DEF Carried, ToldOf, Gather
<1>3. ASSUME NEW x \in Int PROVE Filed(out, k, x) = FiledAt(out, k)[x]
  <2>1. [i \in DOMAIN out |-> IF out[i].stage = "delta" /\ out[i].kind = k /\ out[i].index = x
                                 /\ out[i].part # 0
                              THEN << out[i].part >> ELSE << >>]
          = Each(Files(k, x), out)
    BY <1>1 DEF Each, Files
  <2>2. Filed(out, k, x) = Gather(Files(k, x), out)  BY <2>1, Zenon DEF Filed, Gather
  <2> QED BY <2>2 DEF FiledAt
<1> QED BY <1>2, <1>3, FiledTyped

\* The thoughts, the text and the calls of an answer.
ThreeBlocks(t, x, c) ==
  NonEmpty(<< Block("thought", t), Block("text", x) >>) \o EachAlone("call", c)

\* The blocks of a whole answer keep its thoughts, its text and its calls.
LEMMA ThreeKept ==
  ASSUME NEW t \in Seq(PartNo), NEW x \in Seq(PartNo), NEW c \in Seq(PartNo)
  PROVE  LET b == ThreeBlocks(t, x, c) IN
         /\ b \in Seq(BlockRec) /\ KeptIn(b, "thought") = t /\ KeptIn(b, "text") = x
         /\ KeptIn(b, "call") = c /\ KeptIn(b, "image") = << >>
<1> DEFINE u == Block("thought", t)
           v == Block("text", x)
           n == NonEmpty(<< u, v >>)
           e == EachAlone("call", c)
           P(k) == IF k = "thought" THEN t ELSE << >>
           Q(k) == IF k = "text" THEN x ELSE << >>
           R(k) == IF k = "call" THEN c ELSE << >>
<1>0. "thought" \in EvKind /\ "text" \in EvKind /\ "call" \in EvKind  BY Words
<1>1. << u >> \in Seq(BlockRec) /\ \A k : KeptIn(<< u >>, k) = P(k)  BY <1>0, BlockIs
<1>2. << v >> \in Seq(BlockRec) /\ \A k : KeptIn(<< v >>, k) = Q(k)  BY <1>0, BlockIs
<1>3. << u, v >> = << u >> \o << v >>  OBVIOUS
<1>4. e \in Seq(BlockRec) /\ \A k : KeptIn(e, k) = R(k)  BY <1>0, AloneKept
<1> DEFINE y == << u >>
           z == << v >>
           w == y \o z
<1> HIDE DEF u, v, e, P, Q, R
<1> HIDE DEF y, z
<1>5. w \in Seq(BlockRec) /\ \A k : KeptIn(w, k) = KeptIn(y, k) \o KeptIn(z, k)
  BY <1>1, <1>2, KeptConcat DEF y, z
<1>6. n = NonEmpty(w)  BY <1>3 DEF y, z
<1> HIDE DEF w
<1>7. NonEmpty(w) \in Seq(BlockRec) /\ \A k : KeptIn(NonEmpty(w), k) = KeptIn(w, k)
  BY <1>5, NonEmptyKept
<1> HIDE DEF n
<1>8. n \in Seq(BlockRec) /\ \A k : KeptIn(n, k) = P(k) \o Q(k)
  BY <1>1, <1>2, <1>5, <1>6, <1>7 DEF y, z
<1>9. n \o e \in Seq(BlockRec) /\ \A k : KeptIn(n \o e, k) = KeptIn(n, k) \o KeptIn(e, k)
  BY <1>4, <1>8, KeptConcat
<1>10. ThreeBlocks(t, x, c) = n \o e  BY DEF ThreeBlocks, n, u, v, e
<1> DEFINE b == n \o e
<1>11. \A k : KeptIn(b, k) = (P(k) \o Q(k)) \o R(k)  BY <1>4, <1>8, <1>9
<1>12. b \in Seq(BlockRec) /\ b = ThreeBlocks(t, x, c)  BY <1>9, <1>10
<1> HIDE DEF b
<1>13. KeptIn(b, "thought") = t
  <2>1. P("thought") = t /\ Q("thought") = << >> /\ R("thought") = << >>  BY DEF P, Q, R
  <2>2. (t \o << >>) \o << >> = t  OBVIOUS
  <2> QED BY <2>1, <2>2, <1>11
<1>14. KeptIn(b, "text") = x
  <2>1. P("text") = << >> /\ Q("text") = x /\ R("text") = << >>  BY DEF P, Q, R
  <2>2. (<< >> \o x) \o << >> = x  OBVIOUS
  <2> QED BY <2>1, <2>2, <1>11
<1>15. KeptIn(b, "call") = c
  <2>1. P("call") = << >> /\ Q("call") = << >> /\ R("call") = c  BY DEF P, Q, R
  <2>2. (<< >> \o << >>) \o c = c  OBVIOUS
  <2> QED BY <2>1, <2>2, <1>11
<1>16. KeptIn(b, "image") = << >>
  <2>1. P("image") = << >> /\ Q("image") = << >> /\ R("image") = << >>  BY DEF P, Q, R
  <2>2. (<< >> \o << >>) \o << >> = << >>  OBVIOUS
  <2> QED BY <2>1, <2>2, <1>11
<1> QED BY <1>12, <1>13, <1>14, <1>15, <1>16

\* What a Chat Completions client keeps of a stream.
LEMMA OpenAIBlocksAre ==
  ASSUME NEW out \in Seq(Ev)
  PROVE  LET b == OpenAIBlocks(out) IN
         /\ b \in Seq(BlockRec) /\ KeptIn(b, "image") = << >>
         /\ \A k \in {"thought", "text", "call"} : KeptIn(b, k) = ToldOf(out, k)
<1> DEFINE T(k) == ToldOf(out, k)
           t == Carried(out, "thought")
           x == Carried(out, "text")
           c == Carried(out, "call")
<1>1. \A k : Carried(out, k) = T(k) /\ T(k) \in Seq(PartNo)  BY CarriedIs
<1>2. OpenAIBlocks(out) = ThreeBlocks(t, x, c)  BY DEF OpenAIBlocks, ThreeBlocks
<1>3. t \in Seq(PartNo) /\ x \in Seq(PartNo) /\ c \in Seq(PartNo)  BY <1>1
<1>3a. t = T("thought") /\ x = T("text") /\ c = T("call")  BY <1>1
<1> HIDE DEF t, x, c
<1> DEFINE b == ThreeBlocks(t, x, c)
<1>4. /\ b \in Seq(BlockRec) /\ KeptIn(b, "thought") = t /\ KeptIn(b, "text") = x
      /\ KeptIn(b, "call") = c /\ KeptIn(b, "image") = << >>
  BY <1>3, ThreeKept
<1> HIDE DEF b
<1>5. \A k \in {"thought", "text", "call"} : KeptIn(b, k) = T(k)  BY <1>4, <1>3a
<1> QED BY <1>2, <1>4, <1>5 DEF b

\* The numbers of some parts of an answer.
LEMMA SaidIds ==
  ASSUME NEW parts \in Seq(PartSet), NEW kinds
  PROVE  OfKind(parts, kinds) \in Seq(PartNo)
<1> DEFINE g == Ids(PartSet, kinds)
<1>1. Maker(g, PartSet, PartNo)
  <2>1. \A p \in PartSet : (IF p.kind \in kinds THEN << p.id >> ELSE << >>) \in Seq(PartNo)
    <3>1. \A p \in PartSet : p.id \in PartNo  BY DEF PartSet, PartNo
    <3> QED BY <3>1
  <2> QED BY <2>1 DEF Maker, Ids
<1>2. OfKind(parts, kinds) = Gather(g, parts)  BY OfKindIs
<1> HIDE DEF g
<1> QED BY <1>1, <1>2, EachTyped

\* What the clients keep of a whole answer.
LEMMA OpenAIWholeAre ==
  ASSUME NEW parts \in Seq(PartSet)
  PROVE  LET b == OpenAIWhole(parts) IN
         /\ b \in Seq(BlockRec) /\ KeptIn(b, "image") = << >>
         /\ KeptIn(b, "thought") = OfKind(parts, {"thought"})
         /\ KeptIn(b, "text") = OfKind(parts, {"text", "image"})
         /\ KeptIn(b, "call") = OfKind(parts, {"call"})
<1> DEFINE t == OfKind(parts, {"thought"})
           x == OfKind(parts, {"text", "image"})
           c == OfKind(parts, {"call"})
<1>1. t \in Seq(PartNo) /\ x \in Seq(PartNo) /\ c \in Seq(PartNo)  BY SaidIds
<1>2. OpenAIWhole(parts) = ThreeBlocks(t, x, c)  BY DEF OpenAIWhole, ThreeBlocks
<1> HIDE DEF t, x, c
<1>3. LET b == ThreeBlocks(t, x, c) IN
      /\ b \in Seq(BlockRec) /\ KeptIn(b, "thought") = t /\ KeptIn(b, "text") = x
      /\ KeptIn(b, "call") = c /\ KeptIn(b, "image") = << >>
  BY <1>1, ThreeKept
<1> QED BY <1>2, <1>3 DEF t, x, c

\* The shim passes on the text of a whole answer.
LEMMA ShimWholeAre ==
  ASSUME NEW blocks \in Seq(BlockRec)
  PROVE  LET b == ShimWhole(blocks) IN
         /\ b \in Seq(BlockRec)
         /\ \A k : KeptIn(b, k) = IF k = "text" THEN KeptIn(blocks, k) ELSE << >>
<1> DEFINE f == [b \in BlockRec |-> IF b.kind = "text" THEN << b >> ELSE << >>]
<1>1. Maker(f, BlockRec, BlockRec)
  <2>1. \A b \in BlockRec : (IF b.kind = "text" THEN << b >> ELSE << >>) \in Seq(BlockRec)  OBVIOUS
  <2> QED BY <2>1 DEF Maker
<1>2. ShimWhole(blocks) = Gather(f, blocks)
  <2>1. \A i \in DOMAIN blocks : blocks[i] \in BlockRec  OBVIOUS
  <2>2. [i \in DOMAIN blocks |-> IF blocks[i].kind = "text" THEN << blocks[i] >> ELSE << >>]
          = Each(f, blocks)
    BY <2>1 DEF Each
  <2> QED BY <2>2, Zenon DEF ShimWhole, Gather
<1>3. ASSUME NEW k
      PROVE  Gather(BlockIds(k), Gather(f, blocks))
               = IF k = "text" THEN Gather(BlockIds(k), blocks) ELSE << >>
  <2> DEFINE g == BlockIds(k)
             m == [b \in BlockRec |-> IF k = "text" THEN g[b] ELSE << >>]
  <2>1. Maker(g, BlockRec, Int)  BY BlockMakers
  <2>2. Maker(m, BlockRec, Int)
    <3>1. \A b \in BlockRec : (IF k = "text" THEN g[b] ELSE << >>) \in Seq(Int)
      <4>1. \A b \in BlockRec : g[b] \in Seq(Int)
        <5> HIDE DEF g
        <5> QED BY <2>1 DEF Maker
      <4> HIDE DEF g
      <4> QED BY <4>1
    <3> QED BY <3>1 DEF Maker
  <2>3. ASSUME NEW b \in BlockRec PROVE m[b] = Gather(g, f[b])
    <3>1. CASE b.kind # "text"
      <4>1. f[b] = << >> /\ m[b] = << >>  BY <3>1 DEF BlockIds
      <4> HIDE DEF f, g, m
      <4> QED BY <4>1, GatherNone
    <3>2. CASE b.kind = "text"
      <4>1. f[b] = << b >> /\ m[b] = g[b]  BY <3>2 DEF BlockIds
      <4> HIDE DEF f, g, m
      <4>2. Gather(g, << b >>) = g[b]  BY <2>1, GatherOne
      <4> QED BY <4>1, <4>2
    <3> QED BY <3>1, <3>2
  <2>4. k = "text" => \A i \in DOMAIN blocks : m[blocks[i]] = g[blocks[i]]
    <3>1. \A i \in DOMAIN blocks : blocks[i] \in BlockRec  OBVIOUS
    <3> HIDE DEF g
    <3> QED BY <3>1
  <2>5. k # "text" => \A i \in DOMAIN blocks : m[blocks[i]] = << >>
    <3>1. \A i \in DOMAIN blocks : blocks[i] \in BlockRec  OBVIOUS
    <3> HIDE DEF g
    <3> QED BY <3>1
  <2> HIDE DEF f, g, m
  <2>6. Gather(g, Gather(f, blocks)) = Gather(m, blocks)  BY <1>1, <2>1, <2>2, <2>3, GatherGather
  <2>7. k = "text" => Gather(m, blocks) = Gather(g, blocks)  BY <2>4, GatherSame
  <2>8. k # "text" => Gather(m, blocks) = << >>  BY <2>5, GatherNothing
  <2> QED BY <2>6, <2>7, <2>8 DEF g
<1> HIDE DEF f
<1>4. Gather(f, blocks) \in Seq(BlockRec)  BY <1>1, EachTyped
<1> QED BY <1>2, <1>3, <1>4 DEF KeptIn

-----------------------------------------------------------------------------
(* Blocks filed by index, and Gemini's. *)

\* What a client that files the deltas by index keeps.
OpenedBlocks(out) ==
  [e \in Ev |-> IF e.stage = "open" THEN << Block(e.kind, Filed(out, e.kind, e.index)) >> ELSE << >>]

\* The blocks a client files by index keep what was filed for each kind.
LEMMA IndexedBlocksAre ==
  ASSUME NEW out \in Seq(Ev)
  PROVE  LET b == IndexedBlocks(out) IN
         /\ b \in Seq(BlockRec) /\ \A k : KeptIn(b, k) = FiledFor(out, k)
<1> DEFINE f == OpenedBlocks(out)
           o == Gather(f, out)
<1>1. \A i \in DOMAIN out : out[i] \in Ev  OBVIOUS
<1>2. [i \in DOMAIN out |-> IF out[i].stage = "open"
                            THEN << Block(out[i].kind, Filed(out, out[i].kind, out[i].index)) >>
                            ELSE << >>]
        = Each(f, out)
  BY <1>1 DEF Each, OpenedBlocks
<1>3. IndexedBlocks(out) = NonEmpty(o)  BY <1>2, Zenon DEF IndexedBlocks, Gather
<1>4. ASSUME NEW e \in Ev, NEW k
      PROVE  /\ f[e] \in Seq(BlockRec)
             /\ KeptIn(f[e], k) = IF e.stage = "open" /\ e.kind = k THEN FiledAt(out, k)[e.index] ELSE << >>
  <2> DEFINE c == e.kind
             p == Filed(out, c, e.index)
             b == Block(c, p)
  <2>1. c \in EvKind /\ p \in Seq(PartNo) /\ p = FiledAt(out, c)[e.index]
    <3>1. e.index \in Int /\ e.kind \in EvKind  BY DEF Ev
    <3> QED BY <3>1, CarriedIs
  <2>2. f[e] = IF e.stage = "open" THEN << b >> ELSE << >>  BY DEF OpenedBlocks
  <2> HIDE DEF c, p, f
  <2>3. << b >> \in Seq(BlockRec) /\ \A j : KeptIn(<< b >>, j) = IF j = c THEN p ELSE << >>
    BY <2>1, BlockIs
  <2> HIDE DEF b
  <2>4. KeptIn(<< >>, k) = << >>  BY GatherNone DEF KeptIn
  <2>5. CASE e.stage = "open"
    <3>1. f[e] = << b >>  BY <2>2, <2>5
    <3>2. KeptIn(f[e], k) = IF k = c THEN p ELSE << >>  BY <3>1, <2>3
    <3>3. k = c => p = FiledAt(out, k)[e.index]  BY <2>1
    <3>4. k = c <=> e.kind = k  BY DEF c
    <3> QED BY <3>1, <3>2, <3>3, <3>4, <2>3, <2>5
  <2>6. CASE e.stage # "open"
    <3>1. f[e] = << >>  BY <2>2, <2>6
    <3> QED BY <3>1, <2>4, <2>6
  <2> QED BY <2>5, <2>6
<1>5. Maker(f, Ev, BlockRec)
  <2>1. \A e \in Ev : f[e] \in Seq(BlockRec)  BY <1>4
  <2>2. f = [e \in Ev |-> f[e]]  BY DEF OpenedBlocks
  <2> HIDE DEF f
  <2> QED BY <2>1, <2>2 DEF Maker
<1>6. ASSUME NEW k PROVE KeptIn(o, k) = FiledFor(out, k)
  <2> DEFINE g == BlockIds(k)
             h == FiledAt(out, k)
             w == Opens(k)
             m == [e \in Ev |-> IF e.stage = "open" /\ e.kind = k THEN h[e.index] ELSE << >>]
  <2>1. Maker(g, BlockRec, Int)  BY BlockMakers
  <2>2. Maker(h, Int, PartNo)  BY FiledTyped
  <2>3. Maker(w, Ev, Int)  BY FilesMake
  <2>4. \A e \in Ev : m[e] = Gather(g, f[e])
    <3>1. ASSUME NEW e \in Ev
          PROVE  Gather(g, f[e]) = IF e.stage = "open" /\ e.kind = k THEN h[e.index] ELSE << >>
      BY <1>4 DEF KeptIn
    <3> HIDE DEF f, g, h
    <3> QED BY <3>1
  <2>5. Maker(m, Ev, PartNo) /\ Maker(m, Ev, Int)
    <3>1. ASSUME NEW e \in Ev
          PROVE  (IF e.stage = "open" /\ e.kind = k THEN h[e.index] ELSE << >>) \in Seq(PartNo)
      <4>1. e.index \in Int  BY DEF Ev
      <4> HIDE DEF h
      <4>2. h[e.index] \in Seq(PartNo)  BY <4>1, <2>2 DEF Maker
      <4> QED BY <4>2
    <3>2. \A s \in Seq(PartNo) : s \in Seq(Int)  BY DEF PartNo
    <3> HIDE DEF h
    <3> QED BY <3>1, <3>2 DEF Maker
  <2>6. \A e \in Ev : m[e] = Gather(h, w[e])
    <3>1. ASSUME NEW e \in Ev PROVE m[e] = Gather(h, w[e])
      <4> DEFINE x == e.index
      <4>1. x \in Int  BY DEF Ev
      <4>2. CASE e.stage = "open" /\ e.kind = k
        <5>1. w[e] = << x >> /\ m[e] = h[x]  BY <4>2 DEF Opens
        <5> HIDE DEF w, h, m, x
        <5>2. Gather(h, << x >>) = h[x]  BY <4>1, <2>2, GatherOne
        <5> QED BY <5>1, <5>2
      <4>3. CASE ~(e.stage = "open" /\ e.kind = k)
        <5>1. w[e] = << >> /\ m[e] = << >>  BY <4>3 DEF Opens
        <5> HIDE DEF w, h, m
        <5> QED BY <5>1, GatherNone
      <4> QED BY <4>2, <4>3
    <3> QED BY <3>1
  <2> HIDE DEF f, g, h, w, m
  <2>7. Gather(g, Gather(f, out)) = Gather(m, out)  BY <1>5, <2>1, <2>4, <2>5, GatherGather
  <2>8. Gather(h, Gather(w, out)) = Gather(m, out)  BY <2>2, <2>3, <2>5, <2>6, GatherGather
  <2> QED BY <2>7, <2>8 DEF KeptIn, FiledFor, OpenedFor, g, h, w
<1> HIDE DEF f
<1>7. o \in Seq(BlockRec)  BY <1>5, EachTyped
<1> HIDE DEF o
<1>8. NonEmpty(o) \in Seq(BlockRec) /\ \A k : KeptIn(NonEmpty(o), k) = KeptIn(o, k)
  BY <1>7, NonEmptyKept
<1> QED BY <1>3, <1>6, <1>8

\* What a Gemini client keeps.
LEMMA GeminiBlocksAre ==
  ASSUME NEW out \in Seq(Ev)
  PROVE  LET b == GeminiBlocks(out) IN
         /\ b \in Seq(BlockRec) /\ \A k : KeptIn(b, k) = ToldOf(out, k)
<1> DEFINE f == [e \in Ev |-> IF e.stage = "delta" /\ e.part # 0
                              THEN << Block(e.kind, << e.part >>) >> ELSE << >>]
           o == Gather(f, out)
<1>1. \A i \in DOMAIN out : out[i] \in Ev  OBVIOUS
<1>2. [i \in DOMAIN out |-> IF out[i].stage = "delta" /\ out[i].part # 0
                            THEN << Block(out[i].kind, << out[i].part >>) >> ELSE << >>]
        = Each(f, out)
  BY <1>1 DEF Each
<1>3. GeminiBlocks(out) = o  BY <1>2, Zenon DEF GeminiBlocks, Gather
<1>4. ASSUME NEW e \in Ev, NEW k
      PROVE  f[e] \in Seq(BlockRec) /\ KeptIn(f[e], k) = Tells(k)[e]
  <2> DEFINE c == e.kind
             p == << e.part >>
             b == Block(c, p)
             t == Tells(k)[e]
  <2>1. f[e] = IF e.stage = "delta" /\ e.part # 0 THEN << b >> ELSE << >>  OBVIOUS
  <2>2. t = IF e.stage = "delta" /\ c = k /\ e.part # 0 THEN p ELSE << >>  BY DEF Tells
  <2>3. KeptIn(<< >>, k) = << >>  BY GatherNone DEF KeptIn
  <2>4. c \in EvKind /\ (e.part # 0 => p \in Seq(PartNo))  BY DEF Ev, PartNo
  <2> HIDE DEF c, p, f, t
  <2>5. CASE e.stage = "delta" /\ e.part # 0
    <3>1. p \in Seq(PartNo)  BY <2>4, <2>5
    <3>2. << b >> \in Seq(BlockRec) /\ \A j : KeptIn(<< b >>, j) = IF j = c THEN p ELSE << >>
      BY <2>4, <3>1, BlockIs
    <3> HIDE DEF b
    <3>3. f[e] = << b >> /\ t = IF c = k THEN p ELSE << >>  BY <2>1, <2>2, <2>5
    <3>4. KeptIn(<< b >>, k) = IF k = c THEN p ELSE << >>  BY <3>2
    <3> QED BY <3>2, <3>3, <3>4 DEF t
  <2>6. CASE ~(e.stage = "delta" /\ e.part # 0)
    <3>1. f[e] = << >> /\ t = << >>  BY <2>1, <2>2, <2>6
    <3> QED BY <3>1, <2>3 DEF t
  <2> QED BY <2>5, <2>6
<1>5. Maker(f, Ev, BlockRec)
  <2>1. \A e \in Ev : f[e] \in Seq(BlockRec)  BY <1>4
  <2>2. f = [e \in Ev |-> f[e]]  OBVIOUS
  <2> HIDE DEF f
  <2> QED BY <2>1, <2>2 DEF Maker
<1>6. ASSUME NEW k PROVE KeptIn(o, k) = ToldOf(out, k)
  <2> DEFINE g == BlockIds(k)
             t == Tells(k)
  <2>1. Maker(g, BlockRec, Int)  BY BlockMakers
  <2>2. Maker(t, Ev, Int)
    <3>1. Maker(t, Ev, PartNo)  BY FilesMake
    <3>2. \A s \in Seq(PartNo) : s \in Seq(Int)  BY DEF PartNo
    <3> HIDE DEF t
    <3> QED BY <3>1, <3>2 DEF Maker
  <2>3. \A e \in Ev : t[e] = Gather(g, f[e])
    <3>1. ASSUME NEW e \in Ev PROVE Gather(g, f[e]) = t[e]  BY <1>4 DEF KeptIn
    <3> HIDE DEF f, g, t
    <3> QED BY <3>1
  <2> HIDE DEF f, g, t
  <2>4. Gather(g, Gather(f, out)) = Gather(t, out)  BY <1>5, <2>1, <2>2, <2>3, GatherGather
  <2> QED BY <2>4 DEF KeptIn, ToldOf, g, t
<1> HIDE DEF f
<1>7. o \in Seq(BlockRec)  BY <1>5, EachTyped
<1> QED BY <1>3, <1>6, <1>7

-----------------------------------------------------------------------------
(* Whole answers as blocks. *)

\* Nothing is filed under a kind that no item is opened for.
LEMMA NoImagesFiled ==
  ASSUME NEW out \in Seq(Ev), OpensKinds(out)
  PROVE  FiledFor(out, "image") = << >>
<1> DEFINE w == Opens("image")
<1>1. \A i \in DOMAIN out : w[out[i]] = << >>
  <2>1. ASSUME NEW i \in DOMAIN out PROVE w[out[i]] = << >>
    <3>1. out[i] \in Ev  OBVIOUS
    <3>2. ~(out[i].stage = "open" /\ out[i].kind = "image")  BY DEF OpensKinds
    <3> QED BY <3>1, <3>2 DEF Opens
  <2> QED BY <2>1
<1> HIDE DEF w
<1>2. Gather(w, out) = << >>  BY <1>1, GatherNothing
<1>3. FiledFor(out, "image") = Gather(FiledAt(out, "image"), << >>)
  BY <1>2, Zenon DEF FiledFor, OpenedFor, w
<1> QED BY <1>3, GatherNone

\* The chat shim tells neither thoughts nor calls.
ShownEv == { e \in Ev : e.stage = "delta" => e.kind \in {"text", "notice"} }

\* The end of a shim stream tells no thought and no call.
LEMMA ShimEndTells ==
  ASSUME NEW out \in Seq(Ev)
  PROVE  ShimEnd(out) \in Seq(Ev) /\ \A k \in {"thought", "call"} : ToldOf(ShimEnd(out), k) = << >>
<1> DEFINE f == [e \in Ev |-> IF Shown(e) THEN << e >> ELSE << >>]
           s == Gather(f, out)
           b == ShimFirst
           l == Event("finish", "STOP", 0, 0)
           t == << b >> \o s
           o == ShimEnd(out)
<1>1. Maker(f, Ev, ShownEv)
  <2>1. \A e \in Ev : Shown(e) => e \in ShownEv  BY DEF Shown, ShownEv
  <2>2. \A e \in Ev : (IF Shown(e) THEN << e >> ELSE << >>) \in Seq(ShownEv)
    <3>1. ASSUME NEW e \in Ev PROVE (IF Shown(e) THEN << e >> ELSE << >>) \in Seq(ShownEv)
      <4>1. CASE Shown(e)
        <5>1. e \in ShownEv  BY <2>1, <4>1
        <5>2. << e >> \in Seq(ShownEv)  BY <5>1
        <5> QED BY <5>2, <4>1, Zenon
      <4>2. CASE ~Shown(e)
        <5>1. << >> \in Seq(ShownEv)  OBVIOUS
        <5> QED BY <5>1, <4>2, Zenon
      <4> QED BY <4>1, <4>2
    <3> QED BY <3>1
  <2> QED BY <2>2 DEF Maker
<1>2. ShownOf(out) = Each(f, out)
  <2>1. \A i \in DOMAIN out : out[i] \in Ev  OBVIOUS
  <2>2. \A i \in DOMAIN out : f[out[i]] = IF Shown(out[i]) THEN << out[i] >> ELSE << >>
    BY <2>1, Zenon
  <2> HIDE DEF f
  <2> QED BY <2>2, Zenon DEF Each, ShownOf
<1>3. ShimEvents(out) = t  BY <1>2, ShimIs, Zenon DEF Gather
<1>4. b \in ShownEv /\ l \in ShownEv
  <2>1. 0 \in Int  OBVIOUS
  <2>2. b \in Ev /\ b.stage = "start"  BY <2>1, Words, EventIs DEF ShimFirst
  <2>3. l \in Ev /\ l.stage = "finish"  BY <2>1, Words, EventIs
  <2> HIDE DEF b, l
  <2> QED BY <2>2, <2>3 DEF ShownEv
<1> HIDE DEF f
<1>5. s \in Seq(ShownEv)  BY <1>1, EachTyped
<1> HIDE DEF s, b, l
<1>6. t \in Seq(ShownEv)
  <2>1. << b >> \in Seq(ShownEv)  BY <1>4
  <2> QED BY <2>1, <1>5
<1>7. o = t \/ o = Append(t, l)  BY <1>3 DEF ShimEnd, l
<1> HIDE DEF t, o
<1>8. o \in Seq(ShownEv)
  <2>1. Append(t, l) \in Seq(ShownEv)  BY <1>4, <1>6
  <2> QED BY <2>1, <1>6, <1>7
<1>9. o \in Seq(Ev)  BY <1>8 DEF ShownEv
<1>10. ASSUME NEW k \in {"thought", "call"} PROVE ToldOf(o, k) = << >>
  <2> DEFINE g == Tells(k)
  <2>1. \A i \in DOMAIN o : g[o[i]] = << >>
    <3>1. ASSUME NEW i \in DOMAIN o PROVE g[o[i]] = << >>
      <4>1. o[i] \in ShownEv  BY <1>8
      <4>2. o[i] \in Ev /\ ~(o[i].stage = "delta" /\ o[i].kind = k)  BY <4>1 DEF ShownEv
      <4> QED BY <4>2 DEF Tells
    <3> QED BY <3>1
  <2> HIDE DEF g
  <2>2. Gather(g, o) = << >>  BY <1>9, <2>1, GatherNothing
  <2> QED BY <2>2 DEF ToldOf, g
<1> QED BY <1>9, <1>10 DEF o

\* What a Responses client keeps of a whole answer.
LEMMA ResponsesWholeAre ==
  ASSUME NEW parts \in Seq(PartSet)
  PROVE  LET b == ResponsesWhole(parts) IN
         /\ b \in Seq(BlockRec) /\ KeptIn(b, "image") = << >>
         /\ \A k \in {"thought", "text", "call"} : KeptIn(b, k) = OfKind(parts, {k})
<1> DEFINE I(k) == OfKind(parts, {k})
           u == << Block("thought", I("thought")) >>
           v == << Block("text", I("text")) >>
           nu == NonEmpty(u)
           nv == NonEmpty(v)
           e == EachAlone("call", I("call"))
           P(k) == IF k = "thought" THEN I("thought") ELSE << >>
           Q(k) == IF k = "text" THEN I("text") ELSE << >>
           R(k) == IF k = "call" THEN I("call") ELSE << >>
<1>0. "thought" \in EvKind /\ "text" \in EvKind /\ "call" \in EvKind  BY Words
<1>1. \A k : I(k) \in Seq(PartNo)  BY SaidIds
<1> HIDE DEF I
<1>2. u \in Seq(BlockRec) /\ \A k : KeptIn(u, k) = P(k)  BY <1>0, <1>1, BlockIs
<1>3. v \in Seq(BlockRec) /\ \A k : KeptIn(v, k) = Q(k)  BY <1>0, <1>1, BlockIs
<1>4. e \in Seq(BlockRec) /\ \A k : KeptIn(e, k) = R(k)  BY <1>0, <1>1, AloneKept
<1> HIDE DEF u, v, e
<1>5. nu \in Seq(BlockRec) /\ \A k : KeptIn(nu, k) = KeptIn(u, k)  BY <1>2, NonEmptyKept
<1>6. nv \in Seq(BlockRec) /\ \A k : KeptIn(nv, k) = KeptIn(v, k)  BY <1>3, NonEmptyKept
<1>7. ResponsesWhole(parts) = (nu \o e) \o nv  BY DEF ResponsesWhole, u, v, e, I
<1> HIDE DEF nu, nv, P, Q, R
<1> DEFINE a == nu \o e
<1>8. a \in Seq(BlockRec) /\ \A k : KeptIn(a, k) = KeptIn(nu, k) \o KeptIn(e, k)
  BY <1>4, <1>5, KeptConcat
<1> HIDE DEF a
<1> DEFINE b == a \o nv
<1>9. b \in Seq(BlockRec) /\ \A k : KeptIn(b, k) = KeptIn(a, k) \o KeptIn(nv, k)
  BY <1>6, <1>8, KeptConcat
<1>10. ResponsesWhole(parts) = b  BY <1>7 DEF a
<1> HIDE DEF b
<1>11. ASSUME NEW k PROVE KeptIn(b, k) = (P(k) \o R(k)) \o Q(k)
  <2>1. KeptIn(nu, k) = P(k)  BY <1>2, <1>5, Zenon
  <2>2. KeptIn(e, k) = R(k)  BY <1>4, Zenon
  <2>3. KeptIn(nv, k) = Q(k)  BY <1>3, <1>6, Zenon
  <2>4. KeptIn(a, k) = KeptIn(nu, k) \o KeptIn(e, k)  BY <1>8, Zenon
  <2>5. KeptIn(b, k) = KeptIn(a, k) \o KeptIn(nv, k)  BY <1>9, Zenon
  <2> QED BY <2>1, <2>2, <2>3, <2>4, <2>5, Zenon
<1>12. KeptIn(b, "thought") = I("thought")
  <2>1. P("thought") = I("thought") /\ Q("thought") = << >> /\ R("thought") = << >>  BY DEF P, Q, R
  <2>2. (I("thought") \o << >>) \o << >> = I("thought")  BY <1>1
  <2> QED BY <2>1, <2>2, <1>11
<1>13. KeptIn(b, "text") = I("text")
  <2>1. P("text") = << >> /\ Q("text") = I("text") /\ R("text") = << >>  BY DEF P, Q, R
  <2>2. (<< >> \o << >>) \o I("text") = I("text")  BY <1>1
  <2> QED BY <2>1, <2>2, <1>11
<1>14. KeptIn(b, "call") = I("call")
  <2>1. P("call") = << >> /\ Q("call") = << >> /\ R("call") = I("call")  BY DEF P, Q, R
  <2>2. (<< >> \o I("call")) \o << >> = I("call")  BY <1>1
  <2> QED BY <2>1, <2>2, <1>11
<1>15. KeptIn(b, "image") = << >>
  <2>1. P("image") = << >> /\ Q("image") = << >> /\ R("image") = << >>  BY DEF P, Q, R
  <2>2. (<< >> \o << >>) \o << >> = << >>  OBVIOUS
  <2> QED BY <2>1, <2>2, <1>11
<1>16. \A k \in {"thought", "text", "call"} : KeptIn(b, k) = I(k)  BY <1>12, <1>13, <1>14
<1> QED BY <1>9, <1>10, <1>15, <1>16 DEF I

\* A Messages or a Gemini client keeps a block for each part.
LEMMA PartBlocksAre ==
  ASSUME NEW parts \in Seq(PartSet)
  PROVE  ClaudeWhole(parts) \in Seq(BlockRec) /\ GeminiWhole(parts) \in Seq(BlockRec)
<1>1. ASSUME NEW i \in DOMAIN parts
      PROVE  /\ Block(OpenAIKind(parts[i].kind), << parts[i].id >>) \in BlockRec
             /\ Block(parts[i].kind, << parts[i].id >>) \in BlockRec
  <2>1. parts[i] \in PartSet  OBVIOUS
  <2>2. parts[i].kind \in EvKind /\ parts[i].id \in PartNo  BY <2>1 DEF PartSet, Kind, EvKind, PartNo
  <2>3. OpenAIKind(parts[i].kind) \in EvKind  BY <2>2, Words DEF OpenAIKind
  <2>4. << parts[i].id >> \in Seq(PartNo)  BY <2>2
  <2> QED BY <2>2, <2>3, <2>4, BlockIs
<1> DEFINE c(i) == Block(OpenAIKind(parts[i].kind), << parts[i].id >>)
           g(i) == Block(parts[i].kind, << parts[i].id >>)
<1>2. Len(parts) \in Nat /\ DOMAIN parts = 1 .. Len(parts)  OBVIOUS
<1>3. \A i \in 1 .. Len(parts) : c(i) \in BlockRec /\ g(i) \in BlockRec  BY <1>1, <1>2
<1>4. ClaudeWhole(parts) = [i \in 1 .. Len(parts) |-> c(i)]  BY <1>2 DEF ClaudeWhole
<1>5. GeminiWhole(parts) = [i \in 1 .. Len(parts) |-> g(i)]  BY <1>2 DEF GeminiWhole
<1> HIDE DEF c, g
<1>6. [i \in 1 .. Len(parts) |-> c(i)] \in Seq(BlockRec)  BY <1>2, <1>3
<1>7. [i \in 1 .. Len(parts) |-> g(i)] \in Seq(BlockRec)  BY <1>2, <1>3
<1> QED BY <1>4, <1>5, <1>6, <1>7

-----------------------------------------------------------------------------
(* What a client files of an answer. *)

\* What a stream under way has filed.
Files0(f, s) == f = "responses" => s \in ResponsesFiling

\* The blocks of a client: some blocks, and none of the kinds it never keeps.
BlocksFor(f) == { b \in Seq(BlockRec) : \A k \in Dropped(f) : KeptIn(b, k) = << >> }

\* What a client keeps of a stream, and of a whole answer.
LEMMA StreamBlocks ==
  ASSUME format \in Formats, NEW out \in Seq(Ev), format = "responses" => OpensKinds(out)
  PROVE  Blocks(out) \in BlocksFor(format)
<1>1. CASE format = "openai"
  <2>1. Blocks(out) = OpenAIBlocks(out)  BY <1>1 DEF Blocks, Told
  <2>2. OpenAIBlocks(out) \in Seq(BlockRec) /\ KeptIn(OpenAIBlocks(out), "image") = << >>
    BY OpenAIBlocksAre
  <2>3. Dropped(format) = {"image"}  BY <1>1 DEF Dropped
  <2> QED BY <2>1, <2>2, <2>3 DEF BlocksFor
<1>2. CASE format = "shim"
  <2> DEFINE o == ShimEnd(out)
             b == OpenAIBlocks(o)
  <2>1. Blocks(out) = b  BY <1>2 DEF Blocks, Told
  <2>2. o \in Seq(Ev) /\ \A k \in {"thought", "call"} : ToldOf(o, k) = << >>  BY ShimEndTells
  <2> HIDE DEF o
  <2>3. /\ b \in Seq(BlockRec) /\ KeptIn(b, "image") = << >>
        /\ \A k \in {"thought", "text", "call"} : KeptIn(b, k) = ToldOf(o, k)
    BY <2>2, OpenAIBlocksAre
  <2> HIDE DEF b
  <2>4. \A k \in {"image", "call", "thought"} : KeptIn(b, k) = << >>  BY <2>2, <2>3
  <2>5. Dropped(format) = {"image", "call", "thought"}  BY <1>2 DEF Dropped
  <2> QED BY <2>1, <2>3, <2>4, <2>5 DEF BlocksFor
<1>3. CASE format = "responses"
  <2> DEFINE b == IndexedBlocks(out)
  <2>1. Blocks(out) = b  BY <1>3 DEF Blocks
  <2>2. b \in Seq(BlockRec) /\ \A k : KeptIn(b, k) = FiledFor(out, k)  BY IndexedBlocksAre
  <2>3. FiledFor(out, "image") = << >>  BY <1>3, NoImagesFiled
  <2>4. Dropped(format) = {"image"}  BY <1>3 DEF Dropped
  <2> HIDE DEF b
  <2> QED BY <2>1, <2>2, <2>3, <2>4 DEF BlocksFor
<1>4. CASE format = "claude"
  <2>1. Blocks(out) = IndexedBlocks(out)  BY <1>4 DEF Blocks
  <2>2. IndexedBlocks(out) \in Seq(BlockRec)  BY IndexedBlocksAre
  <2>3. Dropped(format) = {}  BY <1>4 DEF Dropped
  <2> QED BY <2>1, <2>2, <2>3 DEF BlocksFor
<1>5. CASE format = "gemini"
  <2>1. Blocks(out) = GeminiBlocks(out)  BY <1>5 DEF Blocks
  <2>2. GeminiBlocks(out) \in Seq(BlockRec)  BY GeminiBlocksAre
  <2>3. Dropped(format) = {}  BY <1>5 DEF Dropped
  <2> QED BY <2>1, <2>2, <2>3 DEF BlocksFor
<1> QED BY <1>1, <1>2, <1>3, <1>4, <1>5 DEF Formats

\* A whole answer is filed as the format files one.
LEMMA WholeBlocks ==
  ASSUME format \in Formats, NEW parts \in Seq(PartSet)
  PROVE  Whole(parts) \in BlocksFor(format)
<1> DEFINE w == OpenAIWhole(parts)
<1>0. w \in Seq(BlockRec) /\ KeptIn(w, "image") = << >>  BY OpenAIWholeAre
<1>1. CASE format = "openai"
  <2>1. Whole(parts) = w /\ Dropped(format) = {"image"}  BY <1>1 DEF Whole, Dropped
  <2> HIDE DEF w
  <2> QED BY <2>1, <1>0 DEF BlocksFor
<1>2. CASE format = "shim"
  <2> DEFINE b == ShimWhole(w)
  <2>1. Whole(parts) = b /\ Dropped(format) = {"image", "call", "thought"}  BY <1>2 DEF Whole, Dropped
  <2> HIDE DEF w
  <2>2. b \in Seq(BlockRec) /\ \A k : KeptIn(b, k) = IF k = "text" THEN KeptIn(w, k) ELSE << >>
    BY <1>0, ShimWholeAre
  <2> HIDE DEF b
  <2>3. \A k \in {"image", "call", "thought"} : KeptIn(b, k) = << >>  BY <2>2
  <2> QED BY <2>1, <2>2, <2>3 DEF BlocksFor
<1>3. CASE format = "responses"
  <2> DEFINE b == ResponsesWhole(parts)
  <2>1. Whole(parts) = b /\ Dropped(format) = {"image"}  BY <1>3 DEF Whole, Dropped
  <2>2. b \in Seq(BlockRec) /\ KeptIn(b, "image") = << >>  BY ResponsesWholeAre
  <2> HIDE DEF b
  <2> QED BY <2>1, <2>2 DEF BlocksFor
<1>4. CASE format = "claude"
  <2>1. Whole(parts) = ClaudeWhole(parts) /\ Dropped(format) = {}  BY <1>4 DEF Whole, Dropped
  <2>2. ClaudeWhole(parts) \in Seq(BlockRec)  BY PartBlocksAre
  <2> QED BY <2>1, <2>2 DEF BlocksFor
<1>5. CASE format = "gemini"
  <2>1. Whole(parts) = GeminiWhole(parts) /\ Dropped(format) = {}  BY <1>5 DEF Whole, Dropped
  <2>2. GeminiWhole(parts) \in Seq(BlockRec)  BY PartBlocksAre
  <2> QED BY <2>1, <2>2 DEF BlocksFor
<1> QED BY <1>1, <1>2, <1>3, <1>4, <1>5 DEF Formats

\* The results a client must send: the numbers of the calls it kept last.
LEMMA OpenCallsAre ==
  ASSUME history \in Seq(TurnRec)
  PROVE  OpenCalls = IF history = << >> THEN << >> ELSE KeptIn(history[Len(history)].blocks, "call")
<1>1. CASE history = << >>  BY <1>1 DEF OpenCalls
<1>2. CASE history # << >>
  <2> DEFINE b == history[Len(history)].blocks
  <2>1. history[Len(history)] \in TurnRec  BY <1>2
  <2>2. b \in Seq(BlockRec)  BY <2>1 DEF TurnRec
  <2>3. OpenCalls = Numbers(OfBlocks(b, "call"))  BY <1>2 DEF OpenCalls, Numbers
  <2> HIDE DEF b
  <2>4. Numbers(OfBlocks(b, "call")) = KeptIn(b, "call")  BY <2>2, OfBlocksIs
  <2> QED BY <2>3, <2>4, <1>2 DEF b
<1> QED BY <1>1, <1>2

\* A new turn answers the calls of the last one.
LEMMA AskLinked ==
  ASSUME NEW f, NEW h \in Seq(TurnOf(f)), Linked(h), NEW asks \in BOOLEAN, NEW calls,
         calls = IF h = << >> THEN << >> ELSE KeptIn(h[Len(h)].blocks, "call")
  PROVE  LET r == Append(h, Turn(calls, asks)) IN
         /\ r \in Seq(TurnOf(f)) /\ Linked(r) /\ r # << >> /\ r[Len(r)].blocks = << >>
<1> DEFINE t == Turn(calls, asks)
           r == Append(h, t)
           n == Len(h)
<1>1. \A i \in 1 .. n : h[i] \in TurnOf(f)  OBVIOUS
<1>2. \A i \in 1 .. n : h[i].blocks \in Seq(BlockRec)  BY <1>1 DEF TurnOf, TurnRec
<1>3. calls \in Seq(PartNo)
  <2>1. CASE h = << >>  BY <2>1
  <2>2. CASE h # << >>
    <3> DEFINE b == h[Len(h)].blocks
    <3>1. n \in 1 .. n  BY <2>2
    <3>2. b \in Seq(BlockRec)  BY <3>1, <1>2
    <3> HIDE DEF b
    <3>3. KeptIn(b, "call") \in Seq(PartNo)  BY <3>2, KeptTyped
    <3> QED BY <3>3, <2>2 DEF b
  <2> QED BY <2>1, <2>2
<1>4. t.results = calls /\ t.asks = asks /\ t.blocks = << >>  BY DEF Turn
<1>5. t \in TurnOf(f)
  <2>1. t \in TurnRec  BY <1>3 DEF Turn, TurnRec, PartNo
  <2>2. \A k : KeptIn(<< >>, k) = << >>  BY GatherNone DEF KeptIn
  <2> HIDE DEF t
  <2> QED BY <1>4, <2>1, <2>2 DEF TurnOf
<1> HIDE DEF t
<1>6. r \in Seq(TurnOf(f)) /\ Len(r) = n + 1 /\ r[n + 1] = t /\ (\A i \in 1 .. n : r[i] = h[i])
      /\ n \in Nat
  BY <1>5
<1> HIDE DEF r
<1>7. Linked(r)
  <2>1. ASSUME NEW i \in 1 .. n + 1
        PROVE  r[i].results = IF i = 1 THEN << >> ELSE KeptIn(r[i - 1].blocks, "call")
    <3>1. CASE i \in 1 .. n
      <4>1. r[i] = h[i]  BY <1>6, <3>1
      <4>2. h[i].results = IF i = 1 THEN << >> ELSE KeptIn(h[i - 1].blocks, "call")
        BY <3>1 DEF Linked
      <4>3. i # 1 => i - 1 \in 1 .. n  BY <3>1, <1>6
      <4>4. i # 1 => r[i - 1] = h[i - 1]  BY <4>3, <1>6
      <4>5. CASE i = 1  BY <4>5, <4>1, <4>2
      <4>6. CASE i # 1  BY <4>6, <4>1, <4>2, <4>4
      <4> QED BY <4>5, <4>6
    <3>2. CASE i = n + 1
      <4>1. r[i].results = calls  BY <1>4, <1>6, <3>2
      <4>2. CASE h = << >>
        <5>1. n = 0  BY <4>2
        <5> QED BY <5>1, <4>1, <4>2, <3>2
      <4>3. CASE h # << >>
        <5>1. i # 1 /\ i - 1 = n /\ n \in 1 .. n  BY <4>3, <3>2, <1>6
        <5>2. r[i - 1] = h[n]  BY <5>1, <1>6
        <5> QED BY <5>1, <5>2, <4>1, <4>3
      <4> QED BY <4>2, <4>3
    <3> QED BY <3>1, <3>2, <1>6
  <2>2. DOMAIN r = 1 .. n + 1  BY <1>6
  <2> QED BY <2>1, <2>2 DEF Linked
<1> QED BY <1>4, <1>6, <1>7 DEF r, t

\* The blocks of the last turn are filed.
LEMMA FileLinked ==
  ASSUME NEW f, NEW h \in Seq(TurnOf(f)), Linked(h), h # << >>, NEW b \in BlocksFor(f)
  PROVE  LET r == [h EXCEPT ![Len(h)].blocks = b] IN r \in Seq(TurnOf(f)) /\ Linked(r)
<1> DEFINE n == Len(h)
           t == [h[n] EXCEPT !.blocks = b]
           r == [h EXCEPT ![n].blocks = b]
<1>1. n \in Nat /\ n \in 1 .. n /\ DOMAIN h = 1 .. n /\ h[n] \in TurnOf(f)  OBVIOUS
<1>2. t \in TurnRec /\ t.results = h[n].results /\ t.blocks = b
  <2>1. h[n] \in TurnRec /\ b \in Seq(BlockRec)  BY <1>1 DEF TurnOf, BlocksFor
  <2> QED BY <2>1 DEF TurnRec
<1>3. t \in TurnOf(f)  BY <1>2 DEF TurnOf, BlocksFor
<1>4. DOMAIN r = 1 .. n /\ r[n] = t /\ \A i \in 1 .. n : i # n => r[i] = h[i]  BY <1>1
<1> HIDE DEF t
<1>5. r \in Seq(TurnOf(f))
  <2>1. \A i \in 1 .. n : r[i] \in TurnOf(f)  BY <1>3, <1>4
  <2>2. r = [i \in 1 .. n |-> r[i]]  BY <1>1
  <2> HIDE DEF r
  <2> QED BY <2>1, <2>2, <1>1
<1> HIDE DEF r
<1>6. Linked(r)
  <2>1. ASSUME NEW i \in 1 .. n
        PROVE  r[i].results = IF i = 1 THEN << >> ELSE KeptIn(r[i - 1].blocks, "call")
    <3>1. r[i].results = h[i].results
      <4>1. CASE i = n  BY <4>1, <1>2, <1>4
      <4>2. CASE i # n  BY <4>2, <1>4
      <4> QED BY <4>1, <4>2
    <3>2. h[i].results = IF i = 1 THEN << >> ELSE KeptIn(h[i - 1].blocks, "call")
      BY <1>1 DEF Linked
    <3>3. i # 1 => i - 1 \in 1 .. n /\ i - 1 # n  BY <1>1
    <3>4. i # 1 => r[i - 1] = h[i - 1]  BY <3>3, <1>4
    <3>5. CASE i = 1  BY <3>1, <3>2, <3>5
    <3>6. CASE i # 1  BY <3>1, <3>2, <3>4, <3>6
    <3> QED BY <3>5, <3>6
  <2> QED BY <2>1, <1>4 DEF Linked
<1> QED BY <1>5, <1>6 DEF r

-----------------------------------------------------------------------------
(* History is kept. *)

\* The stream a request begins with has filed nothing; a chunk is filed.
LEMMA FilesStart == \A f : Files0(f, StartOf(f))
<1>1. SUFFICES ASSUME NEW f, f = "responses" PROVE StartOf(f) \in ResponsesFiling  BY DEF Files0
<1> DEFINE s == ResponsesStart
<1>2. StartOf(f) = s  BY <1>1 DEF StartOf
<1>3. s \in ResponsesState
  <2>1. Live("responses", StartOf("responses"))  BY StartLive DEF Formats
  <2> QED BY <2>1 DEF Live, ResponsesLive, StartOf
<1>4. s.out = << >> /\ s.next = 0 /\ s.message = Absent /\ s.reasoning = Absent  BY DEF ResponsesStart
<1> HIDE DEF s
<1>5. Filing(s.out, s.next, s.message, s.reasoning)  BY <1>4, FilingStart
<1> QED BY <1>2, <1>3, <1>5 DEF ResponsesFiling

\* A chunk leaves everything told filed.
LEMMA FilesChunk ==
  ASSUME NEW f, NEW s, Files0(f, s), NEW chunk \in Seq(FrameSet)
  PROVE  Files0(f, TranslateOf(f, s, chunk))
<1>1. SUFFICES ASSUME f = "responses" PROVE TranslateOf(f, s, chunk) \in ResponsesFiling
  BY DEF Files0
<1>2. s \in ResponsesFiling  BY <1>1 DEF Files0
<1>3. TranslateOf(f, s, chunk) = ResponsesChunk(s, chunk)  BY <1>1 DEF TranslateOf
<1> QED BY <1>2, <1>3, ResponsesChunkFiling

\* The events of a stream, and the items it opens.
LEMMA GoodTyped ==
  ASSUME NEW f \in Formats, NEW s, Good(f, s)
  PROVE  s.out \in Seq(Ev)
<1>1. CASE f = "responses"
  <2>1. s \in ResponsesState  BY <1>1 DEF Good, ResponsesLive, ResponsesOver
  <2> QED BY <2>1 DEF ResponsesState
<1>2. CASE f = "claude"
  <2>1. s \in ClaudeState  BY <1>2 DEF Good, ClaudeSound
  <2> QED BY <2>1 DEF ClaudeState
<1>3. CASE f = "gemini"
  <2>1. s \in GeminiState  BY <1>3 DEF Good, GeminiSound
  <2> QED BY <2>1 DEF GeminiState
<1>4. CASE f \in {"openai", "shim"}
  <2>1. s \in OpenAIState  BY <1>4 DEF Good, OpenAISound
  <2> QED BY <2>1 DEF OpenAIState
<1> QED BY <1>1, <1>2, <1>3, <1>4 DEF Formats

\* The stream a client files from opens blocks of known kinds only.
LEMMA FilesOpen ==
  ASSUME NEW f, NEW s, Files0(f, s)
  PROVE  f = "responses" => OpensKinds(s.out)
BY DEF Files0, ResponsesFiling, Filing

\* The inductive invariants hold at the start.
FilesInv == phase = "answer" => Files0(format, state)

\* An empty history is kept.
LEMMA InitHistory == Init => HistoryInv /\ FilesInv
<1>1. SUFFICES ASSUME Init PROVE HistoryInv /\ FilesInv  OBVIOUS
<1>2. format \in Formats /\ full \in BOOLEAN /\ history = << >> /\ phase = "ask"
  BY <1>1, CanvasAssumption DEF Init, Formats
<1>3. history \in Seq(TurnOf(format)) /\ Linked(history)  BY <1>2 DEF Linked
<1> QED BY <1>2, <1>3 DEF HistoryInv, FilesInv

\* Every action keeps them.
LEMMA HistoryStep ==
  ASSUME HistoryInv, FilesInv, StreamInv, [Next]_vars
  PROVE  HistoryInv' /\ FilesInv'
<1>0. /\ format \in Formats /\ full \in BOOLEAN
      /\ history \in Seq(TurnOf(format)) /\ Linked(history)
      /\ phase = "answer" => Telling
      /\ phase = "answer" => Files0(format, state)
      /\ Good(format, state) /\ used \in Nat
      /\ phase = "answer" /\ mode = "real" => WireOK(wire, ending)
      /\ phase = "answer" /\ mode # "real" => Live(format, state)
  BY DEF HistoryInv, FilesInv, StreamInv, Streaming
<1>1. StreamInv'  BY StreamStep
<1>2. ASSUME Ask PROVE HistoryInv' /\ FilesInv'
  <2>1. PICK asks \in BOOLEAN : history' = Append(history, Turn(OpenCalls, asks))
    BY <1>2 DEF Ask
  <2>2. /\ format' = format /\ full' = full /\ phase' = "answer"
        /\ contents' = Contents(format, history', full) /\ state' = StartOf(format)
    BY <1>2, StartIs DEF Ask
  <2> DEFINE c == OpenCalls
             r == Append(history, Turn(c, asks))
  <2>3. c = IF history = << >> THEN << >> ELSE KeptIn(history[Len(history)].blocks, "call")
    BY <1>0, TurnOfTurn, OpenCallsAre
  <2> HIDE DEF c
  <2>4. r \in Seq(TurnOf(format)) /\ Linked(r) /\ r # << >> /\ r[Len(r)].blocks = << >>
    BY <1>0, <2>3, AskLinked
  <2>5. history' = r  BY <2>1 DEF c
  <2> HIDE DEF r
  <2>6. Files0(format, state')  BY <2>2, FilesStart
  <2>7. Linked(history)' /\ Telling'  BY <2>2, <2>4, <2>5 DEF Telling, Linked
  <2> QED BY <1>0, <2>2, <2>4, <2>5, <2>6, <2>7 DEF HistoryInv, FilesInv
<1>3. ASSUME /\ format' = format /\ full' = full /\ history' = history /\ contents' = contents
             /\ phase' = "answer" => phase = "answer"
             /\ phase' = "answer" => Files0(format, state')
      PROVE  HistoryInv' /\ FilesInv'
  <2>1. Linked(history)'  BY <1>0, <1>3 DEF Linked
  <2>2. phase' = "answer" => Telling'  BY <1>0, <1>3 DEF Telling
  <2> QED BY <1>0, <1>3, <2>1, <2>2 DEF HistoryInv, FilesInv
<1>4. ASSUME NEW b \in BlocksFor(format), phase = "answer", phase' = "ask",
             format' = format, full' = full,
             history' = [history EXCEPT ![Len(history)].blocks = b]
      PROVE  HistoryInv' /\ FilesInv'
  <2> DEFINE r == [history EXCEPT ![Len(history)].blocks = b]
  <2>1. history # << >>  BY <1>0, <1>4 DEF Telling
  <2>2. r \in Seq(TurnOf(format)) /\ Linked(r)  BY <1>0, <2>1, FileLinked
  <2>3. history' = r  BY <1>4
  <2> HIDE DEF r
  <2>4. Linked(history)'  BY <2>2, <2>3 DEF Linked
  <2> QED BY <1>0, <1>4, <2>2, <2>3, <2>4 DEF HistoryInv, FilesInv
<1>5. CASE AskWithSettings
  <2>1. phase' = "configured" /\ format' = format /\ full' = full /\ history' = history
        /\ contents' = contents
    BY <1>5 DEF AskWithSettings, answerVars
  <2> QED BY <2>1, <1>3
<1>6. CASE AskWithSchema
  <2>1. phase' = "offered" /\ format' = format /\ full' = full /\ history' = history
        /\ contents' = contents
    BY <1>6 DEF AskWithSchema, answerVars
  <2> QED BY <2>1, <1>3
<1>7. CASE Say
  <2>1. phase = "answer" /\ format' = format /\ full' = full /\ history' = history
        /\ contents' = contents /\ state' = state
    BY <1>7 DEF Say
  <2> QED BY <2>1, <1>0, <1>3
<1>8. CASE Read
  <2>1. phase = "answer" /\ mode = "real" /\ format' = format /\ full' = full /\ history' = history
        /\ contents' = contents
    BY <1>8 DEF Read
  <2>2. PICK k \in DOMAIN wire, tear \in BOOLEAN :
          state' = Translate(ChunkOf(wire, k, tear)) /\ (tear => ~wire[k].torn)
    BY <1>8 DEF Read, ChunkOf, Half
  <2> DEFINE c == ChunkOf(wire, k, tear)
  <2>3. WireOK(wire, ending) /\ wire \in Seq(FrameSet)  BY <1>0, <2>1 DEF WireOK
  <2>4. k \in 1 .. Len(wire)  BY <2>3
  <2>5. c \in Seq(FrameSet)
    <3>1. ChunkOK(c, tear)  BY <2>2, <2>3, <2>4, ReadWire
    <3> QED BY <3>1 DEF ChunkOK
  <2>6. state' = TranslateOf(format, state, c)  BY <2>2 DEF Translate, TranslateOf
  <2> HIDE DEF c
  <2>7. Files0(format, state)  BY <1>0, <2>1
  <2>8. Files0(format, TranslateOf(format, state, c))  BY <2>5, <2>7, FilesChunk
  <2> QED BY <1>3, <2>1, <2>6, <2>8
<1>9. CASE End
  <2>1. /\ phase = "answer" /\ phase' = "ask" /\ format' = format /\ full' = full
        /\ history' = [history EXCEPT ![Len(history)].blocks = Blocks(state'.out)]
        /\ format = "responses" => state' = state
    BY <1>9 DEF End, EndTurn
  <2> DEFINE o == state'.out
  <2>2. o \in Seq(Ev)  BY <1>0, <1>1, <2>1, GoodTyped DEF StreamInv
  <2>3. format = "responses" => OpensKinds(o)  BY <1>0, <2>1, FilesOpen
  <2> HIDE DEF o
  <2>4. Blocks(o) \in BlocksFor(format)  BY <1>0, <2>2, <2>3, StreamBlocks
  <2> QED BY <1>4, <2>1, <2>4 DEF o
<1>10. CASE AnswerAtOnce
  <2>1. phase = "answer" /\ phase' = "ask" /\ mode # "real" /\ format' = format /\ full' = full
    BY <1>10 DEF AnswerAtOnce, EndTurn
  <2>2. PICK kinds \in Answers(MaxParts - used), how \in Reasons \cup {"blocked"} :
          /\ how = "blocked" => kinds = << >>
          /\ said' = NewParts(kinds)
          /\ state' = IF mode = "whole" THEN state
                      ELSE LET r == IF format = "gemini" THEN GeminiPseudo(state, Ended(said', how))
                                    ELSE Translate(<< Ended(said', how) >>)
                           IN  IF format \in {"openai", "shim"}
                               THEN Emit(r, << Event("done", "none", 0, 0) >>) ELSE r
          /\ history' = [history EXCEPT ![Len(history)].blocks =
                           IF mode = "whole" THEN Whole(said') ELSE Blocks(state'.out)]
    BY <1>10 DEF AnswerAtOnce, EndTurn
  <2> DEFINE f == Ended(NewParts(kinds), how)
             p == NewParts(kinds)
             o == state'.out
             c == << f >>
  <2>3. f \in FrameSet /\ p \in Seq(PartSet)
    <3>1. MaxParts - used \in Int  BY <1>0, CanvasAssumption
    <3> QED BY <3>1, <2>2, <1>0, EndedIs
  <2>4. mode # "whole" /\ format = "responses" => state' = TranslateOf(format, state, c)
    BY <2>2 DEF Translate, TranslateOf
  <2>5. said' = p  BY <2>2
  <2> HIDE DEF f, p
  <2>6. CASE mode = "whole"
    <3>1. Whole(p) \in BlocksFor(format)  BY <1>0, <2>3, WholeBlocks
    <3>2. history' = [history EXCEPT ![Len(history)].blocks = Whole(p)]  BY <2>2, <2>5, <2>6
    <3> QED BY <1>4, <2>1, <3>1, <3>2
  <2>7. CASE mode # "whole"
    <3>1. o \in Seq(Ev)  BY <1>0, <1>1, <2>1, GoodTyped DEF StreamInv
    <3>2. format = "responses" => OpensKinds(o)
      <4>1. SUFFICES ASSUME format = "responses" PROVE OpensKinds(o)  OBVIOUS
      <4>2. Files0(format, state)  BY <1>0, <2>1
      <4>3. c \in Seq(FrameSet)  BY <2>3
      <4> HIDE DEF c
      <4>4. Files0(format, TranslateOf(format, state, c))  BY <4>2, <4>3, FilesChunk
      <4>5. state' = TranslateOf(format, state, c)  BY <2>4, <2>7, <4>1
      <4> QED BY <4>1, <4>4, <4>5, FilesOpen
    <3> HIDE DEF o
    <3>3. Blocks(o) \in BlocksFor(format)  BY <1>0, <3>1, <3>2, StreamBlocks
    <3>4. history' = [history EXCEPT ![Len(history)].blocks = Blocks(o)]  BY <2>2, <2>7 DEF o
    <3> QED BY <1>4, <2>1, <3>3, <3>4
  <2> QED BY <2>6, <2>7
<1>11. CASE Interrupt
  <2>1. /\ phase = "answer" /\ format' = format /\ full' = full /\ contents' = contents
        /\ format = "shim" => /\ phase' = "ask"
                              /\ history' = [history EXCEPT ![Len(history)].blocks = Blocks(state'.out)]
        /\ format # "shim" => phase' = "failed" /\ history' = history
    BY <1>11 DEF Interrupt, EndTurn
  <2>2. CASE format = "shim"
    <3> DEFINE o == state'.out
    <3>1. o \in Seq(Ev)  BY <1>0, <1>1, <2>1, GoodTyped DEF StreamInv
    <3> HIDE DEF o
    <3>2. Blocks(o) \in BlocksFor(format)  BY <1>0, <3>1, <2>2, StreamBlocks
    <3> QED BY <1>4, <2>1, <2>2, <3>2 DEF o
  <2>3. CASE format # "shim"  BY <1>3, <2>1, <2>3
  <2> QED BY <2>2, <2>3
<1>12. CASE Refuse
  <2>1. phase' = "failed" /\ format' = format /\ full' = full /\ history' = history
        /\ contents' = contents
    BY <1>12 DEF Refuse
  <2> QED BY <2>1, <1>3
<1>13. CASE UNCHANGED vars
  <2>1. format' = format /\ full' = full /\ history' = history /\ contents' = contents
        /\ phase' = phase /\ state' = state
    BY <1>13 DEF vars, answerVars
  <2> QED BY <2>1, <1>0, <1>3
<1> QED BY <1>2, <1>5, <1>6, <1>7, <1>8, <1>9, <1>10, <1>11, <1>12, <1>13 DEF Next

\* Whatever the format and however an answer reached the client, the next
\* request holds what the client kept of the answers before.
THEOREM KeptHistory == Spec => []HistoryIsKept
<1>1. Init => HistoryInv /\ FilesInv  BY InitHistory
<1>2. HistoryInv /\ FilesInv /\ StreamInv /\ [Next]_vars => (HistoryInv /\ FilesInv)'
  BY HistoryStep
<1>3. HistoryInv => HistoryIsKept  BY HistoryInvKept
<1>4. Spec => []StreamInv  BY StreamInvHolds
<1> QED BY <1>1, <1>2, <1>3, <1>4, PTL DEF Spec

-----------------------------------------------------------------------------
(* What the shim and whole answers tell. *)

\* The chat shim passes on all the text.
LEMMA ShimEndText ==
  ASSUME NEW out \in Seq(Ev)
  PROVE  ToldOf(ShimEnd(out), "text") = ToldOf(out, "text")
<1> DEFINE f == [e \in Ev |-> IF Shown(e) THEN << e >> ELSE << >>]
           g == Tells("text")
           s == Gather(f, out)
           b == ShimFirst
           l == Event("finish", "STOP", 0, 0)
           t == << b >> \o s
           o == ShimEnd(out)
<1>1. Maker(f, Ev, Ev)
  <2>1. \A e \in Ev : << e >> \in Seq(Ev) /\ << >> \in Seq(Ev)  OBVIOUS
  <2>2. \A e \in Ev : (IF Shown(e) THEN << e >> ELSE << >>) \in Seq(Ev)  BY <2>1, Zenon
  <2> QED BY <2>2 DEF Maker
<1>2. ShownOf(out) = Each(f, out)
  <2>1. \A i \in DOMAIN out : out[i] \in Ev  OBVIOUS
  <2>2. \A i \in DOMAIN out : f[out[i]] = IF Shown(out[i]) THEN << out[i] >> ELSE << >>
    BY <2>1, Zenon
  <2> HIDE DEF f
  <2> QED BY <2>2, Zenon DEF Each, ShownOf
<1>3. ShimEvents(out) = t  BY <1>2, ShimIs, Zenon DEF Gather
<1>4. /\ b \in Ev /\ (b.stage = "delta" => b.part = 0)
      /\ l \in Ev /\ (l.stage = "delta" => l.part = 0)
  <2>1. 0 \in Int  OBVIOUS
  <2>2. b \in Ev /\ b.stage = "start"  BY <2>1, Words, EventIs DEF ShimFirst
  <2>3. l \in Ev /\ l.stage = "finish"  BY <2>1, Words, EventIs
  <2> HIDE DEF b, l
  <2> QED BY <2>2, <2>3
<1>5. Maker(g, Ev, PartNo)  BY FilesMake
<1>6. ASSUME NEW e \in Ev PROVE g[e] = Gather(g, f[e])
  <2>1. CASE Shown(e)
    <3>1. f[e] = << e >>  BY <2>1
    <3> HIDE DEF f, g
    <3> QED BY <3>1, <1>5, GatherOne
  <2>2. CASE ~Shown(e)
    <3>1. f[e] = << >>  BY <2>2
    <3>2. g[e] = << >>  BY <2>2 DEF Shown, Tells
    <3> QED BY <3>1, <3>2, GatherNone
  <2> QED BY <2>1, <2>2
<1> HIDE DEF f, g
<1>7. Gather(g, s) = Gather(g, out)  BY <1>1, <1>5, <1>6, GatherGather
<1>8. s \in Seq(Ev)  BY <1>1, EachTyped
<1> HIDE DEF s, b, l
<1>9. << b >> \in Seq(Ev) /\ t \in Seq(Ev)
  <2>1. << b >> \in Seq(Ev)  BY <1>4
  <2> QED BY <2>1, <1>8
<1>10. ToldOf(t, "text") = ToldOf(out, "text")
  <2> DEFINE a == << b >>
  <2>2. a \in Seq(Ev) /\ \A i \in DOMAIN a : a[i].stage = "delta" => a[i].part = 0
    BY <1>4, QuietOne
  <2>8. t = a \o s  OBVIOUS
  <2> HIDE DEF a, t
  <2>1. ToldOf(t, "text") = ToldOf(a, "text") \o ToldOf(s, "text")  BY <1>8, <2>2, <2>8, ToldConcat
  <2>3. ToldOf(a, "text") = << >>  BY <2>2, ToldNothing
  <2>4. ToldOf(s, "text") = ToldOf(out, "text")  BY <1>7 DEF ToldOf, g
  <2>5. ToldOf(out, "text") \in Seq(PartNo)  BY FiledTyped
  <2> DEFINE z == ToldOf(out, "text")
  <2> HIDE DEF z
  <2>6. z \in Seq(PartNo)  BY <2>5 DEF z
  <2>7. << >> \o z = z  BY <2>6
  <2> QED BY <2>1, <2>3, <2>4, <2>7 DEF z
<1>11. o = t \/ o = Append(t, l)  BY <1>3 DEF ShimEnd, l
<1> HIDE DEF t, o
<1>12. Spoken(Append(t, l)) = Spoken(t)  BY <1>4, <1>9, SpokenQuiet
<1>13. ToldOf(Append(t, l), "text") = ToldOf(t, "text")
  <2>1. "text" \in PartKinds  BY DEF PartKinds
  <2>2. \A x : Spoken(x)["text"] = ToldOf(x, "text")  BY <2>1 DEF Spoken
  <2> QED BY <1>12, <2>2
<1> QED BY <1>10, <1>11, <1>13 DEF o

\* A Messages or a Gemini client keeps each part of a whole answer, as its kind.
LEMMA PartBlocksKept ==
  ASSUME NEW parts \in Seq(PartSet), NEW k \in PartKinds
  PROVE  /\ KeptIn(ClaudeWhole(parts), k) = OfKind(parts, Sources("claude", k))
         /\ KeptIn(GeminiWhole(parts), k) = OfKind(parts, Sources("gemini", k))
<1> DEFINE h == BlockIds(k)
           As(f) == [i \in DOMAIN parts |-> Block(HeardAs(f, parts[i].kind), << parts[i].id >>)]
<1>1. ASSUME NEW f \in {"claude", "gemini"}
      PROVE  Gather(h, As(f)) = OfKind(parts, Sources(f, k))
  <2> DEFINE g == Ids(PartSet, Sources(f, k))
             w == As(f)
  <2>1. ASSUME NEW i \in DOMAIN parts PROVE h[w[i]] = g[parts[i]]
    <3> DEFINE p == parts[i]
               c == HeardAs(f, p.kind)
               q == << p.id >>
    <3>1. p \in PartSet /\ w[i] = Block(c, q)  OBVIOUS
    <3> HIDE DEF w
    <3>2. p.kind \in Kind /\ p.kind \in EvKind /\ p.id \in PartNo
      BY <3>1 DEF PartSet, Kind, EvKind, PartNo
    <3>3. c \in EvKind  BY <3>2, Words DEF HeardAs, OpenAIKind
    <3>4. q \in Seq(PartNo)  BY <3>2
    <3>5. g[p] = IF c = k THEN q ELSE << >>  BY <3>1, <3>2 DEF Ids, Sources
    <3> HIDE DEF p, c, q
    <3> DEFINE b == Block(c, q)
    <3>8. b \in BlockRec /\ b.kind = c /\ b.parts = q  BY <3>3, <3>4, BlockIs
    <3>9. w[i] = b  BY <3>1
    <3> HIDE DEF b
    <3>6. w[i] \in BlockRec /\ w[i].kind = c /\ w[i].parts = q  BY <3>8, <3>9
    <3>7. h[w[i]] = IF c = k THEN q ELSE << >>  BY <3>6 DEF BlockIds
    <3> QED BY <3>5, <3>7 DEF p
  <2>2. DOMAIN w = DOMAIN parts  OBVIOUS
  <2>3. Each(h, w) = Each(g, parts)
    <3> HIDE DEF w, g, h
    <3> QED BY <2>1, <2>2 DEF Each
  <2>4. Gather(h, w) = Gather(g, parts)  BY <2>3, Zenon DEF Gather
  <2>5. OfKind(parts, Sources(f, k)) = Gather(g, parts)  BY SaidIs
  <2> QED BY <2>4, <2>5
<1>2. ClaudeWhole(parts) = As("claude")  BY DEF ClaudeWhole, HeardAs
<1>3. GeminiWhole(parts) = As("gemini")  BY DEF GeminiWhole, HeardAs
<1> HIDE DEF h, As
<1>4. KeptIn(ClaudeWhole(parts), k) = OfKind(parts, Sources("claude", k))
  BY <1>1, <1>2 DEF KeptIn, h
<1>5. KeptIn(GeminiWhole(parts), k) = OfKind(parts, Sources("gemini", k))
  BY <1>1, <1>3 DEF KeptIn, h
<1> QED BY <1>4, <1>5

\* The kinds each format takes for another.
LEMMA SourcesAre ==
  ASSUME NEW f \in Formats
  PROVE  /\ Sources(f, "text") = IF f \in {"responses", "gemini"} THEN {"text"} ELSE {"text", "image"}
         /\ Sources(f, "image") = IF f = "gemini" THEN {"image"} ELSE {}
         /\ Sources(f, "call") = {"call"} /\ Sources(f, "thought") = {"thought"}
<1> DEFINE H(c) == HeardAs(f, c)
<1>1. \A k : Sources(f, k) = { c \in {"thought", "text", "image", "call"} : H(c) = k }
  BY DEF Sources, Kind
<1>2. /\ H("thought") = "thought" /\ H("text") = "text" /\ H("call") = "call"
      /\ H("image") = IF f = "gemini" THEN "image" ELSE IF f = "responses" THEN "none" ELSE "text"
  BY DEF HeardAs, OpenAIKind
<1> HIDE DEF H
<1>3. Sources(f, "call") = {"call"}  BY <1>1, <1>2
<1>4. Sources(f, "thought") = {"thought"}  BY <1>1, <1>2
<1>5. Sources(f, "image") = IF f = "gemini" THEN {"image"} ELSE {}  BY <1>1, <1>2
<1>6. CASE f = "gemini"
  <2>1. Sources(f, "text") = {"text"}  BY <1>1, <1>2, <1>6
  <2> QED BY <2>1, <1>3, <1>4, <1>5, <1>6
<1>7. CASE f = "responses"
  <2>1. Sources(f, "text") = {"text"}  BY <1>1, <1>2, <1>7
  <2> QED BY <2>1, <1>3, <1>4, <1>5, <1>7
<1>8. CASE f \notin {"responses", "gemini"}
  <2>1. Sources(f, "text") = {"text", "image"}  BY <1>1, <1>2, <1>8
  <2> QED BY <2>1, <1>3, <1>4, <1>5, <1>8
<1> QED BY <1>6, <1>7, <1>8

-----------------------------------------------------------------------------
(* What a client keeps of what it was told. *)

\* What a client keeps is what it was told, less the kinds it never keeps.
Retains(f, m, b) ==
  b \in Seq(BlockRec) /\ \A k \in PartKinds : KeptIn(b, k) = IF k \in Dropped(f) THEN << >> ELSE m[k]

\* What a stream leaves of it.
LEMMA StreamKept ==
  ASSUME format \in Formats, NEW out \in Seq(Ev),
         format = "responses" => OpensKinds(out),
         format \in {"responses", "claude"} => \A k \in PartKinds : KindFiled(out, k)
  PROVE  Retains(format, Spoken(out), Blocks(out))
<1> DEFINE m == Spoken(out)
           b == Blocks(out)
<1>1. \A k \in PartKinds : m[k] = ToldOf(out, k)  BY DEF Spoken
<1>2. PartKinds = {"thought", "text", "call", "image"}  BY DEF PartKinds
<1> HIDE DEF m
<1>3. CASE format = "openai"
  <2>1. b = OpenAIBlocks(out)  BY <1>3 DEF Blocks, Told
  <2>2. b \in Seq(BlockRec) /\ KeptIn(b, "image") = << >>
        /\ \A k \in {"thought", "text", "call"} : KeptIn(b, k) = ToldOf(out, k)
    BY <2>1, OpenAIBlocksAre
  <2>3. Dropped(format) = {"image"}  BY <1>3 DEF Dropped
  <2> HIDE DEF b
  <2>4. \A k \in PartKinds : KeptIn(b, k) = IF k \in {"image"} THEN << >> ELSE m[k]
    BY <1>1, <1>2, <2>2
  <2> QED BY <2>2, <2>3, <2>4 DEF Retains, b, m
<1>4. CASE format = "shim"
  <2> DEFINE o == ShimEnd(out)
             c == OpenAIBlocks(o)
  <2>1. b = c  BY <1>4 DEF Blocks, Told
  <2>2. o \in Seq(Ev) /\ ToldOf(o, "text") = ToldOf(out, "text")  BY ShimEndTells, ShimEndText
  <2>3. \A k \in {"thought", "call"} : ToldOf(o, k) = << >>  BY ShimEndTells
  <2> HIDE DEF o
  <2>4. /\ c \in Seq(BlockRec) /\ KeptIn(c, "image") = << >>
        /\ \A k \in {"thought", "text", "call"} : KeptIn(c, k) = ToldOf(o, k)
    BY <2>2, OpenAIBlocksAre
  <2> HIDE DEF c
  <2>5. Dropped(format) = {"image", "call", "thought"}  BY <1>4 DEF Dropped
  <2>6. \A k \in PartKinds :
          KeptIn(c, k) = IF k \in {"image", "call", "thought"} THEN << >> ELSE m[k]
    BY <1>1, <1>2, <2>2, <2>3, <2>4
  <2>7. Retains(format, m, c)  BY <2>4, <2>5, <2>6 DEF Retains
  <2> QED BY <2>1, <2>7 DEF m
<1>5. CASE format = "responses"
  <2>1. b = IndexedBlocks(out)  BY <1>5 DEF Blocks
  <2>2. b \in Seq(BlockRec) /\ \A k : KeptIn(b, k) = FiledFor(out, k)  BY <2>1, IndexedBlocksAre
  <2>3. FiledFor(out, "image") = << >>  BY <1>5, NoImagesFiled
  <2>4. Dropped(format) = {"image"}  BY <1>5 DEF Dropped
  <2>5. \A k \in PartKinds : FiledFor(out, k) = ToldOf(out, k)  BY <1>5 DEF KindFiled
  <2> HIDE DEF b
  <2>6. \A k \in PartKinds : KeptIn(b, k) = IF k \in {"image"} THEN << >> ELSE m[k]
    BY <1>1, <2>2, <2>3, <2>5
  <2> QED BY <2>2, <2>4, <2>6 DEF Retains, b, m
<1>6. CASE format = "claude"
  <2>1. b = IndexedBlocks(out)  BY <1>6 DEF Blocks
  <2>2. b \in Seq(BlockRec) /\ \A k : KeptIn(b, k) = FiledFor(out, k)  BY <2>1, IndexedBlocksAre
  <2>4. Dropped(format) = {}  BY <1>6 DEF Dropped
  <2>5. \A k \in PartKinds : FiledFor(out, k) = ToldOf(out, k)  BY <1>6 DEF KindFiled
  <2> HIDE DEF b
  <2>6. \A k \in PartKinds : KeptIn(b, k) = m[k]  BY <1>1, <2>2, <2>5
  <2> QED BY <2>2, <2>4, <2>6 DEF Retains, b, m
<1>7. CASE format = "gemini"
  <2>1. b = GeminiBlocks(out)  BY <1>7 DEF Blocks
  <2>2. b \in Seq(BlockRec) /\ \A k : KeptIn(b, k) = ToldOf(out, k)  BY <2>1, GeminiBlocksAre
  <2>4. Dropped(format) = {}  BY <1>7 DEF Dropped
  <2> HIDE DEF b
  <2>6. \A k \in PartKinds : KeptIn(b, k) = m[k]  BY <1>1, <2>2
  <2> QED BY <2>2, <2>4, <2>6 DEF Retains, b, m
<1> QED BY <1>3, <1>4, <1>5, <1>6, <1>7 DEF Formats

\* What a whole answer leaves.
LEMMA WholeKept ==
  ASSUME format \in Formats, NEW parts \in Seq(PartSet)
  PROVE  Retains(format, Heard(format, Spoken(<< >>), parts), Whole(parts))
<1> DEFINE m == Heard(format, Spoken(<< >>), parts)
           b == Whole(parts)
           O(s) == OfKind(parts, s)
<1>1. \A k \in PartKinds : m[k] = O(Sources(format, k))
  <2>1. \A k \in PartKinds : Spoken(<< >>)[k] = << >>  BY GatherNone DEF Spoken, ToldOf
  <2>2. \A k \in PartKinds : m[k] = << >> \o O(Sources(format, k))  BY <2>1 DEF Heard
  <2>3. \A s : O(s) \in Seq(PartNo)  BY SaidIs
  <2> HIDE DEF O, m
  <2>4. \A s : << >> \o O(s) = O(s)  BY <2>3
  <2> QED BY <2>2, <2>4
<1>2. PartKinds = {"thought", "text", "call", "image"}  BY DEF PartKinds
<1>3. /\ Sources(format, "text") = IF format \in {"responses", "gemini"} THEN {"text"}
                                   ELSE {"text", "image"}
      /\ Sources(format, "call") = {"call"} /\ Sources(format, "thought") = {"thought"}
  BY SourcesAre
<1>4. b \in Seq(BlockRec)  BY WholeBlocks DEF BlocksFor
<1> DEFINE w == OpenAIWhole(parts)
<1>5. /\ w \in Seq(BlockRec) /\ KeptIn(w, "image") = << >>
      /\ KeptIn(w, "thought") = O({"thought"})
      /\ KeptIn(w, "text") = O({"text", "image"})
      /\ KeptIn(w, "call") = O({"call"})
  BY OpenAIWholeAre
<1> HIDE DEF m, O, w
<1>6. CASE format = "openai"
  <2>1. b = w /\ Dropped(format) = {"image"}  BY <1>6 DEF Whole, Dropped, w
  <2> HIDE DEF b
  <2>2. Sources(format, "text") = {"text", "image"}  BY <1>3, <1>6
  <2>3. \A k \in PartKinds : KeptIn(b, k) = IF k \in {"image"} THEN << >> ELSE m[k]
    BY <1>1, <1>2, <1>3, <1>5, <2>1, <2>2
  <2> QED BY <1>4, <2>1, <2>3 DEF Retains, b, m
<1>7. CASE format = "shim"
  <2> DEFINE c == ShimWhole(w)
  <2>1. b = c /\ Dropped(format) = {"image", "call", "thought"}  BY <1>7 DEF Whole, Dropped, w
  <2>2. \A k : KeptIn(c, k) = IF k = "text" THEN KeptIn(w, k) ELSE << >>  BY <1>5, ShimWholeAre
  <2> HIDE DEF b, c
  <2>3. Sources(format, "text") = {"text", "image"}  BY <1>3, <1>7
  <2>4. \A k \in PartKinds :
          KeptIn(b, k) = IF k \in {"image", "call", "thought"} THEN << >> ELSE m[k]
    BY <1>1, <1>2, <1>5, <2>1, <2>2, <2>3
  <2> QED BY <1>4, <2>1, <2>4 DEF Retains, b, m
<1>8. CASE format = "responses"
  <2>1. b = ResponsesWhole(parts) /\ Dropped(format) = {"image"}  BY <1>8 DEF Whole, Dropped
  <2>2. KeptIn(b, "image") = << >> /\ \A k \in {"thought", "text", "call"} : KeptIn(b, k) = O({k})
    BY <2>1, ResponsesWholeAre DEF O
  <2> HIDE DEF b
  <2>3. Sources(format, "text") = {"text"}  BY <1>3, <1>8
  <2>4. \A k \in PartKinds : KeptIn(b, k) = IF k \in {"image"} THEN << >> ELSE m[k]
    BY <1>1, <1>2, <1>3, <2>2, <2>3
  <2> QED BY <1>4, <2>1, <2>4 DEF Retains, b, m
<1>9. CASE format \in {"claude", "gemini"}
  <2>1. b = (IF format = "claude" THEN ClaudeWhole(parts) ELSE GeminiWhole(parts))
        /\ Dropped(format) = {}
    BY <1>9 DEF Whole, Dropped
  <2>2. ASSUME NEW k \in PartKinds PROVE KeptIn(b, k) = O(Sources(format, k))
    <3>1. /\ KeptIn(ClaudeWhole(parts), k) = O(Sources("claude", k))
          /\ KeptIn(GeminiWhole(parts), k) = O(Sources("gemini", k))
      BY PartBlocksKept DEF O
    <3> HIDE DEF b
    <3> QED BY <3>1, <2>1, <1>9
  <2> HIDE DEF b
  <2>3. \A k \in PartKinds : KeptIn(b, k) = m[k]  BY <1>1, <2>2
  <2> QED BY <1>4, <2>1, <2>3 DEF Retains, b, m
<1> QED BY <1>6, <1>7, <1>8, <1>9 DEF Formats

\* What a client has of an answer that ended: all that was said of the kinds it
\* keeps, and was not lost.
Entire(f, b, gap, q) ==
  \A k \in PartKinds :
    KeptIn(b, k) = IF k \in Dropped(f) THEN << >> ELSE Gather(Taken(Sources(f, k), gap), q)

-----------------------------------------------------------------------------
(* What was said and is not lost. *)

\* What was said and is not lost, as it is gathered here.
LEMMA ReceivedIs ==
  ASSUME said \in Seq(PartSet), NEW kinds
  PROVE  Received(kinds) = Gather(Taken(kinds, lost), said)
<1> DEFINE g == Taken(kinds, lost)
           e == [i \in DOMAIN said |->
                   IF said[i].kind \in kinds /\ said[i].id \notin lost THEN << said[i].id >> ELSE << >>]
<1>1. \A i \in DOMAIN said : said[i] \in PartSet  OBVIOUS
<1>2. \A i \in DOMAIN said : g[said[i]] = e[i]  BY <1>1, Zenon DEF Taken
<1>3. DOMAIN e = DOMAIN said /\ e = [i \in DOMAIN said |-> e[i]]  OBVIOUS
<1>4. Received(kinds) = FlattenSeq(e)  BY DEF Received
<1> HIDE DEF e, g
<1>5. Each(g, said) = e  BY <1>2, <1>3 DEF Each
<1> QED BY <1>4, <1>5 DEF Gather, g

\* What the client has of one kind.
LEMMA KeptKind ==
  ASSUME history \in Seq(TurnRec), history # << >>, NEW k
  PROVE  Kept(k) = KeptIn(history[Len(history)].blocks, k)
<1> DEFINE b == history[Len(history)].blocks
<1>1. history[Len(history)] \in TurnRec  OBVIOUS
<1>2. b \in Seq(BlockRec)  BY <1>1 DEF TurnRec
<1>3. Kept(k) = Numbers(OfBlocks(b, k))  BY DEF Kept, Numbers
<1> HIDE DEF b
<1>4. Numbers(OfBlocks(b, k)) = KeptIn(b, k)  BY <1>2, OfBlocksIs
<1> QED BY <1>3, <1>4 DEF b

\* A part is lost with its frame, and in no other way.
LossInv ==
  /\ phase = "answer" /\ mode = "real" =>
       \E gone : Deliv(format, used, wire, said, lost, gone, Spoken(state.out))
  /\ phase = "answer" /\ mode # "real" => lost = {} /\ Spoken(state.out) = Spoken(<< >>)
  /\ phase = "answer" => ClaudeFiles(format, state)
  /\ phase = "ask" /\ history # << >> /\ ~cut =>
       said \in Seq(PartSet) /\ Entire(format, history[Len(history)].blocks, lost, said)

\* The client of an answer that ended has what the property says.
LEMMA LossInvLoses ==
  ASSUME HistoryInv, LossInv
  PROVE  NothingLostButByFraming
<1>1. SUFFICES ASSUME phase = "ask", history # << >>, ~cut
      PROVE  /\ Kept("text") = Received(IF format \in {"responses", "gemini"} THEN {"text"}
                                        ELSE {"text", "image"})
             /\ Kept("image") = (IF format = "gemini" THEN Received({"image"}) ELSE << >>)
             /\ Kept("call") = (IF format = "shim" THEN << >> ELSE Received({"call"}))
             /\ Kept("thought") = (IF format = "shim" THEN << >> ELSE Received({"thought"}))
  BY DEF NothingLostButByFraming
<1> DEFINE b == history[Len(history)].blocks
           R(s) == Gather(Taken(s, lost), said)
           S(k) == Sources(format, k)
           D == Dropped(format)
           Text == IF format \in {"responses", "gemini"} THEN {"text"} ELSE {"text", "image"}
<1>2. format \in Formats /\ history \in Seq(TurnRec)  BY TurnOfTurn DEF HistoryInv
<1>3. said \in Seq(PartSet)  BY <1>1 DEF LossInv
<1>4. \A k \in PartKinds : KeptIn(b, k) = IF k \in D THEN << >> ELSE R(S(k))
  BY <1>1 DEF LossInv, Entire
<1>5. \A k : Kept(k) = KeptIn(b, k)  BY <1>1, <1>2, KeptKind
<1>6. \A s : Received(s) = R(s)  BY <1>3, ReceivedIs
<1>7. /\ S("text") = Text /\ S("call") = {"call"} /\ S("thought") = {"thought"}
      /\ S("image") = IF format = "gemini" THEN {"image"} ELSE {}
  BY <1>2, SourcesAre
<1>8. D = (IF format = "shim" THEN {"image", "call", "thought"}
           ELSE IF format \in {"openai", "responses"} THEN {"image"} ELSE {})
  BY DEF Dropped
<1>9. R({}) = << >>
  <2> DEFINE g == Taken({}, lost)
  <2>1. \A i \in DOMAIN said : g[said[i]] = << >>
    <3>1. \A i \in DOMAIN said : said[i] \in PartSet  BY <1>3
    <3> QED BY <3>1 DEF Taken
  <2> HIDE DEF g
  <2>2. Gather(g, said) = << >>  BY <1>3, <2>1, GatherNothing
  <2> QED BY <2>2 DEF g
<1>10. "text" \in PartKinds /\ "image" \in PartKinds /\ "call" \in PartKinds /\ "thought" \in PartKinds
  BY DEF PartKinds
<1> HIDE DEF b, R, S, D, Text
<1>11. \A k \in PartKinds : Kept(k) = IF k \in D THEN << >> ELSE R(S(k))  BY <1>4, <1>5
<1>12. Kept("text") = Received(Text)  BY <1>6, <1>7, <1>8, <1>10, <1>11
<1>13. Kept("image") = (IF format = "gemini" THEN Received({"image"}) ELSE << >>)
  <2>1. CASE format = "gemini"  BY <2>1, <1>6, <1>7, <1>8, <1>10, <1>11
  <2>2. CASE format # "gemini"  BY <2>2, <1>7, <1>8, <1>9, <1>10, <1>11
  <2> QED BY <2>1, <2>2
<1>14. Kept("call") = (IF format = "shim" THEN << >> ELSE Received({"call"}))
  BY <1>6, <1>7, <1>8, <1>10, <1>11
<1>15. Kept("thought") = (IF format = "shim" THEN << >> ELSE Received({"thought"}))
  BY <1>6, <1>7, <1>8, <1>10, <1>11
<1> QED BY <1>12, <1>13, <1>14, <1>15 DEF Text

\* What was told and what is not lost make what the client has.
LEMMA EntireIs ==
  ASSUME NEW f, NEW m, NEW b, Retains(f, m, b), NEW gap, NEW q,
         \A k \in PartKinds : m[k] = Gather(Taken(Sources(f, k), gap), q)
  PROVE  Entire(f, b, gap, q)
BY DEF Retains, Entire

\* Nothing is lost of what is said in one piece.
LEMMA HeardWhole ==
  ASSUME NEW f, NEW q \in Seq(PartSet), NEW k \in PartKinds
  PROVE  Heard(f, Spoken(<< >>), q)[k] = Gather(Taken(Sources(f, k), {}), q)
<1> DEFINE s == Sources(f, k)
<1>1. Spoken(<< >>)[k] = << >>  BY GatherNone DEF Spoken, ToldOf
<1>2. Heard(f, Spoken(<< >>), q)[k] = << >> \o OfKind(q, s)  BY <1>1 DEF Heard
<1>3. OfKind(q, s) = Gather(Ids(PartSet, s), q) /\ OfKind(q, s) \in Seq(PartNo)  BY SaidIs
<1>4. Taken(s, {}) = Ids(PartSet, s)  BY DEF Taken, Ids
<1> DEFINE z == OfKind(q, s)
<1>5. << >> \o z = z
  <2>1. z \in Seq(PartNo)  BY <1>3
  <2> HIDE DEF z
  <2> QED BY <2>1
<1> QED BY <1>2, <1>3, <1>4, <1>5

-----------------------------------------------------------------------------
(* The steps of an answer, told. *)

\* Gemini numbers its parts onward.
LEMMA SaidNos ==
  ASSUME used \in Nat, NEW n \in Int, NEW kinds \in Answers(n), NEW how
  PROVE  LET x == Ended(NewParts(kinds), how) IN
         x.parts = NewParts(kinds) /\ Nos(x) \subseteq used + 1 .. used + Len(kinds) /\ Len(kinds) \in Nat
<1> DEFINE p == NewParts(kinds)
           x == Ended(p, how)
<1>1. PICK k \in 0 .. n : kinds \in [1 .. k -> Kinds]  BY DEF Answers
<1>2. k \in Nat /\ DOMAIN kinds = 1 .. k /\ Len(kinds) = k  BY <1>1
<1>3. DOMAIN p = 1 .. k /\ \A i \in 1 .. k : p[i].id = used + i  BY <1>2 DEF NewParts
<1> HIDE DEF p
<1>4. x.parts = p  BY DEF Ended, Frame
<1> HIDE DEF x
<1>5. \A i \in 1 .. k : used + i \in used + 1 .. used + k  BY <1>2
<1>6. Nos(x) \subseteq used + 1 .. used + k  BY <1>3, <1>4, <1>5 DEF Nos
<1> QED BY <1>2, <1>4, <1>6 DEF x, p

\* A stream starts with nothing told.
LEMMA StartLoses == \A f : Spoken(StartOf(f).out) = Spoken(<< >>) /\ ClaudeFiles(f, StartOf(f))
<1>1. ASSUME NEW f PROVE StartOf(f).out = << >>
  <2>1. ResponsesStart.out = << >> /\ ClaudeStart.out = << >> /\ GeminiStart.out = << >>
        /\ OpenAIStart.out = << >>
    BY DEF ResponsesStart, ClaudeStart, GeminiStart, OpenAIStart
  <2>2. StartOf(f) \in {ResponsesStart, ClaudeStart, GeminiStart, OpenAIStart}  BY DEF StartOf
  <2> DEFINE s == StartOf(f)
  <2> HIDE DEF s
  <2>3. s \in {ResponsesStart, ClaudeStart, GeminiStart, OpenAIStart}  BY <2>2 DEF s
  <2>4. s.out = << >>  BY <2>1, <2>3
  <2> QED BY <2>4 DEF s
<1>2. ASSUME NEW f PROVE ClaudeFiles(f, StartOf(f))
  <2>1. SUFFICES ASSUME f = "claude" PROVE StartOf(f) \in ClaudeFiling  BY DEF ClaudeFiles
  <2> DEFINE s == ClaudeStart
  <2>2. StartOf(f) = s  BY <2>1 DEF StartOf
  <2>3. s \in ClaudeState  BY DEF ClaudeStart, ClaudeState, Absent
  <2>4. s.out = << >> /\ s.next = 0 /\ s.text = Absent /\ s.thinking = Absent  BY DEF ClaudeStart
  <2> HIDE DEF s
  <2>5. Filing(s.out, s.next, s.text, s.thinking)  BY <2>4, FilingStart
  <2> QED BY <2>2, <2>3, <2>5 DEF ClaudeFiling
<1> QED BY <1>1, <1>2

\* An answer in one frame is heard whole.
LEMMA AtOnceSpoken ==
  ASSUME NEW f \in Formats, NEW s, Good(f, s), ClaudeFiles(f, s), Files0(f, s),
         NEW x \in FrameSet, ~x.torn
  PROVE  LET r == AtOnceOf(f, s, x) IN
         /\ Spoken(r.out) = Heard(f, Spoken(s.out), x.parts)
         /\ ClaudeFiles(f, r) /\ Files0(f, r)
<1> DEFINE c == << x >>
           t == TranslateOf(f, s, c)
<1>1. c \in Seq(FrameSet) /\ Len(c) = 1 /\ c[1] = x  OBVIOUS
<1>2. CASE f = "gemini"
  <2>1. s \in GeminiState  BY <1>2 DEF Good, GeminiSound
  <2>2. AtOnceOf(f, s, x) = GeminiPseudo(s, x)  BY <1>2 DEF AtOnceOf
  <2>3. Spoken(GeminiPseudo(s, x).out) = Heard("gemini", Spoken(s.out), x.parts)
    BY <2>1, PseudoSpoken
  <2> QED BY <1>2, <2>2, <2>3 DEF ClaudeFiles, Files0
<1>3. CASE f # "gemini"
  <2>1. AtOnceOf(f, s, x) = t  BY <1>3 DEF AtOnceOf
  <2>2. Gather(WholeParts, c) = x.parts
    <3>1. WholeParts[x] = x.parts  BY DEF WholeParts
    <3> QED BY <3>1, WholeMakes, GatherOne
  <2> HIDE DEF c
  <2>3. ChunkOK(c, FALSE)  BY <1>1 DEF ChunkOK
  <2>4. ReadOf(c) = x.parts  BY <1>1 DEF ReadOf, Readable
  <2>5. Arrived(f, c, FALSE) = x.parts  BY <1>3, <2>2, <2>4 DEF Arrived
  <2>6. /\ Spoken(t.out) = Heard(f, Spoken(s.out), Arrived(f, c, FALSE))
        /\ ClaudeFiles(f, t)
    BY <1>3, <2>3, TranslateSpoken
  <2>7. Files0(f, t)  BY <1>1, FilesChunk
  <2> HIDE DEF t
  <2> QED BY <2>1, <2>5, <2>6, <2>7
<1> QED BY <1>2, <1>3

\* What the end of a stream adds to a Chat Completions stream.
DoneOf(f, s) == IF f \in {"openai", "shim"} THEN Emit(s, << Event("done", "none", 0, 0) >>) ELSE s

\* The end of a stream says nothing.
LEMMA DoneSpoken ==
  ASSUME NEW f \in Formats, NEW s, Good(f, s)
  PROVE  LET r == DoneOf(f, s) IN
         /\ r.out \in Seq(Ev) /\ Spoken(r.out) = Spoken(s.out)
         /\ (ClaudeFiles(f, s) => ClaudeFiles(f, r)) /\ (Files0(f, s) => Files0(f, r))
<1>1. s.out \in Seq(Ev)  BY GoodTyped
<1>2. CASE f \in {"openai", "shim"}
  <2> DEFINE e == Event("done", "none", 0, 0)
             r == Emit(s, << e >>)
  <2>1. DoneOf(f, s) = r  BY <1>2 DEF DoneOf
  <2>2. s \in OpenAIState  BY <1>2 DEF Good, OpenAISound
  <2>3. e \in Ev /\ e.stage = "done"
    <3>1. 0 \in Int  OBVIOUS
    <3> QED BY <3>1, Words, EventIs
  <2> HIDE DEF e
  <2>4. r.out = s.out \o << e >>  BY <2>2 DEF Emit, OpenAIState
  <2> HIDE DEF r
  <2> DEFINE o == s.out
  <2>5. o \o << e >> = Append(o, e) /\ Append(o, e) \in Seq(Ev)
    <3>1. o \in Seq(Ev)  BY <1>1
    <3> HIDE DEF o
    <3> QED BY <3>1, <2>3
  <2>6. Spoken(Append(o, e)) = Spoken(o)  BY <1>1, <2>3, SpokenQuiet
  <2>7. r.out \in Seq(Ev) /\ Spoken(r.out) = Spoken(s.out)  BY <2>4, <2>5, <2>6
  <2> QED BY <1>2, <2>1, <2>7 DEF ClaudeFiles, Files0
<1>3. CASE f \notin {"openai", "shim"}
  <2>1. DoneOf(f, s) = s  BY <1>3 DEF DoneOf
  <2> QED BY <1>1, <2>1
<1> QED BY <1>2, <1>3

\* What a stream that files all it tells leaves with the client.
LEMMA FiledKept ==
  ASSUME format \in Formats, NEW s, s.out \in Seq(Ev), ClaudeFiles(format, s), Files0(format, s)
  PROVE  Retains(format, Spoken(s.out), Blocks(s.out))
<1> DEFINE o == s.out
<1>1. format = "responses" => OpensKinds(o)  BY FilesOpen
<1>2. format \in {"responses", "claude"} => \A k \in PartKinds : KindFiled(o, k)
  <2>1. CASE format = "responses"
    <3>1. Filing(s.out, s.next, s.message, s.reasoning)  BY <2>1 DEF Files0, ResponsesFiling
    <3> QED BY <3>1 DEF Filing
  <2>2. CASE format = "claude"
    <3>1. Filing(s.out, s.next, s.text, s.thinking)  BY <2>2 DEF ClaudeFiles, ClaudeFiling
    <3> QED BY <3>1 DEF Filing
  <2> QED BY <2>1, <2>2
<1>3. o \in Seq(Ev)  OBVIOUS
<1> HIDE DEF o
<1>4. Retains(format, Spoken(o), Blocks(o))  BY <1>1, <1>2, <1>3, StreamKept
<1> QED BY <1>4 DEF o

-----------------------------------------------------------------------------
(* No action loses a part. *)

\* Nothing is lost at the start.
LEMMA InitLoss == Init => LossInv
BY DEF Init, LossInv

\* A frame is sent.
LEMMA SayLoses ==
  ASSUME LossInv, StreamInv, Say
  PROVE  LossInv'
<1>1. /\ phase = "answer" /\ mode = "real" /\ format' = format /\ state' = state /\ phase' = phase
      /\ mode' = mode /\ lost' = lost
  BY DEF Say
<1>2. PICK kinds \in Answers(MaxParts - used), how \in Reasons \cup {"no", "blocked"} :
        /\ how = "blocked" => kinds = << >>
        /\ wire' = Append(wire, Ended(NewParts(kinds), how))
        /\ said' = said \o NewParts(kinds)
        /\ used' = used + Len(kinds)
  BY DEF Say
<1> DEFINE x == Ended(NewParts(kinds), how)
           n == Len(kinds)
           m == Spoken(state.out)
<1>3. used \in Nat /\ MaxParts - used \in Int  BY CanvasAssumption DEF StreamInv
<1>4. x \in FrameSet /\ ~x.torn  BY <1>2, <1>3, EndedIs
<1>5. x.parts = NewParts(kinds) /\ Nos(x) \subseteq used + 1 .. used + n /\ n \in Nat
  BY <1>2, <1>3, SaidNos
<1>6. wire \in Seq(FrameSet)  BY <1>1 DEF StreamInv, Streaming, WireOK
<1>7. PICK gone : Deliv(format, used, wire, said, lost, gone, m)  BY <1>1 DEF LossInv
<1>8. wire' = Append(wire, x) /\ said' = said \o x.parts /\ used' = used + n  BY <1>2, <1>5
<1>9. Spoken(state.out)' = m  BY <1>1
<1> HIDE DEF x, n, m
<1>10. Deliv(format, used + n, Append(wire, x), said \o x.parts, lost, gone, m)
  BY <1>3, <1>4, <1>5, <1>6, <1>7, DelivSay
<1>11. Deliv(format', used', wire', said', lost', gone, m)  BY <1>1, <1>8, <1>10
<1>12. (\E g : Deliv(format, used, wire, said, lost, g, Spoken(state.out)))'  BY <1>9, <1>11
<1>13. ClaudeFiles(format, state)'  BY <1>1 DEF LossInv, ClaudeFiles
<1> QED BY <1>1, <1>12, <1>13 DEF LossInv

\* A chunk is read.
LEMMA ReadLoses ==
  ASSUME LossInv, StreamInv, Read
  PROVE  LossInv'
<1>1. /\ phase = "answer" /\ mode = "real" /\ phase' = phase /\ mode' = mode
      /\ format' = format /\ used' = used /\ said' = said
  BY DEF Read
<1>2. PICK k \in DOMAIN wire, tear \in BOOLEAN :
        /\ tear => ~wire[k].torn
        /\ wire' = RestOf(wire, k, tear)
        /\ state' = Translate(ChunkOf(wire, k, tear))
        /\ lost' = lost \cup Broken(ChunkOf(wire, k, tear))
  BY DEF Read, RestOf, ChunkOf, Half
<1>3. Streaming /\ format \in Formats /\ used \in Nat /\ Good(format, state)  BY <1>1 DEF StreamInv
<1>4. WireOK(wire, ending) /\ wire \in Seq(FrameSet)  BY <1>3 DEF Streaming, WireOK
<1>5. k \in 1 .. Len(wire)  BY <1>4
<1>6. format = "gemini" => (state.half <=> wire # <<>> /\ wire[1].torn)  BY <1>3 DEF Streaming
<1> DEFINE c == ChunkOf(wire, k, tear)
           w == RestOf(wire, k, tear)
           l == LeftOf(wire, k, tear)
           m == Spoken(state.out)
           b == Broken(c)
           t == TranslateOf(format, state, c)
           h == Heard(format, m, Arrived(format, c, tear))
<1>7. /\ ChunkOK(c, tear)
      /\ \A s : (s.half <=> wire # << >> /\ wire[1].torn) => HalfOK(s, c, tear)
  BY <1>2, <1>4, <1>5, ReadWire
<1>8. format = "gemini" => HalfOK(state, c, tear)  BY <1>6, <1>7
<1>9. PICK gone : Deliv(format, used, wire, said, lost, gone, m)  BY <1>1 DEF LossInv
<1>10. ClaudeFiles(format, state)  BY <1>1 DEF LossInv
<1>11. m \in Hearing  BY <1>3, GoodTyped, SpokenTyped
<1>12. c \in Seq(FrameSet)  BY <1>7 DEF ChunkOK
<1>13. state' = t  BY <1>2 DEF Translate, TranslateOf
<1> HIDE DEF c
<1>14. Spoken(t.out) = h /\ ClaudeFiles(format, t)
  BY <1>3, <1>7, <1>8, <1>10, TranslateSpoken
<1>15. Breaks(format, c, b)  BY <1>12, BrokenIs
<1> HIDE DEF b, m
<1>16. Breaks(format, ChunkOf(wire, k, tear), b)  BY <1>15 DEF c
<1>17. Deliv(format, used, RestOf(wire, k, tear), said, lost \cup b, gone \o LeftOf(wire, k, tear),
             Heard(format, m, Arrived(format, ChunkOf(wire, k, tear), tear)))
  BY <1>3, <1>4, <1>5, <1>9, <1>11, <1>16, DelivRead
<1>18. Deliv(format, used, w, said, lost \cup b, gone \o l, h)  BY <1>17 DEF c
<1>19. wire' = w /\ lost' = lost \cup b  BY <1>2 DEF c, b
<1>20. Spoken(state.out)' = h  BY <1>13, <1>14
<1> HIDE DEF w, l, h, t
<1>21. Deliv(format', used', wire', said', lost', gone \o l, h)  BY <1>1, <1>18, <1>19
<1>22. (\E g : Deliv(format, used, wire, said, lost, g, Spoken(state.out)))'  BY <1>20, <1>21
<1>23. ClaudeFiles(format, state)'  BY <1>1, <1>13, <1>14
<1> QED BY <1>1, <1>22, <1>23 DEF LossInv

\* The blocks of the last turn are filed.
LEMMA FiledLast ==
  ASSUME NEW h \in Seq(TurnRec), h # << >>, NEW b
  PROVE  LET r == [h EXCEPT ![Len(h)].blocks = b] IN r[Len(r)].blocks = b
<1> DEFINE n == Len(h)
           t == [h[n] EXCEPT !.blocks = b]
           r == [h EXCEPT ![n].blocks = b]
<1>1. n \in Nat /\ n \in 1 .. n /\ DOMAIN h = 1 .. n /\ h[n] \in TurnRec  OBVIOUS
<1>2. t.blocks = b  BY <1>1 DEF TurnRec
<1>3. DOMAIN r = 1 .. n /\ r[n] = t  BY <1>1
<1> HIDE DEF t, r
<1>4. Len(r) = n  BY <1>1, <1>3
<1> QED BY <1>2, <1>3, <1>4 DEF r

\* A stream ends.
LEMMA EndLoses ==
  ASSUME LossInv, StreamInv, HistoryInv, FilesInv, End
  PROVE  LossInv'
<1>1. /\ phase = "answer" /\ mode = "real" /\ wire = << >>
      /\ phase' = "ask" /\ format' = format /\ said' = said /\ lost' = lost
      /\ state' = DoneOf(format, state)
      /\ history' = [history EXCEPT ![Len(history)].blocks = Blocks(state'.out)]
  BY DEF End, EndTurn, DoneOf
<1>2. /\ format \in Formats /\ Good(format, state) /\ ClaudeFiles(format, state)
      /\ Files0(format, state)
  BY <1>1 DEF StreamInv, LossInv, FilesInv
<1>3. history \in Seq(TurnRec) /\ history # << >>  BY <1>1, TurnOfTurn DEF HistoryInv, Telling
<1> DEFINE m == Spoken(state.out)
           r == DoneOf(format, state)
           b == Blocks(r.out)
<1>4. PICK gone : Deliv(format, used, << >>, said, lost, gone, m)  BY <1>1 DEF LossInv
<1>5. /\ r.out \in Seq(Ev) /\ Spoken(r.out) = m /\ ClaudeFiles(format, r) /\ Files0(format, r)
  BY <1>2, DoneSpoken
<1> HIDE DEF m, r
<1>6. said \in Seq(PartSet) /\ \A k \in PartKinds : m[k] = Gather(Taken(Sources(format, k), lost), said)
  BY <1>4, DelivEnd
<1>7. Retains(format, Spoken(r.out), b)  BY <1>2, <1>5, FiledKept
<1> HIDE DEF b
<1>8. Retains(format, m, b)  BY <1>5, <1>7
<1>9. Entire(format, b, lost, said)  BY <1>6, <1>8, EntireIs
<1>10. history' = [history EXCEPT ![Len(history)].blocks = b]  BY <1>1 DEF b, r
<1>11. history'[Len(history')].blocks = b  BY <1>3, <1>10, FiledLast
<1>12. Entire(format', history'[Len(history')].blocks, lost', said')  BY <1>1, <1>9, <1>11
<1> QED BY <1>1, <1>6, <1>12 DEF LossInv

\* An answer comes in one piece.
LEMMA AtOnceLoses ==
  ASSUME LossInv, StreamInv, HistoryInv, FilesInv, AnswerAtOnce
  PROVE  LossInv'
<1>1. /\ phase = "answer" /\ mode # "real" /\ phase' = "ask" /\ format' = format /\ lost' = lost
  BY DEF AnswerAtOnce, EndTurn
<1>2. PICK kinds \in Answers(MaxParts - used), how \in Reasons \cup {"blocked"} :
        /\ how = "blocked" => kinds = << >>
        /\ said' = NewParts(kinds)
        /\ state' = IF mode = "whole" THEN state
                    ELSE LET r == IF format = "gemini" THEN GeminiPseudo(state, Ended(said', how))
                                  ELSE Translate(<< Ended(said', how) >>)
                         IN  IF format \in {"openai", "shim"}
                             THEN Emit(r, << Event("done", "none", 0, 0) >>) ELSE r
        /\ history' = [history EXCEPT ![Len(history)].blocks =
                         IF mode = "whole" THEN Whole(said') ELSE Blocks(state'.out)]
  BY DEF AnswerAtOnce, EndTurn
<1> DEFINE p == NewParts(kinds)
           x == Ended(p, how)
           a == AtOnceOf(format, state, x)
           r == DoneOf(format, a)
           b == IF mode = "whole" THEN Whole(p) ELSE Blocks(r.out)
           h == Heard(format, Spoken(<< >>), p)
<1>3. /\ format \in Formats /\ used \in Nat /\ Good(format, state) /\ Live(format, state)
      /\ ClaudeFiles(format, state) /\ Files0(format, state)
      /\ lost = {} /\ Spoken(state.out) = Spoken(<< >>)
  BY <1>1 DEF StreamInv, LossInv, FilesInv
<1>4. history \in Seq(TurnRec) /\ history # << >>  BY <1>1, TurnOfTurn DEF HistoryInv, Telling
<1>5. x \in FrameSet /\ ~x.torn /\ p \in Seq(PartSet)
  <2>1. MaxParts - used \in Int  BY <1>3, CanvasAssumption
  <2> QED BY <2>1, <1>2, <1>3, EndedIs
<1>6. x.parts = p  BY DEF Ended, Frame
<1>7. state' = IF mode = "whole" THEN state ELSE r
  BY <1>2 DEF AtOnceOf, Translate, TranslateOf, DoneOf
<1>8. history' = [history EXCEPT ![Len(history)].blocks = b]  BY <1>2, <1>7
<1>9. said' = p  BY <1>2
<1> HIDE DEF p, x
<1>10. Retains(format, h, b)
  <2>1. CASE mode = "whole"
    <3>1. Retains(format, Heard(format, Spoken(<< >>), p), Whole(p))  BY <1>3, <1>5, WholeKept
    <3> QED BY <2>1, <3>1
  <2>2. CASE mode # "whole"
    <3>1. /\ Spoken(a.out) = Heard(format, Spoken(state.out), x.parts)
          /\ ClaudeFiles(format, a) /\ Files0(format, a)
      BY <1>3, <1>5, AtOnceSpoken
    <3>2. Good(format, a)  BY <1>3, <1>5, AtOnceGood
    <3> HIDE DEF a
    <3>3. /\ r.out \in Seq(Ev) /\ Spoken(r.out) = Spoken(a.out)
          /\ ClaudeFiles(format, r) /\ Files0(format, r)
      BY <1>3, <3>1, <3>2, DoneSpoken
    <3> HIDE DEF r
    <3>4. Retains(format, Spoken(r.out), Blocks(r.out))  BY <1>3, <3>3, FiledKept
    <3>5. Spoken(r.out) = h  BY <1>3, <1>6, <3>1, <3>3
    <3> QED BY <2>2, <3>4, <3>5
  <2> QED BY <2>1, <2>2
<1>11. \A k \in PartKinds : h[k] = Gather(Taken(Sources(format, k), {}), p)  BY <1>5, HeardWhole
<1> HIDE DEF b, h
<1>12. Entire(format, b, {}, p)  BY <1>10, <1>11, EntireIs
<1>13. history'[Len(history')].blocks = b  BY <1>4, <1>8, FiledLast
<1>14. Entire(format', history'[Len(history')].blocks, lost', said')
  BY <1>1, <1>3, <1>9, <1>12, <1>13
<1> QED BY <1>1, <1>5, <1>9, <1>14 DEF LossInv

-----------------------------------------------------------------------------
(* Nothing is lost but by the framing. *)

\* No action loses more than the framing costs.
LEMMA LossStep ==
  ASSUME LossInv, StreamInv, HistoryInv, FilesInv, [Next]_vars
  PROVE  LossInv'
<1>1. CASE Ask
  <2>1. /\ phase = "ask" /\ phase' = "answer" /\ format' = format /\ used' = used /\ wire' = wire
        /\ state' = StartOf(format) /\ said' = << >> /\ lost' = {}
    BY <1>1, StartIs DEF Ask
  <2>2. wire' = << >>  BY <2>1 DEF StreamInv
  <2> DEFINE m == Spoken(state'.out)
  <2>3. m = Spoken(<< >>) /\ ClaudeFiles(format, state')  BY <2>1, StartLoses
  <2> HIDE DEF m
  <2>4. Deliv(format, used, << >>, << >>, {}, << >>, m)  BY <2>3, DelivStart
  <2>5. Deliv(format', used', wire', said', lost', << >>, m)  BY <2>1, <2>2, <2>4
  <2>6. (\E g : Deliv(format, used, wire, said, lost, g, Spoken(state.out)))'  BY <2>5 DEF m
  <2>7. (lost = {} /\ Spoken(state.out) = Spoken(<< >>))'  BY <2>1, <2>3 DEF m
  <2>8. ClaudeFiles(format, state)'  BY <2>1, <2>3
  <2> QED BY <2>1, <2>6, <2>7, <2>8 DEF LossInv
<1>2. ASSUME phase' \notin {"ask", "answer"} PROVE LossInv'  BY <1>2 DEF LossInv
<1>3. CASE AskWithSettings  BY <1>2, <1>3 DEF AskWithSettings
<1>4. CASE AskWithSchema  BY <1>2, <1>4 DEF AskWithSchema
<1>5. CASE Say  BY <1>5, SayLoses
<1>6. CASE Read  BY <1>6, ReadLoses
<1>7. CASE End  BY <1>7, EndLoses
<1>8. CASE AnswerAtOnce  BY <1>8, AtOnceLoses
<1>9. CASE Interrupt
  <2>1. cut' = TRUE /\ phase' # "answer"  BY <1>9 DEF Interrupt, EndTurn
  <2> QED BY <2>1 DEF LossInv
<1>10. CASE Refuse  BY <1>2, <1>10 DEF Refuse
<1>11. CASE UNCHANGED vars
  <2>1. /\ phase' = phase /\ mode' = mode /\ format' = format /\ used' = used /\ wire' = wire
        /\ said' = said /\ lost' = lost /\ state' = state /\ history' = history /\ cut' = cut
    BY <1>11 DEF vars, answerVars
  <2>2. (\E g : Deliv(format, used, wire, said, lost, g, Spoken(state.out)))' <=>
          \E g : Deliv(format, used, wire, said, lost, g, Spoken(state.out))
    BY <2>1
  <2> QED BY <2>1, <2>2 DEF LossInv
<1> QED BY <1>1, <1>3, <1>4, <1>5, <1>6, <1>7, <1>8, <1>9, <1>10, <1>11 DEF Next

\* Whatever the format and however the network joins and tears the frames, a
\* client that was given an answer to the end has every part of it, once and in
\* order, but those whose frame travelled broken.
THEOREM NothingIsLost == Spec => []NothingLostButByFraming
<1>1. Init => LossInv  BY InitLoss
<1>2. LossInv /\ StreamInv /\ HistoryInv /\ FilesInv /\ [Next]_vars => LossInv'  BY LossStep
<1>3. HistoryInv /\ LossInv => NothingLostButByFraming  BY LossInvLoses
<1>4. Spec => []StreamInv  BY StreamInvHolds
<1>5. Init => HistoryInv /\ FilesInv  BY InitHistory
<1>6. HistoryInv /\ FilesInv /\ StreamInv /\ [Next]_vars => (HistoryInv /\ FilesInv)'
  BY HistoryStep
<1> QED BY <1>1, <1>2, <1>3, <1>4, <1>5, <1>6, PTL DEF Spec

-----------------------------------------------------------------------------
(* How a chunk ends a stream. *)

\* What a chunk tells of the end: nothing if its last frame is broken, and else
\* what that frame says.
ChunkEnds(f, r, chunk, tear) ==
  IF tear \/ Struck(f, chunk, Len(chunk)) THEN ~Over(r.out)
  ELSE EndsBy(f, r.out, How(chunk[Len(chunk)]))

\* Two of the translators are told nothing by a chunk that is not one frame.
LEMMA StruckReads ==
  ASSUME NEW f \in {"openai", "claude"}, NEW c, Len(c) \in Nat, Len(c) > 0
  PROVE  Struck(f, c, Len(c)) <=> ~Readable(c)
<1>1. f # "gemini" /\ f # "responses"  OBVIOUS
<1>2. CASE Len(c) = 1
  <2>1. ~(Len(c) > 1)  BY <1>2
  <2>2. Struck(f, c, 1) <=> c[1].torn  BY <1>1, <2>1, Zenon DEF Struck
  <2> QED BY <1>2, <2>2, Zenon DEF Readable
<1>3. CASE Len(c) # 1
  <2>1. Len(c) > 1  BY <1>3
  <2>2. Struck(f, c, Len(c))  BY <1>1, <2>1, Zenon DEF Struck
  <2> QED BY <1>3, <2>2, Zenon DEF Readable
<1> QED BY <1>2, <1>3

\* In every format of its own a chunk finishes a stream as its last frame says.
LEMMA TranslateEnds ==
  ASSUME NEW f \in Formats \ {"shim"}, NEW s, Live(f, s), ClaudeFiles(f, s), CallsCounted(f, s),
         NEW chunk, NEW tear \in BOOLEAN,
         ChunkOK(chunk, tear), f = "gemini" => HalfOK(s, chunk, tear)
  PROVE  LET r == TranslateOf(f, s, chunk) IN CallsCounted(f, r) /\ ChunkEnds(f, r, chunk, tear)
<1> DEFINE r == TranslateOf(f, s, chunk)
           n == Len(chunk)
           x == chunk[n]
<1>1. /\ chunk \in Seq(FrameSet) /\ n > 0 /\ n \in Nat /\ x \in FrameSet
      /\ \A i \in 1 .. n : Finishing(chunk[i]) => i = n
      /\ tear => x.torn
  BY DEF ChunkOK
<1>2. /\ x.finish \in {"none", "STOP", "MAX_TOKENS"} /\ x.blocked \in BOOLEAN /\ x.torn \in BOOLEAN
      /\ x.blocked => x.finish = "none"
  BY <1>1 DEF FrameSet
<1>3. x.finish # "none" <=> How(x) \in Stops  BY <1>2 DEF How, Stops
<1>4. CASE f = "responses"
  <2> DEFINE told == n > 0 /\ x.finish # "none" /\ ~x.torn
  <2>1. s \in ResponsesLive /\ r = ResponsesChunk(s, chunk)  BY <1>4 DEF Live, TranslateOf
  <2> HIDE DEF r
  <2>2. (~told => r \in ResponsesLive) /\ (told => r \in ResponsesOver)
    BY <2>1, <1>1, ResponsesChunkLive
  <2>3. Over(r.out) <=> told  BY <2>2 DEF ResponsesLive, ResponsesOver
  <2>4. Struck(f, chunk, n) <=> x.torn  BY <1>4 DEF Struck
  <2>5. ~x.torn => EndsBy(f, r.out, How(x))  BY <2>3, <1>1, <1>3, <1>4 DEF EndsBy
  <2>6. ChunkEnds(f, r, chunk, tear)  BY <2>3, <2>4, <2>5, <1>1 DEF ChunkEnds
  <2> QED BY <2>6, <1>4 DEF CallsCounted, r
<1>5. CASE f = "claude"
  <2>1. s \in ClaudeCounted /\ ~Over(s.out)
    BY <1>5 DEF Live, ClaudeFiles, ClaudeCounted, ClaudeLive, ClaudeFit
  <2>2. r = ClaudeChunk(s, chunk)  BY <1>5 DEF TranslateOf
  <2>3. Struck(f, chunk, n) <=> ~Readable(chunk)  BY <1>1, <1>5, StruckReads
  <2> HIDE DEF r
  <2>4. CASE Readable(chunk)
    <3>1. r = ClaudeFrame(s, x) /\ ~x.torn  BY <2>2, <2>4, <1>1 DEF ClaudeChunk, Readable
    <3>2. CallsCounted("claude", r) /\ EndsBy("claude", r.out, How(x))
      BY <2>1, <3>1, <1>1, ClaudeFrameEnds
    <3>3. ChunkEnds(f, r, chunk, tear)  BY <3>1, <3>2, <2>3, <2>4, <1>1, <1>5 DEF ChunkEnds
    <3> QED BY <3>2, <3>3, <1>5 DEF r
  <2>5. CASE ~Readable(chunk)
    <3>1. r = s  BY <2>2, <2>5 DEF ClaudeChunk
    <3>2. ChunkEnds(f, r, chunk, tear)  BY <3>1, <2>1, <2>3, <2>5 DEF ChunkEnds
    <3> QED BY <3>1, <3>2 DEF r
  <2> QED BY <2>4, <2>5
<1>6. CASE f = "gemini"
  <2>1. s \in GeminiLive /\ r = GeminiChunk(s, chunk)  BY <1>6 DEF Live, TranslateOf
  <2> HIDE DEF r
  <2>2. /\ tear => ~Over(r.out)
        /\ ~tear => EndsAs(r.out, x)
    BY <2>1, <1>1, <1>6, GeminiChunkSound DEF HalfOK
  <2>3. ~Struck(f, chunk, n)  BY <1>6 DEF Struck
  <2>4. ~tear => EndsBy(f, r.out, How(x))
    <3>1. \A e : Why(f, r.out, e) = e  BY <1>6 DEF Why
    <3>2. How(x) \in Stops => How(x) = x.finish  BY <1>2 DEF How, Stops
    <3> QED BY <2>2, <3>1, <3>2, <1>3, <1>6 DEF EndsBy, EndsAs
  <2>5. ChunkEnds(f, r, chunk, tear)  BY <2>2, <2>3, <2>4 DEF ChunkEnds
  <2> QED BY <2>5, <1>6 DEF CallsCounted, r
<1>7. CASE f = "openai"
  <2>1. s \in OpenAILive /\ ~Over(s.out) /\ CallsCounted("openai", s)  BY <1>7 DEF Live, OpenAILive
  <2>2. r = OpenAIChunk(s, chunk)  BY <1>7 DEF TranslateOf
  <2>3. Struck(f, chunk, n) <=> ~Readable(chunk)  BY <1>1, <1>7, StruckReads
  <2> HIDE DEF r
  <2>4. CASE Readable(chunk)
    <3>1. r = OpenAIFrame(s, x) /\ ~x.torn  BY <2>2, <2>4, <1>1 DEF OpenAIChunk, Readable
    <3>2. CallsCounted("openai", r) /\ EndsBy("openai", r.out, How(x))
      BY <2>1, <3>1, <1>1, OpenAIFrameEnds
    <3>3. ChunkEnds(f, r, chunk, tear)  BY <3>1, <3>2, <2>3, <2>4, <1>1, <1>7 DEF ChunkEnds
    <3> QED BY <3>2, <3>3, <1>7 DEF r
  <2>5. CASE ~Readable(chunk)
    <3>1. r = s  BY <2>2, <2>5 DEF OpenAIChunk
    <3>2. ChunkEnds(f, r, chunk, tear)  BY <3>1, <2>1, <2>3, <2>5 DEF ChunkEnds
    <3> QED BY <3>1, <3>2 DEF r
  <2> QED BY <2>4, <2>5
<1> QED BY <1>4, <1>5, <1>6, <1>7 DEF Formats

\* An answer in one frame finishes its stream as the frame says.
LEMMA AtOnceEnds ==
  ASSUME NEW f \in Formats \ {"shim"}, NEW s, Live(f, s), ClaudeFiles(f, s), CallsCounted(f, s),
         NEW x \in FrameSet, ~x.torn
  PROVE  EndsBy(f, AtOnceOf(f, s, x).out, How(x))
<1> DEFINE c == << x >>
           r == AtOnceOf(f, s, x)
<1>1. c \in Seq(FrameSet) /\ Len(c) = 1 /\ c[1] = x  OBVIOUS
<1>2. CASE f = "gemini"
  <2>1. s \in GeminiLive /\ r = GeminiPseudo(s, x)  BY <1>2 DEF Live, AtOnceOf
  <2> HIDE DEF r
  <2>2. EndsAs(r.out, x)  BY <2>1, PseudoSound
  <2>3. \A e : Why(f, r.out, e) = e  BY <1>2 DEF Why
  <2>4. /\ x.finish # "none" <=> How(x) \in Stops
        /\ How(x) \in Stops => How(x) = x.finish
    BY DEF FrameSet, How, Stops
  <2>5. EndsBy(f, r.out, How(x))  BY <1>2, <2>2, <2>3, <2>4 DEF EndsBy, EndsAs
  <2> QED BY <2>5 DEF r
<1>3. CASE f # "gemini"
  <2>1. r = TranslateOf(f, s, c)  BY <1>3 DEF AtOnceOf
  <2> HIDE DEF c, r
  <2>2. ChunkOK(c, FALSE)  BY <1>1 DEF ChunkOK
  <2> DEFINE t == TranslateOf(f, s, c)
  <2>3. ChunkEnds(f, t, c, FALSE)  BY <2>2, <1>3, TranslateEnds
  <2> HIDE DEF t
  <2>4. ~Struck(f, c, Len(c))  BY <1>1 DEF Struck
  <2>5. EndsBy(f, t.out, How(x))  BY <2>3, <2>4, <1>1 DEF ChunkEnds
  <2> QED BY <2>1, <2>5 DEF t, r
<1> QED BY <1>2, <1>3

\* The end of a stream adds no finish.
LEMMA DoneEnds ==
  ASSUME NEW f \in Formats, NEW s, Good(f, s)
  PROVE  LET r == DoneOf(f, s) IN
         /\ Over(r.out) <=> Over(s.out)
         /\ \A e : EndsBy(f, s.out, e) => EndsBy(f, r.out, e)
<1> DEFINE r == DoneOf(f, s)
           o == s.out
           e == Event("done", "none", 0, 0)
<1>1. CASE f \notin {"openai", "shim"}
  <2>1. r = s  BY <1>1 DEF DoneOf
  <2> HIDE DEF r
  <2> QED BY <2>1 DEF r
<1>2. CASE f \in {"openai", "shim"}
  <2>1. s \in OpenAIState /\ o \in Seq(Ev)  BY <1>2 DEF Good, OpenAISound, OpenAIState
  <2>2. e \in Ev /\ e.stage = "done"
    <3>1. 0 \in Int  OBVIOUS
    <3> QED BY <3>1, Words, EventIs
  <2>3. r = Emit(s, << e >>)  BY <1>2 DEF DoneOf
  <2> HIDE DEF e, r
  <2>4. r.out = Append(o, e)  BY <2>1, <2>2, <2>3, OpenAITell
  <2>5. Spoken(r.out) = Spoken(o)  BY <1>2, DoneSpoken DEF r
  <2> HIDE DEF o
  <2>6. Endings(Append(o, e)) = Endings(o)  BY <2>1, <2>2, EndingsAppend
  <2>7. \A i \in Endings(o) : Append(o, e)[i] = o[i]  BY <2>1 DEF Endings
  <2>8. Over(r.out) <=> Over(o)  BY <2>4, <2>6 DEF Over
  <2>9. ASSUME NEW z, EndsBy(f, o, z) PROVE EndsBy(f, r.out, z)
    <3>1. Over(r.out) <=> z \in Stops \/ (z = "blocked" /\ f = "openai")  BY <2>8, <2>9 DEF EndsBy
    <3>2. Why(f, r.out, z) = Why(f, o, z)  BY <2>5 DEF Why
    <3>3. ASSUME z \in Stops, NEW i \in Endings(r.out) PROVE r.out[i].kind = Why(f, r.out, z)
      <4>1. i \in Endings(o) /\ r.out[i] = o[i]  BY <3>3, <2>4, <2>6, <2>7
      <4>2. f # "responses"  BY <1>2
      <4> QED BY <4>1, <4>2, <3>2, <3>3, <2>9 DEF EndsBy
    <3> QED BY <3>1, <3>3 DEF EndsBy
  <2> QED BY <2>8, <2>9 DEF o, r
<1> QED BY <1>1, <1>2

-----------------------------------------------------------------------------
(* The end of an answer and the wire. *)

\* The frame says how the answer ends; "no": not yet.
Says(x, e) == How(x) = IF e = "no" THEN "none" ELSE e

\* A stream read to the end of the wire was finished as Gemini said, unless the
\* end was lost; one with frames on the wire is not over, and the last of them
\* says how it ends: the end is lost when that frame was torn.
Closed(f, e, out, gap) ==
  /\ e = "no" => 0 \notin gap
  /\ 0 \in gap => ~Over(out)
  /\ 0 \notin gap => EndsBy(f, out, e)
Closing(f, x, e, out, gap) ==
  /\ ~Over(out) /\ Says(x, e)
  /\ 0 \in gap <=> f # "gemini" /\ x.torn /\ Finishing(x)
EndOK(f, w, e, out, gap) ==
  /\ w = << >> => Closed(f, e, out, gap)
  /\ w # << >> => Closing(f, w[Len(w)], e, out, gap)

\* No end and an end without a reason finish nothing.
LEMMA NoEnd ==
  ASSUME NEW f, NEW out, NEW e \in {"no", "none"}
  PROVE  EndsBy(f, out, e) <=> ~Over(out)
BY DEF EndsBy, Stops

\* A frame finishes an answer if it says how.
LEMMA HowIs ==
  ASSUME NEW x \in FrameSet
  PROVE  /\ Finishing(x) <=> How(x) # "none"
         /\ How(Half(x)) = How(x) /\ (Finishing(Half(x)) <=> Finishing(x))
<1>1. /\ x.finish \in {"none", "STOP", "MAX_TOKENS"} /\ x.blocked \in BOOLEAN
      /\ Half(x).finish = x.finish /\ Half(x).blocked = x.blocked
  BY DEF FrameSet, Half
<1>2. Finishing(x) <=> How(x) # "none"  BY <1>1 DEF How, Finishing
<1>3. How(Half(x)) = How(x)  BY <1>1, Zenon DEF How
<1>4. Finishing(Half(x)) <=> Finishing(x)  BY <1>1, Zenon DEF Finishing
<1> QED BY <1>2, <1>3, <1>4

\* A frame that is sent says what Gemini says of the end.
LEMMA EndedSays ==
  ASSUME NEW p, NEW how \in Reasons \cup {"no", "blocked"}
  PROVE  Says(Ended(p, how), how)
<1> DEFINE x == Ended(p, how)
<1>1. x.finish = (IF how \in {"no", "blocked"} THEN "none" ELSE how) /\ x.blocked = (how = "blocked")
  BY DEF Ended, Frame
<1> HIDE DEF x
<1>2. How(x) = IF how = "no" THEN "none" ELSE how
  <2>1. CASE how = "blocked"
    <3>1. x.blocked  BY <1>1, <2>1, Zenon
    <3> QED BY <3>1, <2>1 DEF How
  <2>2. CASE how # "blocked"
    <3>1. ~x.blocked  BY <1>1, <2>2, Zenon
    <3>2. How(x) = x.finish  BY <3>1, Zenon DEF How
    <3> QED BY <3>2, <1>1, <2>2
  <2> QED BY <2>1, <2>2
<1> QED BY <1>2 DEF Says, x

\* The framing of a chunk costs the end of the answer if it breaks the last frame.
LEMMA BrokenEnd ==
  ASSUME NEW c, NEW tear, ChunkOK(c, tear)
  PROVE  0 \in Broken(c) <=> Struck(format, c, Len(c)) /\ Finishing(c[Len(c)])
<1> DEFINE S(i) == Struck(format, c, i)
           T == { i \in DOMAIN c : /\ format # "gemini"
                                   /\ c[i].torn \/ (Len(c) > 1 /\ format # "responses") }
           I(i) == { p.id : p \in Range(c[i].parts) }
           Z(i) == IF c[i].finish # "none" \/ c[i].blocked THEN {0} ELSE {}
           n == Len(c)
<1>0. /\ c \in Seq(FrameSet) /\ n \in 1 .. n
      /\ \A i \in 1 .. n : Finishing(c[i]) => i = n
  BY DEF ChunkOK
<1>1. Broken(c) = UNION { I(i) \cup Z(i) : i \in T }  BY DEF Broken
<1>2. ASSUME NEW i \in 1 .. n PROVE 0 \notin I(i)
  <2>1. Range(c[i].parts) = { c[i].parts[j] : j \in DOMAIN c[i].parts }  BY DEF Range
  <2>2. I(i) = Nos(c[i])  BY <2>1 DEF Nos
  <2>3. c[i] \in FrameSet  BY <1>0
  <2>4. 0 \notin Nos(c[i])  BY <2>3, NosAre
  <2> QED BY <2>2, <2>4
<1>3. T = { i \in 1 .. n : S(i) }  BY <1>0 DEF Struck
<1>4. ASSUME NEW i PROVE 0 \in Z(i) <=> Finishing(c[i])  BY DEF Finishing
<1> HIDE DEF T, I, Z, S, n
<1>5. 0 \in Broken(c) <=> \E i \in T : 0 \in I(i) \/ 0 \in Z(i)  BY <1>1
<1>6. 0 \in Broken(c) <=> \E i \in 1 .. n : S(i) /\ Finishing(c[i])  BY <1>2, <1>3, <1>4, <1>5
<1>7. 0 \in Broken(c) <=> S(n) /\ Finishing(c[n])  BY <1>0, <1>6
<1> QED BY <1>7 DEF S, n

\* A chunk leaves the end of the stream as it should be.
LEMMA EndRead ==
  ASSUME NEW f, NEW w, NEW e, WireOK(w, e), NEW out, NEW gap, EndOK(f, w, e, out, gap),
         NEW k \in 1 .. Len(w), NEW tear \in BOOLEAN, tear => ~w[k].torn,
         NEW t, ChunkEnds(f, t, ChunkOf(w, k, tear), tear), NEW broken,
         0 \in broken <=> /\ Struck(f, ChunkOf(w, k, tear), Len(ChunkOf(w, k, tear)))
                          /\ Finishing(ChunkOf(w, k, tear)[Len(ChunkOf(w, k, tear))])
  PROVE  EndOK(f, RestOf(w, k, tear), e, t.out, gap \cup broken)
<1> DEFINE c == ChunkOf(w, k, tear)
           r == RestOf(w, k, tear)
           n == Len(w)
           more == gap \cup broken
           S == Struck(f, c, k)
           y == c[k]
           z == r[Len(r)]
<1>1. /\ w \in Seq(FrameSet) /\ n \in Nat /\ k \in Nat /\ k > 0 /\ k <= n /\ w # << >>
      /\ w[k] \in FrameSet /\ w[n] \in FrameSet
      /\ Finishing(w[k]) => k = n
  BY DEF WireOK
<1>2. Len(c) = k /\ y = IF tear THEN Half(w[k]) ELSE w[k]  BY <1>1, ChunkIs
<1>3. How(y) = How(w[k]) /\ (Finishing(y) <=> Finishing(w[k])) /\ (Finishing(w[k]) <=> How(w[k]) # "none")
  <2>1. CASE tear  BY <2>1, <1>1, <1>2, HowIs
  <2>2. CASE ~tear  BY <2>2, <1>1, <1>2, HowIs
  <2> QED BY <2>1, <2>2
<1>4. Closing(f, w[n], e, out, gap)  BY <1>1 DEF EndOK
<1>5. /\ Says(w[n], e)
      /\ 0 \in gap <=> f # "gemini" /\ w[n].torn /\ Finishing(w[n])
  BY <1>4 DEF Closing
<1>6. /\ tear \/ S => ~Over(t.out)
      /\ ~(tear \/ S) => EndsBy(f, t.out, How(y))
  BY <1>2 DEF ChunkEnds
<1>7. 0 \in broken <=> S /\ Finishing(y)  BY <1>2
<1>8. 0 \in more <=> 0 \in gap \/ (S /\ Finishing(y))  BY <1>7
<1>9. /\ r \in Seq(FrameSet)
      /\ tear => Len(r) = n - (k - 1) /\ r[1] = Half(w[k])
                 /\ \A i \in 1 .. Len(r) : i + (k - 1) # k => r[i] = w[i + (k - 1)]
      /\ ~tear => Len(r) = n - k /\ \A i \in 1 .. Len(r) : i + k # k => r[i] = w[i + k]
  <2>1. CASE tear  BY <2>1, <1>1, RestIs
  <2>2. CASE ~tear  BY <2>2, <1>1, RestIs
  <2> QED BY <2>1, <2>2
<1>10. ~Finishing(y) => How(y) = "none" /\ ~Over(t.out)
  <2>1. ~Finishing(y) => How(y) = "none"  BY <1>3
  <2>2. EndsBy(f, t.out, "none") => ~Over(t.out)  BY NoEnd
  <2> QED BY <2>1, <2>2, <1>6
<1>11. S <=> f # "gemini" /\ (y.torn \/ (k > 1 /\ f # "responses"))  BY <1>2 DEF Struck
<1> HIDE DEF c, r, more, S, y
<1>12. CASE k < n
  <2>1. r # << >> /\ z = w[n]
    <3>1. CASE tear
      <4> DEFINE i == Len(r)
      <4>1. i = n - (k - 1)  BY <1>9, <3>1
      <4>2. i \in 1 .. Len(r) /\ i + (k - 1) # k /\ i + (k - 1) = n  BY <4>1, <1>1, <1>12
      <4>3. r[i] = w[i + (k - 1)]  BY <1>9, <3>1, <4>2
      <4>4. r # << >>  BY <4>2
      <4> QED BY <4>2, <4>3, <4>4
    <3>2. CASE ~tear
      <4> DEFINE i == Len(r)
      <4>1. i = n - k  BY <1>9, <3>2
      <4>2. i \in 1 .. Len(r) /\ i + k # k /\ i + k = n  BY <4>1, <1>1, <1>12
      <4>3. r[i] = w[i + k]  BY <1>9, <3>2, <4>2
      <4>4. r # << >>  BY <4>2
      <4> QED BY <4>2, <4>3, <4>4
    <3> QED BY <3>1, <3>2
  <2>2. ~Finishing(y)  BY <1>1, <1>3, <1>12
  <2>3. ~Over(t.out) /\ (0 \in more <=> 0 \in gap)  BY <2>2, <1>8, <1>10
  <2>4. Closing(f, z, e, t.out, more)  BY <2>1, <2>3, <1>5 DEF Closing
  <2> QED BY <2>1, <2>4 DEF EndOK, r, more
<1>13. CASE k = n /\ tear
  <2>1. Len(r) = 1 /\ r # << >> /\ z = Half(w[n])
    <3>1. n - (k - 1) = 1  BY <1>1, <1>13
    <3>2. Len(r) = 1 /\ r[1] = Half(w[n])  BY <3>1, <1>9, <1>13
    <3>3. r # << >>  BY <3>2
    <3> QED BY <3>2, <3>3
  <2>2. y = z  BY <2>1, <1>2, <1>13
  <2>3. z.torn  BY <2>1, <1>1, NosAre
  <2>4. 0 \notin gap  BY <1>5, <1>13
  <2>5. 0 \in more <=> f # "gemini" /\ z.torn /\ Finishing(z)  BY <2>2, <2>3, <2>4, <1>8, <1>11
  <2>6. Says(z, e)  BY <2>2, <1>3, <1>5, <1>13 DEF Says
  <2>7. Closing(f, z, e, t.out, more)  BY <2>5, <2>6, <1>6, <1>13 DEF Closing
  <2> QED BY <2>1, <2>7 DEF EndOK, r, more
<1>14. CASE k = n /\ ~tear
  <2>1. r = << >>
    <3>1. Len(r) = 0  BY <1>1, <1>9, <1>14
    <3> QED BY <3>1, <1>9
  <2>2. y = w[n]  BY <1>2, <1>14
  <2>3. How(y) = IF e = "no" THEN "none" ELSE e  BY <2>2, <1>5 DEF Says
  <2>4. e = "no" => 0 \notin more
    <3>1. e = "no" => ~Finishing(y)  BY <2>3, <1>3
    <3> QED BY <3>1, <2>2, <1>5, <1>8
  <2>5. 0 \in more => ~Over(t.out)
    <3>1. 0 \in gap => S  BY <2>2, <1>5, <1>11
    <3> QED BY <3>1, <1>6, <1>8
  <2>6. ASSUME 0 \notin more PROVE EndsBy(f, t.out, e)
    <3>1. CASE S
      <4>1. ~Finishing(y)  BY <3>1, <2>6, <1>8
      <4>2. e \in {"no", "none"} /\ ~Over(t.out)  BY <4>1, <2>3, <1>10
      <4> QED BY <4>2, NoEnd
    <3>2. CASE ~S
      <4>1. EndsBy(f, t.out, How(y))  BY <3>2, <1>6, <1>14
      <4>2. CASE e = "no"
        <5>1. EndsBy(f, t.out, "none")  BY <4>1, <4>2, <2>3
        <5> QED BY <5>1, <4>2, NoEnd
      <4>3. CASE e # "no"  BY <4>1, <4>3, <2>3
      <4> QED BY <4>2, <4>3
    <3> QED BY <3>1, <3>2
  <2>7. Closed(f, e, t.out, more)  BY <2>4, <2>5, <2>6 DEF Closed
  <2> QED BY <2>1, <2>7 DEF EndOK, r, more
<1> QED BY <1>1, <1>12, <1>13, <1>14

-----------------------------------------------------------------------------
(* The steps of an answer, and its end. *)

\* While an answer is under way its stream and its wire end alike, and so does
\* what a client was told of an answer that ended; the calls it keeps are those
\* it was told, so the finish is explained by them.
EndsInv ==
  format # "shim" =>
    /\ phase = "answer" => CallsCounted(format, state)
    /\ phase = "answer" /\ mode = "real" => EndOK(format, wire, ending, state.out, lost)
    /\ phase = "ask" /\ history # << >> /\ mode # "whole" =>
         /\ Closed(format, ending, state.out, lost)
         /\ KeptIn(history[Len(history)].blocks, "call") = Spoken(state.out)["call"]

\* A stream starts neither over nor with a call.
LEMMA StartEnds ==
  ASSUME NEW f \in Formats
  PROVE  ~Over(StartOf(f).out) /\ CallsCounted(f, StartOf(f))
<1> DEFINE s == StartOf(f)
<1>1. s.out = << >>
  BY DEF StartOf, ResponsesStart, ClaudeStart, GeminiStart, OpenAIStart, Formats
<1>2. f = "openai" => s.calls = 0  BY DEF StartOf, OpenAIStart
<1>3. f = "claude" => s.tool = FALSE  BY DEF StartOf, ClaudeStart
<1> HIDE DEF s
<1>4. ~Over(s.out)  BY <1>1 DEF Over, Endings
<1>5. Spoken(s.out)["call"] = << >>
  <2>1. Spoken(<< >>)["call"] = << >>  BY GatherNone DEF Spoken, ToldOf, PartKinds
  <2> QED BY <2>1, <1>1
<1>6. f = "openai" => (s.calls > 0 <=> Spoken(s.out)["call"] # << >>)  BY <1>2, <1>5
<1>7. f = "claude" => (s.tool <=> Spoken(s.out)["call"] # << >>)  BY <1>3, <1>5
<1> QED BY <1>4, <1>6, <1>7 DEF CallsCounted, s

\* A frame is sent.
LEMMA SayEnds ==
  ASSUME EndsInv, StreamInv, Say
  PROVE  EndsInv'
<1>1. /\ phase = "answer" /\ mode = "real" /\ ending = "no" /\ format' = format /\ state' = state
      /\ phase' = phase /\ mode' = mode /\ lost' = lost
  BY DEF Say
<1>2. PICK kinds \in Answers(MaxParts - used), how \in Reasons \cup {"no", "blocked"} :
        /\ how = "blocked" => kinds = << >>
        /\ wire' = Append(wire, Ended(NewParts(kinds), how))
        /\ ending' = how
  BY DEF Say
<1> SUFFICES ASSUME format # "shim" PROVE EndsInv'  BY <1>1 DEF EndsInv
<1> DEFINE x == Ended(NewParts(kinds), how)
           v == Append(wire, x)
<1>3. used \in Nat /\ MaxParts - used \in Int  BY CanvasAssumption DEF StreamInv
<1>4. x \in FrameSet /\ ~x.torn  BY <1>2, <1>3, EndedIs
<1>5. Says(x, how)  BY EndedSays
<1>6. wire \in Seq(FrameSet)  BY <1>1 DEF StreamInv, Streaming, WireOK
<1>7. EndOK(format, wire, "no", state.out, lost) /\ CallsCounted(format, state)  BY <1>1 DEF EndsInv
<1> HIDE DEF x
<1>8. v # << >> /\ v[Len(v)] = x  BY <1>4, <1>6
<1>9. ~Over(state.out) /\ 0 \notin lost
  <2>1. CASE wire = << >>
    <3>1. Closed(format, "no", state.out, lost)  BY <1>7, <2>1 DEF EndOK
    <3> QED BY <3>1, NoEnd DEF Closed
  <2>2. CASE wire # << >>
    <3> DEFINE y == wire[Len(wire)]
    <3>1. Closing(format, y, "no", state.out, lost)  BY <1>7, <2>2 DEF EndOK
    <3>2. y \in FrameSet  BY <1>6, <2>2
    <3> HIDE DEF y
    <3>3. How(y) = "none"  BY <3>1 DEF Closing, Says
    <3>4. ~Finishing(y)  BY <3>2, <3>3, HowIs
    <3> QED BY <3>1, <3>4 DEF Closing
  <2> QED BY <2>1, <2>2
<1>10. Closing(format, x, how, state.out, lost)  BY <1>4, <1>5, <1>9 DEF Closing
<1>11. EndOK(format, v, how, state.out, lost)  BY <1>8, <1>10 DEF EndOK
<1>12. wire' = v  BY <1>2 DEF x
<1> HIDE DEF v
<1>13. EndOK(format, wire, ending, state.out, lost)'  BY <1>1, <1>2, <1>11, <1>12
<1>14. CallsCounted(format, state)'  BY <1>1, <1>7
<1> QED BY <1>1, <1>13, <1>14 DEF EndsInv

\* A chunk is read.
LEMMA ReadEnds ==
  ASSUME EndsInv, LossInv, StreamInv, Read
  PROVE  EndsInv'
<1>1. /\ phase = "answer" /\ mode = "real" /\ phase' = phase /\ mode' = mode
      /\ format' = format /\ ending' = ending
  BY DEF Read
<1>2. PICK k \in DOMAIN wire, tear \in BOOLEAN :
        /\ tear => ~wire[k].torn
        /\ wire' = RestOf(wire, k, tear)
        /\ state' = Translate(ChunkOf(wire, k, tear))
        /\ lost' = lost \cup Broken(ChunkOf(wire, k, tear))
  BY DEF Read, RestOf, ChunkOf, Half
<1> SUFFICES ASSUME format # "shim" PROVE EndsInv'  BY <1>1 DEF EndsInv
<1>3. Streaming /\ format \in Formats \ {"shim"}  BY <1>1 DEF StreamInv
<1>4. WireOK(wire, ending) /\ wire \in Seq(FrameSet)  BY <1>3 DEF Streaming, WireOK
<1>5. k \in 1 .. Len(wire)  BY <1>4
<1>6. wire # << >>  BY <1>5
<1>7. /\ EndOK(format, wire, ending, state.out, lost) /\ CallsCounted(format, state)
      /\ ClaudeFiles(format, state)
  BY <1>1 DEF EndsInv, LossInv
<1>8. ~Over(state.out)  BY <1>6, <1>7 DEF EndOK, Closing
<1>9. Live(format, state)  BY <1>3, <1>8 DEF Streaming
<1>10. format = "gemini" => (state.half <=> wire # <<>> /\ wire[1].torn)  BY <1>3 DEF Streaming
<1> DEFINE c == ChunkOf(wire, k, tear)
           b == Broken(c)
           t == TranslateOf(format, state, c)
<1>11. /\ ChunkOK(c, tear)
       /\ \A s : (s.half <=> wire # << >> /\ wire[1].torn) => HalfOK(s, c, tear)
  BY <1>2, <1>4, <1>5, ReadWire
<1>12. format = "gemini" => HalfOK(state, c, tear)  BY <1>10, <1>11
<1>13. state' = t  BY <1>2 DEF Translate, TranslateOf
<1> HIDE DEF c
<1>14. CallsCounted(format, t) /\ ChunkEnds(format, t, c, tear)
  BY <1>3, <1>7, <1>9, <1>11, <1>12, TranslateEnds
<1>15. 0 \in b <=> Struck(format, c, Len(c)) /\ Finishing(c[Len(c)])  BY <1>11, BrokenEnd
<1>16. wire' = RestOf(wire, k, tear) /\ lost' = lost \cup b  BY <1>2 DEF c
<1> HIDE DEF b, t
<1>17. EndOK(format, RestOf(wire, k, tear), ending, t.out, lost \cup b)
  BY <1>2, <1>4, <1>5, <1>7, <1>14, <1>15, EndRead DEF c
<1>18. EndOK(format, wire, ending, state.out, lost)'  BY <1>1, <1>13, <1>16, <1>17
<1>19. CallsCounted(format, state)'  BY <1>1, <1>13, <1>14
<1> QED BY <1>1, <1>18, <1>19 DEF EndsInv

\* A stream ends.
LEMMA EndEnds ==
  ASSUME EndsInv, LossInv, StreamInv, HistoryInv, FilesInv, End
  PROVE  EndsInv'
<1>1. /\ phase = "answer" /\ mode = "real" /\ wire = << >> /\ ending # "no"
      /\ phase' = "ask" /\ format' = format /\ lost' = lost /\ ending' = ending
      /\ state' = DoneOf(format, state)
      /\ history' = [history EXCEPT ![Len(history)].blocks = Blocks(state'.out)]
  BY DEF End, EndTurn, DoneOf
<1> SUFFICES ASSUME format # "shim" PROVE EndsInv'  BY <1>1 DEF EndsInv
<1>2. /\ format \in Formats /\ Good(format, state) /\ ClaudeFiles(format, state)
      /\ Files0(format, state)
  BY <1>1 DEF StreamInv, LossInv, FilesInv
<1>3. history \in Seq(TurnRec) /\ history # << >>  BY <1>1, TurnOfTurn DEF HistoryInv, Telling
<1>4. Closed(format, ending, state.out, lost)  BY <1>1 DEF EndsInv, EndOK
<1> DEFINE r == DoneOf(format, state)
           b == Blocks(r.out)
<1>5. r.out \in Seq(Ev) /\ ClaudeFiles(format, r) /\ Files0(format, r)  BY <1>2, DoneSpoken
<1>6. /\ Over(r.out) <=> Over(state.out)
      /\ \A e : EndsBy(format, state.out, e) => EndsBy(format, r.out, e)
  BY <1>2, DoneEnds
<1> HIDE DEF r
<1>7. Closed(format, ending, r.out, lost)  BY <1>4, <1>6 DEF Closed
<1>8. Retains(format, Spoken(r.out), b)  BY <1>2, <1>5, FiledKept
<1> HIDE DEF b
<1>9. KeptIn(b, "call") = Spoken(r.out)["call"]
  <2>1. "call" \in PartKinds /\ "call" \notin Dropped(format)  BY DEF PartKinds, Dropped
  <2> QED BY <2>1, <1>8 DEF Retains
<1>10. history' = [history EXCEPT ![Len(history)].blocks = b]  BY <1>1 DEF b, r
<1>11. history'[Len(history')].blocks = b  BY <1>3, <1>10, FiledLast
<1>12. state' = r  BY <1>1 DEF r
<1>13. Closed(format, ending, state.out, lost)'  BY <1>1, <1>7, <1>12
<1>14. KeptIn(history'[Len(history')].blocks, "call") = Spoken(state'.out)["call"]
  BY <1>9, <1>11, <1>12
<1> QED BY <1>1, <1>13, <1>14 DEF EndsInv

\* An answer comes in one piece.
LEMMA AtOnceEndsIt ==
  ASSUME EndsInv, LossInv, StreamInv, HistoryInv, FilesInv, AnswerAtOnce
  PROVE  EndsInv'
<1>1. /\ phase = "answer" /\ mode # "real" /\ phase' = "ask" /\ format' = format /\ lost' = lost
      /\ mode' = mode
  BY DEF AnswerAtOnce, EndTurn
<1> SUFFICES ASSUME format # "shim", mode # "whole" PROVE EndsInv'  BY <1>1 DEF EndsInv
<1>2. PICK kinds \in Answers(MaxParts - used), how \in Reasons \cup {"blocked"} :
        /\ how = "blocked" => kinds = << >>
        /\ said' = NewParts(kinds)
        /\ ending' = how
        /\ state' = IF mode = "whole" THEN state
                    ELSE LET r == IF format = "gemini" THEN GeminiPseudo(state, Ended(said', how))
                                  ELSE Translate(<< Ended(said', how) >>)
                         IN  IF format \in {"openai", "shim"}
                             THEN Emit(r, << Event("done", "none", 0, 0) >>) ELSE r
        /\ history' = [history EXCEPT ![Len(history)].blocks =
                         IF mode = "whole" THEN Whole(said') ELSE Blocks(state'.out)]
  BY DEF AnswerAtOnce, EndTurn
<1> DEFINE p == NewParts(kinds)
           x == Ended(p, how)
           a == AtOnceOf(format, state, x)
           r == DoneOf(format, a)
           b == Blocks(r.out)
<1>3. /\ format \in Formats \ {"shim"} /\ used \in Nat /\ Good(format, state) /\ Live(format, state)
      /\ ClaudeFiles(format, state) /\ Files0(format, state) /\ CallsCounted(format, state)
      /\ lost = {}
  BY <1>1 DEF StreamInv, LossInv, FilesInv, EndsInv
<1>4. history \in Seq(TurnRec) /\ history # << >>  BY <1>1, TurnOfTurn DEF HistoryInv, Telling
<1>5. x \in FrameSet /\ ~x.torn
  <2>1. MaxParts - used \in Int  BY <1>3, CanvasAssumption
  <2> QED BY <2>1, <1>2, <1>3, EndedIs
<1>6. How(x) = how /\ how # "no"
  <2>1. Says(x, how)  BY EndedSays
  <2>2. how # "no"  BY DEF Reasons
  <2> QED BY <2>1, <2>2 DEF Says
<1>7. state' = r
  BY <1>2 DEF AtOnceOf, Translate, TranslateOf, DoneOf
<1>8. history' = [history EXCEPT ![Len(history)].blocks = b]  BY <1>2, <1>7
<1> HIDE DEF p, x
<1>9. EndsBy(format, a.out, how)  BY <1>3, <1>5, <1>6, AtOnceEnds
<1>10. ClaudeFiles(format, a) /\ Files0(format, a)  BY <1>3, <1>5, AtOnceSpoken
<1>11. Good(format, a)  BY <1>3, <1>5, AtOnceGood
<1> HIDE DEF a
<1>12. r.out \in Seq(Ev) /\ ClaudeFiles(format, r) /\ Files0(format, r)
  BY <1>3, <1>10, <1>11, DoneSpoken
<1>13. EndsBy(format, r.out, how)  BY <1>3, <1>9, <1>11, DoneEnds
<1> HIDE DEF r
<1>14. Retains(format, Spoken(r.out), b)  BY <1>3, <1>12, FiledKept
<1> HIDE DEF b
<1>15. KeptIn(b, "call") = Spoken(r.out)["call"]
  <2>1. "call" \in PartKinds /\ "call" \notin Dropped(format)  BY DEF PartKinds, Dropped
  <2> QED BY <2>1, <1>14 DEF Retains
<1>16. Closed(format, how, r.out, {})  BY <1>6, <1>13 DEF Closed
<1>17. history'[Len(history')].blocks = b  BY <1>4, <1>8, FiledLast
<1>18. Closed(format, ending, state.out, lost)'  BY <1>1, <1>2, <1>3, <1>7, <1>16
<1>19. KeptIn(history'[Len(history')].blocks, "call") = Spoken(state'.out)["call"]
  BY <1>7, <1>15, <1>17
<1> QED BY <1>1, <1>18, <1>19 DEF EndsInv

-----------------------------------------------------------------------------
(* The finish is told. *)

\* No action tells another end than Gemini's.
LEMMA EndsStep ==
  ASSUME EndsInv, LossInv, StreamInv, HistoryInv, FilesInv, [Next]_vars
  PROVE  EndsInv'
<1>1. CASE Ask
  <2>1. /\ phase = "ask" /\ phase' = "answer" /\ format' = format /\ wire' = wire
        /\ state' = StartOf(format) /\ lost' = {} /\ ending' = "no"
    BY <1>1, StartIs DEF Ask
  <2>2. wire' = << >> /\ format \in Formats  BY <2>1 DEF StreamInv
  <2> DEFINE o == state'.out
  <2>3. ~Over(o) /\ CallsCounted(format, state')  BY <2>1, <2>2, StartEnds
  <2> HIDE DEF o
  <2>4. Closed(format, "no", o, {})  BY <2>3, NoEnd DEF Closed
  <2>5. EndOK(format, << >>, "no", o, {})  BY <2>4 DEF EndOK
  <2>6. EndOK(format, wire, ending, state.out, lost)'  BY <2>1, <2>2, <2>5 DEF o
  <2>7. CallsCounted(format, state)'  BY <2>1, <2>3
  <2> QED BY <2>1, <2>6, <2>7 DEF EndsInv
<1>2. ASSUME phase' \notin {"ask", "answer"} PROVE EndsInv'  BY <1>2 DEF EndsInv
<1>3. CASE AskWithSettings  BY <1>2, <1>3 DEF AskWithSettings
<1>4. CASE AskWithSchema  BY <1>2, <1>4 DEF AskWithSchema
<1>5. CASE Say  BY <1>5, SayEnds
<1>6. CASE Read  BY <1>6, ReadEnds
<1>7. CASE End  BY <1>7, EndEnds
<1>8. CASE AnswerAtOnce  BY <1>8, AtOnceEndsIt
<1>9. CASE Interrupt
  <2>1. format' = format /\ (format # "shim" => phase' = "failed")  BY <1>9 DEF Interrupt
  <2>2. CASE format = "shim"  BY <2>1, <2>2 DEF EndsInv
  <2>3. CASE format # "shim"  BY <2>1, <2>3, <1>2
  <2> QED BY <2>2, <2>3
<1>10. CASE Refuse  BY <1>2, <1>10 DEF Refuse
<1>11. CASE UNCHANGED vars
  <2>1. /\ phase' = phase /\ mode' = mode /\ format' = format /\ wire' = wire
        /\ lost' = lost /\ state' = state /\ history' = history /\ ending' = ending
    BY <1>11 DEF vars, answerVars
  <2>2. CallsCounted(format, state)' <=> CallsCounted(format, state)  BY <2>1
  <2>3. EndOK(format, wire, ending, state.out, lost)' <=> EndOK(format, wire, ending, state.out, lost)
    BY <2>1
  <2>4. Closed(format, ending, state.out, lost)' <=> Closed(format, ending, state.out, lost)
    BY <2>1
  <2>5. (KeptIn(history[Len(history)].blocks, "call") = Spoken(state.out)["call"])' <=>
          KeptIn(history[Len(history)].blocks, "call") = Spoken(state.out)["call"]
    BY <2>1
  <2> QED BY <2>1, <2>2, <2>3, <2>4, <2>5, Zenon DEF EndsInv
<1> QED BY <1>1, <1>3, <1>4, <1>5, <1>6, <1>7, <1>8, <1>9, <1>10, <1>11 DEF Next

\* A client whose stream ended was told the finish the property describes.
LEMMA EndsInvTells ==
  ASSUME EndsInv, StreamInv, HistoryInv
  PROVE  FinishIsTold
<1> DEFINE Reason == IF format # "gemini" /\ Kept("call") # <<>> THEN "call" ELSE ending
<1>1. SUFFICES ASSUME phase = "ask", history # << >>, mode # "whole"
      PROVE  /\ format # "shim" =>
                  (Terminal # {} <=> /\ 0 \notin lost
                                     /\ \/ ending \in Reasons \ {"none"}
                                        \/ ending = "blocked" /\ format = "openai")
             /\ format = "shim" => Terminal # {}
             /\ format \in {"openai", "claude", "gemini"} /\ ending # "blocked" =>
                  \A i \in Terminal : Out[i].kind = Reason
  BY DEF FinishIsTold
<1>2. format \in Formats /\ Good(format, state)  BY DEF StreamInv
<1> DEFINE o == Sent(format, state.out)
<1>3. format = "shim" => Over(o)  BY <1>2, SentSound
<1>4. Out = o /\ Terminal = Endings(o)  BY DEF Out, Told, Sent, Terminal, Endings
<1>5. format # "shim" => o = state.out  BY DEF Sent
<1> HIDE DEF o
<1>6. format = "shim" => Terminal # {}  BY <1>3, <1>4 DEF Over
<1>7. ASSUME format # "shim"
      PROVE  /\ Terminal # {} <=> /\ 0 \notin lost
                                  /\ \/ ending \in Reasons \ {"none"}
                                     \/ ending = "blocked" /\ format = "openai"
             /\ format \in {"openai", "claude", "gemini"} /\ ending # "blocked" =>
                  \A i \in Terminal : Out[i].kind = Reason
  <2>1. /\ Closed(format, ending, o, lost)
        /\ KeptIn(history[Len(history)].blocks, "call") = Spoken(o)["call"]
    BY <1>1, <1>5, <1>7 DEF EndsInv
  <2>2. Kept("call") = Spoken(o)["call"]
    <3>1. history \in Seq(TurnRec)  BY TurnOfTurn DEF HistoryInv
    <3> QED BY <3>1, <2>1, <1>1, KeptKind
  <2>3. Reason = Why(format, o, ending)  BY <2>2 DEF Why
  <2>4. ending \in Reasons \ {"none"} <=> ending \in Stops  BY DEF Reasons, Stops
  <2>5. Terminal # {} <=> Over(o)  BY <1>4 DEF Over
  <2> HIDE DEF Reason
  <2>6. Terminal # {} <=> /\ 0 \notin lost
                          /\ \/ ending \in Stops
                             \/ ending = "blocked" /\ format = "openai"
    BY <2>1, <2>5 DEF Closed, EndsBy
  <2>7. ASSUME format \in {"openai", "claude", "gemini"}, ending # "blocked", NEW i \in Terminal
        PROVE  Out[i].kind = Reason
    <3>1. 0 \notin lost /\ ending \in Stops  BY <2>6, <2>7
    <3>2. EndsBy(format, o, ending)  BY <3>1, <2>1 DEF Closed
    <3>3. o[i].kind = Why(format, o, ending)  BY <3>1, <3>2, <2>7, <1>4 DEF EndsBy
    <3> QED BY <3>3, <2>3, <1>4
  <2> QED BY <2>4, <2>6, <2>7
<1> QED BY <1>6, <1>7

\* However the network joins and tears the frames, a client whose stream ended
\* without an error was told that the answer is finished, and why, exactly when
\* Gemini said so in a frame that arrived unbroken.
THEOREM ToldFinish == Spec => []FinishIsTold
<1>1. Init => EndsInv  BY DEF Init, EndsInv
<1>2. EndsInv /\ LossInv /\ StreamInv /\ HistoryInv /\ FilesInv /\ [Next]_vars => EndsInv'
  BY EndsStep
<1>3. EndsInv /\ StreamInv /\ HistoryInv => FinishIsTold  BY EndsInvTells
<1>4. Init => LossInv  BY InitLoss
<1>5. LossInv /\ StreamInv /\ HistoryInv /\ FilesInv /\ [Next]_vars => LossInv'  BY LossStep
<1>6. Spec => []StreamInv  BY StreamInvHolds
<1>7. Init => HistoryInv /\ FilesInv  BY InitHistory
<1>8. HistoryInv /\ FilesInv /\ StreamInv /\ [Next]_vars => (HistoryInv /\ FilesInv)'
  BY HistoryStep
<1> QED BY <1>1, <1>2, <1>3, <1>4, <1>5, <1>6, <1>7, <1>8, PTL DEF Spec

-----------------------------------------------------------------------------
(* What a turn replies. *)

\* The numbers of the parts of one kind in a content, and the parts and contents
\* whose results are named by n.
PartIds(k) == [c \in ContentRec |-> OfKind(c.parts, {k})]
NamedPart(n) == { p \in PartRec : p.kind = "response" => p.name = n[p.id] }
Named(n) == { c \in ContentRec : c.parts \in Seq(NamedPart(n)) }

\* A content that carries exactly these results, and with them the contents of a
\* turn begin if it has results; the calls of a turn are all in its last content.
Answering(f, R, c) ==
  /\ c.role = "user" /\ OfKind(c.parts, {"response"}) = R
  /\ f # "gemini" => Len(c.parts) = Len(R)
Opening(f, R, s) == R # << >> => s # << >> /\ Answering(f, R, s[1])
CallsLast(C, s) ==
  \A j \in DOMAIN s : PartIds("call")[s[j]] # << >> => j = Len(s) /\ PartIds("call")[s[j]] = C

\* The contents s of a turn whose results are R and whose calls are C.
Replies(f, n, R, C, s) ==
  /\ s \in Seq(Named(n))
  /\ Gather(PartIds("response"), s) = R /\ Gather(PartIds("call"), s) = C
  /\ f # "responses" => Opening(f, R, s) /\ CallsLast(C, s)

\* Picking out the numbers of the parts of contents is a typed gathering.
LEMMA PartIdsMake == \A k : Maker(PartIds(k), ContentRec, Int)
<1>1. ASSUME NEW k, NEW c \in ContentRec PROVE OfKind(c.parts, {k}) \in Seq(Int)
  <2>1. c.parts \in Seq(PartRec)  BY DEF ContentRec
  <2> QED BY <2>1, OfKindTyped
<1> QED BY <1>1 DEF Maker, PartIds

\* Named parts are parts, and named contents contents.
LEMMA NamedTypes ==
  ASSUME NEW n
  PROVE  /\ \A q \in Seq(NamedPart(n)) : q \in Seq(PartRec)
         /\ \A s \in Seq(Named(n)) : s \in Seq(ContentRec)
         /\ \A role \in {"user", "model"}, q \in Seq(NamedPart(n)) :
              /\ Content(role, q) \in Named(n) /\ Content(role, q) \in ContentRec
              /\ NotEmpty(role, q) \in Seq(Named(n))
<1>1. \A q \in Seq(NamedPart(n)) : q \in Seq(PartRec)  BY DEF NamedPart
<1>2. \A s \in Seq(Named(n)) : s \in Seq(ContentRec)  BY DEF Named
<1>3. ASSUME NEW role \in {"user", "model"}, NEW q \in Seq(NamedPart(n))
      PROVE  /\ Content(role, q) \in Named(n) /\ Content(role, q) \in ContentRec
             /\ NotEmpty(role, q) \in Seq(Named(n))
  <2> DEFINE c == Content(role, q)
             D == Named(n)
  <2>1. c \in ContentRec /\ c.parts = q  BY <1>1 DEF Content, ContentRec
  <2>2. c \in D  BY <2>1 DEF Named
  <2>3. NotEmpty(role, q) = << >> \/ NotEmpty(role, q) = << c >>  BY DEF NotEmpty
  <2> HIDE DEF c, D
  <2>4. << c >> \in Seq(D) /\ << >> \in Seq(D)  BY <2>2
  <2> QED BY <2>1, <2>2, <2>3, <2>4 DEF c, D
<1> QED BY <1>1, <1>2, <1>3

\* The numbers in a content, if it is there.
LEMMA PartIdsIn ==
  ASSUME NEW role \in {"user", "model"}, NEW q \in Seq(PartRec), NEW k
  PROVE  /\ PartIds(k)[Content(role, q)] = OfKind(q, {k})
         /\ Gather(PartIds(k), << Content(role, q) >>) = OfKind(q, {k})
         /\ Gather(PartIds(k), NotEmpty(role, q)) = OfKind(q, {k})
<1> DEFINE g == PartIds(k)
           c == Content(role, q)
           e == OfKind(q, {k})
<1>1. c \in ContentRec /\ c.parts = q  BY DEF Content, ContentRec
<1>2. g[c] = e  BY <1>1 DEF PartIds
<1>3. Maker(g, ContentRec, Int)  BY PartIdsMake
<1>4. NotEmpty(role, q) = IF q = << >> THEN << >> ELSE << c >>  BY DEF NotEmpty
<1>5. q = << >> => e = << >>
  <2>1. q = << >> => Lacks(q, k)  BY DEF Lacks
  <2> QED BY <2>1, LacksNone
<1> HIDE DEF g, c, e
<1>6. Gather(g, << c >>) = e  BY <1>1, <1>2, <1>3, GatherOne
<1>7. Gather(g, NotEmpty(role, q)) = e  BY <1>4, <1>5, <1>6, GatherNone
<1> QED BY <1>2, <1>6, <1>7 DEF g, c, e

\* What a turn sends first and its answer, together.
LEMMA RepliesAnswer ==
  ASSUME NEW f, NEW n, NEW u \in Seq(Named(n)), NEW R, Gather(PartIds("response"), u) = R,
         \A i \in DOMAIN u : PartIds("call")[u[i]] = << >>, Opening(f, R, u),
         NEW a \in Seq(NamedPart(n)), Lacks(a, "response")
  PROVE  Replies(f, n, R, OfKind(a, {"call"}), u \o NotEmpty("model", a))
<1> DEFINE z == NotEmpty("model", a)
           C == OfKind(a, {"call"})
           D == Named(n)
           s == u \o z
           g == PartIds("call")
           h == PartIds("response")
           c == Content("model", a)
<1>1. a \in Seq(PartRec) /\ u \in Seq(ContentRec) /\ z \in Seq(D)  BY NamedTypes
<1>2. C \in Seq(Int) /\ OfKind(a, {"response"}) = << >>  BY <1>1, OfKindTyped, LacksNone
<1>3. Gather(g, z) = C /\ Gather(h, z) = << >> /\ g[c] = C  BY <1>1, <1>2, PartIdsIn
<1>4. z = << >> \/ z = << c >>  BY DEF NotEmpty
<1>5. Maker(g, ContentRec, Int) /\ Maker(h, ContentRec, Int)  BY PartIdsMake
<1>6. z \in Seq(ContentRec)  BY <1>1, NamedTypes
<1> HIDE DEF z, C, D, g, h, c
<1>7. Gather(g, u) = << >>  BY <1>1, GatherNothing DEF g
<1>8. Gather(g, s) = C
  <2>1. Gather(g, u \o z) = Gather(g, u) \o Gather(g, z)  BY <1>1, <1>5, <1>6, GatherConcat
  <2>2. << >> \o C = C  BY <1>2
  <2> QED BY <1>3, <1>7, <2>1, <2>2
<1>9. Gather(h, s) = R
  <2>1. Gather(h, u \o z) = Gather(h, u) \o Gather(h, z)
    <3>1. Maker(h, ContentRec, Int)  BY <1>5
    <3> QED BY <1>1, <1>6, <3>1, GatherConcat
  <2> DEFINE y == Gather(h, u)
  <2>2. y \in Seq(Int)  BY <1>1, <1>5, EachTyped
  <2>3. Gather(h, s) = y \o << >>  BY <1>3, <2>1
  <2>4. y = R  BY DEF h
  <2> HIDE DEF y
  <2>5. y \o << >> = y  BY <2>2
  <2> QED BY <2>3, <2>4, <2>5
<1>10. u \in Seq(D)  BY DEF D
<1>11. s \in Seq(D) /\ Len(s) = Len(u) + Len(z)
       /\ \A i \in 1 .. Len(u) + Len(z) : s[i] = IF i <= Len(u) THEN u[i] ELSE z[i - Len(u)]
  BY <1>1, <1>10, Joined
<1>12. DOMAIN u = 1 .. Len(u) /\ DOMAIN s = 1 .. Len(s) /\ Len(u) \in Nat  BY <1>10, <1>11
<1>13. Opening(f, R, s)
  <2>1. SUFFICES ASSUME R # << >> PROVE s # << >> /\ Answering(f, R, s[1])  BY DEF Opening
  <2>2. u # << >> /\ Answering(f, R, u[1])  BY <2>1 DEF Opening
  <2>3. Len(u) >= 1  BY <2>2, <1>10
  <2>4. Len(z) \in Nat  BY <1>6
  <2>5. s[1] = u[1] /\ Len(s) >= 1  BY <2>3, <2>4, <1>11, <1>12
  <2> QED BY <2>2, <2>5
<1>14. CallsLast(C, s)
  <2>1. SUFFICES ASSUME NEW j \in DOMAIN s, g[s[j]] # << >> PROVE j = Len(s) /\ g[s[j]] = C
    BY DEF CallsLast, g
  <2>2. j \in 1 .. Len(u) + Len(z)  BY <1>11, <1>12
  <2>3. j > Len(u)
    <3>1. j <= Len(u) => s[j] = u[j] /\ j \in DOMAIN u  BY <2>2, <1>11, <1>12
    <3>2. j <= Len(u) => g[s[j]] = << >>  BY <3>1 DEF g
    <3> QED BY <2>1, <2>2, <3>2, <1>12
  <2>4. s[j] = z[j - Len(u)]  BY <2>2, <2>3, <1>11, <1>12
  <2>5. z = << c >>
    <3>1. z # << >>  BY <2>2, <2>3, <1>12
    <3> QED BY <3>1, <1>4
  <2>6. Len(z) = 1 /\ z[1] = c  BY <2>5
  <2>7. j = Len(s) /\ s[j] = c  BY <2>2, <2>3, <2>4, <2>6, <1>11, <1>12
  <2> QED BY <2>7, <1>3
<1> QED BY <1>8, <1>9, <1>11, <1>13, <1>14 DEF Replies, C, D, g, h, z

-----------------------------------------------------------------------------
(* Parts by their names. *)

\* Parts that are no results are named as one likes, signed or not.
LEMMA LackingNamed ==
  ASSUME NEW q \in Seq(PartRec), Lacks(q, "response"), NEW n
  PROVE  /\ q \in Seq(NamedPart(n))
         /\ SignFirst(q) \in Seq(NamedPart(n)) /\ Lacks(SignFirst(q), "response")
<1>1. ASSUME NEW p \in Seq(PartRec), Lacks(p, "response") PROVE p \in Seq(NamedPart(n))
  <2>1. \A i \in DOMAIN p : p[i] \in PartRec /\ p[i].kind # "response"  BY <1>1 DEF Lacks
  <2>2. \A i \in DOMAIN p : p[i] \in NamedPart(n)  BY <2>1 DEF NamedPart
  <2> DEFINE D == NamedPart(n)
  <2> HIDE DEF D
  <2> QED BY <2>2 DEF D
<1> DEFINE s == SignFirst(q)
<1>2. s \in Seq(PartRec) /\ Keeping(q, s)  BY SignFirstKeeps
<1> HIDE DEF s
<1>3. Lacks(s, "response")  BY <1>2 DEF Keeping, Lacks
<1> QED BY <1>1, <1>2, <1>3 DEF s

\* Two sequences that lack a kind lack it together.
LEMMA LacksJoined ==
  ASSUME NEW a \in Seq(PartRec), NEW b \in Seq(PartRec), NEW k, Lacks(a, k), Lacks(b, k)
  PROVE  a \o b \in Seq(PartRec) /\ Lacks(a \o b, k)
<1>1. /\ a \o b \in Seq(PartRec) /\ Len(a \o b) = Len(a) + Len(b)
      /\ \A i \in 1 .. Len(a) + Len(b) : (a \o b)[i] = IF i <= Len(a) THEN a[i] ELSE b[i - Len(a)]
  BY Joined
<1> DEFINE s == a \o b
<1> HIDE DEF s
<1>2. s \in Seq(PartRec) /\ Len(s) = Len(a) + Len(b)
      /\ \A i \in 1 .. Len(a) + Len(b) : s[i] = IF i <= Len(a) THEN a[i] ELSE b[i - Len(a)]
  BY <1>1 DEF s
<1>3. \A i \in DOMAIN s : IF i <= Len(a) THEN i \in DOMAIN a ELSE i - Len(a) \in DOMAIN b  BY <1>2
<1>4. \A i \in DOMAIN s : i \in 1 .. Len(a) + Len(b)  BY <1>2
<1>5. Lacks(s, k)  BY <1>2, <1>3, <1>4 DEF Lacks
<1> QED BY <1>2, <1>5 DEF s

\* If all parts are of one kind, their numbers are those of that kind.
LEMMA AllOfKind ==
  ASSUME NEW q \in Seq(PartRec), NEW k, \A i \in DOMAIN q : q[i].kind = k
  PROVE  OfKind(q, {k}) = [i \in DOMAIN q |-> q[i].id]
<1> DEFINE g == Ids(PartRec, {k})
           f == [p \in PartRec |-> p.id]
           h == [p \in PartRec |-> << p.id >>]
<1>1. \A p \in PartRec : p.id \in Int /\ << p.id >> \in Seq(Int)  BY DEF PartRec
<1>2. Maker(h, PartRec, Int)  BY <1>1 DEF Maker
<1>3. \A p \in PartRec : f[p] \in Int /\ h[p] = << f[p] >>  BY <1>1
<1>4. \A i \in DOMAIN q : q[i] \in PartRec  OBVIOUS
<1>5. \A i \in DOMAIN q : g[q[i]] = h[q[i]]  BY <1>4 DEF Ids
<1>6. \A i \in DOMAIN q : f[q[i]] = q[i].id  BY <1>4
<1>7. OfKind(q, {k}) = Gather(g, q)  BY OfKindIs
<1> HIDE DEF g, h, f
<1>8. Gather(g, q) = Gather(h, q)  BY <1>5, GatherSame
<1>9. Gather(h, q) = [i \in DOMAIN q |-> f[q[i]]]  BY <1>2, <1>3, GatherMap
<1> QED BY <1>6, <1>7, <1>8, <1>9

\* The parts of the results of a turn carry those results, by their names.
LEMMA RespsCarry ==
  ASSUME NEW results \in Seq(Int), NEW names \in [Int -> Int]
  PROVE  LET r == Resps(results, names) IN
         /\ r \in Seq(NamedPart(names)) /\ r \in Seq(PartRec) /\ Len(r) = Len(results)
         /\ Lacks(r, "call") /\ OfKind(r, {"response"}) = results
<1> DEFINE r == Resps(results, names)
<1>1. r \in Seq(PlainPart) /\ Len(r) = Len(results)  BY RespsTyped
<1>2. \A i \in DOMAIN r : r[i].kind = "response" /\ r[i].id = results[i] /\ r[i].name = names[results[i]]
  BY DEF Resps, Response
<1> HIDE DEF r
<1>3. r \in Seq(PartRec)  BY <1>1, PlainIsPart
<1>4. r \in Seq(NamedPart(names))
  <2>0. \A i \in DOMAIN r : r[i] \in PartRec /\ r[i].name = names[r[i].id]
    <3>1. \A i \in DOMAIN r : r[i] \in PartRec  BY <1>3
    <3> QED BY <3>1, <1>2, Zenon
  <2>1. \A i \in DOMAIN r : r[i] \in NamedPart(names)  BY <2>0, Zenon DEF NamedPart
  <2> DEFINE D == NamedPart(names)
  <2> HIDE DEF D
  <2> QED BY <2>1, <1>3 DEF D
<1>5. Lacks(r, "call")  BY <1>2 DEF Lacks
<1>6. OfKind(r, {"response"}) = results
  <2>1. OfKind(r, {"response"}) = [i \in DOMAIN r |-> r[i].id]  BY <1>2, <1>3, AllOfKind
  <2>2. DOMAIN r = DOMAIN results /\ results = [i \in DOMAIN results |-> results[i]]  BY <1>1, <1>3
  <2> QED BY <2>1, <2>2, <1>2
<1> QED BY <1>1, <1>3, <1>4, <1>5, <1>6 DEF r

\* An answer and a question have no results.
LEMMA NoResults ==
  ASSUME NEW t \in TurnRec
  PROVE  /\ AllParts(t.blocks) \in Seq(PartRec) /\ Lacks(AllParts(t.blocks), "response")
         /\ \A k : OfBlocks(t.blocks, k) \in Seq(PartRec) /\ Lacks(OfBlocks(t.blocks, k), "response")
         /\ Asking(t) \in Seq(PartRec) /\ Lacks(Asking(t), "response") /\ Lacks(Asking(t), "call")
<1> DEFINE D == { p \in PlainPart : p.kind # "response" }
           blocks == t.blocks
<1>1. ASSUME NEW b \in BlockRec PROVE PartsOf(b) \in Seq(D)
  <2>1. b.kind \in EvKind /\ b.parts \in Seq(Int)  BY DEF BlockRec
  <2>2. "response" \notin EvKind  BY DEF EvKind
  <2>3. \A x \in Int : LET p == Part(b.kind, x) IN p \in PlainPart /\ p.kind = b.kind
    BY <2>1 DEF Part, PlainPart, PartRec, Unknown
  <2>4. \A x \in Int : Part(b.kind, x) \in D  BY <2>1, <2>2, <2>3
  <2> HIDE DEF D
  <2> QED BY <2>1, <2>4 DEF PartsOf
<1>2. ASSUME NEW q \in Seq(D) PROVE q \in Seq(PartRec) /\ Lacks(q, "response")
  <2>1. \A i \in DOMAIN q : q[i] \in D
    <3> HIDE DEF D
    <3> QED OBVIOUS
  <2>2. \A i \in DOMAIN q : q[i] \in PartRec /\ q[i].kind # "response"  BY <2>1 DEF PlainPart
  <2>3. q \in Seq(PartRec)  BY DEF PlainPart
  <2> QED BY <2>2, <2>3 DEF Lacks
<1>3. blocks \in Seq(BlockRec) /\ \A i \in DOMAIN blocks : blocks[i] \in BlockRec  BY DEF TurnRec
<1>4. AllParts(blocks) \in Seq(D)
  <2> DEFINE g == EveryPart
  <2>1. \A b \in BlockRec : g[b] = PartsOf(b)  BY DEF EveryPart
  <2>2. Maker(g, BlockRec, D)  BY <1>1 DEF Maker, EveryPart
  <2>3. [i \in DOMAIN blocks |-> PartsOf(blocks[i])] = Each(g, blocks)  BY <1>3, <2>1 DEF Each
  <2>4. AllParts(blocks) = Gather(g, blocks)  BY <2>3, Zenon DEF AllParts, Gather
  <2> HIDE DEF g, blocks, D
  <2>5. Gather(g, blocks) \in Seq(D)  BY <1>3, <2>2, EachTyped
  <2> QED BY <2>4, <2>5
<1>5. ASSUME NEW k PROVE OfBlocks(blocks, k) \in Seq(D)
  <2> DEFINE g == BlockParts(k)
  <2>1. \A b \in BlockRec : g[b] = IF b.kind = k THEN PartsOf(b) ELSE << >>  BY DEF BlockParts
  <2>2. Maker(g, BlockRec, D)
    <3>1. << >> \in Seq(D)  OBVIOUS
    <3> HIDE DEF D
    <3> QED BY <3>1, <1>1 DEF Maker, BlockParts
  <2>3. [i \in DOMAIN blocks |-> IF blocks[i].kind = k THEN PartsOf(blocks[i]) ELSE << >>] = Each(g, blocks)
    BY <1>3, <2>1 DEF Each
  <2>4. OfBlocks(blocks, k) = Gather(g, blocks)  BY <2>3, Zenon DEF OfBlocks, Gather
  <2> HIDE DEF g, blocks, D
  <2>5. Gather(g, blocks) \in Seq(D)  BY <1>3, <2>2, EachTyped
  <2> QED BY <2>4, <2>5
<1>6. Question \in PartRec /\ Question.kind = "text"  BY QuestionIs DEF PlainPart
<1>7. Asking(t) \in Seq(PartRec)  BY <1>6 DEF Asking
<1>8. Lacks(Asking(t), "response") /\ Lacks(Asking(t), "call")  BY <1>6 DEF Lacks, Asking
<1> HIDE DEF D
<1> QED BY <1>2, <1>4, <1>5, <1>7, <1>8

-----------------------------------------------------------------------------
(* Chat and Messages turns reply. *)

\* The results and the calls a turn sends, in each format.
Resulted(f) == [t \in TurnRec |-> IF f = "shim" THEN << >> ELSE t.results]
Called(f) == [t \in TurnRec |-> IF f = "shim" THEN << >> ELSE KeptIn(t.blocks, "call")]

\* Every turn of a conversation, translated by g, replies to the one before.
AllReply(f, n, g) ==
  \A t \in TurnRec : Replies(f, n, Resulted(f)[t], Called(f)[t], g[t])

\* One or no content of the user, without calls.
LEMMA UserContent ==
  ASSUME NEW n, NEW q \in Seq(NamedPart(n)), Lacks(q, "call")
  PROVE  LET s == NotEmpty("user", q) IN
         /\ s \in Seq(Named(n)) /\ Gather(PartIds("response"), s) = OfKind(q, {"response"})
         /\ \A i \in DOMAIN s : PartIds("call")[s[i]] = << >>
         /\ q # << >> => s = << Content("user", q) >>
<1> DEFINE s == NotEmpty("user", q)
           c == Content("user", q)
           g == PartIds("call")
<1>1. q \in Seq(PartRec) /\ s \in Seq(Named(n))  BY NamedTypes
<1>2. Gather(PartIds("response"), s) = OfKind(q, {"response"}) /\ g[c] = OfKind(q, {"call"})
  BY <1>1, PartIdsIn
<1>3. g[c] = << >>  BY <1>1, <1>2, LacksNone
<1>4. s = IF q = << >> THEN << >> ELSE << c >>  BY DEF NotEmpty
<1> HIDE DEF s, c, g
<1>5. \A i \in DOMAIN s : g[s[i]] = << >>
  <2>1. CASE q = << >>
    <3>1. s = << >>  BY <2>1, <1>4
    <3> QED BY <3>1
  <2>2. CASE q # << >>
    <3>1. s = << c >>  BY <2>2, <1>4
    <3>2. \A i \in DOMAIN s : s[i] = c  BY <3>1
    <3> QED BY <3>2, <1>3
  <2> QED BY <2>1, <2>2
<1> QED BY <1>1, <1>2, <1>4, <1>5 DEF s, c, g

\* A turn of messages replies.
LEMMA ChatReplies ==
  ASSUME NEW f, NEW n, NEW t \in TurnRec, NEW R \in Seq(Int),
         NEW resps \in Seq(NamedPart(n)), Lacks(resps, "call"), OfKind(resps, {"response"}) = R,
         Len(resps) = Len(R), NEW answer \in Seq(NamedPart(n)), Lacks(answer, "response")
  PROVE  Replies(f, n, R, OfKind(answer, {"call"}), TurnContents(t, resps, answer))
<1> DEFINE q == Asking(t)
           x == NotEmpty("user", resps)
           y == NotEmpty("user", q)
           u == x \o y
           g == PartIds("call")
           h == PartIds("response")
           c == Content("user", resps)
           D == Named(n)
<1>1. q \in Seq(PartRec) /\ Lacks(q, "response") /\ Lacks(q, "call")  BY NoResults
<1>2. q \in Seq(NamedPart(n))  BY <1>1, LackingNamed
<1>3. OfKind(q, {"response"}) = << >>  BY <1>1, LacksNone
<1> HIDE DEF q
<1>4. x \in Seq(D) /\ Gather(h, x) = R /\ (\A i \in DOMAIN x : g[x[i]] = << >>)
      /\ (resps # << >> => x = << c >>)
  BY UserContent
<1>5. y \in Seq(D) /\ Gather(h, y) = << >> /\ (\A i \in DOMAIN y : g[y[i]] = << >>)
  BY <1>1, <1>2, <1>3, UserContent
<1>6. x \in Seq(ContentRec) /\ y \in Seq(ContentRec)  BY <1>4, <1>5, NamedTypes
<1>7. Maker(h, ContentRec, Int)  BY PartIdsMake
<1>8. c.role = "user" /\ c.parts = resps  BY DEF Content
<1> HIDE DEF x, y, g, h, c, D
<1>9. Gather(h, u) = R
  <2>1. Gather(h, x \o y) = Gather(h, x) \o Gather(h, y)  BY <1>6, <1>7, GatherConcat
  <2>2. R \o << >> = R  OBVIOUS
  <2> QED BY <1>4, <1>5, <2>1, <2>2
<1>10. /\ u \in Seq(D) /\ Len(u) = Len(x) + Len(y)
       /\ \A i \in 1 .. Len(x) + Len(y) : u[i] = IF i <= Len(x) THEN x[i] ELSE y[i - Len(x)]
  BY <1>4, <1>5, Joined
<1>11. Len(x) \in Nat /\ Len(y) \in Nat /\ DOMAIN x = 1 .. Len(x) /\ DOMAIN y = 1 .. Len(y)
  BY <1>4, <1>5
<1> HIDE DEF u
<1>12. DOMAIN u = 1 .. Len(x) + Len(y)  BY <1>10, <1>11
<1>13. \A i \in DOMAIN u : g[u[i]] = << >>
  <2>1. ASSUME NEW i \in DOMAIN u PROVE g[u[i]] = << >>
    <3>1. CASE i <= Len(x)
      <4>1. u[i] = x[i] /\ i \in DOMAIN x  BY <1>10, <1>11, <1>12, <3>1
      <4> QED BY <4>1, <1>4
    <3>2. CASE ~(i <= Len(x))
      <4>1. u[i] = y[i - Len(x)] /\ i - Len(x) \in DOMAIN y  BY <1>10, <1>11, <1>12, <3>2
      <4> QED BY <4>1, <1>5
    <3> QED BY <3>1, <3>2
  <2> QED BY <2>1
<1>14. Opening(f, R, u)
  <2>1. SUFFICES ASSUME R # << >> PROVE u # << >> /\ Answering(f, R, u[1])  BY DEF Opening
  <2>2. resps # << >>
    <3>1. Len(R) # 0  BY <2>1
    <3> QED BY <3>1
  <2>3. x = << c >>  BY <2>2, <1>4
  <2>4. Len(x) = 1 /\ x[1] = c  BY <2>3
  <2>5. u # << >> /\ u[1] = c  BY <2>4, <1>10, <1>11
  <2>6. Answering(f, R, c)  BY <1>8 DEF Answering
  <2> QED BY <2>5, <2>6
<1>15. Replies(f, n, R, OfKind(answer, {"call"}), u \o NotEmpty("model", answer))
  <2>1. u \in Seq(Named(n)) /\ Gather(PartIds("response"), u) = R
        /\ \A i \in DOMAIN u : PartIds("call")[u[i]] = << >>
    BY <1>9, <1>10, <1>13 DEF D, g, h
  <2> QED BY <2>1, <1>14, RepliesAnswer
<1> QED BY <1>15 DEF TurnContents, u, x, y, q

\* Signing parts changes neither their calls nor that they are no results.
LEMMA SignedReply ==
  ASSUME NEW q \in Seq(PartRec), Lacks(q, "response"), NEW n
  PROVE  LET s == SignFirst(q) IN
         /\ s \in Seq(NamedPart(n)) /\ Lacks(s, "response")
         /\ OfKind(s, {"call"}) = OfKind(q, {"call"})
BY LackingNamed, SignFirstIds

\* Chat Completions and Messages turns reply, and those of the shim send neither
\* calls nor results.
LEMMA MessagesReply ==
  ASSUME NEW more \in BOOLEAN, NEW h
  PROVE  /\ AllReply("openai", ToolNames(more), OpenAITurns(more))
         /\ AllReply("claude", NamesOf(h), ClaudeSent(h))
         /\ AllReply("shim", ToolNames(more), ShimTurns)
<1>1. ToolNames(more) \in [Int -> Int] /\ NamesOf(h) \in [Int -> Int]
  BY DEF ToolNames, NamesOf, ToolName, Unknown
<1>2. ASSUME NEW t \in TurnRec
      PROVE  /\ Replies("openai", ToolNames(more), t.results, KeptIn(t.blocks, "call"), OpenAIAnswer(t, more))
             /\ Replies("claude", NamesOf(h), t.results, KeptIn(t.blocks, "call"), ClaudeAnswer(h, t))
             /\ Replies("shim", ToolNames(more), << >>, << >>, ShimAnswer(t))
  <2> DEFINE C == KeptIn(t.blocks, "call")
             R == t.results
             m == ToolNames(more)
             w == NamesOf(h)
             a == OfBlocks(t.blocks, "call")
             b == OfBlocks(t.blocks, "text")
             p == AllParts(t.blocks)
             nil == << >>
  <2>1. R \in Seq(Int) /\ t.blocks \in Seq(BlockRec)  BY DEF TurnRec
  <2>2. /\ p \in Seq(PartRec) /\ Lacks(p, "response") /\ a \in Seq(PartRec) /\ Lacks(a, "response")
        /\ b \in Seq(PartRec) /\ Lacks(b, "response")
    BY NoResults
  <2>3. OfKind(a, {"call"}) = C /\ OfKind(b, {"call"}) = nil  BY <2>1, OfBlocksIs
  <2>4. OfKind(p, {"call"}) = C  BY <2>1, AllPartsIs
  <2>5. C \in Seq(Int)  BY <2>1, BlockMakers, EachTyped DEF KeptIn
  <2>6. nil \in Seq(NamedPart(m)) /\ nil \in Seq(Int) /\ Lacks(nil, "call")
        /\ OfKind(nil, {"response"}) = nil /\ Len(nil) = 0
    <3>1. nil \in Seq(PartRec) /\ Lacks(nil, "response")  BY DEF Lacks
    <3>2. OfKind(nil, {"response"}) = nil  BY <3>1, LacksNone
    <3> QED BY <3>2 DEF Lacks
  <2> DEFINE q == a \o b
             r == Resps(R, m)
             v == Resps(R, w)
  <2> HIDE DEF C, R, m, w, a, b, p, nil
  <2>7. q \in Seq(PartRec) /\ Lacks(q, "response")  BY <2>2, LacksJoined
  <2>8. OfKind(q, {"call"}) = C
    <3> DEFINE g == Ids(PartRec, {"call"})
    <3>1. Maker(g, PartRec, Int)  BY KindsMake
    <3>2. OfKind(q, {"call"}) = Gather(g, q) /\ OfKind(a, {"call"}) = Gather(g, a)
          /\ OfKind(b, {"call"}) = Gather(g, b)
      BY <2>2, <2>7, OfKindIs
    <3> HIDE DEF g
    <3>3. Gather(g, a \o b) = Gather(g, a) \o Gather(g, b)  BY <2>2, <3>1, GatherConcat, SMTT(30)
    <3>4. C \o nil = C  BY <2>5 DEF nil
    <3> QED BY <2>3, <3>2, <3>3, <3>4
  <2> HIDE DEF q
  <2>9. /\ r \in Seq(NamedPart(m)) /\ Len(r) = Len(R) /\ Lacks(r, "call") /\ OfKind(r, {"response"}) = R
        /\ v \in Seq(NamedPart(w)) /\ Len(v) = Len(R) /\ Lacks(v, "call") /\ OfKind(v, {"response"}) = R
    <3>1. m \in [Int -> Int] /\ w \in [Int -> Int]  BY <1>1 DEF m, w
    <3> QED BY <2>1, <3>1, RespsCarry
  <2> HIDE DEF r, v
  <2> DEFINE x == SignFirst(q)
             y == SignFirst(p)
             z == SignFirst(b)
  <2>10. /\ x \in Seq(NamedPart(m)) /\ Lacks(x, "response") /\ OfKind(x, {"call"}) = C
         /\ y \in Seq(NamedPart(w)) /\ Lacks(y, "response") /\ OfKind(y, {"call"}) = C
         /\ z \in Seq(NamedPart(m)) /\ Lacks(z, "response") /\ OfKind(z, {"call"}) = nil
    BY <2>2, <2>3, <2>4, <2>7, <2>8, SignedReply
  <2> HIDE DEF x, y, z
  <2>11. Replies("openai", m, R, C, TurnContents(t, r, x))
    <3>1. Replies("openai", m, R, OfKind(x, {"call"}), TurnContents(t, r, x))
      BY <2>1, <2>9, <2>10, ChatReplies
    <3> QED BY <3>1, <2>10
  <2>12. Replies("claude", w, R, C, TurnContents(t, v, y))
    <3>1. Replies("claude", w, R, OfKind(y, {"call"}), TurnContents(t, v, y))
      BY <2>1, <2>9, <2>10, ChatReplies
    <3> QED BY <3>1, <2>10
  <2>13. Replies("shim", m, nil, nil, TurnContents(t, nil, z))
    <3>1. Replies("shim", m, nil, OfKind(z, {"call"}), TurnContents(t, nil, z))
      BY <2>6, <2>10, ChatReplies
    <3> QED BY <3>1, <2>10
  <2>14. OpenAIAnswer(t, more) = TurnContents(t, r, x)
    BY DEF OpenAIAnswer, ChatParts, r, x, q, a, b, m, R
  <2>15. ClaudeAnswer(h, t) = TurnContents(t, v, y)  BY DEF ClaudeAnswer, v, y, p, w, R
  <2>16. ShimAnswer(t) = TurnContents(t, nil, z)  BY DEF ShimAnswer, nil, z, b
  <2> QED BY <2>11, <2>12, <2>13, <2>14, <2>15, <2>16 DEF m, w, R, C, nil
<1>3. ASSUME NEW t \in TurnRec
      PROVE  /\ OpenAITurns(more)[t] = OpenAIAnswer(t, more) /\ ClaudeSent(h)[t] = ClaudeAnswer(h, t)
             /\ ShimTurns[t] = ShimAnswer(t)
             /\ \A f \in {"openai", "claude"} : Resulted(f)[t] = t.results
                                               /\ Called(f)[t] = KeptIn(t.blocks, "call")
             /\ Resulted("shim")[t] = << >> /\ Called("shim")[t] = << >>
  BY DEF OpenAITurns, ClaudeSent, ShimTurns, Resulted, Called
<1>4. AllReply("openai", ToolNames(more), OpenAITurns(more))  BY <1>2, <1>3 DEF AllReply
<1>5. AllReply("claude", NamesOf(h), ClaudeSent(h))  BY <1>2, <1>3 DEF AllReply
<1>6. AllReply("shim", ToolNames(more), ShimTurns)  BY <1>2, <1>3 DEF AllReply
<1> QED BY <1>4, <1>5, <1>6

-----------------------------------------------------------------------------
(* Gemini turns reply. *)

\* Signing parts leaves them named, and adds no kind.
LEMMA SignedNamed ==
  ASSUME NEW n, NEW q \in Seq(NamedPart(n))
  PROVE  /\ SignFirst(q) \in Seq(NamedPart(n))
         /\ \A k : Lacks(q, k) => Lacks(SignFirst(q), k)
<1> DEFINE s == SignFirst(q)
           D == NamedPart(n)
<1>1. q \in Seq(PartRec)  BY NamedTypes
<1>2. s \in Seq(PartRec) /\ Keeping(q, s)  BY <1>1, SignFirstKeeps
<1>3. \A i \in DOMAIN q : q[i].kind = "response" => q[i].name = n[q[i].id]  BY DEF NamedPart
<1> HIDE DEF s
<1>4. \A i \in DOMAIN s : /\ i \in DOMAIN q /\ s[i] \in PartRec
                          /\ s[i].kind = q[i].kind /\ s[i].id = q[i].id /\ s[i].name = q[i].name
  BY <1>1, <1>2 DEF Keeping
<1>5. \A i \in DOMAIN s : s[i].kind = "response" => s[i].name = n[s[i].id]  BY <1>3, <1>4, Zenon
<1>6. \A i \in DOMAIN s : s[i] \in D  BY <1>4, <1>5, Zenon DEF NamedPart
<1> HIDE DEF D
<1>7. s \in Seq(D)  BY <1>2, <1>6
<1>8. \A k : Lacks(q, k) => Lacks(s, k)  BY <1>4 DEF Lacks
<1> QED BY <1>7, <1>8 DEF s, D

\* A signed content, or none, is that of signed parts.
LEMMA SignsOf ==
  ASSUME NEW role \in {"user", "model"}, NEW q \in Seq(PartRec)
  PROVE  /\ Gather(Signs, << Content(role, q) >>) = << Content(role, SignFirst(q)) >>
         /\ Gather(Signs, NotEmpty(role, q)) = NotEmpty(role, SignFirst(q))
<1> DEFINE c == Content(role, q)
           s == SignFirst(q)
           d == Content(role, s)
<1>1. c \in ContentRec  BY DEF Content, ContentRec
<1>2. SignOf(c) = d  BY DEF SignOf, Content
<1>3. Signs[c] = << d >>  BY <1>1, <1>2 DEF Signs
<1>4. s \in Seq(PartRec) /\ Len(s) = Len(q)  BY SignFirstKeeps DEF Keeping
<1>5. q = << >> <=> s = << >>
  <2> HIDE DEF s
  <2>1. q = << >> <=> Len(q) = 0  OBVIOUS
  <2>2. s = << >> <=> Len(s) = 0  BY <1>4
  <2> QED BY <1>4, <2>1, <2>2
<1>6. /\ NotEmpty(role, q) = IF q = << >> THEN << >> ELSE << c >>
      /\ NotEmpty(role, s) = IF s = << >> THEN << >> ELSE << d >>
  BY DEF NotEmpty
<1> HIDE DEF c, s, d
<1>7. Gather(Signs, << c >>) = << d >>  BY <1>1, <1>3, SignsMake, GatherOne
<1>8. Gather(Signs, NotEmpty(role, q)) = NotEmpty(role, s)  BY <1>5, <1>6, <1>7, GatherNone
<1> QED BY <1>7, <1>8 DEF c, s, d

\* A Gemini client's turns reply.
LEMMA GeminiReply ==
  ASSUME NEW more \in BOOLEAN
  PROVE  AllReply("gemini", ToolNames(TRUE), GeminiTurns(more))
<1> DEFINE n == ToolNames(TRUE)
<1>1. ASSUME NEW t \in TurnRec
      PROVE  Replies("gemini", n, t.results, KeptIn(t.blocks, "call"), GeminiTurns(more)[t])
  <2> DEFINE R == t.results
             C == KeptIn(t.blocks, "call")
             r == Resps(R, n)
             q == Asking(t)
             u == GeminiParts(t)
             m == GeminiModel(t, more)
             p == AllParts(t.blocks)
             D == NamedPart(n)
  <2>1. R \in Seq(Int) /\ t.blocks \in Seq(BlockRec)  BY DEF TurnRec
  <2>2. n \in [Int -> Int] /\ n = [x \in Int |-> x]  BY DEF ToolNames
  <2>3. r \in Seq(D) /\ r \in Seq(PartRec) /\ Lacks(r, "call") /\ OfKind(r, {"response"}) = R
    <3> HIDE DEF n, R
    <3> QED BY <2>1, <2>2, RespsCarry
  <2>4. u = r \o q  BY <2>2 DEF GeminiParts
  <2>5. q \in Seq(PartRec) /\ Lacks(q, "response") /\ Lacks(q, "call") /\ p \in Seq(PartRec)
        /\ Lacks(p, "response")
    BY NoResults
  <2>6. q \in Seq(D) /\ p \in Seq(D)  BY <2>5, LackingNamed
  <2>7. OfKind(q, {"response"}) = << >>  BY <2>5, LacksNone
  <2>8. OfKind(p, {"call"}) = C  BY <2>1, AllPartsIs
  <2>9. m = IF more THEN SignFirst(p) ELSE p  BY DEF GeminiModel
  <2>10. GeminiTurns(more)[t] = Gather(Signs, << Content("user", u) >> \o NotEmpty("model", m))
    BY DEF GeminiTurns, GeminiAnswer
  <2> HIDE DEF r, q, u, m, p, n, R, C
  <2>11. m \in Seq(D) /\ m \in Seq(PartRec) /\ Lacks(m, "response") /\ OfKind(m, {"call"}) = C
    <3>1. SignFirst(p) \in Seq(D) /\ Lacks(SignFirst(p), "response")
          /\ OfKind(SignFirst(p), {"call"}) = OfKind(p, {"call"})
      BY <2>5, SignedReply
    <3>2. \A z \in Seq(D) : z \in Seq(PartRec)  BY NamedTypes
    <3> QED BY <2>5, <2>6, <2>8, <2>9, <3>1, <3>2
  <2>12. u \in Seq(D)
    <3> HIDE DEF D
    <3> QED BY <2>3, <2>4, <2>6
  <2>13. u \in Seq(PartRec) /\ Lacks(u, "call")  BY <2>3, <2>4, <2>5, LacksJoined
  <2>14. OfKind(u, {"response"}) = R
    <3> DEFINE g == Ids(PartRec, {"response"})
    <3>1. Maker(g, PartRec, Int)  BY KindsMake
    <3>2. OfKind(u, {"response"}) = Gather(g, u) /\ OfKind(r, {"response"}) = Gather(g, r)
          /\ OfKind(q, {"response"}) = Gather(g, q)
      BY <2>3, <2>5, <2>13, OfKindIs
    <3> HIDE DEF g
    <3>3. Gather(g, r \o q) = Gather(g, r) \o Gather(g, q)  BY <2>3, <2>5, <3>1, GatherConcat, SMTT(30)
    <3>4. R \o << >> = R  BY <2>1
    <3> QED BY <2>3, <2>4, <2>7, <3>2, <3>3, <3>4
  <2> DEFINE v == SignFirst(u)
             w == SignFirst(m)
  <2>15. v \in Seq(D) /\ Lacks(v, "call") /\ OfKind(v, {"response"}) = R
    <3>1. v \in Seq(D) /\ Lacks(v, "call")  BY <2>12, <2>13, SignedNamed
    <3>2. OfKind(v, {"response"}) = OfKind(u, {"response"})  BY <2>13, SignFirstIds
    <3> QED BY <2>14, <3>1, <3>2
  <2>16. w \in Seq(D) /\ Lacks(w, "response") /\ OfKind(w, {"call"}) = C
    <3>1. w \in Seq(D) /\ Lacks(w, "response")  BY <2>11, SignedNamed
    <3>2. OfKind(w, {"call"}) = OfKind(m, {"call"})  BY <2>11, SignFirstIds
    <3> QED BY <2>11, <3>1, <3>2
  <2> DEFINE x == << Content("user", u) >>
             y == NotEmpty("model", m)
             c == Content("user", v)
             s == << c >>
             z == NotEmpty("model", w)
  <2>17. Gather(Signs, x) = s /\ Gather(Signs, y) = z  BY <2>11, <2>13, SignsOf
  <2>18. x \in Seq(ContentRec) /\ y \in Seq(ContentRec)
    <3> DEFINE b == Content("user", u)
    <3>1. b \in ContentRec  BY <2>12, NamedTypes
    <3>2. y \in Seq(ContentRec)  BY <2>11, NotEmptyTyped
    <3> HIDE DEF b
    <3> QED BY <3>1, <3>2 DEF b
  <2>19. c \in Named(n) /\ c.role = "user" /\ c.parts = v  BY <2>15, NamedTypes DEF Content
  <2>20. PartIds("call")[c] = << >> /\ Gather(PartIds("response"), s) = R
    <3>1. v \in Seq(PartRec)  BY <2>15, NamedTypes
    <3>2. OfKind(v, {"call"}) = << >>  BY <2>15, <3>1, LacksNone
    <3> QED BY <2>15, <3>1, <3>2, PartIdsIn
  <2> HIDE DEF x, y, c, v, w, D
  <2>21. Gather(Signs, x \o y) = s \o z
    <3> HIDE DEF s, z
    <3>1. Gather(Signs, x \o y) = Gather(Signs, x) \o Gather(Signs, y)
      BY <2>18, SignsMake, GatherConcat
    <3> QED BY <2>17, <3>1
  <2>22. s \in Seq(Named(n)) /\ s[1] = c /\ \A i \in DOMAIN s : s[i] = c  BY <2>19
  <2>23. \A i \in DOMAIN s : PartIds("call")[s[i]] = << >>  BY <2>20, <2>22
  <2>24. Opening("gemini", R, s)
    <3>1. OfKind(c.parts, {"response"}) = R  BY <2>15, <2>19
    <3>2. Answering("gemini", R, s[1])  BY <2>19, <2>22, <3>1 DEF Answering
    <3> QED BY <3>2 DEF Opening
  <2>25. Replies("gemini", n, R, OfKind(w, {"call"}), s \o NotEmpty("model", w))
    <3> HIDE DEF s
    <3>1. w \in Seq(NamedPart(n))  BY <2>16 DEF D
    <3> QED BY <2>16, <2>20, <2>22, <2>23, <2>24, <3>1, RepliesAnswer
  <2>26. GeminiTurns(more)[t] = s \o NotEmpty("model", w)  BY <2>10, <2>21 DEF x, y, z
  <2> QED BY <2>16, <2>25, <2>26 DEF R, C
<1>2. \A t \in TurnRec : Resulted("gemini")[t] = t.results
                         /\ Called("gemini")[t] = KeptIn(t.blocks, "call")
  BY DEF Resulted, Called
<1> QED BY <1>1, <1>2 DEF AllReply

-----------------------------------------------------------------------------
(* Responses turns reply. *)

\* What is made of each element, one by one.
LEMMA MapOnto ==
  ASSUME NEW I, NEW D, NEW q \in Seq(I), NEW f, NEW g, Maker(g, I, D),
         \A x \in I : f[x] \in D /\ g[x] = << f[x] >>
  PROVE  Gather(g, q) = Each(f, q)
<1>1. Gather(g, q) = [i \in DOMAIN q |-> f[q[i]]]  BY GatherMap
<1> QED BY <1>1 DEF Each

\* A sequence is gathered from its own elements.
LEMMA GatherSelf ==
  ASSUME NEW I, NEW q \in Seq(I), NEW g, \A x \in I : g[x] = << x >>
  PROVE  Gather(g, q) = q
<1> DEFINE h == [x \in I |-> << x >>]
           f == [x \in I |-> x]
<1>1. Maker(h, I, I)
  <2>1. \A x \in I : << x >> \in Seq(I)  OBVIOUS
  <2> QED BY <2>1 DEF Maker
<1>2. \A x \in I : f[x] \in I /\ h[x] = << f[x] >>  OBVIOUS
<1>3. \A i \in DOMAIN q : q[i] \in I  OBVIOUS
<1>4. \A i \in DOMAIN q : g[q[i]] = h[q[i]] /\ f[q[i]] = q[i]  BY <1>3
<1> HIDE DEF h, f
<1>5. Gather(g, q) = Gather(h, q)  BY <1>4, GatherSame
<1>6. Gather(h, q) = Each(f, q)  BY <1>1, <1>2, MapOnto
<1>7. q = [i \in DOMAIN q |-> q[i]]  OBVIOUS
<1>8. Each(f, q) = [i \in DOMAIN q |-> q[i]]  BY <1>4 DEF Each
<1> QED BY <1>5, <1>6, <1>7, <1>8

\* One content of each value of a sequence is as many contents.
LEMMA ResultsReply ==
  ASSUME NEW results \in Seq(Int), NEW n \in [Int -> Int]
  PROVE  LET s == ResultItems(results, n) IN
         /\ s \in Seq(Named(n)) /\ Gather(PartIds("response"), s) = results
         /\ Gather(PartIds("call"), s) = << >>
<1> DEFINE P(x) == << Response(x, n[x]) >>
           f == [x \in Int |-> Content("user", P(x))]
           g == [x \in Int |-> << f[x] >>]
           id == [x \in Int |-> x]
           e == [x \in Int |-> << id[x] >>]
           D == Named(n)
           s == ResultItems(results, n)
           a == PartIds("response")
           b == PartIds("call")
<1>1. ASSUME NEW x \in Int
      PROVE  /\ f[x] \in D /\ f[x] \in ContentRec
             /\ a[f[x]] = << x >> /\ b[f[x]] = << >>
  <2> DEFINE y == Response(x, n[x])
             p == P(x)
  <2>1. y \in PartRec /\ y.kind = "response" /\ y.id = x /\ y.name = n[x]  BY DEF Response, PartRec
  <2>2. y \in NamedPart(n)  BY <2>1 DEF NamedPart
  <2>3. f[x] = Content("user", p) /\ p = << y >>  OBVIOUS
  <2> HIDE DEF y, p, f, a, b, D
  <2>4. p \in Seq(NamedPart(n)) /\ p \in Seq(PartRec) /\ DOMAIN p = {1} /\ p[1] = y
    <3>1. << y >> \in Seq(NamedPart(n)) /\ << y >> \in Seq(PartRec) /\ DOMAIN << y >> = {1}
      BY <2>1, <2>2
    <3> QED BY <2>3, <3>1
  <2>5. f[x] \in Named(n) /\ f[x] \in ContentRec  BY <2>3, <2>4, NamedTypes
  <2>6. OfKind(p, {"response"}) = [i \in DOMAIN p |-> p[i].id]  BY <2>1, <2>4, AllOfKind
  <2>7. [i \in DOMAIN p |-> p[i].id] = << x >>  BY <2>1, <2>4
  <2>8. Lacks(p, "call")  BY <2>1, <2>4 DEF Lacks
  <2>9. OfKind(p, {"call"}) = << >>  BY <2>4, <2>8, LacksNone
  <2>10. /\ PartIds("response")[f[x]] = OfKind(p, {"response"})
         /\ PartIds("call")[f[x]] = OfKind(p, {"call"})
    BY <2>3, <2>4, PartIdsIn
  <2> QED BY <2>5, <2>6, <2>7, <2>9, <2>10 DEF D, a, b
<1>2. \A i \in DOMAIN results : results[i] \in Int  OBVIOUS
<1>3. s = Each(f, results) /\ DOMAIN s = DOMAIN results
      /\ \A i \in DOMAIN s : s[i] = f[results[i]]
  BY <1>2 DEF ResultItems, Each
<1>4. Maker(a, ContentRec, Int) /\ Maker(b, ContentRec, Int)  BY PartIdsMake
<1>5. f = [x \in Int |-> f[x]] /\ g = [x \in Int |-> << f[x] >>] /\ \A x \in Int : id[x] = x  OBVIOUS
<1>6. Maker(e, Int, Int) /\ (\A x \in Int : id[x] \in Int /\ e[x] = << id[x] >>)
  <2>1. \A x \in Int : << id[x] >> \in Seq(Int)  OBVIOUS
  <2> QED BY <2>1 DEF Maker
<1> HIDE DEF f, D, a, b, id
<1>7. Maker(g, Int, D) /\ Maker(g, Int, ContentRec) /\ \A x \in Int : g[x] = << f[x] >>
  <2>1. \A x \in Int : << f[x] >> \in Seq(D) /\ << f[x] >> \in Seq(ContentRec)  BY <1>1
  <2> QED BY <2>1 DEF Maker
<1>7a. \A x \in Int : e[x] = << x >>  BY <1>5
<1> HIDE DEF g, e, s, P
<1>8. Gather(g, results) = Each(f, results)
  <2> DEFINE I == Int
  <2>1. \A x \in I : f[x] \in D /\ g[x] = << f[x] >>  BY <1>1, <1>7
  <2>2. Maker(g, I, D) /\ results \in Seq(I)  BY <1>7
  <2> HIDE DEF I
  <2> QED BY <2>1, <2>2, MapOnto
<1>9. Gather(e, results) = results  BY <1>7a, GatherSelf
<1>11. s \in Seq(D)
  <2>1. Gather(g, results) \in Seq(D)  BY <1>7, EachTyped
  <2> QED BY <1>3, <1>8, <2>1
<1>12. Gather(a, s) = results
  <2>1. \A x \in Int : e[x] = Gather(a, g[x])
    <3>1. ASSUME NEW x \in Int PROVE e[x] = Gather(a, g[x])
      <4>1. Gather(a, << f[x] >>) = a[f[x]]  BY <1>1, <1>4, GatherOne
      <4> QED BY <4>1, <1>1, <1>7, <1>7a
    <3> QED BY <3>1
  <2>2. Maker(g, Int, ContentRec) /\ Maker(e, Int, Int) /\ Maker(a, ContentRec, Int)  BY <1>4, <1>6, <1>7
  <2>3. Gather(a, Gather(g, results)) = Gather(e, results)  BY <2>1, <2>2, GatherGather
  <2> QED BY <2>3, <1>3, <1>8, <1>9
<1>13. Gather(b, s) = << >>
  <2>0. \A x \in Int : b[f[x]] = << >>  BY <1>1
  <2>1. ASSUME NEW i \in DOMAIN s PROVE b[s[i]] = << >>
    <3>1. results[i] \in Int /\ s[i] = f[results[i]]  BY <1>2, <1>3, Zenon
    <3> QED BY <2>0, <3>1, Zenon
  <2> QED BY <2>1, <1>11, GatherNothing
<1> QED BY <1>11, <1>12, <1>13 DEF s, D, a, b

\* The item of a block has no results, and the calls of the block.
LEMMA ItemReplies ==
  ASSUME NEW b \in BlockRec, NEW more \in BOOLEAN, NEW n
  PROVE  /\ Items(more)[b] \in Seq(Named(n))
         /\ Gather(PartIds("response"), Items(more)[b]) = << >>
         /\ Gather(PartIds("call"), Items(more)[b]) = BlockIds("call")[b]
<1> DEFINE p == PartsOf(b)
           s == SignFirst(p)
           u == Content("model", p)
           w == Content("model", s)
           D == Named(n)
           it == Items(more)[b]
           e == BlockIds("call")[b]
<1>1. p \in Seq(PlainPart) /\ p \in Seq(PartRec)  BY ItemTyped
<1>2. Lacks(p, "response") /\ (b.kind # "call" => Lacks(p, "call"))
  <2>1. b.kind # "response"  BY DEF BlockRec, EvKind
  <2> QED BY <2>1 DEF Lacks, PartsOf, Part
<1>3. OfKind(p, {"call"}) = e
  <2>1. OfKind(p, {"call"}) = Gather(Ids(PlainPart, {"call"}), p)  BY <1>1, OfKindIs
  <2>2. e = IF b.kind = "call" THEN b.parts ELSE << >>  BY DEF BlockIds
  <2> QED BY <2>1, <2>2, PartsOfIds
<1>4. it = ResponsesItem(b, more)  BY DEF Items
<1>5. \/ it = << w >> /\ b.kind = "call"
      \/ it = << u >> /\ b.kind # "call"
      \/ it = << >> /\ b.kind # "call"
  <2>1. "text" # "call"  OBVIOUS
  <2> QED BY <1>4, <2>1, Zenon DEF ResponsesItem, u, w, p, s
<1>6. b.kind # "call" => e = << >>  BY DEF BlockIds
<1> HIDE DEF p
<1>7. s \in Seq(NamedPart(n)) /\ p \in Seq(NamedPart(n)) /\ Lacks(s, "response")
      /\ OfKind(s, {"call"}) = e /\ s \in Seq(PartRec)
  <2>1. s \in Seq(NamedPart(n)) /\ Lacks(s, "response") /\ p \in Seq(NamedPart(n))
    BY <1>1, <1>2, LackingNamed
  <2>2. OfKind(s, {"call"}) = OfKind(p, {"call"})  BY <1>1, SignFirstIds
  <2>3. s \in Seq(PartRec)  BY <1>1, SignFirstKeeps
  <2> QED BY <1>3, <2>1, <2>2, <2>3
<1> HIDE DEF s
<1>8. u \in D /\ w \in D  BY <1>7, NamedTypes
<1>9. /\ Gather(PartIds("response"), << w >>) = << >> /\ Gather(PartIds("call"), << w >>) = e
      /\ Gather(PartIds("response"), << u >>) = << >> /\ Gather(PartIds("call"), << u >>) = e
  <2>1. OfKind(s, {"response"}) = << >> /\ OfKind(p, {"response"}) = << >>
    BY <1>1, <1>2, <1>7, LacksNone
  <2> QED BY <2>1, <1>1, <1>3, <1>7, PartIdsIn
<1> HIDE DEF u, w, D, it, e
<1>10. << u >> \in Seq(D) /\ << w >> \in Seq(D) /\ << >> \in Seq(D)  BY <1>8
<1>11. it \in Seq(D)  BY <1>5, <1>10
<1>12. Gather(PartIds("response"), it) = << >>  BY <1>5, <1>9, GatherNone
<1>13. Gather(PartIds("call"), it) = e  BY <1>5, <1>6, <1>9, GatherNone
<1> QED BY <1>11, <1>12, <1>13 DEF D, it, e

\* The items of a Responses client's turn reply.
LEMMA ItemsReply ==
  ASSUME NEW more \in BOOLEAN, NEW h
  PROVE  AllReply("responses", NamesOf(h), ResponsesSent(h, more))
<1> DEFINE n == NamesOf(h)
           r == PartIds("response")
           k == PartIds("call")
           g == Items(more)
           D == Named(n)
<1>1. n \in [Int -> Int]  BY DEF NamesOf, ToolName, Unknown
<1>2. Maker(r, ContentRec, Int) /\ Maker(k, ContentRec, Int)  BY PartIdsMake
<1>3. Maker(g, BlockRec, D) /\ Maker(g, BlockRec, ContentRec)
      /\ \A b \in BlockRec : Gather(r, g[b]) = << >> /\ Gather(k, g[b]) = BlockIds("call")[b]
  <2>1. \A b \in BlockRec : g[b] \in Seq(D) /\ Gather(r, g[b]) = << >>
                            /\ Gather(k, g[b]) = BlockIds("call")[b]
    BY ItemReplies
  <2>2. \A s \in Seq(D) : s \in Seq(ContentRec)  BY NamedTypes
  <2>3. g = [b \in BlockRec |-> g[b]]  BY DEF Items
  <2> HIDE DEF g, D, r, k
  <2>4. \A b \in BlockRec : g[b] \in Seq(D) /\ g[b] \in Seq(ContentRec)  BY <2>1, <2>2
  <2> QED BY <2>1, <2>3, <2>4 DEF Maker
<1>4. ASSUME NEW t \in TurnRec
      PROVE  Replies("responses", n, t.results, KeptIn(t.blocks, "call"), ResponsesSent(h, more)[t])
  <2> DEFINE R == t.results
             C == KeptIn(t.blocks, "call")
             q == t.blocks
             a == ResultItems(R, n)
             b == AskItems(t)
             c == Gather(g, q)
             e == BlockIds("call")
             nil == << >>
             o == [x \in BlockRec |-> nil]
  <2>1. R \in Seq(Int) /\ q \in Seq(BlockRec)  BY DEF TurnRec
  <2>2. a \in Seq(D) /\ Gather(r, a) = R /\ Gather(k, a) = << >>
    <3> HIDE DEF n, R
    <3> QED BY <1>1, <2>1, ResultsReply
  <2>3. b \in Seq(D) /\ Gather(r, b) = << >> /\ Gather(k, b) = << >>
    <3> DEFINE w == Asking(t)
    <3>1. w \in Seq(PartRec) /\ Lacks(w, "response") /\ Lacks(w, "call")  BY NoResults
    <3>2. b = NotEmpty("user", w)
      <4>1. << Question >> # << >>  OBVIOUS
      <4> QED BY <4>1, Zenon DEF AskItems, NotEmpty, Asking
    <3> HIDE DEF w, b
    <3>3. w \in Seq(NamedPart(n))  BY <3>1, LackingNamed
    <3>4. NotEmpty("user", w) \in Seq(Named(n))  BY <3>3, NamedTypes
    <3>5. OfKind(w, {"response"}) = << >> /\ OfKind(w, {"call"}) = << >>  BY <3>1, LacksNone
    <3> QED BY <3>1, <3>2, <3>4, <3>5, PartIdsIn
  <2>4. c \in Seq(D)
    <3> HIDE DEF g, D, q
    <3> QED BY <1>3, <2>1, EachTyped
  <2>5. \A s \in Seq(D) : s \in Seq(ContentRec)  BY NamedTypes
  <2>6. Maker(e, BlockRec, Int) /\ Gather(e, q) = C  BY BlockMakers DEF KeptIn
  <2>7. Maker(o, BlockRec, Int) /\ (\A x \in BlockRec : o[x] = nil)
    <3>1. nil \in Seq(Int)  OBVIOUS
    <3> QED BY <3>1 DEF Maker
  <2>8. C \in Seq(Int)  BY <2>1, BlockMakers, EachTyped DEF KeptIn
  <2>9. ResponsesSent(h, more)[t] = (a \o b) \o c  BY DEF ResponsesSent, ResponsesAnswer
  <2>10. \A x \in BlockRec : e[x] = Gather(k, g[x]) /\ o[x] = Gather(r, g[x])  BY <1>3, <2>7
  <2> HIDE DEF a, b, c, e, o, g, D, r, k, q, C, R, nil, n
  <2>11. Gather(k, c) = C
    <3>1. Maker(g, BlockRec, ContentRec) /\ Maker(k, ContentRec, Int) /\ Maker(e, BlockRec, Int)
      BY <1>2, <1>3, <2>6
    <3>2. Gather(k, Gather(g, q)) = Gather(e, q)  BY <2>1, <2>10, <3>1, GatherGather
    <3> QED BY <2>6, <3>2 DEF c
  <2>12. Gather(r, c) = << >>
    <3>1. Maker(g, BlockRec, ContentRec) /\ Maker(r, ContentRec, Int) /\ Maker(o, BlockRec, Int)
      BY <1>2, <1>3, <2>7
    <3>2. Gather(r, Gather(g, q)) = Gather(o, q)  BY <2>1, <2>10, <3>1, GatherGather
    <3>3. \A i \in DOMAIN q : o[q[i]] = << >>  BY <2>1, <2>7 DEF nil
    <3>4. Gather(o, q) = << >>  BY <2>1, <3>3, GatherNothing
    <3> QED BY <3>2, <3>4 DEF c
  <2> DEFINE d == a \o b
             s == d \o c
  <2>13. a \in Seq(ContentRec) /\ b \in Seq(ContentRec) /\ c \in Seq(ContentRec)  BY <2>2, <2>3, <2>4, <2>5
  <2>14. d \in Seq(D) /\ d \in Seq(ContentRec)  BY <2>2, <2>3, <2>5
  <2>15. Gather(r, d) = Gather(r, a) \o Gather(r, b) /\ Gather(k, d) = Gather(k, a) \o Gather(k, b)
    <3>1. Maker(r, ContentRec, Int)  BY <1>2
    <3>2. Maker(k, ContentRec, Int)  BY <1>2
    <3>3. Gather(r, a \o b) = Gather(r, a) \o Gather(r, b)  BY <2>13, <3>1, GatherConcat
    <3>4. Gather(k, a \o b) = Gather(k, a) \o Gather(k, b)  BY <2>13, <3>2, GatherConcat
    <3> QED BY <3>3, <3>4
  <2> HIDE DEF d
  <2>16. Gather(r, d) = R /\ Gather(k, d) = << >>
    <3>1. R \o << >> = R /\ << >> \o << >> = << >>  BY <2>1
    <3> QED BY <2>2, <2>3, <2>15, <3>1
  <2>17. s \in Seq(D)  BY <2>4, <2>14
  <2>18. Gather(r, d \o c) = Gather(r, d) \o Gather(r, c) /\ Gather(k, d \o c) = Gather(k, d) \o Gather(k, c)
    <3>1. Maker(r, ContentRec, Int)  BY <1>2
    <3>2. Maker(k, ContentRec, Int)  BY <1>2
    <3>3. Gather(r, d \o c) = Gather(r, d) \o Gather(r, c)  BY <2>13, <2>14, <3>1, GatherConcat
    <3>4. Gather(k, d \o c) = Gather(k, d) \o Gather(k, c)  BY <2>13, <2>14, <3>2, GatherConcat
    <3> QED BY <3>3, <3>4
  <2>19. Gather(r, s) = R /\ Gather(k, s) = C
    <3>1. R \o << >> = R /\ << >> \o C = C  BY <2>1, <2>8
    <3> QED BY <2>11, <2>12, <2>16, <2>18, <3>1
  <2> HIDE DEF s
  <2>20. Replies("responses", n, R, C, s)  BY <2>17, <2>19, Zenon DEF Replies, D, r, k
  <2> QED BY <2>9, <2>20 DEF s, d, R, C, n
<1>5. \A t \in TurnRec : Resulted("responses")[t] = t.results
                         /\ Called("responses")[t] = KeptIn(t.blocks, "call")
  BY DEF Resulted, Called
<1> QED BY <1>4, <1>5 DEF AllReply

-----------------------------------------------------------------------------
(* The calls and results of a history. *)

\* By what names the results are known.
NamesFor(f, h, more) ==
  CASE f \in {"openai", "shim"} -> ToolNames(more)
    [] f \in {"claude", "responses"} -> NamesOf(h)
    [] OTHER -> ToolNames(TRUE)

\* In every format each turn, translated by itself, replies to the one before.
LEMMA ContentsReply ==
  ASSUME NEW f \in Formats, NEW more \in BOOLEAN, NEW h \in Seq(TurnRec), Linked(h)
  PROVE  \E g : /\ Maker(g, TurnRec, ContentRec) /\ Contents(f, h, more) = Gather(g, h)
                /\ AllReply(f, NamesFor(f, h, more), g)
<1>1. CASE f = "openai"
  <2> DEFINE g == OpenAITurns(more)
  <2>1. Maker(g, TurnRec, ContentRec) /\ Contents("openai", h, more) = Gather(g, h)
    BY OpenAIContentsIs
  <2>2. AllReply("openai", ToolNames(more), g)  BY MessagesReply
  <2>3. NamesFor(f, h, more) = ToolNames(more)  BY <1>1 DEF NamesFor
  <2> HIDE DEF g
  <2> QED BY <1>1, <2>1, <2>2, <2>3
<1>2. CASE f = "shim"
  <2> DEFINE g == ShimTurns
  <2>1. Maker(g, TurnRec, ContentRec) /\ Contents("shim", h, more) = Gather(g, h)
    BY ShimContentsIs
  <2>2. AllReply("shim", ToolNames(more), g)  BY MessagesReply
  <2>3. NamesFor(f, h, more) = ToolNames(more)  BY <1>2 DEF NamesFor
  <2> HIDE DEF g
  <2> QED BY <1>2, <2>1, <2>2, <2>3
<1>3. CASE f = "claude"
  <2> DEFINE g == ClaudeSent(h)
  <2>1. Maker(g, TurnRec, ContentRec) /\ Contents("claude", h, more) = Gather(g, h)
    BY ClaudeContentsIs
  <2>2. AllReply("claude", NamesOf(h), g)  BY MessagesReply
  <2>3. NamesFor(f, h, more) = NamesOf(h)  BY <1>3 DEF NamesFor
  <2> HIDE DEF g
  <2> QED BY <1>3, <2>1, <2>2, <2>3
<1>4. CASE f = "responses"
  <2> DEFINE g == ResponsesSent(h, more)
  <2>1. Maker(g, TurnRec, ContentRec) /\ Contents("responses", h, more) = Gather(g, h)
    BY ResponsesContentsIs
  <2>2. AllReply("responses", NamesOf(h), g)  BY ItemsReply
  <2>3. NamesFor(f, h, more) = NamesOf(h)  BY <1>4 DEF NamesFor
  <2> HIDE DEF g
  <2> QED BY <1>4, <2>1, <2>2, <2>3
<1>5. CASE f = "gemini"
  <2> DEFINE g == GeminiTurns(more)
  <2>1. Maker(g, TurnRec, ContentRec) /\ Contents("gemini", h, more) = Gather(g, h)
    BY GeminiContentsIs
  <2>2. AllReply("gemini", ToolNames(TRUE), g)  BY GeminiReply
  <2>3. NamesFor(f, h, more) = ToolNames(TRUE)  BY <1>5 DEF NamesFor
  <2> HIDE DEF g
  <2> QED BY <1>5, <2>1, <2>2, <2>3
<1> QED BY <1>1, <1>2, <1>3, <1>4, <1>5 DEF Formats

\* The turns of a linked history but the last are linked, and the last answers them.
LEMMA LinkedParts ==
  ASSUME NEW h \in Seq(TurnRec), NEW t \in TurnRec, Linked(Append(h, t))
  PROVE  /\ Linked(h)
         /\ t.results = IF h = << >> THEN << >> ELSE KeptIn(h[Len(h)].blocks, "call")
<1> DEFINE a == Append(h, t)
           n == Len(h)
<1>1. /\ n \in Nat /\ DOMAIN h = 1 .. n /\ DOMAIN a = 1 .. n + 1 /\ a[n + 1] = t
      /\ \A i \in 1 .. n : a[i] = h[i]
  OBVIOUS
<1>2. \A i \in DOMAIN a : a[i].results = IF i = 1 THEN << >> ELSE KeptIn(a[i - 1].blocks, "call")
  BY DEF Linked
<1>3. h = << >> <=> n = 0  OBVIOUS
<1> HIDE DEF a, n
<1>4. ASSUME NEW i \in DOMAIN h
      PROVE  h[i].results = IF i = 1 THEN << >> ELSE KeptIn(h[i - 1].blocks, "call")
  <2>1. i \in 1 .. n /\ i \in DOMAIN a /\ (i # 1 => i - 1 \in 1 .. n)  BY <1>1
  <2>2. a[i] = h[i] /\ (i # 1 => a[i - 1] = h[i - 1])  BY <1>1, <2>1
  <2> QED BY <1>2, <2>1, <2>2
<1>5. t.results = IF h = << >> THEN << >> ELSE KeptIn(h[n].blocks, "call")
  <2>1. n + 1 \in DOMAIN a /\ (n + 1 = 1 <=> n = 0) /\ (n + 1) - 1 = n  BY <1>1
  <2>2. a[n + 1].results = IF n + 1 = 1 THEN << >> ELSE KeptIn(a[(n + 1) - 1].blocks, "call")
    BY <1>2, <2>1
  <2>3. n # 0 => a[n] = h[n]
    <3>1. n # 0 => n \in 1 .. n  BY <1>1
    <3> QED BY <3>1, <1>1
  <2> QED BY <1>1, <1>3, <2>1, <2>2, <2>3
<1> QED BY <1>4, <1>5 DEF Linked, n

\* A turn has the results of the calls that the turn before sends.
LEMMA CalledThen ==
  ASSUME NEW f, NEW h \in Seq(TurnRec), NEW t \in TurnRec, Linked(Append(h, t))
  PROVE  /\ Maker(Called(f), TurnRec, Int) /\ Maker(Resulted(f), TurnRec, Int)
         /\ Linked(h)
         /\ Resulted(f)[t] = IF h = << >> THEN << >> ELSE Called(f)[h[Len(h)]]
<1>1. Maker(Called(f), TurnRec, Int)
  <2>1. \A x \in TurnRec : KeptIn(x.blocks, "call") \in Seq(Int)
    <3>1. \A x \in TurnRec : x.blocks \in Seq(BlockRec)  BY DEF TurnRec
    <3> QED BY <3>1, BlockMakers, EachTyped DEF KeptIn
  <2>2. << >> \in Seq(Int)  OBVIOUS
  <2> QED BY <2>1, <2>2 DEF Maker, Called
<1>2. Maker(Resulted(f), TurnRec, Int)
  <2>1. \A x \in TurnRec : x.results \in Seq(Int)  BY DEF TurnRec
  <2>2. << >> \in Seq(Int)  OBVIOUS
  <2> QED BY <2>1, <2>2 DEF Maker, Resulted
<1>3. Linked(h) /\ t.results = IF h = << >> THEN << >> ELSE KeptIn(h[Len(h)].blocks, "call")
  BY LinkedParts
<1>4. h # << >> => h[Len(h)] \in TurnRec
  <2>1. h # << >> => Len(h) \in DOMAIN h  OBVIOUS
  <2> QED BY <2>1
<1> DEFINE x == h[Len(h)]
           r == Resulted(f)[t]
           c == Called(f)[x]
           k == KeptIn(x.blocks, "call")
<1>5. r = IF f = "shim" THEN << >> ELSE t.results  BY DEF Resulted
<1>6. h # << >> => c = IF f = "shim" THEN << >> ELSE k  BY <1>4 DEF Called
<1>7. t.results = IF h = << >> THEN << >> ELSE k  BY <1>3
<1> HIDE DEF x, r, c, k
<1>8. r = IF h = << >> THEN << >> ELSE c  BY <1>5, <1>6, <1>7
<1> QED BY <1>1, <1>2, <1>3, <1>8 DEF r, c, x

\* The calls sent in a history are its results and those of its last turn.
LEMMA TotalsMatch ==
  ASSUME NEW f, NEW h \in Seq(TurnRec), Linked(h), h # << >>, h[Len(h)].blocks = << >>
  PROVE  Gather(Called(f), h) = Gather(Resulted(f), h)
<1> DEFINE c == Called(f)
           r == Resulted(f)
           P(s) == Linked(s) /\ s # << >> => Gather(c, s) = Gather(r, s) \o c[s[Len(s)]]
           J == { s \in Seq(TurnRec) : P(s) }
<1>1. << >> \in J
  <2> DEFINE e == << >>
  <2>1. e \in Seq(TurnRec)  OBVIOUS
  <2>2. P(e)  OBVIOUS
  <2> HIDE DEF P, e
  <2>3. e \in J  BY <2>1, <2>2
  <2> QED BY <2>3 DEF e
<1>2. ASSUME NEW s \in Seq(TurnRec), NEW x \in TurnRec, s \in J PROVE Append(s, x) \in J
  <2> DEFINE a == Append(s, x)
             l == s[Len(s)]
  <2>1. a \in Seq(TurnRec) /\ a # << >> /\ a[Len(a)] = x  OBVIOUS
  <2>2. ASSUME Linked(a) PROVE Gather(c, a) = Gather(r, a) \o c[x]
    <3>1. /\ Maker(c, TurnRec, Int) /\ Maker(r, TurnRec, Int) /\ Linked(s)
          /\ r[x] = IF s = << >> THEN << >> ELSE c[l]
      BY <2>2, CalledThen
    <3>2. s # << >> => Gather(c, s) = Gather(r, s) \o c[l]  BY <1>2, <3>1
    <3> HIDE DEF c, r, l
    <3>4. Gather(c, a) = Gather(c, s) \o c[x]
      <4>1. Maker(c, TurnRec, Int)  BY <3>1
      <4> QED BY <4>1, GatherAppend
    <3>5. Gather(r, a) = Gather(r, s) \o r[x]
      <4>1. Maker(r, TurnRec, Int)  BY <3>1
      <4> QED BY <4>1, GatherAppend
    <3>6. CASE s = << >>
      <4> DEFINE z == c[x]
      <4>1. z \in Seq(Int)  BY <3>1 DEF Maker
      <4>2. Gather(c, s) = << >> /\ Gather(r, s) = << >>  BY <3>6, GatherNone
      <4>3. r[x] = << >>  BY <3>1, <3>6
      <4> HIDE DEF z, a
      <4>4. << >> \o z = z /\ << >> \o << >> = << >>  BY <4>1
      <4>5. Gather(r, a) = << >>  BY <3>5, <4>2, <4>3, <4>4
      <4>6. Gather(c, a) = << >> \o z  BY <3>4, <4>2 DEF z
      <4> QED BY <4>5, <4>6 DEF z
    <3>7. CASE s # << >>
      <4> HIDE DEF a
      <4>1. r[x] = c[l]  BY <3>1, <3>7
      <4>2. Gather(r, a) = Gather(c, s)  BY <3>2, <3>5, <3>7, <4>1
      <4> QED BY <3>4, <4>2
    <3> QED BY <3>6, <3>7
  <2>3. P(a)  BY <2>1, <2>2
  <2> HIDE DEF P, a
  <2>4. a \in J  BY <2>1, <2>3
  <2> QED BY <2>4 DEF a
<1>3. h \in J
  <2> HIDE DEF J
  <2> QED BY <1>1, <1>2, SeqInduction
<1>4. Gather(c, h) = Gather(r, h) \o c[h[Len(h)]]  BY <1>3
<1> DEFINE x == h[Len(h)]
           z == Gather(r, h)
<1>5. x \in TurnRec
  <2>1. Len(h) \in DOMAIN h  OBVIOUS
  <2> QED BY <2>1
<1>6. c[x] = << >>
  <2>1. x.blocks = << >>  OBVIOUS
  <2> HIDE DEF x
  <2> QED BY <1>5, <2>1, NoBlocks DEF Called
<1>7. z \in Seq(Int)
  <2>1. Maker(r, TurnRec, Int)
    <3>1. \A t \in TurnRec : t.results \in Seq(Int)  BY DEF TurnRec
    <3>2. << >> \in Seq(Int)  OBVIOUS
    <3> QED BY <3>1, <3>2 DEF Maker, Resulted
  <2> HIDE DEF r
  <2> QED BY <2>1, EachTyped
<1> HIDE DEF z
<1>8. z \o << >> = z  BY <1>7
<1> QED BY <1>4, <1>6, <1>8 DEF z, x

-----------------------------------------------------------------------------
(* Calls are answered by the next content. *)

\* Calls are answered by the next content, or are the last content's and these.
ChainedTo(f, C, s) ==
  \A i \in DOMAIN s : PartIds("call")[s[i]] # << >> =>
    \/ i < Len(s) /\ Answering(f, PartIds("call")[s[i]], s[i + 1])
    \/ i = Len(s) /\ PartIds("call")[s[i]] = C

\* Contents that answer the last calls go on the chain.
LEMMA ChainGoesOn ==
  ASSUME NEW f, NEW R, NEW C, NEW c \in Seq(ContentRec), NEW u \in Seq(ContentRec),
         ChainedTo(f, R, c), Opening(f, R, u), CallsLast(C, u)
  PROVE  ChainedTo(f, C, c \o u)
<1> DEFINE v == c \o u
           m == Len(c)
           n == Len(u)
           k == PartIds("call")
<1>1. /\ v \in Seq(ContentRec) /\ Len(v) = m + n
      /\ \A i \in 1 .. m + n : v[i] = IF i <= m THEN c[i] ELSE u[i - m]
  BY Joined
<1>2. m \in Nat /\ n \in Nat /\ DOMAIN c = 1 .. m /\ DOMAIN u = 1 .. n  OBVIOUS
<1>3. \A i \in DOMAIN c : k[c[i]] # << >> =>
        \/ i < m /\ Answering(f, k[c[i]], c[i + 1])
        \/ i = m /\ k[c[i]] = R
  BY DEF ChainedTo
<1>4. R # << >> => n >= 1 /\ Answering(f, R, u[1])
  <2>1. u # << >> => n >= 1  OBVIOUS
  <2> QED BY <2>1 DEF Opening
<1>5. \A j \in DOMAIN u : k[u[j]] # << >> => j = n /\ k[u[j]] = C  BY DEF CallsLast
<1> HIDE DEF v, m, n, k
<1>6. DOMAIN v = 1 .. m + n /\ Len(v) = m + n  BY <1>1, <1>2
<1>7. ASSUME NEW i \in DOMAIN v, k[v[i]] # << >>
      PROVE  \/ i < Len(v) /\ Answering(f, k[v[i]], v[i + 1])
             \/ i = Len(v) /\ k[v[i]] = C
  <2>1. i \in 1 .. m + n  BY <1>6
  <2>2. CASE i < m
    <3>1. i \in DOMAIN c /\ v[i] = c[i] /\ i + 1 \in 1 .. m + n /\ i + 1 <= m /\ i < m + n /\ i # m
      BY <1>1, <1>2, <2>1, <2>2
    <3>2. v[i + 1] = c[i + 1]  BY <1>1, <3>1
    <3>3. Answering(f, k[c[i]], c[i + 1])  BY <1>3, <1>7, <3>1
    <3> QED BY <1>6, <3>1, <3>2, <3>3
  <2>3. CASE i = m
    <3>1. i \in DOMAIN c /\ v[i] = c[i] /\ ~(i < m)  BY <1>1, <1>2, <2>1, <2>3
    <3>2. k[v[i]] = R /\ R # << >>  BY <1>3, <1>7, <3>1
    <3>3. n >= 1 /\ Answering(f, R, u[1])  BY <1>4, <3>2
    <3>4. i < m + n /\ v[i + 1] = u[1]
      <4>1. m + 1 \in 1 .. m + n /\ ~(m + 1 <= m) /\ (m + 1) - m = 1  BY <1>2, <3>3
      <4> QED BY <1>1, <1>2, <2>3, <3>3, <4>1
    <3> QED BY <1>6, <3>2, <3>3, <3>4
  <2>4. CASE i > m
    <3>1. i - m \in DOMAIN u /\ v[i] = u[i - m]  BY <1>1, <1>2, <2>1, <2>4
    <3>2. i - m = n /\ k[v[i]] = C  BY <1>5, <1>7, <3>1
    <3>3. i = m + n  BY <1>2, <2>1, <3>2
    <3> QED BY <1>6, <3>2, <3>3
  <2> QED BY <1>2, <2>1, <2>2, <2>3, <2>4
<1> QED BY <1>7 DEF ChainedTo, v, k

\* The calls of a history's contents are answered but for its last turn's.
LEMMA HistoryChained ==
  ASSUME NEW f, f # "responses", NEW n, NEW g, Maker(g, TurnRec, ContentRec), AllReply(f, n, g),
         NEW h \in Seq(TurnRec), Linked(h)
  PROVE  ChainedTo(f, IF h = << >> THEN << >> ELSE Called(f)[h[Len(h)]], Gather(g, h))
<1> DEFINE Tail1(s) == IF s = << >> THEN << >> ELSE Called(f)[s[Len(s)]]
           P(s) == Linked(s) => ChainedTo(f, Tail1(s), Gather(g, s))
           J == { s \in Seq(TurnRec) : P(s) }
<1>1. << >> \in J
  <2> DEFINE e == << >>
  <2>1. e \in Seq(TurnRec)  OBVIOUS
  <2>2. Gather(g, e) = << >>  BY GatherNone
  <2>3. ChainedTo(f, Tail1(e), Gather(g, e))  BY <2>2 DEF ChainedTo
  <2>4. P(e)  BY <2>3
  <2> HIDE DEF P, e
  <2>5. e \in J  BY <2>1, <2>4
  <2> QED BY <2>5 DEF e
<1>2. ASSUME NEW s \in Seq(TurnRec), NEW x \in TurnRec, s \in J PROVE Append(s, x) \in J
  <2> DEFINE a == Append(s, x)
             R == Resulted(f)[x]
             C == Called(f)[x]
             c == Gather(g, s)
             u == g[x]
  <2>1. a \in Seq(TurnRec) /\ a # << >> /\ a[Len(a)] = x  OBVIOUS
  <2>2. ASSUME Linked(a) PROVE ChainedTo(f, C, Gather(g, a))
    <3>1. Linked(s) /\ R = Tail1(s)  BY <2>2, CalledThen
    <3>2. ChainedTo(f, Tail1(s), c)  BY <1>2, <3>1
    <3> HIDE DEF Tail1
    <3>3. ChainedTo(f, R, c)  BY <3>1, <3>2
    <3>4. Opening(f, R, u) /\ CallsLast(C, u)
      <4>1. Replies(f, n, R, C, u)  BY DEF AllReply
      <4> QED BY <4>1 DEF Replies
    <3>5. c \in Seq(ContentRec) /\ u \in Seq(ContentRec) /\ Gather(g, a) = c \o u
      BY GatherAppend, EachTyped
    <3> HIDE DEF R, C, c, u, a
    <3>6. ChainedTo(f, C, c \o u)  BY <3>3, <3>4, <3>5, ChainGoesOn
    <3> QED BY <3>5, <3>6
  <2>3. Tail1(a) = C  BY <2>1
  <2> HIDE DEF Tail1, C, a
  <2>4. P(a)  BY <2>2, <2>3
  <2> HIDE DEF P
  <2>5. a \in J  BY <2>1, <2>4
  <2> QED BY <2>5 DEF a
<1>3. h \in J
  <2> HIDE DEF J
  <2> QED BY <1>1, <1>2, SeqInduction
<1> QED BY <1>3

\* What a request carries: its results are its calls, all by their names, and but
\* for Responses each content of calls is followed by its results.
LEMMA RequestReplies ==
  ASSUME NEW f \in Formats, NEW more \in BOOLEAN, NEW h \in Seq(TurnRec), Linked(h), h # << >>,
         h[Len(h)].blocks = << >>
  PROVE  LET c == Contents(f, h, more) IN
         /\ c \in Seq(Named(NamesFor(f, h, more)))
         /\ Gather(PartIds("response"), c) = Gather(Resulted(f), h)
         /\ Gather(PartIds("call"), c) = Gather(Resulted(f), h)
         /\ f # "responses" => \A i \in DOMAIN c : PartIds("call")[c[i]] # << >> =>
              i < Len(c) /\ Answering(f, PartIds("call")[c[i]], c[i + 1])
<1> DEFINE n == NamesFor(f, h, more)
           r == PartIds("response")
           k == PartIds("call")
           c == Contents(f, h, more)
           D == Named(n)
           C == Called(f)
           R == Resulted(f)
<1>1. PICK g : Maker(g, TurnRec, ContentRec) /\ c = Gather(g, h) /\ AllReply(f, n, g)
  BY ContentsReply
<1>2. Maker(r, ContentRec, Int) /\ Maker(k, ContentRec, Int)  BY PartIdsMake
<1>3. \A t \in TurnRec : g[t] \in Seq(D) /\ Gather(r, g[t]) = R[t] /\ Gather(k, g[t]) = C[t]
  BY <1>1, Zenon DEF AllReply, Replies
<1>4. Maker(C, TurnRec, Int) /\ Maker(R, TurnRec, Int)
  <2>3. \A x \in TurnRec : x.results \in Seq(Int) /\ x.blocks \in Seq(BlockRec)  BY DEF TurnRec
  <2>4. \A x \in TurnRec : KeptIn(x.blocks, "call") \in Seq(Int)
    BY <2>3, BlockMakers, EachTyped DEF KeptIn
  <2>5. << >> \in Seq(Int)  OBVIOUS
  <2>6. Maker(C, TurnRec, Int)  BY <2>4, <2>5 DEF Maker, Called
  <2>7. Maker(R, TurnRec, Int)  BY <2>3, <2>5 DEF Maker, Resulted
  <2> QED BY <2>6, <2>7
<1>5. Gather(C, h) = Gather(R, h)  BY TotalsMatch
<1>6. f # "responses" => \A i \in DOMAIN c : k[c[i]] # << >> =>
        i < Len(c) /\ Answering(f, k[c[i]], c[i + 1])
  <2>1. SUFFICES ASSUME f # "responses", NEW i \in DOMAIN c, k[c[i]] # << >>
                 PROVE  i < Len(c) /\ Answering(f, k[c[i]], c[i + 1])
    OBVIOUS
  <2> DEFINE x == h[Len(h)]
  <2>2. ChainedTo(f, C[x], c)  BY <1>1, <2>1, HistoryChained
  <2>3. x \in TurnRec
    <3>1. Len(h) \in DOMAIN h  OBVIOUS
    <3> QED BY <3>1
  <2>4. C[x] = << >>
    <3>1. x.blocks = << >>  OBVIOUS
    <3> HIDE DEF x
    <3> QED BY <2>3, <3>1, NoBlocks DEF Called
  <2> QED BY <2>1, <2>2, <2>4 DEF ChainedTo
<1> HIDE DEF n, r, k, c, D, C, R
<1>7. c \in Seq(D)
  <2>1. Maker(g, TurnRec, D)  BY <1>1, <1>3 DEF Maker
  <2>2. Gather(g, h) \in Seq(D)  BY <2>1, EachTyped
  <2> QED BY <1>1, <2>2
<1>8. Gather(r, c) = Gather(R, h)
  <2>1. \A t \in TurnRec : R[t] = Gather(r, g[t])  BY <1>3
  <2>2. Maker(g, TurnRec, ContentRec) /\ Maker(r, ContentRec, Int) /\ Maker(R, TurnRec, Int)
    BY <1>1, <1>2, <1>4
  <2>3. Gather(r, Gather(g, h)) = Gather(R, h)  BY <2>1, <2>2, GatherGather
  <2> QED BY <1>1, <2>3
<1>9. Gather(k, c) = Gather(C, h)
  <2>1. \A t \in TurnRec : C[t] = Gather(k, g[t])  BY <1>3
  <2>2. Maker(g, TurnRec, ContentRec) /\ Maker(k, ContentRec, Int) /\ Maker(C, TurnRec, Int)
    BY <1>1, <1>2, <1>4
  <2>3. Gather(k, Gather(g, h)) = Gather(C, h)  BY <2>1, <2>2, GatherGather
  <2> QED BY <1>1, <2>3
<1> QED BY <1>5, <1>6, <1>7, <1>8, <1>9 DEF n, r, k, c, D, R

-----------------------------------------------------------------------------
(* Calls in blocks of their own. *)

\* A client of these formats files each call in a block of its own.
LoneBlock == { b \in BlockRec : b.kind = "call" => Len(b.parts) <= 1 }
LoneTurn(f) ==
  { t \in TurnRec : f \in {"claude", "responses"} => t.blocks \in Seq(LoneBlock) }
AloneInv == history \in Seq(LoneTurn(format))

\* To leave out the empty blocks is to keep the others.
LEMMA NonEmptyIn ==
  ASSUME NEW D, NEW blocks \in Seq(D)
  PROVE  NonEmpty(blocks) \in Seq(D)
<1> DEFINE f == [b \in D |-> IF b.parts # << >> THEN << b >> ELSE << >>]
<1>1. Maker(f, D, D)
  <2>1. \A b \in D : (IF b.parts # << >> THEN << b >> ELSE << >>) \in Seq(D)  OBVIOUS
  <2> QED BY <2>1 DEF Maker
<1>2. NonEmpty(blocks) = Gather(f, blocks)
  <2>1. \A i \in DOMAIN blocks : blocks[i] \in D  OBVIOUS
  <2>2. [i \in DOMAIN blocks |-> IF blocks[i].parts # << >> THEN << blocks[i] >> ELSE << >>]
          = Each(f, blocks)
    BY <2>1 DEF Each
  <2> QED BY <2>2, Zenon DEF NonEmpty, Gather
<1> HIDE DEF f
<1> QED BY <1>1, <1>2, EachTyped

\* A stream that files one part under an index has one in each call block.
LEMMA IndexedAlone ==
  ASSUME NEW out \in Seq(Ev), Single(out)
  PROVE  IndexedBlocks(out) \in Seq(LoneBlock)
<1> DEFINE f == OpenedBlocks(out)
           o == Gather(f, out)
<1>1. \A i \in DOMAIN out : out[i] \in Ev  OBVIOUS
<1>2. [i \in DOMAIN out |-> IF out[i].stage = "open"
                            THEN << Block(out[i].kind, Filed(out, out[i].kind, out[i].index)) >>
                            ELSE << >>]
        = Each(f, out)
  BY <1>1 DEF Each, OpenedBlocks
<1>3. IndexedBlocks(out) = NonEmpty(o)  BY <1>2, Zenon DEF IndexedBlocks, Gather
<1>4. ASSUME NEW e \in Ev PROVE f[e] \in Seq(LoneBlock)
  <2> DEFINE c == e.kind
             x == e.index
             p == Filed(out, c, x)
             b == Block(c, p)
  <2>1. c \in EvKind /\ x \in Int  BY DEF Ev
  <2>2. f[e] = IF e.stage = "open" THEN << b >> ELSE << >>  BY DEF OpenedBlocks
  <2> HIDE DEF c, x, f
  <2>3. p \in Seq(PartNo) /\ p = FiledAt(out, c)[x]  BY <2>1, CarriedIs
  <2> HIDE DEF p
  <2>4. b \in BlockRec /\ b.kind = c /\ b.parts = p  BY <2>1, <2>3, BlockIs
  <2>5. c = "call" => Len(p) <= 1  BY <2>1, <2>3 DEF Single
  <2> HIDE DEF b
  <2>6. b \in LoneBlock  BY <2>4, <2>5 DEF LoneBlock
  <2>7. << b >> \in Seq(LoneBlock) /\ << >> \in Seq(LoneBlock)  BY <2>6
  <2> QED BY <2>2, <2>7, Zenon
<1>5. Maker(f, Ev, LoneBlock)
  <2>1. f = [e \in Ev |-> f[e]]  BY DEF OpenedBlocks
  <2> HIDE DEF f
  <2> QED BY <2>1, <1>4 DEF Maker
<1> HIDE DEF f
<1>6. o \in Seq(LoneBlock)  BY <1>5, EachTyped
<1> QED BY <1>3, <1>6, NonEmptyIn

\* So have the blocks of a whole answer.
LEMMA WholeAlone ==
  ASSUME NEW parts \in Seq(PartSet)
  PROVE  ClaudeWhole(parts) \in Seq(LoneBlock) /\ ResponsesWhole(parts) \in Seq(LoneBlock)
<1>1. ASSUME NEW c \in EvKind, NEW x \in PartNo
      PROVE  Block(c, << x >>) \in LoneBlock
  <2> DEFINE p == << x >>
             b == Block(c, p)
  <2>1. p \in Seq(PartNo) /\ Len(p) = 1  OBVIOUS
  <2> HIDE DEF p
  <2>2. b \in BlockRec /\ b.parts = p  BY <2>1, BlockIs
  <2> HIDE DEF b
  <2>3. Len(b.parts) = Len(p)  BY <2>2
  <2>4. Len(b.parts) <= 1  BY <2>1, <2>3
  <2>5. b \in LoneBlock  BY <2>2, <2>4 DEF LoneBlock
  <2> QED BY <2>5 DEF b, p
<1>2. ASSUME NEW c \in EvKind, c # "call", NEW p \in Seq(PartNo)
      PROVE  NonEmpty(<< Block(c, p) >>) \in Seq(LoneBlock)
  <2> DEFINE b == Block(c, p)
  <2>1. b \in BlockRec /\ b.kind = c  BY BlockIs
  <2> HIDE DEF b
  <2>2. << b >> \in Seq(LoneBlock)  BY <2>1, <1>2 DEF LoneBlock
  <2>3. NonEmpty(<< b >>) \in Seq(LoneBlock)  BY <2>2, NonEmptyIn
  <2> QED BY <2>3 DEF b
<1>3. ClaudeWhole(parts) \in Seq(LoneBlock)
  <2> DEFINE c(i) == Block(OpenAIKind(parts[i].kind), << parts[i].id >>)
  <2>1. ASSUME NEW i \in DOMAIN parts PROVE c(i) \in LoneBlock
    <3>1. parts[i] \in PartSet  OBVIOUS
    <3>2. parts[i].kind \in EvKind /\ parts[i].id \in PartNo
      BY <3>1 DEF PartSet, Kind, EvKind, PartNo
    <3>3. OpenAIKind(parts[i].kind) \in EvKind  BY <3>2, Words DEF OpenAIKind
    <3> QED BY <1>1, <3>2, <3>3
  <2>2. Len(parts) \in Nat /\ DOMAIN parts = 1 .. Len(parts)  OBVIOUS
  <2>3. ClaudeWhole(parts) = [i \in 1 .. Len(parts) |-> c(i)]  BY <2>2 DEF ClaudeWhole
  <2> HIDE DEF c
  <2>4. [i \in 1 .. Len(parts) |-> c(i)] \in Seq(LoneBlock)  BY <2>1, <2>2
  <2> QED BY <2>3, <2>4
<1>4. ResponsesWhole(parts) \in Seq(LoneBlock)
  <2> DEFINE I(k) == OfKind(parts, {k})
             u == NonEmpty(<< Block("thought", I("thought")) >>)
             v == NonEmpty(<< Block("text", I("text")) >>)
             e == EachAlone("call", I("call"))
  <2>0. "thought" \in EvKind /\ "text" \in EvKind /\ "call" \in EvKind  BY Words
  <2>1. \A k : I(k) \in Seq(PartNo)  BY SaidIds
  <2>2. u \in Seq(LoneBlock) /\ v \in Seq(LoneBlock)
    <3> HIDE DEF I
    <3> QED BY <1>2, <2>0, <2>1
  <2>3. e \in Seq(LoneBlock)
    <3> DEFINE s == I("call")
    <3>1. s \in Seq(PartNo)  BY <2>1
    <3>2. e = [i \in DOMAIN s |-> Block("call", << s[i] >>)]  BY DEF EachAlone
    <3> HIDE DEF s, e
    <3>3. Len(s) \in Nat /\ DOMAIN s = 1 .. Len(s) /\ \A i \in 1 .. Len(s) : s[i] \in PartNo  BY <3>1
    <3> DEFINE b(i) == Block("call", << s[i] >>)
    <3>4. \A i \in 1 .. Len(s) : b(i) \in LoneBlock  BY <1>1, <2>0, <3>3
    <3>5. e = [i \in 1 .. Len(s) |-> b(i)]  BY <3>2, <3>3
    <3> HIDE DEF b
    <3> QED BY <3>3, <3>4, <3>5
  <2>4. ResponsesWhole(parts) = (u \o e) \o v  BY DEF ResponsesWhole
  <2> HIDE DEF u, e, v
  <2> QED BY <2>2, <2>3, <2>4, ConcatThree
<1> QED BY <1>3, <1>4

\* A turn filed with such blocks.
LEMMA FileAlone ==
  ASSUME NEW f, NEW h \in Seq(LoneTurn(f)), h # << >>, NEW b \in Seq(BlockRec),
         f \in {"claude", "responses"} => b \in Seq(LoneBlock)
  PROVE  [h EXCEPT ![Len(h)].blocks = b] \in Seq(LoneTurn(f))
<1> DEFINE n == Len(h)
           t == [h[n] EXCEPT !.blocks = b]
           r == [h EXCEPT ![n].blocks = b]
<1>1. n \in Nat /\ n \in 1 .. n /\ DOMAIN h = 1 .. n /\ h[n] \in LoneTurn(f)  OBVIOUS
<1>2. t \in TurnRec /\ t.blocks = b
  <2>1. h[n] \in TurnRec  BY <1>1 DEF LoneTurn
  <2> QED BY <2>1 DEF TurnRec
<1>3. t \in LoneTurn(f)  BY <1>2 DEF LoneTurn
<1>4. DOMAIN r = 1 .. n /\ r[n] = t /\ \A i \in 1 .. n : i # n => r[i] = h[i]  BY <1>1
<1> HIDE DEF t
<1>5. \A i \in 1 .. n : r[i] \in LoneTurn(f)  BY <1>3, <1>4
<1>6. r = [i \in 1 .. n |-> r[i]]  BY <1>1
<1> HIDE DEF r
<1>7. r \in Seq(LoneTurn(f))  BY <1>1, <1>5, <1>6
<1> QED BY <1>7 DEF r

\* The blocks of a stream, and of a whole answer, in each format.
LEMMA FiledAlone ==
  ASSUME format \in Formats, NEW s, s.out \in Seq(Ev), ClaudeFiles(format, s), Files0(format, s)
  PROVE  /\ Blocks(s.out) \in Seq(BlockRec)
         /\ format \in {"claude", "responses"} => Blocks(s.out) \in Seq(LoneBlock)
<1>1. Blocks(s.out) \in Seq(BlockRec)
  <2>1. format = "responses" => OpensKinds(s.out)  BY FilesOpen
  <2>2. Blocks(s.out) \in BlocksFor(format)  BY <2>1, StreamBlocks
  <2> QED BY <2>2 DEF BlocksFor
<1>2. ASSUME format \in {"claude", "responses"} PROVE Blocks(s.out) \in Seq(LoneBlock)
  <2>1. Blocks(s.out) = IndexedBlocks(s.out)  BY <1>2 DEF Blocks
  <2>2. Single(s.out)
    BY <1>2 DEF ClaudeFiles, Files0, ClaudeFiling, ResponsesFiling, Filing
  <2> QED BY <2>1, <2>2, IndexedAlone
<1> QED BY <1>1, <1>2

-----------------------------------------------------------------------------
(* No action files two calls together. *)

\* No call is filed at the start.
LEMMA InitAlone == Init => AloneInv
BY DEF Init, AloneInv

\* A stream ends, for the shim's client also where it was interrupted.
LEMMA EndAlone ==
  ASSUME AloneInv, StreamInv, LossInv, HistoryInv, FilesInv,
         phase = "answer", format' = format, NEW s,
         s.out \in Seq(Ev), ClaudeFiles(format, s), Files0(format, s),
         history' = [history EXCEPT ![Len(history)].blocks = Blocks(s.out)]
  PROVE  AloneInv'
<1> DEFINE b == Blocks(s.out)
<1>1. format \in Formats  BY DEF StreamInv
<1>2. b \in Seq(BlockRec) /\ (format \in {"claude", "responses"} => b \in Seq(LoneBlock))
  BY <1>1, FiledAlone
<1>3. history' = [history EXCEPT ![Len(history)].blocks = b]  OBVIOUS
<1> HIDE DEF b
<1>4. history # << >>  BY DEF HistoryInv, Telling
<1>5. history \in Seq(LoneTurn(format))  BY DEF AloneInv
<1>6. [history EXCEPT ![Len(history)].blocks = b] \in Seq(LoneTurn(format))
  BY <1>2, <1>4, <1>5, FileAlone
<1>7. history' \in Seq(LoneTurn(format'))  BY <1>3, <1>6
<1> QED BY <1>7 DEF AloneInv

\* An answer comes in one piece.
LEMMA AtOnceAlone ==
  ASSUME AloneInv, StreamInv, LossInv, HistoryInv, FilesInv, AnswerAtOnce
  PROVE  AloneInv'
<1>1. /\ phase = "answer" /\ mode # "real" /\ format' = format
  BY DEF AnswerAtOnce, EndTurn
<1>2. PICK kinds \in Answers(MaxParts - used), how \in Reasons \cup {"blocked"} :
        /\ how = "blocked" => kinds = << >>
        /\ said' = NewParts(kinds)
        /\ state' = IF mode = "whole" THEN state
                    ELSE LET r == IF format = "gemini" THEN GeminiPseudo(state, Ended(said', how))
                                  ELSE Translate(<< Ended(said', how) >>)
                         IN  IF format \in {"openai", "shim"}
                             THEN Emit(r, << Event("done", "none", 0, 0) >>) ELSE r
        /\ history' = [history EXCEPT ![Len(history)].blocks =
                         IF mode = "whole" THEN Whole(said') ELSE Blocks(state'.out)]
  BY DEF AnswerAtOnce, EndTurn
<1> DEFINE p == NewParts(kinds)
           x == Ended(p, how)
           a == AtOnceOf(format, state, x)
           r == DoneOf(format, a)
<1>3. /\ format \in Formats /\ used \in Nat /\ Good(format, state) /\ Live(format, state)
      /\ ClaudeFiles(format, state) /\ Files0(format, state)
  BY <1>1 DEF StreamInv, LossInv, FilesInv
<1>4. history \in Seq(LoneTurn(format)) /\ history # << >>
  BY <1>1 DEF AloneInv, HistoryInv, Telling
<1>5. x \in FrameSet /\ ~x.torn /\ p \in Seq(PartSet)
  <2>1. MaxParts - used \in Int  BY <1>3, CanvasAssumption
  <2> QED BY <2>1, <1>2, <1>3, EndedIs
<1>6. state' = IF mode = "whole" THEN state ELSE r
  BY <1>2 DEF AtOnceOf, Translate, TranslateOf, DoneOf
<1>7. said' = p  BY <1>2
<1> HIDE DEF p, x
<1>8. CASE mode = "whole"
  <2> DEFINE b == Whole(p)
  <2>1. history' = [history EXCEPT ![Len(history)].blocks = b]  BY <1>2, <1>7, <1>8
  <2>2. b \in Seq(BlockRec)  BY <1>3, <1>5, WholeBlocks DEF BlocksFor
  <2>3. format \in {"claude", "responses"} => b \in Seq(LoneBlock)
    BY <1>5, WholeAlone DEF Whole
  <2> HIDE DEF b
  <2>4. [history EXCEPT ![Len(history)].blocks = b] \in Seq(LoneTurn(format))
    BY <1>4, <2>2, <2>3, FileAlone
  <2>5. history' \in Seq(LoneTurn(format'))  BY <1>1, <2>1, <2>4
  <2> QED BY <2>5 DEF AloneInv
<1>9. CASE mode # "whole"
  <2>1. ClaudeFiles(format, a) /\ Files0(format, a)
    BY <1>3, <1>5, AtOnceSpoken
  <2>2. Good(format, a)  BY <1>3, <1>5, AtOnceGood
  <2> HIDE DEF a
  <2>3. r.out \in Seq(Ev) /\ ClaudeFiles(format, r) /\ Files0(format, r)
    BY <1>3, <2>1, <2>2, DoneSpoken
  <2>4. history' = [history EXCEPT ![Len(history)].blocks = Blocks(r.out)]
    BY <1>2, <1>6, <1>9
  <2> HIDE DEF r
  <2> QED BY <1>1, <2>3, <2>4, EndAlone
<1> QED BY <1>8, <1>9

\* Every action keeps each call of these clients in a block of its own.
LEMMA AloneStep ==
  ASSUME AloneInv, StreamInv, LossInv, HistoryInv, FilesInv, [Next]_vars
  PROVE  AloneInv'
<1>1. ASSUME format' = format, history' = history PROVE AloneInv'
  BY <1>1 DEF AloneInv
<1>2. CASE Ask
  <2>1. PICK asks \in BOOLEAN : history' = Append(history, Turn(OpenCalls, asks))
    BY <1>2 DEF Ask
  <2>2. format' = format  BY <1>2 DEF Ask
  <2> DEFINE c == OpenCalls
             t == Turn(c, asks)
             r == Append(history, t)
  <2>3. c = IF history = << >> THEN << >> ELSE KeptIn(history[Len(history)].blocks, "call")
    <3>1. history \in Seq(TurnRec)  BY TurnOfTurn DEF HistoryInv
    <3> QED BY <3>1, OpenCallsAre
  <2> HIDE DEF c
  <2>4. r \in Seq(TurnOf(format)) /\ r # << >>
    BY <2>3, AskLinked DEF HistoryInv
  <2>5. t \in TurnRec
    <3>1. r \in Seq(TurnRec)  BY <2>4, TurnOfTurn
    <3>2. history \in Seq(TurnRec)  BY TurnOfTurn DEF HistoryInv
    <3>3. r[Len(history) + 1] = t /\ Len(history) + 1 \in DOMAIN r  BY <3>2
    <3> HIDE DEF r
    <3> QED BY <3>1, <3>3
  <2>6. t.blocks = << >>  BY DEF Turn
  <2> HIDE DEF t
  <2>7. t \in LoneTurn(format)
    <3>1. << >> \in Seq(LoneBlock)  OBVIOUS
    <3>2. t.blocks \in Seq(LoneBlock)  BY <2>6, <3>1, Zenon
    <3> QED BY <2>5, <3>2, Zenon DEF LoneTurn
  <2>8. r \in Seq(LoneTurn(format))  BY <2>7 DEF AloneInv
  <2>9. history' = r  BY <2>1 DEF t, c
  <2> HIDE DEF r
  <2> QED BY <2>2, <2>8, <2>9 DEF AloneInv
<1>3. CASE AskWithSettings  BY <1>1, <1>3 DEF AskWithSettings, answerVars
<1>4. CASE AskWithSchema  BY <1>1, <1>4 DEF AskWithSchema, answerVars
<1>5. CASE Say  BY <1>1, <1>5 DEF Say
<1>6. CASE Read  BY <1>1, <1>6 DEF Read
<1>7. CASE End
  <2>1. /\ phase = "answer" /\ format' = format /\ state' = DoneOf(format, state)
        /\ history' = [history EXCEPT ![Len(history)].blocks = Blocks(state'.out)]
    BY <1>7 DEF End, EndTurn, DoneOf
  <2>2. /\ format \in Formats /\ Good(format, state) /\ ClaudeFiles(format, state)
        /\ Files0(format, state)
    BY <2>1 DEF StreamInv, LossInv, FilesInv
  <2> DEFINE r == DoneOf(format, state)
  <2>3. r.out \in Seq(Ev) /\ ClaudeFiles(format, r) /\ Files0(format, r)  BY <2>2, DoneSpoken
  <2>4. history' = [history EXCEPT ![Len(history)].blocks = Blocks(r.out)]  BY <2>1
  <2> HIDE DEF r
  <2> QED BY <2>1, <2>3, <2>4, EndAlone
<1>8. CASE AnswerAtOnce  BY <1>8, AtOnceAlone
<1>9. CASE Interrupt
  <2>1. /\ phase = "answer" /\ format' = format
        /\ format = "shim" =>
             history' = [history EXCEPT ![Len(history)].blocks = Blocks(state'.out)]
        /\ format # "shim" => history' = history
    BY <1>9 DEF Interrupt, EndTurn
  <2>2. CASE format = "shim"
    <3>1. StreamInv'  BY StreamStep
    <3>2. state'.out \in Seq(Ev)  BY <2>1, <3>1, GoodTyped DEF StreamInv
    <3>3. ClaudeFiles(format, state') /\ Files0(format, state')
      BY <2>2 DEF ClaudeFiles, Files0
    <3> QED BY <2>1, <2>2, <3>2, <3>3, EndAlone
  <2> QED BY <1>1, <2>1, <2>2
<1>10. CASE Refuse  BY <1>1, <1>10 DEF Refuse
<1>11. CASE UNCHANGED vars  BY <1>1, <1>11 DEF vars, answerVars
<1> QED BY <1>2, <1>3, <1>4, <1>5, <1>6, <1>7, <1>8, <1>9, <1>10, <1>11 DEF Next

-----------------------------------------------------------------------------
(* Results by the names of their functions. *)

\* The name that a result is sent under.
NameOf(f, more, x) == IF f = "openai" /\ ~more THEN Unknown ELSE x

\* The calls in some call blocks are found by their numbers.
LEMMA LoneCalls ==
  ASSUME NEW b \in Seq(LoneBlock), NEW G,
         \A i \in DOMAIN b :
           b[i].kind = "call" /\ b[i].parts # << >> => b[i].parts[1] \in G
  PROVE  KeptIn(b, "call") \in Seq(G)
<1> DEFINE D == { b[i] : i \in DOMAIN b }
           k == BlockIds("call")
           g == [y \in D |-> k[y]]
<1>1. b \in Seq(D)
  <2>1. Len(b) \in Nat /\ DOMAIN b = 1 .. Len(b) /\ b = [i \in 1 .. Len(b) |-> b[i]]  OBVIOUS
  <2>2. \A i \in DOMAIN b : b[i] \in D  OBVIOUS
  <2> HIDE DEF D
  <2> QED BY <2>1, <2>2
<1>2. ASSUME NEW i \in DOMAIN b PROVE k[b[i]] \in Seq(G)
  <2> DEFINE p == b[i].parts
  <2>1. b[i] \in BlockRec /\ (b[i].kind = "call" => Len(b[i].parts) <= 1)
    <3>1. b[i] \in LoneBlock  OBVIOUS
    <3> QED BY <3>1 DEF LoneBlock
  <2>2. k[b[i]] = IF b[i].kind = "call" THEN p ELSE << >>  BY <2>1 DEF BlockIds
  <2>3. p \in Seq(Int)  BY <2>1 DEF BlockRec
  <2>4. b[i].kind = "call" => Len(p) <= 1 /\ (p # << >> => p[1] \in G)  BY <2>1
  <2> HIDE DEF p, k
  <2>5. CASE b[i].kind = "call"
    <3>1. Len(p) <= 1 /\ (p # << >> => p[1] \in G)  BY <2>4, <2>5
    <3>2. \A j \in 1 .. Len(p) : p[j] \in G  BY <2>3, <3>1
    <3>3. Len(p) \in Nat /\ p = [j \in 1 .. Len(p) |-> p[j]]  BY <2>3
    <3>4. p \in Seq(G)  BY <3>2, <3>3
    <3> QED BY <2>2, <2>5, <3>4
  <2>6. CASE b[i].kind # "call"
    <3>1. << >> \in Seq(G)  OBVIOUS
    <3> QED BY <2>2, <2>6, <3>1
  <2> QED BY <2>5, <2>6
<1>3. Maker(g, D, G)
  <2>1. \A y \in D : k[y] \in Seq(G)  BY <1>2
  <2> HIDE DEF D, k
  <2> QED BY <2>1 DEF Maker
<1>4. \A i \in DOMAIN b : g[b[i]] = k[b[i]]  OBVIOUS
<1> HIDE DEF D, k, g
<1>5. Gather(g, b) \in Seq(G)  BY <1>1, <1>3, EachTyped
<1>6. Gather(g, b) = Gather(k, b)  BY <1>4, GatherSame
<1> QED BY <1>5, <1>6 DEF KeptIn, k

\* The calls of a history whose clients file each in a block of its own are
\* found in it by their numbers.
LEMMA CallsNamed ==
  ASSUME NEW f \in {"claude", "responses"}, NEW h \in Seq(LoneTurn(f))
  PROVE  Gather(Called(f), h) \in Seq({ x \in Int : NamesOf(h)[x] = x })
<1> DEFINE G == { x \in Int : NamesOf(h)[x] = x }
           b == AllBlocks(h)
           k == BlockIds("call")
           C == Called(f)
<1>1. h \in Seq(TurnRec) /\ \A i \in DOMAIN h : h[i] \in LoneTurn(f) /\ h[i] \in TurnRec
  <2>1. LoneTurn(f) \subseteq TurnRec  BY DEF LoneTurn
  <2> QED BY <2>1
<1>2. b = Gather(TurnBlocks, h)
  <2>1. [i \in DOMAIN h |-> h[i].blocks] = Each(TurnBlocks, h)  BY <1>1 DEF Each, TurnBlocks
  <2> QED BY <2>1, Zenon DEF AllBlocks, Gather
<1>3. /\ Maker(k, BlockRec, Int) /\ Maker(TurnBlocks, TurnRec, BlockRec)
      /\ Maker(TurnKept("call"), TurnRec, Int)
  BY BlockMakers
<1>4. b \in Seq(LoneBlock)
  <2> DEFINE D == LoneTurn(f)
             g == [t \in D |-> t.blocks]
  <2>1. \A t \in D : t.blocks \in Seq(LoneBlock)  BY DEF LoneTurn
  <2>2. \A i \in DOMAIN h : g[h[i]] = TurnBlocks[h[i]]  BY <1>1 DEF TurnBlocks
  <2>3. h \in Seq(D)  OBVIOUS
  <2> HIDE DEF D
  <2>4. Maker(g, D, LoneBlock)  BY <2>1 DEF Maker
  <2> HIDE DEF g
  <2>5. Gather(g, h) = Gather(TurnBlocks, h)  BY <2>2, GatherSame
  <2>6. Gather(g, h) \in Seq(LoneBlock)  BY <2>3, <2>4, EachTyped
  <2> QED BY <1>2, <2>5, <2>6
<1>5. Gather(C, h) = KeptIn(b, "call")
  <2>1. \A t \in TurnRec : C[t] = Gather(k, TurnBlocks[t])
    BY DEF Called, TurnBlocks, KeptIn
  <2>2. Maker(C, TurnRec, Int)
    <3>1. \A t \in TurnRec : C[t] = TurnKept("call")[t]  BY DEF Called, TurnKept
    <3>2. C = [t \in TurnRec |-> C[t]]  BY DEF Called
    <3> HIDE DEF C
    <3> QED BY <1>3, <3>1, <3>2 DEF Maker
  <2> HIDE DEF C, k
  <2>3. Gather(k, Gather(TurnBlocks, h)) = Gather(C, h)  BY <1>1, <1>3, <2>1, <2>2, GatherGather
  <2> QED BY <1>2, <2>3 DEF KeptIn, k
<1>6. ASSUME NEW i \in DOMAIN b, b[i].kind = "call", b[i].parts # << >>
      PROVE  b[i].parts[1] \in G
  <2> DEFINE x == b[i].parts[1]
  <2>1. b[i] \in BlockRec
    <3>1. b[i] \in LoneBlock  BY <1>4
    <3> QED BY <3>1 DEF LoneBlock
  <2>2. x \in Int  BY <1>6, <2>1 DEF BlockRec
  <2>3. ToolName(h, x) = x  BY <1>6 DEF ToolName
  <2> HIDE DEF x
  <2>4. x \in G  BY <2>2, <2>3 DEF NamesOf
  <2> QED BY <2>4 DEF x
<1>7. \A i \in DOMAIN b :
        b[i].kind = "call" /\ b[i].parts # << >> => b[i].parts[1] \in G
  BY <1>6
<1> HIDE DEF b, G
<1>8. KeptIn(b, "call") \in Seq(G)  BY <1>4, <1>7, LoneCalls
<1> QED BY <1>5, <1>8 DEF G

\* Every result of a request is sent by its function's name, where the client
\* tells it or the history does.
LEMMA RequestNames ==
  ASSUME NEW f \in Formats, NEW more \in BOOLEAN, NEW h \in Seq(LoneTurn(f)), Linked(h),
         h # << >>, h[Len(h)].blocks = << >>
  PROVE  LET n == NamesFor(f, h, more) IN
         Gather(Resulted(f), h) \in Seq({ x \in Int : n[x] = NameOf(f, more, x) })
<1> DEFINE n == NamesFor(f, h, more)
           G == { x \in Int : n[x] = NameOf(f, more, x) }
           r == Gather(Resulted(f), h)
<1>1. h \in Seq(TurnRec)
  <2>1. LoneTurn(f) \subseteq TurnRec  BY DEF LoneTurn
  <2> QED BY <2>1
<1>2. r \in Seq(Int)
  <2> DEFINE R == Resulted(f)
  <2>1. \A x \in TurnRec : x.results \in Seq(Int)  BY DEF TurnRec
  <2>2. << >> \in Seq(Int)  OBVIOUS
  <2>3. Maker(R, TurnRec, Int)  BY <2>1, <2>2 DEF Maker, Resulted
  <2> HIDE DEF R
  <2>4. Gather(R, h) \in Seq(Int)  BY <1>1, <2>3, EachTyped
  <2> QED BY <2>4 DEF R
<1>3. CASE f \in {"claude", "responses"}
  <2>1. n = NamesOf(h)  BY <1>3 DEF NamesFor
  <2>2. \A x : NameOf(f, more, x) = x  BY <1>3 DEF NameOf
  <2>3. Gather(Called(f), h) \in Seq({ x \in Int : NamesOf(h)[x] = x })  BY <1>3, CallsNamed
  <2>4. Gather(Called(f), h) = r  BY <1>1, TotalsMatch
  <2>5. G = { x \in Int : NamesOf(h)[x] = x }
    <3> HIDE DEF n
    <3> QED BY <2>1, <2>2
  <2> HIDE DEF G, r
  <2>6. r \in Seq(G)  BY <2>3, <2>4, <2>5
  <2> QED BY <2>6 DEF r, G, n
<1>4. CASE f \in {"openai", "gemini", "shim"}
  <2>1. CASE f = "shim"
    <3>1. \A i \in DOMAIN h : Resulted(f)[h[i]] = << >>
      <4>1. \A i \in DOMAIN h : h[i] \in TurnRec  BY <1>1
      <4> QED BY <2>1, <4>1 DEF Resulted
    <3>2. r = << >>  BY <1>1, <3>1, GatherNothing
    <3>3. << >> \in Seq(G)  OBVIOUS
    <3> HIDE DEF G, r
    <3>4. r \in Seq(G)  BY <3>2, <3>3
    <3> QED BY <3>4 DEF r, G, n
  <2>2. CASE f # "shim"
    <3>1. n = IF f = "openai" THEN ToolNames(more) ELSE ToolNames(TRUE)
      BY <1>4, <2>2 DEF NamesFor
    <3>2. \A x \in Int : n[x] = NameOf(f, more, x)
      <4> HIDE DEF n
      <4>1. CASE f = "openai"
        <5>1. n = ToolNames(more)  BY <3>1, <4>1
        <5>2. \A x \in Int : ToolNames(more)[x] = IF more THEN x ELSE Unknown  BY DEF ToolNames
        <5>3. \A x : NameOf(f, more, x) = IF more THEN x ELSE Unknown  BY <4>1 DEF NameOf
        <5> QED BY <5>1, <5>2, <5>3
      <4>2. CASE f # "openai"
        <5>1. n = ToolNames(TRUE)  BY <3>1, <4>2
        <5>2. \A x \in Int : ToolNames(TRUE)[x] = x  BY DEF ToolNames
        <5>3. \A x : NameOf(f, more, x) = x  BY <4>2 DEF NameOf
        <5> QED BY <5>1, <5>2, <5>3
      <4> QED BY <4>1, <4>2
    <3>3. G = Int
      <4> HIDE DEF n
      <4> QED BY <3>2
    <3> HIDE DEF G, r
    <3>4. r \in Seq(G)  BY <1>2, <3>3
    <3> QED BY <3>4 DEF r, G, n
  <2> QED BY <2>1, <2>2
<1> QED BY <1>3, <1>4 DEF Formats

-----------------------------------------------------------------------------
(* Results follow their calls. *)

\* The parts of some contents, and those of a kind.
PartsOfThe == [c \in ContentRec |-> c.parts]
IdIs == [p \in PartRec |-> p.id]

\* All parts of a request, and the numbers of each kind.
LEMMA SentPartsAre ==
  ASSUME NEW n, contents \in Seq(Named(n))
  PROVE  /\ SentParts \in Seq(NamedPart(n))
         /\ \A k : OfKind(SentParts, {k}) = Gather(PartIds(k), contents)
<1> DEFINE D == Named(n)
           T == NamedPart(n)
           q == PartsOfThe
           u == [c \in D |-> c.parts]
           s == SentParts
<1>1. contents \in Seq(ContentRec)  BY NamedTypes
<1>2. s = Gather(q, contents)
  <2>1. \A i \in DOMAIN contents : contents[i] \in ContentRec  BY <1>1
  <2>2. [i \in DOMAIN contents |-> contents[i].parts] = Each(q, contents)
    BY <2>1 DEF Each, PartsOfThe
  <2> QED BY <2>2, Zenon DEF SentParts, Gather
<1>3. Maker(q, ContentRec, PartRec)  BY DEF Maker, PartsOfThe, ContentRec
<1>4. s \in Seq(T)
  <2>1. \A c \in D : c \in ContentRec /\ c.parts \in Seq(T)  BY DEF Named
  <2>2. \A i \in DOMAIN contents : contents[i] \in D  OBVIOUS
  <2> HIDE DEF T, D
  <2>3. Maker(u, D, T)  BY <2>1 DEF Maker
  <2>4. \A i \in DOMAIN contents : u[contents[i]] = q[contents[i]]
    BY <2>1, <2>2 DEF PartsOfThe
  <2> HIDE DEF u, q, s
  <2>5. Gather(u, contents) = Gather(q, contents)  BY <2>4, GatherSame
  <2>6. contents \in Seq(D)  BY DEF D
  <2>7. Gather(u, contents) \in Seq(T)  BY <2>3, <2>6, EachTyped
  <2> QED BY <1>2, <2>5, <2>7
<1>5. ASSUME NEW k PROVE OfKind(s, {k}) = Gather(PartIds(k), contents)
  <2> DEFINE g == Ids(PartRec, {k})
             w == PartIds(k)
  <2>1. s \in Seq(PartRec)
    <3> HIDE DEF s
    <3> QED BY <1>4, NamedTypes
  <2>2. OfKind(s, {k}) = Gather(g, s)
    <3> HIDE DEF s
    <3> QED BY <2>1, OfKindIs
  <2>3. Maker(g, PartRec, Int) /\ Maker(w, ContentRec, Int)  BY KindsMake, PartIdsMake
  <2>4. \A c \in ContentRec : w[c] = Gather(g, q[c])
    <3>1. ASSUME NEW c \in ContentRec PROVE w[c] = Gather(g, q[c])
      <4> DEFINE p == c.parts
      <4>1. w[c] = OfKind(p, {k}) /\ q[c] = p  BY DEF PartIds, PartsOfThe
      <4>2. p \in Seq(PartRec)  BY DEF ContentRec
      <4> HIDE DEF p, w, q
      <4>3. OfKind(p, {k}) = Gather(g, p)  BY <4>2, OfKindIs
      <4> QED BY <4>1, <4>3
    <3> QED BY <3>1
  <2> HIDE DEF g, w, q, s
  <2>5. Gather(g, Gather(q, contents)) = Gather(w, contents)
    BY <1>1, <1>3, <2>3, <2>4, GatherGather
  <2> QED BY <1>2, <2>2, <2>5 DEF w
<1> QED BY <1>4, <1>5 DEF s, T

\* The results among some parts are named as all of them are.
LEMMA ResultsNamed ==
  ASSUME NEW n, NEW q \in Seq(NamedPart(n)), NEW G, OfKind(q, {"response"}) \in Seq(G)
  PROVE  LET r == PartsOfKind(q, {"response"}) IN
         \A i \in DOMAIN r : r[i].id \in G /\ r[i].name = n[r[i].id]
<1> DEFINE K == {"response"}
           T == { p \in NamedPart(n) : p.kind = "response" }
           D == NamedPart(n)
           g == Those(D, K)
           j == Ids(D, K)
           h == [p \in T |-> << p.id >>]
           f == [p \in T |-> p.id]
           r == PartsOfKind(q, K)
<1>1. OfKind(q, K) = Gather(j, q) /\ r = Gather(g, q)  BY OfKindIs
<1>2. \A p \in D : p.id \in Int /\ p \in PartRec  BY DEF NamedPart, PartRec
<1>3. Maker(g, D, T)
  <2>1. \A p \in D : p.kind \in K => p \in T  OBVIOUS
  <2> HIDE DEF T
  <2>2. \A p \in D : (IF p.kind \in K THEN << p >> ELSE << >>) \in Seq(T)
    <3>1. ASSUME NEW p \in D PROVE (IF p.kind \in K THEN << p >> ELSE << >>) \in Seq(T)
      <4>1. p.kind \in K => << p >> \in Seq(T)  BY <2>1
      <4>2. << >> \in Seq(T)  OBVIOUS
      <4> QED BY <4>1, <4>2, Zenon
    <3> QED BY <3>1
  <2> QED BY <2>2 DEF Maker, Those
<1>4. /\ Maker(h, T, Int) /\ \A p \in T : f[p] \in Int /\ h[p] = << f[p] >>
  <2>1. \A p \in T : p.id \in Int /\ << p.id >> \in Seq(Int)  BY <1>2
  <2> HIDE DEF T
  <2> QED BY <2>1 DEF Maker
<1>5. Maker(j, D, Int)
  <2>1. \A p \in D : (IF p.kind \in K THEN << p.id >> ELSE << >>) \in Seq(Int)  BY <1>2
  <2> HIDE DEF K, D
  <2> QED BY <2>1 DEF Maker, Ids
<1>6. \A p \in D : j[p] = Gather(h, g[p])
  <2>1. ASSUME NEW p \in D PROVE j[p] = Gather(h, g[p])
    <3>1. CASE p.kind \in K
      <4>1. p \in T /\ j[p] = << p.id >> /\ g[p] = << p >>  BY <3>1 DEF Ids, Those
      <4>2. h[p] = << p.id >>  BY <4>1
      <4> HIDE DEF T, h, j, g
      <4>3. Gather(h, << p >>) = h[p]  BY <1>4, <4>1, GatherOne
      <4> QED BY <4>1, <4>2, <4>3
    <3>2. CASE p.kind \notin K
      <4>1. j[p] = << >> /\ g[p] = << >>  BY <3>2 DEF Ids, Those
      <4> HIDE DEF h, j, g
      <4> QED BY <4>1, GatherNone
    <3> QED BY <3>1, <3>2
  <2> QED BY <2>1
<1>7. \A p \in T : f[p] = p.id /\ p.name = n[p.id]  BY DEF NamedPart
<1> HIDE DEF T, g, h, f, j, r, D
<1>8. r \in Seq(T)
  <2>1. q \in Seq(D)  BY DEF D
  <2> QED BY <1>1, <1>3, <2>1, EachTyped
<1>9. Gather(h, Gather(g, q)) = Gather(j, q)
  <2>1. q \in Seq(D)  BY DEF D
  <2> QED BY <1>3, <1>4, <1>5, <1>6, <2>1, GatherGather
<1>10. Gather(h, r) = [i \in DOMAIN r |-> f[r[i]]]
  <2> DEFINE I == Int
  <2>1. Maker(h, T, I) /\ \A p \in T : f[p] \in I /\ h[p] = << f[p] >>  BY <1>4
  <2> HIDE DEF I
  <2> QED BY <1>8, <2>1, GatherMap
<1> DEFINE o == OfKind(q, K)
<1>11. o \in Seq(G)  OBVIOUS
<1> HIDE DEF o
<1>12. o = [i \in DOMAIN r |-> f[r[i]]]  BY <1>1, <1>9, <1>10 DEF o
<1>13. DOMAIN o = DOMAIN r /\ \A i \in DOMAIN r : o[i] = f[r[i]]  BY <1>12
<1>14. \A i \in DOMAIN r : r[i] \in T /\ o[i] \in G  BY <1>8, <1>11, <1>13
<1>15. \A i \in DOMAIN r : r[i].id \in G /\ r[i].name = n[r[i].id]
  BY <1>7, <1>13, <1>14, Zenon
<1> QED BY <1>15 DEF r

\* The invariants say what the property says.
LEMMA AloneFollows == HistoryInv /\ AloneInv => ResultsFollowCalls
<1>1. SUFFICES ASSUME HistoryInv, AloneInv, phase = "answer" PROVE ResultsFollowCalls
  BY DEF ResultsFollowCalls
<1> DEFINE h == history
           c == contents
           n == NamesFor(format, h, full)
           R == Gather(Resulted(format), h)
           G == { x \in Int : n[x] = NameOf(format, full, x) }
<1>2. /\ format \in Formats /\ full \in BOOLEAN /\ Linked(h) /\ h \in Seq(TurnRec)
      /\ h # << >> /\ h[Len(h)].blocks = << >> /\ c = Contents(format, h, full)
      /\ h \in Seq(LoneTurn(format))
  BY <1>1, TurnOfTurn DEF HistoryInv, Telling, AloneInv
<1>3. /\ c \in Seq(Named(n))
      /\ Gather(PartIds("response"), c) = R
      /\ Gather(PartIds("call"), c) = R
      /\ format # "responses" => \A i \in DOMAIN c : PartIds("call")[c[i]] # << >> =>
           i < Len(c) /\ Answering(format, PartIds("call")[c[i]], c[i + 1])
  <2>1. LET d == Contents(format, h, full) IN
         /\ d \in Seq(Named(n))
         /\ Gather(PartIds("response"), d) = R
         /\ Gather(PartIds("call"), d) = R
         /\ format # "responses" => \A i \in DOMAIN d : PartIds("call")[d[i]] # << >> =>
              i < Len(d) /\ Answering(format, PartIds("call")[d[i]], d[i + 1])
    BY <1>2, RequestReplies
  <2> QED BY <1>2, <2>1
<1>4. R \in Seq(G)  BY <1>2, RequestNames
<1> HIDE DEF n, R, G
<1> DEFINE s == SentParts
<1>5. s \in Seq(NamedPart(n)) /\ OfKind(s, {"response"}) = R /\ OfKind(s, {"call"}) = R
  <2>1. /\ SentParts \in Seq(NamedPart(n))
        /\ \A k : OfKind(SentParts, {k}) = Gather(PartIds(k), contents)
    BY <1>3, SentPartsAre
  <2> QED BY <1>3, <2>1
<1> HIDE DEF s
<1>6. OfKind(s, {"response"}) \in Seq(G)  BY <1>4, <1>5
<1>7. \A i \in DOMAIN PartsOfKind(s, {"response"}) :
        /\ PartsOfKind(s, {"response"})[i].id \in G
        /\ PartsOfKind(s, {"response"})[i].name = n[PartsOfKind(s, {"response"})[i].id]
  BY <1>5, <1>6, ResultsNamed
<1>8. ASSUME format = "openai" => full
      PROVE  \A i \in DOMAIN ResultsIn(s) : ResultsIn(s)[i].name = ResultsIn(s)[i].id
  <2>1. \A x \in G : n[x] = NameOf(format, full, x)  BY DEF G
  <2>2. \A x : NameOf(format, full, x) = x  BY <1>8 DEF NameOf
  <2> QED BY <1>7, <2>1, <2>2, Zenon DEF ResultsIn
<1>9. CallsIn(s) = ResultIdsIn(s)  BY <1>5 DEF CallsIn, ResultIdsIn
<1>10. \A i \in DOMAIN c : CallsIn(c[i].parts) = PartIds("call")[c[i]]
  <2>1. c \in Seq(ContentRec)  BY <1>3, NamedTypes
  <2>2. \A i \in DOMAIN c : c[i] \in ContentRec  BY <2>1
  <2> QED BY <2>2 DEF PartIds, CallsIn
<1>11. ASSUME format # "responses", NEW i \in DOMAIN c, CallsIn(c[i].parts) # << >>
       PROVE  /\ i < Len(c)
              /\ c[i + 1].role = "user"
              /\ ResultIdsIn(c[i + 1].parts) = CallsIn(c[i].parts)
              /\ format # "gemini" => Len(c[i + 1].parts) = Len(CallsIn(c[i].parts))
  <2> DEFINE k == PartIds("call")[c[i]]
  <2>1. CallsIn(c[i].parts) = k  BY <1>10
  <2>2. i < Len(c) /\ Answering(format, k, c[i + 1])  BY <1>3, <1>11, <2>1
  <2> HIDE DEF k
  <2> QED BY <2>1, <2>2 DEF Answering, ResultIdsIn
<1> QED BY <1>8, <1>9, <1>11 DEF ResultsFollowCalls, s

\* However a client keeps Gemini's answers and in however many turns, Gemini
\* finds the results of its calls right after them, all and in order, each by
\* the name of its function where the format tells it.
THEOREM FollowingResults == Spec => []ResultsFollowCalls
<1>1. Init => AloneInv  BY InitAlone
<1>2. AloneInv /\ StreamInv /\ LossInv /\ HistoryInv /\ FilesInv /\ [Next]_vars => AloneInv'
  BY AloneStep
<1>3. HistoryInv /\ AloneInv => ResultsFollowCalls  BY AloneFollows
<1>4. Init => LossInv  BY InitLoss
<1>5. LossInv /\ StreamInv /\ HistoryInv /\ FilesInv /\ [Next]_vars => LossInv'  BY LossStep
<1>6. Spec => []StreamInv  BY StreamInvHolds
<1>7. Init => HistoryInv /\ FilesInv  BY InitHistory
<1>8. HistoryInv /\ FilesInv /\ StreamInv /\ [Next]_vars => (HistoryInv /\ FilesInv)'
  BY HistoryStep
<1> QED BY <1>1, <1>2, <1>3, <1>4, <1>5, <1>6, <1>7, <1>8, PTL DEF Spec
=============================================================================
