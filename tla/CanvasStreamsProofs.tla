------------------------- MODULE CanvasStreamsProofs -------------------------
(***************************************************************************)
(* Theorems about CanvasConversation: what a client is told of an answer is *)
(* a well-formed stream in every format (WellFormedStreams); and, for the   *)
(* theorems of CanvasConversationProofs, what a stream tells and files of   *)
(* the parts that Gemini said.                                              *)
(*                                                                         *)
(* The translators fold over the parts of a frame and the frames of a       *)
(* chunk.  The library's induction theorems take an operator as a           *)
(* parameter, so the induction is done here once on sets (NatSet, UpTo) and  *)
(* once on FoldLeft's defining function (FoldInduction); each operator that *)
(* is folded then has its own instance (ResponsesParts, ClaudeParts, ...).  *)
(* The properties of a stream (AllFit, EndsOnce, AllClosed) are shown to    *)
(* survive the append of one event that is allowed where it stands; each    *)
(* part, frame and chunk is then a few such events.                         *)
(*                                                                         *)
(* Sequences are walked to pick something out of each element.  Gather(g, s) *)
(* is that walk, with a FUNCTION g in the place of an operator, so that its  *)
(* facts (it commutes with concatenation, GatherConcat, and with itself,     *)
(* GatherGather) are proved once.  Spoken(out) is what a stream tells of     *)
(* each kind; TranslateSpoken is what one chunk adds to it; and Deliv        *)
(* relates what was told to what was said, whatever the network did.         *)
(***************************************************************************)
EXTENDS CanvasConversation, SequenceTheorems, FiniteSetTheorems, WellFoundedInduction, TLAPS

-----------------------------------------------------------------------------
(* Induction over sequences, and FoldLeft. *)

\* Induction, as a fact about sets.
LEMMA NatSet ==
  ASSUME NEW T, T \subseteq Nat, 0 \in T, \A n \in T : n + 1 \in T
  PROVE  T = Nat
<1>1. SUFFICES ASSUME NEW k \in Nat, k \notin T PROVE FALSE  OBVIOUS
<1> DEFINE U == Nat \ T
<1>2. IsWellFoundedOn(OpToRel(<, Nat), Nat)  BY NatLessThanWellFounded
<1>3. \E x \in U : \A y \in U : ~ (<<y, x>> \in OpToRel(<, Nat))  BY <1>1, <1>2, WFMin
<1>4. PICK x \in U : \A y \in U : ~ (y < x)  BY <1>3 DEF OpToRel
<1>5. x # 0  OBVIOUS
<1>6. x - 1 \in U  BY <1>5
<1> QED BY <1>4, <1>6, <1>5

\* Induction up to a bound.
LEMMA UpTo ==
  ASSUME NEW n \in Nat, NEW T, 0 \in T, \A i \in 0 .. n - 1 : i \in T => i + 1 \in T
  PROVE  \A i \in 0 .. n : i \in T
<1> DEFINE U == { i \in Nat : i <= n => i \in T }
<1>1. U \subseteq Nat /\ 0 \in U  OBVIOUS
<1>2. \A i \in U : i + 1 \in U  OBVIOUS
<1> HIDE DEF U
<1>3. U = Nat  BY <1>1, <1>2, NatSet
<1> QED BY <1>3 DEF U

\* What FoldLeft's function on the subsets of a sequence's indices is.
Folds(g, f, base, q, n) ==
  \A t \in SUBSET (1 .. n) :
    /\ t # {} => Max(t) \in t
    /\ g[t] = IF t = {} THEN base ELSE f[<< g[t \ {Max(t)}], q[Max(t)] >>]

\* The largest index of a set that has the bound is the bound.
LEMMA MaxIs ==
  ASSUME NEW n \in Nat, NEW t \in SUBSET (1 .. n), n \in t
  PROVE  Max(t) = n
<1>1. \A y \in t : n >= y  OBVIOUS
<1>2. \A x \in t : (\A y \in t : x >= y) => x = n  OBVIOUS
<1>3. Max(t) = CHOOSE x \in t : \A y \in t : x >= y  BY DEF Max
<1> QED BY <1>1, <1>2, <1>3

\* A function that satisfies FoldLeft's recursion exists, by induction on the
\* length of the sequence.
LEMMA FoldExists ==
  ASSUME NEW V, NEW D, NEW f \in [V \X D -> V], NEW base \in V, NEW q \in Seq(D)
  PROVE  \E g \in [SUBSET (1 .. Len(q)) -> V] : Folds(g, f, base, q, Len(q))
<1> DEFINE Sub(n) == [SUBSET (1 .. n) -> V]
           T == { n \in Nat : n <= Len(q) => \E g \in Sub(n) : Folds(g, f, base, q, n) }
<1>1. 0 \in T
  <2> DEFINE g == [t \in SUBSET (1 .. 0) |-> base]
  <2>1. 1 .. 0 = {}  OBVIOUS
  <2>2. g \in [SUBSET (1 .. 0) -> V]  OBVIOUS
  <2>3. Folds(g, f, base, q, 0)  BY <2>1 DEF Folds
  <2> QED BY <2>2, <2>3
<1>2. ASSUME NEW n \in T PROVE n + 1 \in T
  <2>0. n \in Nat  OBVIOUS
  <2>1. SUFFICES ASSUME n + 1 <= Len(q) PROVE \E g \in Sub(n + 1) : Folds(g, f, base, q, n + 1)
    <3> HIDE DEF Sub
    <3> QED BY <2>0
  <2>2. PICK g \in Sub(n) : Folds(g, f, base, q, n)
    <3> HIDE DEF Sub
    <3> QED BY <2>0, <2>1
  <2> DEFINE e == [t \in SUBSET (1 .. n + 1) |->
                     IF n + 1 \in t THEN f[<< g[t \ {n + 1}], q[n + 1] >>] ELSE g[t]]
  <2>3. q[n + 1] \in D  BY <2>0, <2>1
  <2>4. \A t \in SUBSET (1 .. n + 1) : t \ {n + 1} \in SUBSET (1 .. n)  BY <2>0
  <2>5. \A t \in SUBSET (1 .. n + 1) : n + 1 \notin t => t \in SUBSET (1 .. n)  BY <2>0
  <2>5a. \A t \in SUBSET (1 .. n) : t \in SUBSET (1 .. n + 1) /\ n + 1 \notin t  BY <2>0
  <2>6. e \in [SUBSET (1 .. n + 1) -> V]
    <3>1. ASSUME NEW t \in SUBSET (1 .. n + 1)
          PROVE  (IF n + 1 \in t THEN f[<< g[t \ {n + 1}], q[n + 1] >>] ELSE g[t]) \in V
      <4>1. CASE n + 1 \in t
        <5>1. g[t \ {n + 1}] \in V  BY <2>4
        <5>2. << g[t \ {n + 1}], q[n + 1] >> \in V \X D  BY <5>1, <2>3
        <5>3. f[<< g[t \ {n + 1}], q[n + 1] >>] \in V  BY <5>2
        <5> QED BY <5>3, <4>1
      <4>2. CASE n + 1 \notin t
        BY <4>2, <2>5
      <4> QED BY <4>1, <4>2
    <3> QED BY <3>1
  <2>7. \A t \in SUBSET (1 .. n + 1) :
          e[t] = IF n + 1 \in t THEN f[<< g[t \ {n + 1}], q[n + 1] >>] ELSE g[t]  OBVIOUS
  <2>8. \A t \in SUBSET (1 .. n) : e[t] = g[t]  BY <2>7, <2>5a
  <2> HIDE DEF e
  <2>9. ASSUME NEW t \in SUBSET (1 .. n + 1)
        PROVE  /\ t # {} => Max(t) \in t
               /\ e[t] = IF t = {} THEN base ELSE f[<< e[t \ {Max(t)}], q[Max(t)] >>]
    <3>1. CASE n + 1 \in t
      <4>1. Max(t) = n + 1  BY <3>1, <2>0, MaxIs
      <4>2. t # {}  BY <3>1
      <4>3. e[t \ {Max(t)}] = g[t \ {n + 1}]  BY <4>1, <2>4, <2>8
      <4>4. e[t] = f[<< g[t \ {n + 1}], q[n + 1] >>]  BY <2>7, <3>1
      <4> QED BY <3>1, <4>1, <4>2, <4>3, <4>4
    <3>2. CASE n + 1 \notin t
      <4>1. t \in SUBSET (1 .. n)  BY <3>2, <2>5
      <4>2. e[t] = g[t]  BY <4>1, <2>8
      <4>3. e[t \ {Max(t)}] = g[t \ {Max(t)}]  BY <4>1, <2>8
      <4>4. t # {} => Max(t) \in t  BY <2>2, <4>1 DEF Folds
      <4>5. g[t] = IF t = {} THEN base ELSE f[<< g[t \ {Max(t)}], q[Max(t)] >>]  BY <2>2, <4>1 DEF Folds
      <4> QED BY <4>2, <4>3, <4>4, <4>5
    <3> QED BY <3>1, <3>2
  <2>10. Folds(e, f, base, q, n + 1)  BY <2>9 DEF Folds
  <2> QED BY <2>6, <2>10
<1>3. T = Nat
  <2>1. T \subseteq Nat  OBVIOUS
  <2> HIDE DEF T
  <2> QED BY <1>1, <1>2, <2>1, NatSet
<1>4. Len(q) \in Nat /\ DOMAIN q = 1 .. Len(q)  OBVIOUS
<1>5. \E g \in Sub(Len(q)) : Folds(g, f, base, q, Len(q))
  <2>1. Len(q) \in T  BY <1>3, <1>4
  <2> HIDE DEF Sub
  <2> QED BY <2>1, <1>4
<1> QED BY <1>5

\* A function that takes FoldLeft's steps reaches what every step preserves.
Steps(c, f, V, base, q) ==
  /\ c[{}] = base
  /\ \A t \in SUBSET (1 .. Len(q)) :
       t # {} /\ c[t \ {Max(t)}] \in V => c[t] = f[<< c[t \ {Max(t)}], q[Max(t)] >>]
Keeps(J, f, V, base, q) ==
  /\ << 0, base >> \in J
  /\ \A i \in 1 .. Len(q), v \in V : << i - 1, v >> \in J => << i, f[<< v, q[i] >>] >> \in J

\* What a fold keeps from one element to the next holds at its end; J relates
\* how many elements are folded to the value so far.
LEMMA FoldInduction ==
  ASSUME NEW V, NEW D, NEW f \in [V \X D -> V], NEW base \in V, NEW q \in Seq(D),
         NEW c, Steps(c, f, V, base, q), NEW J, Keeps(J, f, V, base, q)
  PROVE  c[1 .. Len(q)] \in V /\ << Len(q), c[1 .. Len(q)] >> \in J
<1> USE DEF Steps, Keeps
<1> DEFINE n == Len(q)
           T == { i \in 0 .. n : c[1 .. i] \in V /\ << i, c[1 .. i] >> \in J }
<1>1. n \in Nat /\ \A i \in 1 .. n : q[i] \in D  OBVIOUS
<1>2. 0 \in T
  <2>1. 1 .. 0 = {} /\ 0 \in 0 .. n  BY <1>1
  <2> QED BY <2>1
<1>3. ASSUME NEW i \in 0 .. n - 1, i \in T PROVE i + 1 \in T
  <2> DEFINE t == 1 .. i + 1
  <2>1. t \in SUBSET (1 .. n) /\ i + 1 \in t /\ t \ {i + 1} = 1 .. i /\ i + 1 \in 1 .. n
        /\ (i + 1) - 1 = i  BY <1>1
  <2>2. Max(t) = i + 1
    <3>1. i + 1 \in Nat /\ t \in SUBSET (1 .. i + 1)  BY <1>1
    <3> QED BY <2>1, <3>1, MaxIs
  <2>3. c[1 .. i] \in V /\ << i, c[1 .. i] >> \in J  BY <1>3
  <2> HIDE DEF t
  <2>4. c[t] = f[<< c[1 .. i], q[i + 1] >>]  BY <2>1, <2>2, <2>3
  <2>5. << c[1 .. i], q[i + 1] >> \in V \X D  BY <2>1, <2>3, <1>1
  <2>6. c[t] \in V  BY <2>4, <2>5
  <2>7. << i + 1, c[t] >> \in J  BY <2>1, <2>3, <2>4
  <2> QED BY <2>1, <2>6, <2>7 DEF t
<1>4. \A i \in 0 .. n : i \in T
  <2> HIDE DEF T
  <2> QED BY <1>1, <1>2, <1>3, UpTo
<1> QED BY <1>1, <1>4

\* Induction over the parts of a frame, for ResponsesPart: its folds stay in V,
\* and whatever relation J each part keeps holds at the end.
LEMMA ResponsesParts ==
  ASSUME NEW V, NEW D, NEW base \in V, NEW q \in Seq(D),
         \A v \in V, d \in D : ResponsesPart(v, d) \in V,
         NEW J, << 0, base >> \in J,
         \A i \in 1 .. Len(q), v \in V :
           << i - 1, v >> \in J => << i, ResponsesPart(v, q[i]) >> \in J
  PROVE  /\ FoldLeft(ResponsesPart, base, q) \in V
         /\ << Len(q), FoldLeft(ResponsesPart, base, q) >> \in J
<1> DEFINE f == [x \in V \X D |-> ResponsesPart(x[1], x[2])]
           Is(g) == g = [t \in SUBSET (DOMAIN q) |->
                           IF t = {} THEN base ELSE ResponsesPart(g[t \ {Max(t)}], q[Max(t)])]
           c == CHOOSE g : Is(g)
<1>1. f \in [V \X D -> V] /\ \A v \in V, d \in D : f[<< v, d >>] = ResponsesPart(v, d)  OBVIOUS
<1>2. DOMAIN q = 1 .. Len(q) /\ \A i \in 1 .. Len(q) : q[i] \in D  OBVIOUS
<1>3. \A t \in SUBSET (1 .. Len(q)) : t \ {Max(t)} \in SUBSET (1 .. Len(q))  OBVIOUS
<1> HIDE DEF f
<1>4. PICK g \in [SUBSET (1 .. Len(q)) -> V] : Folds(g, f, base, q, Len(q))  BY <1>1, FoldExists
<1>5. Is(g)
  <2>1. ASSUME NEW t \in SUBSET (1 .. Len(q))
        PROVE  g[t] = IF t = {} THEN base ELSE ResponsesPart(g[t \ {Max(t)}], q[Max(t)])
    <3>1. CASE t # {}
      <4>1. Max(t) \in 1 .. Len(q) /\ g[t] = f[<< g[t \ {Max(t)}], q[Max(t)] >>]
        BY <1>4, <3>1 DEF Folds
      <4>2. g[t \ {Max(t)}] \in V  BY <1>3, <1>4
      <4> QED BY <4>1, <4>2, <1>1, <1>2, <3>1
    <3>2. CASE t = {}  BY <1>4, <3>2 DEF Folds
    <3> QED BY <3>1, <3>2
  <2> QED BY <2>1, <1>2, <1>4
<1>6. Is(c)  BY <1>5
<1>7. FoldLeft(ResponsesPart, base, q) = c[1 .. Len(q)]
  BY <1>2, Zenon DEF FoldLeft, MapThenFoldSet
<1> HIDE DEF c
<1>8. c[{}] = base /\ \A t \in SUBSET (1 .. Len(q)) :
        t # {} => c[t] = ResponsesPart(c[t \ {Max(t)}], q[Max(t)])  BY <1>2, <1>6
<1>9. \A t \in SUBSET (1 .. Len(q)) : t # {} => Max(t) \in 1 .. Len(q)  BY <1>4 DEF Folds
<1>10. \A t \in SUBSET (1 .. Len(q)) :
         t # {} /\ c[t \ {Max(t)}] \in V => c[t] = f[<< c[t \ {Max(t)}], q[Max(t)] >>]
  BY <1>1, <1>2, <1>8, <1>9
<1>11. \A i \in 1 .. Len(q), v \in V : << i - 1, v >> \in J => << i, f[<< v, q[i] >>] >> \in J
  BY <1>1, <1>2
<1>12. c[1 .. Len(q)] \in V /\ << Len(q), c[1 .. Len(q)] >> \in J
  <2>1. Steps(c, f, V, base, q)  BY <1>8, <1>10 DEF Steps
  <2>2. Keeps(J, f, V, base, q)  BY <1>11 DEF Keeps
  <2> QED BY <1>1, <2>1, <2>2, FoldInduction
<1> QED BY <1>7, <1>12

-----------------------------------------------------------------------------
(* The events of a stream. *)

\* The values of the stream.
Stage == {"start", "open", "open_part", "delta", "text_done", "close_part", "close",
          "stop_reason", "finish", "done", "error"}
EvKind == {"none", "thought", "text", "image", "call", "notice", "STOP", "MAX_TOKENS"}
Ev == [stage : Stage, kind : EvKind, index : Int, part : Int, seq : Int]

\* The stages and kinds the translators write are those of the stream.
LEMMA Words ==
  /\ "start" \in Stage /\ "open" \in Stage /\ "open_part" \in Stage /\ "delta" \in Stage
  /\ "text_done" \in Stage /\ "close_part" \in Stage /\ "close" \in Stage
  /\ "stop_reason" \in Stage /\ "finish" \in Stage /\ "done" \in Stage /\ "error" \in Stage
  /\ "none" \in EvKind /\ "thought" \in EvKind /\ "text" \in EvKind /\ "image" \in EvKind
  /\ "call" \in EvKind /\ "notice" \in EvKind /\ "STOP" \in EvKind /\ "MAX_TOKENS" \in EvKind
BY DEF Stage, EvKind

\* An event of this stage and index comes before position i.
Earlier(out, i, stage, index) ==
  \E j \in 1 .. i - 1 : out[j].stage = stage /\ out[j].index = index
At(out, stage) == { x \in Int : Earlier(out, Len(out) + 1, stage, x) }

\* An event written later changes nothing of what came before.
LEMMA EarlierAppend ==
  ASSUME NEW out \in Seq(Ev), NEW e \in Ev, NEW i \in 1 .. Len(out) + 1, NEW stage, NEW index
  PROVE  Earlier(Append(out, e), i, stage, index) <=> Earlier(out, i, stage, index)
BY DEF Earlier

\* One more event adds its index at its stage.
LEMMA AtAppend ==
  ASSUME NEW out \in Seq(Ev), NEW e \in Ev, NEW stage
  PROVE  At(Append(out, e), stage) = IF e.stage = stage THEN At(out, stage) \cup {e.index}
                                     ELSE At(out, stage)
<1> DEFINE o == Append(out, e)
<1>1. Len(o) = Len(out) + 1 /\ o[Len(out) + 1] = e /\ \A j \in 1 .. Len(out) : o[j] = out[j]
      /\ Len(out) \in Nat
  OBVIOUS
<1> HIDE DEF o
<1>2. ASSUME NEW x \in Int
      PROVE  Earlier(o, Len(o) + 1, stage, x) <=>
               Earlier(out, Len(out) + 1, stage, x) \/ (e.index = x /\ e.stage = stage)
  BY <1>1 DEF Earlier
<1>3. e.index \in Int  BY DEF Ev
<1> QED BY <1>2, <1>3 DEF At, o

Mids == {"delta", "text_done", "close_part", "close"}

\* Blocks and items are opened once and in order, and nothing is added to one
\* that is not open, what is late of these kinds excepted.
Fits(out, i, late) ==
  /\ out[i].stage = "open" =>
       /\ ~Earlier(out, i, "open", out[i].index)
       /\ \A k \in 0 .. out[i].index - 1 : Earlier(out, i, "open", k)
  /\ out[i].stage \in Mids =>
       /\ Earlier(out, i, "open", out[i].index)
       /\ Earlier(out, i, "close", out[i].index) =>
            out[i].kind \in late /\ out[i].stage = "delta"
AllFit(out, late) == \A i \in DOMAIN out : Fits(out, i, late)

\* A fitting stream stays fitting when the next event opens the next index, or
\* belongs to a block that is open.
LEMMA FitsAppend ==
  ASSUME NEW out \in Seq(Ev), NEW e \in Ev, NEW late, AllFit(out, late),
         e.stage = "open" => e.index \notin At(out, "open") /\ 0 .. e.index - 1 \subseteq At(out, "open"),
         e.stage \in Mids =>
           /\ e.index \in At(out, "open")
           /\ e.index \in At(out, "close") => e.kind \in late /\ e.stage = "delta"
  PROVE  AllFit(Append(out, e), late)
<1> DEFINE o == Append(out, e)
           n == Len(out) + 1
<1>1. Len(o) = n /\ o[n] = e /\ (\A j \in 1 .. Len(out) : o[j] = out[j]) /\ Len(out) \in Nat
      /\ DOMAIN o = 1 .. n /\ e.index \in Int /\ DOMAIN out = 1 .. Len(out)
  BY DEF Ev
<1>2. ASSUME NEW i \in 1 .. Len(out) PROVE Fits(o, i, late)
  <2>1. Fits(out, i, late)  BY <1>1 DEF AllFit
  <2>2. \A s, x : Earlier(o, i, s, x) <=> Earlier(out, i, s, x)  BY EarlierAppend
  <2> HIDE DEF o
  <2> QED BY <2>1, <2>2, <1>1 DEF Fits
<1>3. Fits(o, n, late)
  <2>1. \A s, x : Earlier(o, n, s, x) <=> Earlier(out, n, s, x)  BY <1>1, EarlierAppend
  <2>2. \A s : \A x \in Int : Earlier(out, n, s, x) <=> x \in At(out, s)  BY DEF At
  <2> HIDE DEF o, n
  <2>3. e.stage = "open" =>
          /\ ~Earlier(out, n, "open", e.index)
          /\ \A k \in 0 .. e.index - 1 : Earlier(out, n, "open", k)
    BY <2>2, <1>1
  <2>4. e.stage \in Mids =>
          /\ Earlier(out, n, "open", e.index)
          /\ Earlier(out, n, "close", e.index) => e.kind \in late /\ e.stage = "delta"
    BY <2>2, <1>1
  <2> QED BY <2>1, <2>3, <2>4, <1>1 DEF Fits
<1> HIDE DEF o
<1>4. AllFit(o, late)
  <2>1. \A i \in 1 .. n : i \in 1 .. Len(out) \/ i = n  BY <1>1
  <2> QED BY <2>1, <1>1, <1>2, <1>3 DEF AllFit
<1> QED BY <1>4 DEF o

\* The end of an answer: told once, when everything is closed, and followed by
\* nothing but [DONE] or an error.
Endings(out) == { i \in DOMAIN out : out[i].stage = "finish" }
Over(out) == Endings(out) # {}
EndsOnce(out) ==
  /\ \A i, j \in Endings(out) : i = j
  /\ \A i \in Endings(out), j \in DOMAIN out : j > i => out[j].stage \in {"done", "error"}
AllClosed(out) == \A i \in Endings(out), j \in DOMAIN out :
  out[j].stage = "open" => Earlier(out, i, "close", out[j].index)

\* A stream is over once its finish is written.
LEMMA EndingsAppend ==
  ASSUME NEW out \in Seq(Ev), NEW e \in Ev
  PROVE  /\ e.stage # "finish" => Endings(Append(out, e)) = Endings(out)
         /\ e.stage = "finish" => Endings(Append(out, e)) = Endings(out) \cup {Len(out) + 1}
         /\ Over(Append(out, e)) <=> Over(out) \/ e.stage = "finish"
<1> DEFINE o == Append(out, e)
           n == Len(out) + 1
<1>1. Len(o) = n /\ o[n] = e /\ (\A j \in 1 .. Len(out) : o[j] = out[j]) /\ Len(out) \in Nat
      /\ DOMAIN o = 1 .. n /\ DOMAIN out = 1 .. Len(out)
  OBVIOUS
<1> HIDE DEF o
<1>2. Endings(o) = Endings(out) \cup { i \in {n} : e.stage = "finish" }
  BY <1>1 DEF Endings
<1> QED BY <1>2 DEF Over, o

\* A stream that is not over violates nothing about its end.
LEMMA NotOverEndsOnce ==
  ASSUME NEW out, ~Over(out)
  PROVE  EndsOnce(out) /\ AllClosed(out)
BY DEF Over, EndsOnce, AllClosed

\* The answer finishes.
LEMMA EndsAppend ==
  ASSUME NEW out \in Seq(Ev), NEW e \in Ev, EndsOnce(out),
         Over(out) => e.stage \in {"done", "error"}
  PROVE  EndsOnce(Append(out, e))
<1> DEFINE o == Append(out, e)
           n == Len(out) + 1
<1>1. Len(o) = n /\ o[n] = e /\ (\A j \in 1 .. Len(out) : o[j] = out[j]) /\ Len(out) \in Nat
      /\ DOMAIN o = 1 .. n /\ DOMAIN out = 1 .. Len(out)
  OBVIOUS
<1>2. CASE e.stage = "finish"
  <2>1. ~Over(out)  BY <1>2
  <2>2. Endings(o) = {n}  BY <1>2, <2>1, EndingsAppend DEF Over
  <2> HIDE DEF o
  <2> QED BY <2>2, <1>1 DEF EndsOnce, o
<1>3. CASE e.stage # "finish"
  <2>1. Endings(o) = Endings(out) /\ \A i \in Endings(out) : i \in 1 .. Len(out)
    BY <1>3, <1>1, EndingsAppend DEF Endings
  <2> HIDE DEF o
  <2>2. \A i, j \in Endings(o) : i = j  BY <2>1 DEF EndsOnce
  <2>3. ASSUME NEW i \in Endings(o), NEW j \in DOMAIN o, j > i PROVE o[j].stage \in {"done", "error"}
    <3>1. CASE j = n  BY <3>1, <1>1, <2>1 DEF Over
    <3>2. CASE j # n  BY <3>2, <1>1, <2>1, <2>3 DEF EndsOnce
    <3> QED BY <3>1, <3>2
  <2> QED BY <2>2, <2>3 DEF EndsOnce, o
<1> QED BY <1>2, <1>3

\* Everything is closed at the end if it was when the finish was written, and
\* nothing is opened after it.
LEMMA ClosedAppend ==
  ASSUME NEW out \in Seq(Ev), NEW e \in Ev, AllClosed(out),
         e.stage = "finish" => ~Over(out) /\ At(out, "open") \subseteq At(out, "close"),
         Over(out) => e.stage \in {"done", "error"}
  PROVE  AllClosed(Append(out, e))
<1> DEFINE o == Append(out, e)
           n == Len(out) + 1
<1>1. Len(o) = n /\ o[n] = e /\ (\A j \in 1 .. Len(out) : o[j] = out[j]) /\ Len(out) \in Nat
      /\ DOMAIN o = 1 .. n /\ DOMAIN out = 1 .. Len(out)
  OBVIOUS
<1>1a. \A j \in 1 .. Len(out) : out[j].index \in Int
  <2>1. \A j \in 1 .. Len(out) : out[j] \in Ev  OBVIOUS
  <2> QED BY <2>1 DEF Ev
<1>2. \A s, x : \A i \in 1 .. n : Earlier(o, i, s, x) <=> Earlier(out, i, s, x)  BY EarlierAppend
<1>3. CASE e.stage = "finish"
  <2>1. Endings(o) = {n}  BY <1>3, EndingsAppend DEF Over
  <2>2. ASSUME NEW j \in DOMAIN o, o[j].stage = "open" PROVE Earlier(o, n, "close", o[j].index)
    <3>1. j \in 1 .. Len(out) /\ o[j] = out[j]  BY <2>2, <1>1, <1>3
    <3>2. Earlier(out, n, "open", out[j].index)  BY <3>1, <2>2, <1>1 DEF Earlier
    <3>3. out[j].index \in At(out, "open")  BY <3>1, <3>2, <1>1a DEF At
    <3>4. out[j].index \in At(out, "close")  BY <3>3, <2>2, <1>3
    <3>5. Earlier(out, n, "close", out[j].index)  BY <3>4 DEF At
    <3> QED BY <3>5, <3>1, <1>1, <1>2
  <2> HIDE DEF o
  <2> QED BY <2>1, <2>2, <1>1 DEF AllClosed, o
<1>4. CASE e.stage # "finish"
  <2>1. Endings(o) = Endings(out) /\ \A i \in Endings(out) : i \in 1 .. Len(out)
    BY <1>4, <1>1, EndingsAppend DEF Endings
  <2> HIDE DEF o
  <2>4. ASSUME NEW i \in Endings(o), NEW j \in DOMAIN o, o[j].stage = "open"
        PROVE  Earlier(o, i, "close", o[j].index)
    <3>1. j # n  BY <2>4, <2>1, <1>1 DEF Over
    <3>2. j \in DOMAIN out /\ o[j] = out[j]  BY <3>1, <1>1
    <3>3. Earlier(out, i, "close", out[j].index)  BY <3>2, <2>4, <2>1 DEF AllClosed
    <3> QED BY <3>2, <3>3, <2>1, <1>1, <1>2
  <2> QED BY <2>4 DEF AllClosed, o
<1> QED BY <1>3, <1>4

-----------------------------------------------------------------------------
(* Responses: its events, items and parts. *)

Kind == {"thought", "text", "image", "call"}
PartSet == [kind : Kind, id : Nat \ {0}]
FrameSet == { f \in [torn : BOOLEAN, parts : Seq(PartSet), finish : {"none", "STOP", "MAX_TOKENS"},
                     blocked : BOOLEAN] : f.blocked => f.finish = "none" /\ f.parts = <<>> }
Finishing(f) == f.finish # "none" \/ f.blocked

\* Responses
ResponsesState == [seq : Nat, created : BOOLEAN, next : Nat, message : Int, reasoning : Int,
                   noticed : BOOLEAN, completed : BOOLEAN, out : Seq(Ev)]
EventAt(stage, kind, index, part, n) ==
  [stage |-> stage, kind |-> kind, index |-> index, part |-> part, seq |-> n]
Numbered(s) == s.seq = Len(s.out) /\ \A i \in DOMAIN s.out : s.out[i].seq = i

\* pushEvent() appends one event with the next sequence number and touches
\* nothing else of the state.
LEMMA PushIs ==
  ASSUME NEW s \in ResponsesState, NEW stage \in Stage, NEW kind \in EvKind, NEW index \in Int,
         NEW part \in Int
  PROVE  LET r == Push(s, stage, kind, index, part) IN
         /\ r \in ResponsesState
         /\ EventAt(stage, kind, index, part, s.seq + 1) \in Ev
         /\ r.out = Append(s.out, EventAt(stage, kind, index, part, s.seq + 1))
         /\ r.seq = s.seq + 1 /\ r.created = s.created /\ r.next = s.next
         /\ r.message = s.message /\ r.reasoning = s.reasoning /\ r.noticed = s.noticed
         /\ r.completed = s.completed
         /\ Numbered(s) => Numbered(r)
<1> DEFINE r == Push(s, stage, kind, index, part)
           e == EventAt(stage, kind, index, part, s.seq + 1)
<1>1. e \in Ev  BY DEF ResponsesState, EventAt, Ev
<1>2. [Event(stage, kind, index, part) EXCEPT !.seq = s.seq + 1] = e  BY DEF Event, EventAt
<1>3. r = [s EXCEPT !.seq = s.seq + 1, !.out = Append(s.out, e)]  BY <1>2 DEF Push
<1> HIDE DEF e, r
<1>4. r.out = Append(s.out, e) /\ r.seq = s.seq + 1 /\ r.created = s.created /\ r.next = s.next
      /\ r.message = s.message /\ r.reasoning = s.reasoning /\ r.noticed = s.noticed
      /\ r.completed = s.completed
  BY <1>3 DEF ResponsesState
<1>5. s.out \in Seq(Ev) /\ s.seq \in Nat  BY DEF ResponsesState
<1>6. r \in ResponsesState
  <2>1. Append(s.out, e) \in Seq(Ev) /\ s.seq + 1 \in Nat  BY <1>1, <1>5
  <2> QED BY <2>1, <1>3 DEF ResponsesState
<1>7. ASSUME Numbered(s) PROVE Numbered(r)
  <2>1. s.seq = Len(s.out) /\ \A i \in 1 .. Len(s.out) : s.out[i].seq = i  BY <1>7, <1>5 DEF Numbered
  <2>2. e.seq = s.seq + 1  BY DEF e, EventAt
  <2>3. \A i \in 1 .. Len(s.out) + 1 : Append(s.out, e)[i].seq = i  BY <2>1, <2>2, <1>1, <1>5
  <2>4. Len(Append(s.out, e)) = Len(s.out) + 1  BY <1>1, <1>5
  <2> QED BY <2>1, <2>3, <2>4, <1>4 DEF Numbered
<1> QED BY <1>1, <1>4, <1>6, <1>7 DEF e, r

\* One more event: it goes where it may.
MayAdd(out, stage, index) ==
  /\ AllFit(out, {})
  /\ stage = "open" => index \notin At(out, "open") /\ 0 .. index - 1 \subseteq At(out, "open")
  /\ stage \in Mids => index \in At(out, "open") /\ index \notin At(out, "close")
Added(out, stage, index, o) ==
  /\ AllFit(o, {})
  /\ \A x : At(o, x) = IF stage = x THEN At(out, x) \cup {index} ELSE At(out, x)
  /\ Over(o) <=> Over(out) \/ stage = "finish"

\* An event pushed where it may be added keeps the stream fitting.
LEMMA PushFits ==
  ASSUME NEW s \in ResponsesState, NEW stage \in Stage, NEW kind \in EvKind, NEW index \in Int,
         NEW part \in Int, MayAdd(s.out, stage, index)
  PROVE  Added(s.out, stage, index, Push(s, stage, kind, index, part).out)
<1> DEFINE r == Push(s, stage, kind, index, part)
           e == EventAt(stage, kind, index, part, s.seq + 1)
<1>1. e \in Ev /\ r.out = Append(s.out, e)  BY Words, PushIs
<1>2. s.out \in Seq(Ev)  BY DEF ResponsesState
<1>3. e.stage = stage /\ e.index = index  BY DEF EventAt
<1> HIDE DEF e
<1>4. AllFit(Append(s.out, e), {})  BY <1>1, <1>2, <1>3, FitsAppend DEF MayAdd
<1>5. \A x : At(Append(s.out, e), x) = IF e.stage = x THEN At(s.out, x) \cup {e.index} ELSE At(s.out, x)
  BY <1>1, <1>2, AtAppend
<1>6. Over(Append(s.out, e)) <=> Over(s.out) \/ e.stage = "finish"  BY <1>1, <1>2, EndingsAppend
<1> HIDE DEF r
<1>7. Added(s.out, stage, index, r.out)  BY <1>1, <1>3, <1>4, <1>5, <1>6 DEF Added
<1> QED BY <1>7 DEF r

\* An answer under way: the items up to "next" are open, and the message and
\* the reasoning item are the only ones not closed.
ResponsesLive ==
  { s \in ResponsesState :
      /\ Numbered(s)
      /\ ~s.completed /\ ~Over(s.out) /\ AllFit(s.out, {})
      /\ At(s.out, "open") = 0 .. s.next - 1
      /\ s.message # Absent => s.message \in 0 .. s.next - 1
      /\ s.reasoning # Absent => s.reasoning \in 0 .. s.next - 1
      /\ s.message # Absent => s.message # s.reasoning
      /\ At(s.out, "close") = (0 .. s.next - 1) \ {s.message, s.reasoning} }

\* The indexes up to the next one.
LEMMA OneMore == ASSUME NEW n \in Nat PROVE (0 .. n - 1) \cup {n} = 0 .. n
OBVIOUS

\* Items are taken in order: the next one is opened, as a message, as the
\* reasoning, or as neither.
Opened(s, m, g, r) ==
  /\ r \in ResponsesState /\ Numbered(r) /\ ~r.completed /\ ~Over(r.out) /\ AllFit(r.out, {})
  /\ r.next = s.next + 1 /\ r.message = m /\ r.reasoning = g /\ r.noticed = s.noticed
  /\ At(r.out, "open") = 0 .. s.next
  /\ At(r.out, "close") = At(s.out, "close")

\* Opening an item at the next index, with its part.
LEMMA OpenItem ==
  ASSUME NEW s \in ResponsesLive, NEW kind \in EvKind, NEW m \in {s.message, s.next},
         NEW g \in {s.reasoning, s.next},
         m = s.next => s.message = Absent /\ g # s.next,
         g = s.next => s.reasoning = Absent
  PROVE  Opened(s, m, g, Push([s EXCEPT !.message = m, !.reasoning = g, !.next = s.next + 1],
                              "open", kind, s.next, 0))
<1> DEFINE z == [s EXCEPT !.message = m, !.reasoning = g, !.next = s.next + 1]
           r == Push(z, "open", kind, s.next, 0)
<1>1. s \in ResponsesState /\ s.next \in Nat /\ s.message \in Int /\ s.reasoning \in Int
      /\ s.out \in Seq(Ev)  BY DEF ResponsesLive, ResponsesState
<1>2. /\ z \in ResponsesState /\ z.out = s.out /\ z.seq = s.seq /\ z.next = s.next + 1
      /\ z.message = m /\ z.reasoning = g /\ z.completed = s.completed /\ z.noticed = s.noticed
  <2>1. m \in Int /\ g \in Int /\ s.next + 1 \in Nat  BY <1>1
  <2> QED BY <2>1, <1>1 DEF ResponsesState
<1>3. Numbered(z)  BY <1>2 DEF ResponsesLive, Numbered
<1>4. At(s.out, "open") = 0 .. s.next - 1 /\ AllFit(s.out, {}) /\ ~Over(s.out) /\ ~s.completed
  BY DEF ResponsesLive
<1> HIDE DEF z
<1>5. /\ r \in ResponsesState /\ Numbered(r) /\ ~r.completed /\ r.next = s.next + 1 /\ r.message = m
      /\ r.reasoning = g /\ r.noticed = s.noticed
  <2>1. "open" \in Stage /\ 0 \in Int /\ s.next \in Int
    BY <1>1, Words
  <2> QED BY <2>1, <1>2, <1>3, <1>4, Words, PushIs
<1>6. Added(z.out, "open", s.next, r.out)
  <2>1. "open" \in Stage /\ 0 \in Int /\ s.next \in Int  BY <1>1, Words
  <2>2. MayAdd(z.out, "open", s.next)  BY <1>1, <1>2, <1>4 DEF MayAdd, Mids
  <2> QED BY <2>1, <2>2, <1>2, PushFits
<1> HIDE DEF r
<1>7. At(r.out, "open") = 0 .. s.next
  <2>1. At(r.out, "open") = At(s.out, "open") \cup {s.next}  BY <1>6, <1>2 DEF Added
  <2>2. At(r.out, "open") = (0 .. s.next - 1) \cup {s.next}  BY <2>1, <1>4
  <2> QED BY <2>2, <1>1, OneMore
<1>8. /\ At(r.out, "close") = At(s.out, "close") /\ AllFit(r.out, {}) /\ ~Over(r.out)
  BY <1>6, <1>2, <1>4 DEF Added
<1>9. Opened(s, m, g, r)  BY <1>5, <1>7, <1>8 DEF Opened
<1> QED BY <1>9 DEF r, z

\* An event about an open item, or about none, keeps the answer under way.
LEMMA PushLive ==
  ASSUME NEW s \in ResponsesLive, NEW stage \in Stage \ {"open", "close", "finish"},
         NEW kind \in EvKind, NEW index \in Int, NEW part \in Int,
         stage \in Mids => index \in {s.message, s.reasoning} \ {Absent}
  PROVE  LET r == Push(s, stage, kind, index, part) IN
         /\ r \in ResponsesLive
         /\ r.next = s.next /\ r.message = s.message /\ r.reasoning = s.reasoning
         /\ r.noticed = s.noticed
<1> DEFINE r == Push(s, stage, kind, index, part)
<1>1. s \in ResponsesState /\ AllFit(s.out, {})  BY DEF ResponsesLive
<1>2. /\ r \in ResponsesState /\ r.next = s.next /\ r.message = s.message /\ r.reasoning = s.reasoning
      /\ r.noticed = s.noticed /\ r.completed = s.completed
  BY <1>1, Words, PushIs
<1>3. Numbered(r)  BY <1>1, PushIs DEF ResponsesLive
<1>4. MayAdd(s.out, stage, index)  BY DEF ResponsesLive, MayAdd
<1>5. Added(s.out, stage, index, r.out)  BY <1>1, <1>4, PushFits
<1> HIDE DEF r
<1>6. At(r.out, "open") = At(s.out, "open") /\ At(r.out, "close") = At(s.out, "close")
      /\ AllFit(r.out, {}) /\ ~Over(r.out)
  BY <1>5 DEF Added, ResponsesLive
<1> QED BY <1>2, <1>3, <1>6 DEF ResponsesLive, r

\* ensureMessageItem() leaves a live stream with an open message.
LEMMA EnsureMessageLive ==
  ASSUME NEW s \in ResponsesLive, NEW r, r = EnsureMessageItem(s)
  PROVE  r \in ResponsesLive /\ r.message # Absent /\ r.noticed = s.noticed
<1>1. CASE s.message # Absent  BY <1>1 DEF EnsureMessageItem
<1>2. CASE s.message = Absent
  <2> DEFINE z == [s EXCEPT !.message = s.next, !.next = s.next + 1]
             a == Push(z, "open", "text", s.next, 0)
  <2>1. s \in ResponsesState /\ s.next \in Nat /\ s.reasoning \in Int
        /\ (s.reasoning # Absent => s.reasoning \in 0 .. s.next - 1)
    BY DEF ResponsesLive, ResponsesState
  <2>2. s.reasoning # s.next /\ Absent # s.next  BY <2>1 DEF Absent
  <2>3. z = [s EXCEPT !.message = s.next, !.reasoning = s.reasoning, !.next = s.next + 1]
    BY <2>1 DEF ResponsesState
  <2>4. r = Push(a, "open_part", "text", s.next, 0)  BY <1>2 DEF EnsureMessageItem
  <2> HIDE DEF z
  <2>5. Opened(s, s.next, s.reasoning, a)  BY <1>2, <2>2, <2>3, Words, OpenItem
  <2> HIDE DEF a
  <2>6. At(s.out, "close") = (0 .. s.next - 1) \ {s.reasoning}
    BY <1>2, <2>1 DEF ResponsesLive, Absent
  <2>7. a \in ResponsesLive
    <3>1. At(a.out, "open") = 0 .. a.next - 1  BY <2>1, <2>5 DEF Opened
    <3>2. At(a.out, "close") = (0 .. a.next - 1) \ {a.message, a.reasoning}  BY <2>1, <2>2, <2>5, <2>6 DEF Opened
    <3>3. /\ a.message # Absent => a.message \in 0 .. a.next - 1
          /\ a.reasoning # Absent => a.reasoning \in 0 .. a.next - 1
          /\ a.message # Absent => a.message # a.reasoning
      BY <2>1, <2>2, <2>5 DEF Opened
    <3> QED BY <2>5, <3>1, <3>2, <3>3 DEF ResponsesLive, Opened
  <2>8. "open_part" \notin Mids  BY DEF Mids
  <2>9. a.message = s.next /\ a.noticed = s.noticed  BY <2>5 DEF Opened
  <2> QED BY <2>1, <2>2, <2>4, <2>9, <2>7, <2>8, Words, PushLive
<1> QED BY <1>1, <1>2

\* ensureReasoningItem() leaves a live stream with an open reasoning item.
LEMMA EnsureReasoningLive ==
  ASSUME NEW s \in ResponsesLive, NEW r, r = EnsureReasoningItem(s)
  PROVE  r \in ResponsesLive /\ r.reasoning # Absent
<1>1. CASE s.reasoning # Absent  BY <1>1 DEF EnsureReasoningItem
<1>2. CASE s.reasoning = Absent
  <2> DEFINE z == [s EXCEPT !.reasoning = s.next, !.next = s.next + 1]
             a == Push(z, "open", "thought", s.next, 0)
  <2>1. s \in ResponsesState /\ s.next \in Nat /\ s.message \in Int
        /\ (s.message # Absent => s.message \in 0 .. s.next - 1)
    BY DEF ResponsesLive, ResponsesState
  <2>2. s.message # s.next /\ Absent # s.next  BY <2>1 DEF Absent
  <2>3. z = [s EXCEPT !.message = s.message, !.reasoning = s.next, !.next = s.next + 1]
    BY <2>1 DEF ResponsesState
  <2>4. r = Push(a, "open_part", "thought", s.next, 0)  BY <1>2 DEF EnsureReasoningItem
  <2> HIDE DEF z
  <2>5. Opened(s, s.message, s.next, a)  BY <1>2, <2>2, <2>3, Words, OpenItem
  <2> HIDE DEF a
  <2>6. At(s.out, "close") = (0 .. s.next - 1) \ {s.message}
    BY <1>2, <2>1 DEF ResponsesLive, Absent
  <2>7. a \in ResponsesLive
    <3>1. At(a.out, "open") = 0 .. a.next - 1  BY <2>1, <2>5 DEF Opened
    <3>2. At(a.out, "close") = (0 .. a.next - 1) \ {a.message, a.reasoning}  BY <2>1, <2>2, <2>5, <2>6 DEF Opened
    <3>3. /\ a.message # Absent => a.message \in 0 .. a.next - 1
          /\ a.reasoning # Absent => a.reasoning \in 0 .. a.next - 1
          /\ a.message # Absent => a.message # a.reasoning
      BY <2>1, <2>2, <2>5 DEF Opened
    <3> QED BY <2>5, <3>1, <3>2, <3>3 DEF ResponsesLive, Opened
  <2>8. "open_part" \notin Mids  BY DEF Mids
  <2>9. a.reasoning = s.next  BY <2>5 DEF Opened
  <2> QED BY <2>1, <2>2, <2>4, <2>9, <2>7, <2>8, Words, PushLive
<1> QED BY <1>1, <1>2

\* A call opens an item, and closes it again.
LEMMA CallLive ==
  ASSUME NEW s \in ResponsesLive, NEW p \in PartSet
  PROVE  PushCall(s, p) \in ResponsesLive
<1> DEFINE a == Push(s, "open", "call", s.next, 0)
           b == Push(a, "delta", "call", s.next, p.id)
           c == Push(b, "close", "call", s.next, 0)
           z == [s EXCEPT !.message = s.message, !.reasoning = s.reasoning, !.next = s.next + 1]
           y == Push(z, "open", "call", s.next, 0)
<1>0. 0 \in Int /\ p.id \in Int  BY DEF PartSet
<1>1. s \in ResponsesState /\ s.next \in Nat /\ s.message \in Int /\ s.reasoning \in Int
  BY DEF ResponsesLive, ResponsesState
<1>1a. AllFit(s.out, {}) /\ ~Over(s.out) /\ Numbered(s) /\ ~s.completed
       /\ At(s.out, "open") = 0 .. s.next - 1
  BY DEF ResponsesLive
<1>1b. (s.message # Absent => s.message \in 0 .. s.next - 1)
       /\ (s.reasoning # Absent => s.reasoning \in 0 .. s.next - 1)
       /\ (s.message # Absent => s.message # s.reasoning)
       /\ At(s.out, "close") = (0 .. s.next - 1) \ {s.message, s.reasoning}
  BY DEF ResponsesLive
<1>2. /\ a \in ResponsesState /\ Numbered(a) /\ a.next = s.next /\ a.message = s.message
      /\ a.reasoning = s.reasoning /\ a.completed = s.completed
  BY <1>0, <1>1, <1>1a, Words, PushIs
<1>3. Added(s.out, "open", s.next, a.out)
  <2>1. MayAdd(s.out, "open", s.next)  BY <1>1, <1>1a DEF MayAdd, Mids
  <2> QED BY <2>1, <1>0, <1>1, Words, PushFits
<1> HIDE DEF a
<1>4. /\ b \in ResponsesState /\ Numbered(b) /\ b.next = s.next /\ b.message = s.message
      /\ b.reasoning = s.reasoning /\ b.completed = s.completed
  BY <1>0, <1>1, <1>2, Words, PushIs
<1>5. AllFit(a.out, {}) /\ ~Over(a.out) /\ At(a.out, "open") = 0 .. s.next
      /\ At(a.out, "close") = At(s.out, "close")
  <2>1. At(a.out, "open") = At(s.out, "open") \cup {s.next}  BY <1>3 DEF Added
  <2>2. At(a.out, "open") = (0 .. s.next - 1) \cup {s.next}  BY <2>1, <1>1a
  <2>3. At(a.out, "open") = 0 .. s.next  BY <2>2, <1>1, OneMore
  <2> QED BY <2>3, <1>1a, <1>3 DEF Added
<1>5a. s.next \notin At(s.out, "close")  BY <1>1, <1>1b
<1>6. Added(a.out, "delta", s.next, b.out)
  <2>1. MayAdd(a.out, "delta", s.next)  BY <1>1, <1>5, <1>5a DEF MayAdd
  <2> QED BY <2>1, <1>0, <1>1, <1>2, Words, PushFits
<1>6a. AllFit(b.out, {}) /\ ~Over(b.out) /\ At(b.out, "open") = 0 .. s.next
      /\ At(b.out, "close") = At(s.out, "close")
  BY <1>5, <1>6 DEF Added
<1> HIDE DEF b
<1>7. /\ c \in ResponsesState /\ Numbered(c) /\ c.next = s.next /\ c.message = s.message
      /\ c.reasoning = s.reasoning /\ c.completed = s.completed
  BY <1>0, <1>1, <1>4, Words, PushIs
<1>8. Added(b.out, "close", s.next, c.out)
  <2>1. MayAdd(b.out, "close", s.next)  BY <1>1, <1>6a, <1>5a DEF MayAdd
  <2> QED BY <2>1, <1>0, <1>1, <1>4, Words, PushFits
<1>8a. AllFit(c.out, {}) /\ ~Over(c.out) /\ At(c.out, "open") = 0 .. s.next
      /\ At(c.out, "close") = At(s.out, "close") \cup {s.next}
  BY <1>6a, <1>8 DEF Added
<1>9. PushCall(s, p) = [c EXCEPT !.next = c.next + 1]  BY DEF PushCall, a, b
<1> HIDE DEF c
<1> DEFINE r == [c EXCEPT !.next = c.next + 1]
<1>10. /\ r \in ResponsesState /\ r.next = s.next + 1 /\ r.message = s.message /\ r.seq = c.seq
       /\ r.reasoning = s.reasoning /\ r.completed = s.completed /\ r.out = c.out
  BY <1>7, <1>1, SMTT(30) DEF ResponsesState
<1>10a. Numbered(r)
  <2> HIDE DEF r
  <2> QED BY <1>7, <1>10 DEF Numbered
<1> HIDE DEF r
<1>11. At(r.out, "close") = (0 .. r.next - 1) \ {r.message, r.reasoning}
  BY <1>1, <1>1b, <1>8a, <1>10 DEF Absent
<1>12. At(r.out, "open") = 0 .. r.next - 1  BY <1>1, <1>8a, <1>10
<1>13. r.completed = FALSE /\ ~Over(r.out) /\ AllFit(r.out, {})  BY <1>1a, <1>8a, <1>10
<1>14. /\ r.message # Absent => r.message \in 0 .. r.next - 1
       /\ r.reasoning # Absent => r.reasoning \in 0 .. r.next - 1
       /\ r.message # Absent => r.message # r.reasoning
  BY <1>1, <1>1b, <1>10
<1>15. r \in ResponsesLive
  BY <1>10, <1>10a, <1>11, <1>12, <1>13, <1>14 DEF ResponsesLive
<1> QED BY <1>9, <1>15 DEF r

\* Every part keeps a live Responses stream live.
LEMMA ResponsesPartLive ==
  ASSUME NEW s \in ResponsesLive, NEW p \in PartSet
  PROVE  ResponsesPart(s, p) \in ResponsesLive
<1>1. p.kind \in Kind /\ p.id \in Int  BY DEF PartSet
<1>2. CASE p.kind = "thought"
  <2> DEFINE r == EnsureReasoningItem(s)
  <2>1. r \in ResponsesLive /\ r.reasoning # Absent  BY EnsureReasoningLive
  <2>2. ResponsesPart(s, p) = Push(r, "delta", "thought", r.reasoning, p.id)  BY <1>2 DEF ResponsesPart
  <2> HIDE DEF r
  <2>3. r.reasoning \in Int  BY <2>1 DEF ResponsesLive, ResponsesState
  <2> QED BY <2>1, <2>2, <2>3, <1>1, Words, PushLive
<1>3. CASE p.kind = "text"
  <2> DEFINE r == EnsureMessageItem(s)
  <2>1. r \in ResponsesLive /\ r.message # Absent  BY EnsureMessageLive
  <2>2. ResponsesPart(s, p) = Push(r, "delta", "text", r.message, p.id)  BY <1>3 DEF ResponsesPart
  <2> HIDE DEF r
  <2>3. r.message \in Int  BY <2>1 DEF ResponsesLive, ResponsesState
  <2> QED BY <2>1, <2>2, <2>3, <1>1, Words, PushLive
<1>4. CASE p.kind = "image" /\ ~s.noticed
  <2> DEFINE z == [s EXCEPT !.noticed = TRUE]
             r == EnsureMessageItem(z)
  <2>1. z \in ResponsesLive
    <3>1. /\ z \in ResponsesState /\ z.next = s.next /\ z.message = s.message /\ z.seq = s.seq
          /\ z.reasoning = s.reasoning /\ z.completed = s.completed /\ z.out = s.out
      BY DEF ResponsesLive, ResponsesState
    <3> HIDE DEF z
    <3> QED BY <3>1 DEF ResponsesLive, Numbered
  <2> HIDE DEF z
  <2>2. r \in ResponsesLive /\ r.message # Absent  BY <2>1, EnsureMessageLive
  <2>3. ResponsesPart(s, p) = Push(r, "delta", "notice", r.message, 0)  BY <1>4 DEF ResponsesPart, z
  <2> HIDE DEF r
  <2>4. r.message \in Int  BY <2>2 DEF ResponsesLive, ResponsesState
  <2> QED BY <2>2, <2>3, <2>4, Words, PushLive
<1>5. CASE p.kind = "image" /\ s.noticed  BY <1>5 DEF ResponsesPart
<1>6. CASE p.kind = "call"
  <2>1. ResponsesPart(s, p) = PushCall(s, p)  BY <1>6 DEF ResponsesPart
  <2> QED BY <2>1, CallLive
<1> QED BY <1>1, <1>2, <1>3, <1>4, <1>5, <1>6 DEF Kind

-----------------------------------------------------------------------------
(* Responses: the finish. *)

\* The same answer with one more event that does not finish it.
Going(s) == Numbered(s) /\ ~s.completed /\ ~Over(s.out) /\ AllFit(s.out, {})
Same(s, r) ==
  /\ r.next = s.next /\ r.message = s.message /\ r.reasoning = s.reasoning
  /\ r.noticed = s.noticed /\ r.completed = s.completed

\* The events that close the items come one after the other.
LEMMA PushGoing ==
  ASSUME NEW s \in ResponsesState, Going(s), NEW stage \in Stage \ {"finish"}, NEW kind \in EvKind,
         NEW index \in Int, NEW part \in Int, MayAdd(s.out, stage, index)
  PROVE  LET r == Push(s, stage, kind, index, part) IN
         r \in ResponsesState /\ Going(r) /\ Same(s, r) /\ Added(s.out, stage, index, r.out)
<1> DEFINE r == Push(s, stage, kind, index, part)
<1>1. r \in ResponsesState /\ Same(s, r) /\ Numbered(r)  BY PushIs DEF Same, Going
<1>2. Added(s.out, stage, index, r.out)  BY PushFits
<1> HIDE DEF r
<1>3. Going(r)  BY <1>1, <1>2 DEF Going, Same, Added
<1> QED BY <1>1, <1>2, <1>3 DEF r

\* An item is closed in three steps.
LEMMA CloseItem ==
  ASSUME NEW s \in ResponsesState, Going(s), NEW kind \in EvKind, NEW index \in Int,
         index \in At(s.out, "open"), index \notin At(s.out, "close")
  PROVE  LET r == Push(Push(Push(s, "text_done", kind, index, 0), "close_part", kind, index, 0),
                       "close", kind, index, 0) IN
         /\ r \in ResponsesState /\ Going(r) /\ Same(s, r)
         /\ At(r.out, "open") = At(s.out, "open")
         /\ At(r.out, "close") = At(s.out, "close") \cup {index}
<1> DEFINE a == Push(s, "text_done", kind, index, 0)
           b == Push(a, "close_part", kind, index, 0)
           r == Push(b, "close", kind, index, 0)
<1>0. 0 \in Int /\ AllFit(s.out, {})  BY DEF Going
<1>1. a \in ResponsesState /\ Going(a) /\ Same(s, a) /\ Added(s.out, "text_done", index, a.out)
  <2>1. MayAdd(s.out, "text_done", index)  BY <1>0 DEF MayAdd
  <2> QED BY <2>1, <1>0, Words, PushGoing
<1> HIDE DEF a
<1>2. /\ At(a.out, "open") = At(s.out, "open") /\ At(a.out, "close") = At(s.out, "close")
      /\ AllFit(a.out, {})
  BY <1>1 DEF Added
<1>3. b \in ResponsesState /\ Going(b) /\ Same(a, b) /\ Added(a.out, "close_part", index, b.out)
  <2>1. MayAdd(a.out, "close_part", index)  BY <1>2 DEF MayAdd
  <2> QED BY <2>1, <1>0, <1>1, Words, PushGoing
<1> HIDE DEF b
<1>4. /\ At(b.out, "open") = At(s.out, "open") /\ At(b.out, "close") = At(s.out, "close")
      /\ AllFit(b.out, {})
  BY <1>2, <1>3 DEF Added
<1>5. r \in ResponsesState /\ Going(r) /\ Same(b, r) /\ Added(b.out, "close", index, r.out)
  <2>1. MayAdd(b.out, "close", index)  BY <1>4 DEF MayAdd
  <2> QED BY <2>1, <1>0, <1>3, Words, PushGoing
<1> HIDE DEF r
<1>6. At(r.out, "open") = At(s.out, "open") /\ At(r.out, "close") = At(s.out, "close") \cup {index}
  BY <1>4, <1>5 DEF Added
<1>7. Same(s, r)  BY <1>1, <1>3, <1>5 DEF Same
<1> QED BY <1>5, <1>6, <1>7 DEF r, b, a

\* A finished answer.
ResponsesOver ==
  { s \in ResponsesState :
      /\ Numbered(s) /\ s.completed /\ Over(s.out)
      /\ AllFit(s.out, {}) /\ EndsOnce(s.out) /\ AllClosed(s.out) }

\* The finish closes both items before it is told.
LEMMA ResponsesFinish ==
  ASSUME NEW s \in ResponsesLive, NEW reason \in EvKind
  PROVE  [ Push(FinalizeMessageItem(FinalizeReasoningItem(s)), "finish", reason, 0, 0)
           EXCEPT !.completed = TRUE ] \in ResponsesOver
<1> DEFINE a == FinalizeReasoningItem(s)
           b == FinalizeMessageItem(a)
           c == Push(b, "finish", reason, 0, 0)
           r == [c EXCEPT !.completed = TRUE]
<1>1. /\ s \in ResponsesState /\ Going(s) /\ s.message \in Int /\ s.reasoning \in Int /\ s.next \in Nat
      /\ s.message # Absent => s.message \in 0 .. s.next - 1
      /\ s.reasoning # Absent => s.reasoning \in 0 .. s.next - 1
      /\ s.message # Absent => s.message # s.reasoning
      /\ At(s.out, "open") = 0 .. s.next - 1
  BY DEF ResponsesLive, Going, ResponsesState
<1>2. At(s.out, "close") = (0 .. s.next - 1) \ {s.message, s.reasoning}  BY DEF ResponsesLive
<1>3. /\ a \in ResponsesState /\ Going(a) /\ Same(s, a)
      /\ At(a.out, "open") = At(s.out, "open")
      /\ At(a.out, "close") = (0 .. s.next - 1) \ {s.message}
  <2>1. CASE s.reasoning = Absent
    <3>1. a = s  BY <2>1 DEF FinalizeReasoningItem
    <3>2. At(s.out, "close") = (0 .. s.next - 1) \ {s.message}  BY <2>1, <1>1, <1>2 DEF Absent
    <3> HIDE DEF a
    <3> QED BY <3>1, <3>2, <1>1 DEF Same
  <2>2. CASE s.reasoning # Absent
    <3>1. a = Push(Push(Push(s, "text_done", "thought", s.reasoning, 0),
                        "close_part", "thought", s.reasoning, 0),
                   "close", "thought", s.reasoning, 0)
      BY <2>2 DEF FinalizeReasoningItem
    <3>2. s.reasoning \in At(s.out, "open") /\ s.reasoning \notin At(s.out, "close")
      BY <2>2, <1>1, <1>2
    <3> HIDE DEF a
    <3>3. /\ a \in ResponsesState /\ Going(a) /\ Same(s, a)
          /\ At(a.out, "open") = At(s.out, "open")
          /\ At(a.out, "close") = At(s.out, "close") \cup {s.reasoning}
      BY <3>1, <3>2, <1>1, Words, CloseItem, ZenonT(60)
    <3>4. At(a.out, "close") = (0 .. s.next - 1) \ {s.message}  BY <3>3, <2>2, <1>1, <1>2
    <3> QED BY <3>3, <3>4
  <2> QED BY <2>1, <2>2
<1> HIDE DEF a
<1>4. /\ b \in ResponsesState /\ Going(b)
      /\ At(b.out, "open") = At(s.out, "open")
      /\ At(b.out, "close") = 0 .. s.next - 1
  <2>0. a.message = s.message  BY <1>3 DEF Same
  <2>1. CASE s.message = Absent
    <3>1. b = a  BY <2>0, <2>1 DEF FinalizeMessageItem
    <3>2. At(a.out, "close") = 0 .. s.next - 1
      <4>1. s.message \notin 0 .. s.next - 1  BY <2>1, <1>1 DEF Absent
      <4> QED BY <4>1, <1>3
    <3> HIDE DEF b
    <3> QED BY <3>1, <3>2, <1>3
  <2>2. CASE s.message # Absent
    <3>1. b = Push(Push(Push(a, "text_done", "text", s.message, 0),
                        "close_part", "text", s.message, 0),
                   "close", "text", s.message, 0)
      BY <2>0, <2>2 DEF FinalizeMessageItem
    <3>2. s.message \in At(a.out, "open") /\ s.message \notin At(a.out, "close")
      BY <2>2, <1>1, <1>3
    <3> HIDE DEF b
    <3>3. /\ b \in ResponsesState /\ Going(b)
          /\ At(b.out, "open") = At(a.out, "open")
          /\ At(b.out, "close") = At(a.out, "close") \cup {s.message}
      <4>1. "text" \in EvKind /\ s.message \in Int  BY <1>1, Words
      <4>2. a \in ResponsesState /\ Going(a)  BY <1>3
      <4> QED BY <3>1, <3>2, <4>1, <4>2, CloseItem
    <3>4. At(b.out, "close") = 0 .. s.next - 1  BY <3>3, <2>2, <1>1, <1>3
    <3> QED BY <3>3, <3>4, <1>3
  <2> QED BY <2>1, <2>2
<1> HIDE DEF b
<1> DEFINE e == EventAt("finish", reason, 0, 0, b.seq + 1)
<1>5. /\ c \in ResponsesState /\ e \in Ev /\ c.out = Append(b.out, e) /\ Numbered(c)
  <2>1. 0 \in Int /\ "finish" \in Stage /\ b \in ResponsesState /\ Numbered(b)
    BY <1>4, Words DEF Going
  <2> QED BY <2>1, PushIs
<1>6. Added(b.out, "finish", 0, c.out)
  <2>1. MayAdd(b.out, "finish", 0)  BY <1>4 DEF MayAdd, Mids, Going
  <2> QED BY <2>1, <1>4, Words, PushFits
<1>7. e.stage = "finish" /\ ~Over(b.out) /\ At(b.out, "open") \subseteq At(b.out, "close")
      /\ b.out \in Seq(Ev)
  BY <1>1, <1>4 DEF EventAt, Going, ResponsesState
<1> HIDE DEF c, e
<1>8. EndsOnce(c.out) /\ AllClosed(c.out)  BY <1>5, <1>7, NotOverEndsOnce, EndsAppend, ClosedAppend
<1>9. AllFit(c.out, {}) /\ Over(c.out)  BY <1>6 DEF Added
<1>10. /\ r \in ResponsesState /\ r.completed = TRUE /\ r.out = c.out /\ r.seq = c.seq
  BY <1>5 DEF ResponsesState
<1> HIDE DEF r
<1>11. Numbered(r)  BY <1>5, <1>10 DEF Numbered
<1>12. r \in ResponsesOver  BY <1>8, <1>9, <1>10, <1>11 DEF ResponsesOver
<1> QED BY <1>12 DEF r, c, b, a

-----------------------------------------------------------------------------
(* Responses: frames and chunks. *)

\* The same induction over the frames of a chunk, for ResponsesPiece.
LEMMA ResponsesPieces ==
  ASSUME NEW V, NEW D, NEW base \in V, NEW q \in Seq(D),
         \A v \in V, d \in D : ResponsesPiece(v, d) \in V,
         NEW J, << 0, base >> \in J,
         \A i \in 1 .. Len(q), v \in V :
           << i - 1, v >> \in J => << i, ResponsesPiece(v, q[i]) >> \in J
  PROVE  /\ FoldLeft(ResponsesPiece, base, q) \in V
         /\ << Len(q), FoldLeft(ResponsesPiece, base, q) >> \in J
<1> DEFINE f == [x \in V \X D |-> ResponsesPiece(x[1], x[2])]
           Is(g) == g = [t \in SUBSET (DOMAIN q) |->
                           IF t = {} THEN base ELSE ResponsesPiece(g[t \ {Max(t)}], q[Max(t)])]
           c == CHOOSE g : Is(g)
<1>1. f \in [V \X D -> V] /\ \A v \in V, d \in D : f[<< v, d >>] = ResponsesPiece(v, d)  OBVIOUS
<1>2. DOMAIN q = 1 .. Len(q) /\ \A i \in 1 .. Len(q) : q[i] \in D  OBVIOUS
<1>3. \A t \in SUBSET (1 .. Len(q)) : t \ {Max(t)} \in SUBSET (1 .. Len(q))  OBVIOUS
<1> HIDE DEF f
<1>4. PICK g \in [SUBSET (1 .. Len(q)) -> V] : Folds(g, f, base, q, Len(q))  BY <1>1, FoldExists
<1>5. Is(g)
  <2>1. ASSUME NEW t \in SUBSET (1 .. Len(q))
        PROVE  g[t] = IF t = {} THEN base ELSE ResponsesPiece(g[t \ {Max(t)}], q[Max(t)])
    <3>1. CASE t # {}
      <4>1. Max(t) \in 1 .. Len(q) /\ g[t] = f[<< g[t \ {Max(t)}], q[Max(t)] >>]
        BY <1>4, <3>1 DEF Folds
      <4>2. g[t \ {Max(t)}] \in V  BY <1>3, <1>4
      <4> QED BY <4>1, <4>2, <1>1, <1>2, <3>1
    <3>2. CASE t = {}  BY <1>4, <3>2 DEF Folds
    <3> QED BY <3>1, <3>2
  <2> QED BY <2>1, <1>2, <1>4
<1>6. Is(c)  BY <1>5
<1>7. FoldLeft(ResponsesPiece, base, q) = c[1 .. Len(q)]
  BY <1>2, Zenon DEF FoldLeft, MapThenFoldSet
<1> HIDE DEF c
<1>8. c[{}] = base /\ \A t \in SUBSET (1 .. Len(q)) :
        t # {} => c[t] = ResponsesPiece(c[t \ {Max(t)}], q[Max(t)])  BY <1>2, <1>6
<1>9. \A t \in SUBSET (1 .. Len(q)) : t # {} => Max(t) \in 1 .. Len(q)  BY <1>4 DEF Folds
<1>10. \A t \in SUBSET (1 .. Len(q)) :
         t # {} /\ c[t \ {Max(t)}] \in V => c[t] = f[<< c[t \ {Max(t)}], q[Max(t)] >>]
  BY <1>1, <1>2, <1>8, <1>9
<1>11. \A i \in 1 .. Len(q), v \in V : << i - 1, v >> \in J => << i, f[<< v, q[i] >>] >> \in J
  BY <1>1, <1>2
<1>12. c[1 .. Len(q)] \in V /\ << Len(q), c[1 .. Len(q)] >> \in J
  <2>1. Steps(c, f, V, base, q)  BY <1>8, <1>10 DEF Steps
  <2>2. Keeps(J, f, V, base, q)  BY <1>11 DEF Keeps
  <2> QED BY <1>1, <2>1, <2>2, FoldInduction
<1> QED BY <1>7, <1>12

\* The types of the translator's states.
LEMMA ResponsesPartTyped ==
  ASSUME NEW s \in ResponsesState, NEW p \in PartSet
  PROVE  ResponsesPart(s, p) \in ResponsesState
<1>1. p.kind \in Kind /\ p.id \in Int /\ 0 \in Int  BY DEF PartSet
<1>2. ASSUME NEW z \in ResponsesState
      PROVE  EnsureMessageItem(z) \in ResponsesState /\ EnsureReasoningItem(z) \in ResponsesState
  <2>1. z.next \in Int /\ z.next \in Nat /\ z.next + 1 \in Nat  BY DEF ResponsesState
  <2>2. [z EXCEPT !.message = z.next, !.next = z.next + 1] \in ResponsesState
        /\ [z EXCEPT !.reasoning = z.next, !.next = z.next + 1] \in ResponsesState
    BY <2>1 DEF ResponsesState
  <2>3. Push(Push([z EXCEPT !.message = z.next, !.next = z.next + 1], "open", "text", z.next, 0),
             "open_part", "text", z.next, 0) \in ResponsesState
    BY <2>1, <2>2, <1>1, Words, PushIs
  <2>4. Push(Push([z EXCEPT !.reasoning = z.next, !.next = z.next + 1], "open", "thought", z.next, 0),
             "open_part", "thought", z.next, 0) \in ResponsesState
    BY <2>1, <2>2, <1>1, Words, PushIs
  <2>5. EnsureMessageItem(z) \in ResponsesState  BY <2>3 DEF EnsureMessageItem
  <2>6. EnsureReasoningItem(z) \in ResponsesState  BY <2>4 DEF EnsureReasoningItem
  <2> QED BY <2>5, <2>6
<1>3. CASE p.kind = "thought"
  <2> DEFINE r == EnsureReasoningItem(s)
  <2>1. ResponsesPart(s, p) = Push(r, "delta", "thought", r.reasoning, p.id)  BY <1>3 DEF ResponsesPart
  <2>2. r \in ResponsesState /\ r.reasoning \in Int  BY <1>2 DEF ResponsesState
  <2> HIDE DEF r
  <2> QED BY <2>1, <2>2, <1>1, Words, PushIs
<1>4. CASE p.kind = "text"
  <2> DEFINE r == EnsureMessageItem(s)
  <2>1. ResponsesPart(s, p) = Push(r, "delta", "text", r.message, p.id)  BY <1>4 DEF ResponsesPart
  <2>2. r \in ResponsesState /\ r.message \in Int  BY <1>2 DEF ResponsesState
  <2> HIDE DEF r
  <2> QED BY <2>1, <2>2, <1>1, Words, PushIs
<1>5. CASE p.kind = "image" /\ ~s.noticed
  <2> DEFINE z == [s EXCEPT !.noticed = TRUE]
             r == EnsureMessageItem(z)
  <2>1. ResponsesPart(s, p) = Push(r, "delta", "notice", r.message, 0)  BY <1>5 DEF ResponsesPart
  <2>2. z \in ResponsesState  BY DEF ResponsesState
  <2> HIDE DEF z
  <2>3. r \in ResponsesState  BY <2>2, <1>2
  <2> HIDE DEF r
  <2>4. r.message \in Int  BY <2>3 DEF ResponsesState
  <2> QED BY <2>1, <2>3, <2>4, <1>1, Words, PushIs
<1>6. CASE p.kind = "image" /\ s.noticed  BY <1>6 DEF ResponsesPart
<1>7. CASE p.kind = "call"
  <2> DEFINE c == Push(Push(Push(s, "open", "call", s.next, 0), "delta", "call", s.next, p.id),
                       "close", "call", s.next, 0)
  <2>1. s.next \in Int  BY DEF ResponsesState
  <2>2. c \in ResponsesState  BY <2>1, <1>1, Words, PushIs
  <2>3. ResponsesPart(s, p) = [c EXCEPT !.next = c.next + 1]  BY <1>7 DEF ResponsesPart, PushCall
  <2> HIDE DEF c
  <2>4. c.next + 1 \in Nat  BY <2>2 DEF ResponsesState
  <2>5. [c EXCEPT !.next = c.next + 1] \in ResponsesState  BY <2>2, <2>4 DEF ResponsesState
  <2> QED BY <2>3, <2>5
<1> QED BY <1>1, <1>3, <1>4, <1>5, <1>6, <1>7 DEF Kind

\* The start of a stream, told once.
Begun(s) == IF s.created THEN s
            ELSE Push(Push([s EXCEPT !.created = TRUE], "start", "none", 0, 0),
                      "start", "none", 0, 0)

\* The opening events keep the type of the state.
LEMMA BegunTyped ==
  ASSUME NEW s \in ResponsesState
  PROVE  Begun(s) \in ResponsesState
<1>1. [s EXCEPT !.created = TRUE] \in ResponsesState  BY DEF ResponsesState
<1>2. Push(Push([s EXCEPT !.created = TRUE], "start", "none", 0, 0), "start", "none", 0, 0)
        \in ResponsesState
  <2>1. 0 \in Int  OBVIOUS
  <2> QED BY <1>1, <2>1, Words, PushIs
<1> QED BY <1>2 DEF Begun

\* The opening events open nothing.
LEMMA BegunLive ==
  ASSUME NEW s \in ResponsesLive
  PROVE  Begun(s) \in ResponsesLive
<1> DEFINE z == [s EXCEPT !.created = TRUE]
<1>1. z \in ResponsesLive
  <2>1. /\ z \in ResponsesState /\ z.next = s.next /\ z.message = s.message /\ z.seq = s.seq
        /\ z.reasoning = s.reasoning /\ z.completed = s.completed /\ z.out = s.out
    BY DEF ResponsesLive, ResponsesState
  <2> HIDE DEF z
  <2> QED BY <2>1 DEF ResponsesLive, Numbered
<1> HIDE DEF z
<1> DEFINE a == Push(z, "start", "none", 0, 0)
<1>2. "start" \in Stage \ {"open", "close", "finish"} /\ "start" \notin Mids /\ 0 \in Int
      /\ "none" \in EvKind
  BY Words DEF Mids
<1>3. a \in ResponsesLive  BY <1>1, <1>2, PushLive
<1> HIDE DEF a
<1>4. Push(a, "start", "none", 0, 0) \in ResponsesLive  BY <1>3, <1>2, PushLive
<1> QED BY <1>4 DEF Begun, a, z

\* A frame finishes the answer if it has a reason, and else leaves it under way.
LEMMA ResponsesFrameLive ==
  ASSUME NEW s \in ResponsesLive, NEW f \in FrameSet
  PROVE  LET r == ResponsesFrame(s, f) IN
         /\ f.finish = "none" => r \in ResponsesLive
         /\ f.finish # "none" => r \in ResponsesOver
<1> DEFINE r == ResponsesFrame(s, f)
           told == FoldLeft(ResponsesPart, Begun(s), f.parts)
<1>1. f.parts \in Seq(PartSet) /\ f.finish \in {"none", "STOP", "MAX_TOKENS"} /\ f.blocked \in BOOLEAN
      /\ (f.blocked => f.finish = "none")
  BY DEF FrameSet
<1>2. Begun(s) \in ResponsesLive  BY BegunLive
<1>3. told \in ResponsesLive
  <2>1. \A v \in ResponsesLive, d \in PartSet : ResponsesPart(v, d) \in ResponsesLive
    BY ResponsesPartLive
  <2> DEFINE J == Nat \X ResponsesLive
  <2>2. << 0, Begun(s) >> \in J  BY <1>2
  <2>3. \A i \in 1 .. Len(f.parts), v \in ResponsesLive :
          << i - 1, v >> \in J => << i, ResponsesPart(v, f.parts[i]) >> \in J
    BY <1>1, <2>1
  <2> HIDE DEF J
  <2> QED BY <1>1, <1>2, <2>1, <2>2, <2>3, ResponsesParts
<1>4. r = CASE f.blocked -> s
            [] ~f.blocked /\ (f.finish = "none" \/ told.completed) -> told
            [] OTHER -> [ Push(FinalizeMessageItem(FinalizeReasoningItem(told)),
                               "finish", f.finish, 0, 0) EXCEPT !.completed = TRUE ]
  BY DEF ResponsesFrame, Begun
<1>5. ~told.completed  BY <1>3 DEF ResponsesLive
<1> HIDE DEF told, r
<1>6. ASSUME f.blocked PROVE r \in ResponsesLive
  BY <1>6, <1>4
<1>7. ASSUME ~f.blocked, f.finish = "none" PROVE r \in ResponsesLive
  <2>1. r = told  BY <1>4, <1>7
  <2> QED BY <2>1, <1>3
<1>8. ASSUME ~f.blocked, f.finish # "none" PROVE r \in ResponsesOver
  <2>1. r = [ Push(FinalizeMessageItem(FinalizeReasoningItem(told)), "finish", f.finish, 0, 0)
              EXCEPT !.completed = TRUE ]  BY <1>4, <1>5, <1>8
  <2>2. f.finish \in EvKind  BY <1>1 DEF EvKind
  <2> QED BY <2>1, <2>2, <1>3, ResponsesFinish
<1>9. /\ f.finish = "none" => r \in ResponsesLive
      /\ f.finish # "none" => r \in ResponsesOver
  BY <1>1, <1>6, <1>7, <1>8
<1> QED BY <1>9 DEF r

\* Any frame keeps the type of the state, finished or not.
LEMMA ResponsesFrameTyped ==
  ASSUME NEW s \in ResponsesState, NEW f \in FrameSet
  PROVE  ResponsesFrame(s, f) \in ResponsesState
<1> DEFINE told == FoldLeft(ResponsesPart, Begun(s), f.parts)
           a == FinalizeReasoningItem(told)
           b == FinalizeMessageItem(a)
           c == Push(b, "finish", f.finish, 0, 0)
<1>1. f.parts \in Seq(PartSet) /\ f.finish \in EvKind  BY DEF FrameSet, EvKind
<1>2. told \in ResponsesState
  <2>1. \A v \in ResponsesState, d \in PartSet : ResponsesPart(v, d) \in ResponsesState
    BY ResponsesPartTyped
  <2>2. Begun(s) \in ResponsesState  BY BegunTyped
  <2> DEFINE J == Nat \X ResponsesState
  <2>3. << 0, Begun(s) >> \in J  BY <2>2
  <2>4. \A i \in 1 .. Len(f.parts), v \in ResponsesState :
          << i - 1, v >> \in J => << i, ResponsesPart(v, f.parts[i]) >> \in J
    BY <1>1, <2>1
  <2> HIDE DEF J
  <2> QED BY <1>1, <2>1, <2>2, <2>3, <2>4, ResponsesParts
<1> HIDE DEF told
<1>3. told.reasoning \in Int /\ 0 \in Int  BY <1>2 DEF ResponsesState
<1>4. a \in ResponsesState
  <2>1. Push(Push(Push(told, "text_done", "thought", told.reasoning, 0),
                  "close_part", "thought", told.reasoning, 0),
             "close", "thought", told.reasoning, 0) \in ResponsesState
    BY <1>2, <1>3, Words, PushIs
  <2> QED BY <2>1, <1>2 DEF FinalizeReasoningItem
<1> HIDE DEF a
<1>5. a.message \in Int  BY <1>4 DEF ResponsesState
<1>6. b \in ResponsesState
  <2>1. Push(Push(Push(a, "text_done", "text", a.message, 0),
                  "close_part", "text", a.message, 0),
             "close", "text", a.message, 0) \in ResponsesState
    BY <1>3, <1>4, <1>5, Words, PushIs
  <2> QED BY <2>1, <1>4 DEF FinalizeMessageItem
<1> HIDE DEF b
<1>7. c \in ResponsesState  BY <1>1, <1>3, <1>6, Words, PushIs
<1> HIDE DEF c
<1>8. [c EXCEPT !.completed = TRUE] \in ResponsesState  BY <1>7 DEF ResponsesState
<1>9. ResponsesFrame(s, f) = CASE f.blocked -> s
            [] ~f.blocked /\ (f.finish = "none" \/ told.completed) -> told
            [] OTHER -> [c EXCEPT !.completed = TRUE]
  BY DEF ResponsesFrame, Begun, told, a, b, c
<1> QED BY <1>2, <1>8, <1>9

\* A chunk: only its last frame may finish the answer.
LEMMA ResponsesChunkLive ==
  ASSUME NEW s \in ResponsesLive, NEW chunk \in Seq(FrameSet),
         \A i \in 1 .. Len(chunk) : Finishing(chunk[i]) => i = Len(chunk)
  PROVE  LET r == ResponsesChunk(s, chunk)
             told == Len(chunk) > 0 /\ chunk[Len(chunk)].finish # "none" /\ ~chunk[Len(chunk)].torn IN
         /\ ~told => r \in ResponsesLive
         /\ told => r \in ResponsesOver
<1> DEFINE V == ResponsesState
           Tells(i) == i > 0 /\ chunk[i].finish # "none" /\ ~chunk[i].torn
           Done(i, v) == (~Tells(i) => v \in ResponsesLive) /\ (Tells(i) => v \in ResponsesOver)
           J == { x \in Nat \X V : Done(x[1], x[2]) }
           r == FoldLeft(ResponsesPiece, s, chunk)
<1>1. s \in V /\ \A i \in 1 .. Len(chunk) : chunk[i] \in FrameSet  BY DEF ResponsesLive
<1>2. ASSUME NEW v \in V, NEW d \in FrameSet PROVE ResponsesPiece(v, d) \in V
  BY ResponsesFrameTyped DEF ResponsesPiece
<1>2a. chunk \in Seq(FrameSet) /\ Len(chunk) \in Nat  OBVIOUS
<1>3. << 0, s >> \in J  BY <1>1
<1>4. ASSUME NEW i \in 1 .. Len(chunk), NEW v \in V, << i - 1, v >> \in J
      PROVE  << i, ResponsesPiece(v, chunk[i]) >> \in J
  <2> DEFINE y == ResponsesPiece(v, chunk[i])
  <2>1. v \in ResponsesLive
    <3>1. Done(i - 1, v)  BY <1>4
    <3>2. ~Tells(i - 1)
      <4>1. CASE i = 1  BY <4>1
      <4>2. CASE i # 1
        <5>1. i - 1 \in 1 .. Len(chunk) /\ i - 1 # Len(chunk)  BY <4>2, <1>2a
        <5> QED BY <5>1 DEF Finishing
      <4> QED BY <4>1, <4>2
    <3> HIDE DEF Tells
    <3> QED BY <3>1, <3>2
  <2>2. y \in V /\ i \in Nat /\ i > 0 /\ chunk[i] \in FrameSet  BY <1>1, <1>2
  <2>3. Done(i, y)
    <3>1. CASE chunk[i].torn
      <4>1. y = v  BY <3>1 DEF ResponsesPiece
      <4> HIDE DEF y
      <4> QED BY <3>1, <4>1, <2>1
    <3>2. CASE ~chunk[i].torn
      <4>1. y = ResponsesFrame(v, chunk[i])  BY <3>2 DEF ResponsesPiece
      <4> HIDE DEF y
      <4>2. /\ chunk[i].finish = "none" => y \in ResponsesLive
            /\ chunk[i].finish # "none" => y \in ResponsesOver
        BY <4>1, <2>1, <2>2, ResponsesFrameLive
      <4> QED BY <3>2, <4>2, <2>2
    <3> QED BY <3>1, <3>2
  <2> HIDE DEF Done, y
  <2>4. << i, y >> \in J  BY <2>2, <2>3
  <2> QED BY <2>4 DEF y
<1> HIDE DEF V, J
<1>5. r \in V /\ << Len(chunk), r >> \in J
  BY <1>1, <1>2, <1>3, <1>4, ResponsesPieces
<1> HIDE DEF r
<1>6. Done(Len(chunk), r)
  <2> HIDE DEF Done
  <2> QED BY <1>5 DEF J
<1>7. /\ Tells(Len(chunk)) => r \in ResponsesOver
      /\ ~Tells(Len(chunk)) => r \in ResponsesLive
  BY <1>6
<1> QED BY <1>7 DEF r, ResponsesChunk

-----------------------------------------------------------------------------
(* FlattenSeq. *)

\* FlattenSeq concatenates from the left.
Runs(f, ss, n) == \A i \in 1 .. n : f[i] = IF i = 1 THEN ss[i] ELSE f[i - 1] \o ss[i]

\* A function that satisfies FlattenSeq's recursion exists.
LEMMA RunExists ==
  ASSUME NEW T, NEW ss \in Seq(Seq(T))
  PROVE  \E f \in [1 .. Len(ss) -> Seq(T)] : Runs(f, ss, Len(ss))
<1> DEFINE G(n) == \E f \in [1 .. n -> Seq(T)] : Runs(f, ss, n)
           U == { n \in Nat : n <= Len(ss) => G(n) }
<1>1. 0 \in U
  <2> DEFINE f == [i \in 1 .. 0 |-> << >>]
  <2>1. f \in [1 .. 0 -> Seq(T)] /\ Runs(f, ss, 0)  BY DEF Runs
  <2> QED BY <2>1
<1>2. ASSUME NEW n \in U PROVE n + 1 \in U
  <2>0. n \in Nat  OBVIOUS
  <2>1. SUFFICES ASSUME n + 1 <= Len(ss) PROVE G(n + 1)
    <3> HIDE DEF G
    <3> QED BY <2>0
  <2>2. PICK f \in [1 .. n -> Seq(T)] : Runs(f, ss, n)
    <3>1. G(n)
      <4> HIDE DEF G
      <4> QED BY <2>0, <2>1
    <3> QED BY <3>1
  <2>3. ss[n + 1] \in Seq(T)  BY <2>0, <2>1
  <2> DEFINE last == IF n = 0 THEN ss[1] ELSE f[n] \o ss[n + 1]
             g == [i \in 1 .. n + 1 |-> IF i = n + 1 THEN last ELSE f[i]]
  <2>4. last \in Seq(T)
    <3>1. CASE n = 0  BY <3>1, <2>3
    <3>2. CASE n # 0
      <4>1. f[n] \in Seq(T)  BY <2>0, <3>2
      <4> QED BY <4>1, <2>3, <3>2
    <3> QED BY <3>1, <3>2
  <2> HIDE DEF last
  <2>5. g \in [1 .. n + 1 -> Seq(T)]  BY <2>0, <2>4
  <2>6. /\ g[n + 1] = last
        /\ \A i \in 1 .. n : g[i] = f[i]
    BY <2>0
  <2> HIDE DEF g
  <2>7. ASSUME NEW i \in 1 .. n + 1 PROVE g[i] = IF i = 1 THEN ss[i] ELSE g[i - 1] \o ss[i]
    <3>1. CASE i = n + 1 /\ n = 0  BY <3>1, <2>6 DEF last
    <3>2. CASE i = n + 1 /\ n # 0
      <4>1. g[n] = f[n] /\ i - 1 = n /\ i # 1  BY <3>2, <2>0, <2>6
      <4>2. g[i] = f[n] \o ss[n + 1]  BY <3>2, <2>6 DEF last
      <4> QED BY <4>1, <4>2, <3>2
    <3>3. CASE i # n + 1
      <4>1. i \in 1 .. n /\ (i # 1 => i - 1 \in 1 .. n)  BY <3>3, <2>0
      <4>2. f[i] = IF i = 1 THEN ss[i] ELSE f[i - 1] \o ss[i]  BY <4>1, <2>2 DEF Runs
      <4> QED BY <4>1, <4>2, <2>6
    <3> QED BY <3>1, <3>2, <3>3
  <2>8. Runs(g, ss, n + 1)  BY <2>7 DEF Runs
  <2> QED BY <2>5, <2>8
<1>3. U = Nat
  <2>1. U \subseteq Nat  OBVIOUS
  <2> HIDE DEF U
  <2> QED BY <1>1, <1>2, <2>1, NatSet
<1>4. Len(ss) \in U /\ Len(ss) \in Nat
  <2>1. Len(ss) \in Nat  OBVIOUS
  <2> HIDE DEF U
  <2> QED BY <1>3, <2>1
<1>5. G(Len(ss))
  <2> HIDE DEF G
  <2> QED BY <1>4
<1> QED BY <1>5

Agree(a, b, n) == \A i \in 1 .. n : a[i] = b[i]

\* Two runs over sequences that agree are the same run.
LEMMA RunsAgree ==
  ASSUME NEW f, NEW g, NEW ss, NEW tt, NEW n \in Nat, Runs(f, ss, n), Runs(g, tt, n),
         Agree(ss, tt, n)
  PROVE  Agree(f, g, n)
<1> USE DEF Agree
<1> DEFINE U == { i \in 0 .. n : i = 0 \/ f[i] = g[i] }
<1>1. 0 \in U  OBVIOUS
<1>2. ASSUME NEW i \in 0 .. n - 1, i \in U PROVE i + 1 \in U
  <2>1. i + 1 \in 1 .. n /\ (i + 1 = 1 <=> i = 0) /\ (i + 1) - 1 = i  OBVIOUS
  <2>2. f[i + 1] = IF i + 1 = 1 THEN ss[i + 1] ELSE f[(i + 1) - 1] \o ss[i + 1]  BY <2>1 DEF Runs
  <2>3. g[i + 1] = IF i + 1 = 1 THEN tt[i + 1] ELSE g[(i + 1) - 1] \o tt[i + 1]  BY <2>1 DEF Runs
  <2>4. f[i + 1] = g[i + 1]
    <3>1. CASE i = 0  BY <2>1, <2>2, <2>3, <3>1
    <3>2. CASE i # 0
      <4>1. f[i] = g[i]  BY <1>2, <3>2
      <4> QED BY <4>1, <2>1, <2>2, <2>3, <3>2
    <3> QED BY <3>1, <3>2
  <2> QED BY <2>1, <2>4
<1>3. \A i \in 0 .. n : i \in U
  <2> HIDE DEF U
  <2> QED BY <1>1, <1>2, UpTo
<1> QED BY <1>3

\* FlattenSeq is the last value of such a run.
LEMMA FlattenRun ==
  ASSUME NEW T, NEW ss \in Seq(Seq(T)), Len(ss) # 0
  PROVE  \E f \in [1 .. Len(ss) -> Seq(T)] : Runs(f, ss, Len(ss)) /\ FlattenSeq(ss) = f[Len(ss)]
<1> DEFINE n == Len(ss)
           Is(f) == f = [i \in 1 .. Len(ss) |-> IF i = 1 THEN ss[i] ELSE f[i - 1] \o ss[i]]
           c == CHOOSE f : Is(f)
<1>1. n \in Nat  OBVIOUS
<1>2. PICK f \in [1 .. n -> Seq(T)] : Runs(f, ss, n)  BY RunExists
<1>3. Is(f)  BY <1>2 DEF Runs
<1>4. Is(c)  BY <1>3
<1>5. FlattenSeq(ss) = c[n]  BY Zenon DEF FlattenSeq
<1> HIDE DEF c
<1>6. Runs(c, ss, n)  BY <1>4 DEF Runs
<1>7. Agree(c, f, n)
  <2>1. Agree(ss, ss, n)  BY DEF Agree
  <2> QED BY <2>1, <1>1, <1>2, <1>6, RunsAgree
<1>8. FlattenSeq(ss) = f[n]  BY <1>1, <1>5, <1>7 DEF Agree
<1> QED BY <1>2, <1>8

\* One more sequence is appended to the flattened ones.
LEMMA FlattenAppend ==
  ASSUME NEW T, NEW ss \in Seq(Seq(T)), NEW s \in Seq(T)
  PROVE  /\ FlattenSeq(ss) \in Seq(T)
         /\ FlattenSeq(Append(ss, s)) = FlattenSeq(ss) \o s
<1> DEFINE n == Len(ss)
           tt == Append(ss, s)
<1>1. n \in Nat /\ tt \in Seq(Seq(T)) /\ Len(tt) = n + 1 /\ tt[n + 1] = s
      /\ \A i \in 1 .. n : tt[i] = ss[i]  OBVIOUS
<1> HIDE DEF tt
<1>2. PICK g \in [1 .. n + 1 -> Seq(T)] : Runs(g, tt, n + 1) /\ FlattenSeq(tt) = g[n + 1]
  <2>1. Len(tt) # 0  BY <1>1
  <2>2. PICK g \in [1 .. Len(tt) -> Seq(T)] : Runs(g, tt, Len(tt)) /\ FlattenSeq(tt) = g[Len(tt)]
    BY <1>1, <2>1, FlattenRun
  <2> QED BY <2>2, <1>1
<1>3. CASE n = 0
  <2>0. ss = << >>  BY <1>3
  <2>1. FlattenSeq(ss) = ss  BY <1>3, Zenon DEF FlattenSeq
  <2>2. FlattenSeq(tt) = s  BY <1>1, <1>2, <1>3 DEF Runs
  <2>3. << >> \in Seq(T) /\ << >> \o s = s  OBVIOUS
  <2> QED BY <2>0, <2>1, <2>2, <2>3 DEF tt
<1>4. CASE n # 0
  <2>1. PICK f \in [1 .. n -> Seq(T)] : Runs(f, ss, n) /\ FlattenSeq(ss) = f[n]  BY <1>4, FlattenRun
  <2>2. Runs(g, tt, n)
    <3>1. \A i \in 1 .. n : i \in 1 .. n + 1  BY <1>1
    <3> QED BY <3>1, <1>2 DEF Runs
  <2>3. Agree(f, g, n)
    <3>1. Agree(ss, tt, n)  BY <1>1 DEF Agree
    <3> QED BY <3>1, <1>1, <2>1, <2>2, RunsAgree
  <2>4. n \in 1 .. n /\ n + 1 \in 1 .. n + 1 /\ n + 1 # 1 /\ (n + 1) - 1 = n  BY <1>1, <1>4
  <2>5. g[n + 1] = g[n] \o s
    <3>1. g[n + 1] = IF n + 1 = 1 THEN tt[n + 1] ELSE g[(n + 1) - 1] \o tt[n + 1]  BY <1>2, <2>4 DEF Runs
    <3> QED BY <3>1, <2>4, <1>1
  <2>6. FlattenSeq(ss) \in Seq(T)  BY <2>1, <2>4
  <2>7. FlattenSeq(tt) = FlattenSeq(ss) \o s  BY <1>2, <2>1, <2>3, <2>4, <2>5 DEF Agree
  <2> QED BY <2>6, <2>7 DEF tt
<1> QED BY <1>3, <1>4

\* Nothing flattened is nothing.
LEMMA FlattenNone == FlattenSeq(<< >>) = << >>
BY DEF FlattenSeq

-----------------------------------------------------------------------------
(* Chat Completions, and what the shim shows of it. *)

\* The same induction over the parts of a frame, for OpenAIPart.
LEMMA OpenAIParts ==
  ASSUME NEW V, NEW D, NEW base \in V, NEW q \in Seq(D),
         \A v \in V, d \in D : OpenAIPart(v, d) \in V,
         NEW J, << 0, base >> \in J,
         \A i \in 1 .. Len(q), v \in V :
           << i - 1, v >> \in J => << i, OpenAIPart(v, q[i]) >> \in J
  PROVE  /\ FoldLeft(OpenAIPart, base, q) \in V
         /\ << Len(q), FoldLeft(OpenAIPart, base, q) >> \in J
<1> DEFINE f == [x \in V \X D |-> OpenAIPart(x[1], x[2])]
           Is(g) == g = [t \in SUBSET (DOMAIN q) |->
                           IF t = {} THEN base ELSE OpenAIPart(g[t \ {Max(t)}], q[Max(t)])]
           c == CHOOSE g : Is(g)
<1>1. f \in [V \X D -> V] /\ \A v \in V, d \in D : f[<< v, d >>] = OpenAIPart(v, d)  OBVIOUS
<1>2. DOMAIN q = 1 .. Len(q) /\ \A i \in 1 .. Len(q) : q[i] \in D  OBVIOUS
<1>3. \A t \in SUBSET (1 .. Len(q)) : t \ {Max(t)} \in SUBSET (1 .. Len(q))  OBVIOUS
<1> HIDE DEF f
<1>4. PICK g \in [SUBSET (1 .. Len(q)) -> V] : Folds(g, f, base, q, Len(q))  BY <1>1, FoldExists
<1>5. Is(g)
  <2>1. ASSUME NEW t \in SUBSET (1 .. Len(q))
        PROVE  g[t] = IF t = {} THEN base ELSE OpenAIPart(g[t \ {Max(t)}], q[Max(t)])
    <3>1. CASE t # {}
      <4>1. Max(t) \in 1 .. Len(q) /\ g[t] = f[<< g[t \ {Max(t)}], q[Max(t)] >>]
        BY <1>4, <3>1 DEF Folds
      <4>2. g[t \ {Max(t)}] \in V  BY <1>3, <1>4
      <4> QED BY <4>1, <4>2, <1>1, <1>2, <3>1
    <3>2. CASE t = {}  BY <1>4, <3>2 DEF Folds
    <3> QED BY <3>1, <3>2
  <2> QED BY <2>1, <1>2, <1>4
<1>6. Is(c)  BY <1>5
<1>7. FoldLeft(OpenAIPart, base, q) = c[1 .. Len(q)]
  BY <1>2, Zenon DEF FoldLeft, MapThenFoldSet
<1> HIDE DEF c
<1>8. c[{}] = base /\ \A t \in SUBSET (1 .. Len(q)) :
        t # {} => c[t] = OpenAIPart(c[t \ {Max(t)}], q[Max(t)])  BY <1>2, <1>6
<1>9. \A t \in SUBSET (1 .. Len(q)) : t # {} => Max(t) \in 1 .. Len(q)  BY <1>4 DEF Folds
<1>10. \A t \in SUBSET (1 .. Len(q)) :
         t # {} /\ c[t \ {Max(t)}] \in V => c[t] = f[<< c[t \ {Max(t)}], q[Max(t)] >>]
  BY <1>1, <1>2, <1>8, <1>9
<1>11. \A i \in 1 .. Len(q), v \in V : << i - 1, v >> \in J => << i, f[<< v, q[i] >>] >> \in J
  BY <1>1, <1>2
<1>12. c[1 .. Len(q)] \in V /\ << Len(q), c[1 .. Len(q)] >> \in J
  <2>1. Steps(c, f, V, base, q)  BY <1>8, <1>10 DEF Steps
  <2>2. Keeps(J, f, V, base, q)  BY <1>11 DEF Keeps
  <2> QED BY <1>1, <2>1, <2>2, FoldInduction
<1> QED BY <1>7, <1>12

\* An event of known words is an event of the stream.
LEMMA EventIs ==
  ASSUME NEW stage \in Stage, NEW kind \in EvKind, NEW index \in Int, NEW part \in Int
  PROVE  LET e == Event(stage, kind, index, part) IN
         e \in Ev /\ e.stage = stage /\ e.kind = kind /\ e.index = index /\ e.part = part
BY DEF Event, Ev

\* To concatenate one event is to append it.
LEMMA AppendOne ==
  ASSUME NEW out \in Seq(Ev), NEW e \in Ev
  PROVE  out \o << e >> = Append(out, e) /\ Append(out, e) \in Seq(Ev)
OBVIOUS

\* What the chat shim tells grows with what it is told.
Shown(e) == (e.stage = "delta" /\ e.kind \in {"text", "notice"}) \/ e.stage = "finish"
ShownOf(out) == [i \in DOMAIN out |-> IF Shown(out[i]) THEN << out[i] >> ELSE << >>]
ShimFirst == Event("start", "none", 0, 0)

\* What the shim tells is its first event and the events it shows.
LEMMA ShimIs ==
  ASSUME NEW out
  PROVE  ShimEvents(out) = << ShimFirst >> \o FlattenSeq(ShownOf(out))
BY DEF ShimEvents, ShimFirst, ShownOf, Shown

\* What the shim shows is a sequence of sequences of events.
LEMMA ShownTyped ==
  ASSUME NEW out \in Seq(Ev)
  PROVE  ShownOf(out) \in Seq(Seq(Ev))
<1>1. \A i \in 1 .. Len(out) : out[i] \in Ev  OBVIOUS
<1>2. \A i \in 1 .. Len(out) : (IF Shown(out[i]) THEN << out[i] >> ELSE << >>) \in Seq(Ev)
  BY <1>1
<1>3. DOMAIN out = 1 .. Len(out) /\ Len(out) \in Nat  OBVIOUS
<1> QED BY <1>2, <1>3 DEF ShownOf

\* One more event of the worker is shown, or passed over.
LEMMA ShownAppend ==
  ASSUME NEW out \in Seq(Ev), NEW e \in Ev
  PROVE  ShownOf(Append(out, e)) = Append(ShownOf(out), IF Shown(e) THEN << e >> ELSE << >>)
<1> DEFINE o == Append(out, e)
           n == Len(out)
           x == IF Shown(e) THEN << e >> ELSE << >>
           l == ShownOf(o)
           r == Append(ShownOf(out), x)
<1>1. n \in Nat /\ DOMAIN out = 1 .. n /\ DOMAIN o = 1 .. n + 1 /\ o[n + 1] = e
      /\ \A i \in 1 .. n : o[i] = out[i]  OBVIOUS
<1> HIDE DEF o, x
<1>2. l \in Seq(Seq(Ev)) /\ Len(l) = n + 1 /\ l[n + 1] = x /\ \A i \in 1 .. n : l[i] = ShownOf(out)[i]
  <2>1. o \in Seq(Ev)  BY DEF o
  <2>2. l \in Seq(Seq(Ev)) /\ DOMAIN l = 1 .. n + 1  BY <2>1, <1>1, ShownTyped DEF ShownOf
  <2>3. l[n + 1] = x  BY <1>1 DEF ShownOf, x
  <2>4. \A i \in 1 .. n : l[i] = ShownOf(out)[i]
    <3>1. ASSUME NEW i \in 1 .. n PROVE l[i] = ShownOf(out)[i]
      BY <1>1 DEF ShownOf
    <3> QED BY <3>1
  <2> QED BY <2>2, <2>3, <2>4, <1>1
<1>3. ShownOf(out) \in Seq(Seq(Ev)) /\ Len(ShownOf(out)) = n /\ x \in Seq(Ev)
  <2>1. DOMAIN ShownOf(out) = 1 .. n  BY <1>1 DEF ShownOf
  <2> QED BY <2>1, <1>1, ShownTyped DEF x
<1> HIDE DEF l
<1>4. r \in Seq(Seq(Ev)) /\ Len(r) = n + 1 /\ r[n + 1] = x /\ \A i \in 1 .. n : r[i] = ShownOf(out)[i]
  BY <1>1, <1>3
<1> HIDE DEF r
<1>5. l = r
  <2>1. ASSUME NEW i \in 1 .. n + 1 PROVE l[i] = r[i]
    <3>1. i = n + 1 \/ i \in 1 .. n  BY <1>1
    <3> QED BY <3>1, <1>2, <1>4
  <2> QED BY <2>1, <1>2, <1>4
<1> QED BY <1>5 DEF l, r, o, x

\* The shim tells one more event, or tells nothing more.
LEMMA ShimAppend ==
  ASSUME NEW out \in Seq(Ev), NEW e \in Ev
  PROVE  /\ ShimEvents(out) \in Seq(Ev)
         /\ ShimEvents(Append(out, e)) = IF Shown(e) THEN Append(ShimEvents(out), e)
                                         ELSE ShimEvents(out)
<1> DEFINE x == IF Shown(e) THEN << e >> ELSE << >>
           f == FlattenSeq(ShownOf(out))
<1>1. x \in Seq(Ev)  OBVIOUS
<1>2. f \in Seq(Ev) /\ FlattenSeq(Append(ShownOf(out), x)) = f \o x
  <2> HIDE DEF x
  <2> QED BY <1>1, ShownTyped, FlattenAppend
<1>3. ShimFirst \in Ev  BY Words, EventIs DEF ShimFirst
<1>4. ShimEvents(out) = << ShimFirst >> \o f /\ ShimEvents(Append(out, e)) = << ShimFirst >> \o (f \o x)
  BY <1>2, ShimIs, ShownAppend
<1> HIDE DEF f
<1>5. << ShimFirst >> \o f \in Seq(Ev)  BY <1>2, <1>3
<1>6. CASE Shown(e)
  <2>1. << ShimFirst >> \o (f \o << e >>) = Append(<< ShimFirst >> \o f, e)  BY <1>2, <1>3
  <2> QED BY <2>1, <1>4, <1>5, <1>6
<1>7. CASE ~Shown(e)
  <2>1. f \o << >> = f  BY <1>2
  <2> QED BY <2>1, <1>4, <1>5, <1>7
<1> QED BY <1>6, <1>7

\* The finish is the last thing it tells.
ShimSound(out) ==
  /\ Over(ShimEvents(out)) <=> Over(out)
  /\ \A i \in Endings(ShimEvents(out)) : i = Len(ShimEvents(out))
ChatSound(out) == EndsOnce(out) /\ ShimSound(out)

\* A stream that has not begun is sound, and not over.
LEMMA ChatStart == ChatSound(<< >>) /\ ~Over(<< >>)
<1>1. ~Over(<< >>)  BY DEF Over, Endings
<1>2. ShimEvents(<< >>) = << ShimFirst >>
  <2>1. ShownOf(<< >>) = << >>  BY DEF ShownOf
  <2> QED BY <2>1, ShimIs, FlattenNone
<1>3. ShimFirst.stage # "finish"  BY DEF ShimFirst, Event
<1>4. Endings(<< ShimFirst >>) = {}  BY <1>3 DEF Endings
<1> QED BY <1>1, <1>2, <1>4, NotOverEndsOnce DEF ChatSound, ShimSound, Over

\* One more event keeps a Chat Completions stream sound, with the shim or
\* without.
LEMMA ChatAppend ==
  ASSUME NEW out \in Seq(Ev), NEW e \in Ev, ChatSound(out),
         Over(out) => e.stage \in {"done", "error"}
  PROVE  /\ ChatSound(Append(out, e))
         /\ Over(Append(out, e)) <=> Over(out) \/ e.stage = "finish"
<1> DEFINE t == ShimEvents(out)
           u == ShimEvents(Append(out, e))
<1>1. t \in Seq(Ev) /\ u = IF Shown(e) THEN Append(t, e) ELSE t  BY ShimAppend
<1>2. Over(Append(out, e)) <=> Over(out) \/ e.stage = "finish"  BY EndingsAppend
<1>3. EndsOnce(Append(out, e))  BY EndsAppend DEF ChatSound
<1>4. (Over(t) <=> Over(out)) /\ \A i \in Endings(t) : i = Len(t)  BY DEF ChatSound, ShimSound
<1> HIDE DEF t, u
<1>5. (Over(u) <=> Over(Append(out, e))) /\ \A i \in Endings(u) : i = Len(u)
  <2>1. CASE ~Shown(e)
    <3>1. e.stage # "finish" /\ u = t  BY <2>1, <1>1 DEF Shown
    <3> QED BY <3>1, <1>2, <1>4
  <2>2. CASE Shown(e)
    <3>1. e.stage \notin {"done", "error"}  BY <2>2 DEF Shown
    <3>2. ~Over(out) /\ ~Over(t) /\ Endings(t) = {}  BY <3>1, <1>4 DEF Over
    <3>3. u = Append(t, e)  BY <2>2, <1>1
    <3>3a. t \in Seq(Ev) /\ e \in Ev  BY <1>1
    <3>4. /\ e.stage # "finish" => Endings(u) = {}
          /\ e.stage = "finish" => Endings(u) = {Len(t) + 1}
          /\ Over(u) <=> e.stage = "finish"
      BY <3>2, <3>3, <3>3a, EndingsAppend
    <3>5. Len(u) = Len(t) + 1  BY <3>3, <3>3a
    <3> QED BY <3>2, <3>4, <3>5, <1>2
  <2> QED BY <2>1, <2>2
<1> QED BY <1>2, <1>3, <1>5 DEF ChatSound, ShimSound, u

\* The shim's stream finishes, exactly once and last.
LEMMA ShimEndsOnce ==
  ASSUME NEW out \in Seq(Ev), ShimSound(out)
  PROVE  LET o == ShimEnd(out) IN EndsOnce(o) /\ Over(o) /\ o \in Seq(Ev)
                                  /\ \A i \in Endings(o) : i = Len(o)
<1> DEFINE t == ShimEvents(out)
           e == Event("finish", "STOP", 0, 0)
           o == ShimEnd(out)
<1>1. t \in Seq(Ev)
  <2>1. ShimFirst \in Ev  BY Words, EventIs DEF ShimFirst
  <2> QED BY <2>1, ShimAppend
<1>2. e \in Ev /\ e.stage = "finish"  BY Words, EventIs
<1>3. \A i \in Endings(t) : i = Len(t)  BY DEF ShimSound
<1>4. o = IF Over(t) THEN t ELSE Append(t, e)
  <2>1. Over(t) <=> \E i \in DOMAIN t : t[i].stage = "finish"  BY DEF Over, Endings
  <2> HIDE DEF t, e
  <2> QED BY <2>1, Zenon DEF ShimEnd, t, e
<1> HIDE DEF t, o, e
<1>5. o \in Seq(Ev) /\ Over(o) /\ \A i \in Endings(o) : i = Len(o)
  <2>1. CASE Over(t)  BY <2>1, <1>1, <1>3, <1>4
  <2>2. CASE ~Over(t)
    <3>1. o = Append(t, e) /\ o \in Seq(Ev) /\ Len(o) = Len(t) + 1  BY <2>2, <1>1, <1>2, <1>4
    <3>2. Endings(o) = {Len(t) + 1} /\ Over(o)  BY <2>2, <3>1, <1>1, <1>2, EndingsAppend DEF Over
    <3> QED BY <3>1, <3>2
  <2> QED BY <2>1, <2>2
<1>6. EndsOnce(o)
  <2>1. \A j \in DOMAIN o : ~(j > Len(o))  BY <1>5
  <2> QED BY <2>1, <1>5 DEF EndsOnce
<1> QED BY <1>5, <1>6 DEF o

-----------------------------------------------------------------------------
(* Chat Completions: parts, frames and chunks. *)

OpenAIState == [role : BOOLEAN, calls : Nat, out : Seq(Ev)]
OpenAISound == { s \in OpenAIState : ChatSound(s.out) }
OpenAILive == { s \in OpenAISound : ~Over(s.out) }

\* Writing one event keeps a Chat Completions stream sound.
LEMMA OpenAIEmit ==
  ASSUME NEW s \in OpenAISound, NEW e \in Ev, Over(s.out) => e.stage \in {"done", "error"}
  PROVE  LET r == Emit(s, << e >>) IN
         /\ r \in OpenAISound /\ r.calls = s.calls
         /\ Over(r.out) <=> Over(s.out) \/ e.stage = "finish"
<1> DEFINE r == Emit(s, << e >>)
<1>1. s \in OpenAIState /\ s.out \in Seq(Ev) /\ ChatSound(s.out)  BY DEF OpenAISound, OpenAIState
<1>2. s.out \o << e >> = Append(s.out, e) /\ Append(s.out, e) \in Seq(Ev)  BY <1>1, AppendOne
<1>3. r = [s EXCEPT !.out = Append(s.out, e)]  BY <1>2 DEF Emit
<1>4. r \in OpenAIState /\ r.out = Append(s.out, e) /\ r.calls = s.calls
  BY <1>1, <1>2, <1>3 DEF OpenAIState
<1> HIDE DEF r
<1>5. ChatSound(r.out) /\ (Over(r.out) <=> Over(s.out) \/ e.stage = "finish")
  BY <1>1, <1>4, ChatAppend
<1>6. r \in OpenAISound  BY <1>4, <1>5 DEF OpenAISound
<1> QED BY <1>4, <1>5, <1>6 DEF r

\* To concatenate two events is to append them.
LEMMA AppendTwo ==
  ASSUME NEW out \in Seq(Ev), NEW d \in Ev, NEW e \in Ev
  PROVE  out \o << d, e >> = (out \o << d >>) \o << e >>
<1>2. << d >> \in Seq(Ev) /\ << e >> \in Seq(Ev) /\ << d, e >> \in Seq(Ev)  OBVIOUS
<1>1. << d >> \o << e >> = << d, e >>
  <2>1. << d >> \o << e >> = Append(<< d >>, e)  BY <1>2, AppendOne
  <2>2. Len(Append(<< d >>, e)) = 2 /\ Append(<< d >>, e) \in Seq(Ev)  BY <1>2
  <2>3. Append(<< d >>, e)[1] = d /\ Append(<< d >>, e)[2] = e  BY <1>2
  <2>4. Len(<< d, e >>) = 2 /\ << d, e >>[1] = d /\ << d, e >>[2] = e  OBVIOUS
  <2>5. \A i \in 1 .. 2 : i = 1 \/ i = 2  OBVIOUS
  <2>6. \A i \in 1 .. 2 : Append(<< d >>, e)[i] = << d, e >>[i]  BY <2>3, <2>4, <2>5
  <2>7. Append(<< d >>, e) = << d, e >>  BY <1>2, <2>2, <2>4, <2>6, SeqEqual
  <2> QED BY <2>1, <2>7
<1>3. (out \o << d >>) \o << e >> = out \o (<< d >> \o << e >>)  BY <1>2, ConcatAssociative
<1> QED BY <1>1, <1>3

\* Two events are one after the other.
LEMMA OpenAIEmitTwo ==
  ASSUME NEW s \in OpenAIState, NEW d \in Ev, NEW e \in Ev
  PROVE  Emit(s, << d, e >>) = Emit(Emit(s, << d >>), << e >>)
<1> DEFINE z == Emit(s, << d >>)
<1>1. s.out \in Seq(Ev)  BY DEF OpenAIState
<1>2. s.out \o << d, e >> = (s.out \o << d >>) \o << e >>  BY <1>1, AppendTwo
<1>3. z = [s EXCEPT !.out = s.out \o << d >>] /\ z.out = s.out \o << d >>  BY DEF Emit, OpenAIState
<1>4. Emit(z, << e >>) = [z EXCEPT !.out = z.out \o << e >>]  BY DEF Emit
<1>5. Emit(s, << d, e >>) = [s EXCEPT !.out = s.out \o << d, e >>]  BY DEF Emit
<1> HIDE DEF z
<1>6. [z EXCEPT !.out = z.out \o << e >>] = [s EXCEPT !.out = s.out \o << d, e >>]
  BY <1>2, <1>3 DEF OpenAIState
<1> QED BY <1>4, <1>5, <1>6 DEF z

\* Every part keeps a live Chat Completions stream live.
LEMMA OpenAIPartLive ==
  ASSUME NEW s \in OpenAILive, NEW p \in PartSet
  PROVE  OpenAIPart(s, p) \in OpenAILive
<1> DEFINE first == Event("start", "none", 0, 0)
           named == IF s.role THEN s ELSE Emit(s, << first >>)
           index == IF p.kind = "call" THEN s.calls ELSE 0
           e == Event("delta", OpenAIKind(p.kind), index, p.id)
           calls == IF p.kind = "call" THEN named.calls + 1 ELSE named.calls
           z == [named EXCEPT !.role = TRUE, !.calls = calls]
<1>1. p.kind \in Kind /\ p.id \in Int  BY DEF PartSet
<1>2. s \in OpenAISound /\ ~Over(s.out) /\ s.calls \in Nat /\ index \in Int
  BY DEF OpenAILive, OpenAISound, OpenAIState
<1>3. first \in Ev /\ first.stage = "start"  BY Words, EventIs
<1>4. e \in Ev /\ e.stage = "delta"
  <2>1. OpenAIKind(p.kind) \in EvKind  BY <1>1, Words DEF OpenAIKind, Kind
  <2> HIDE DEF index
  <2> QED BY <2>1, <1>1, <1>2, Words, EventIs
<1> HIDE DEF first, e, index
<1>5. named \in OpenAISound /\ ~Over(named.out)
  <2>1. Emit(s, << first >>) \in OpenAISound /\ ~Over(Emit(s, << first >>).out)
    BY <1>2, <1>3, OpenAIEmit
  <2> QED BY <2>1, <1>2
<1> HIDE DEF named
<1>6. z \in OpenAISound /\ ~Over(z.out)
  <2>1. calls \in Nat  BY <1>5 DEF OpenAISound, OpenAIState
  <2> HIDE DEF calls
  <2>2. z \in OpenAIState  BY <2>1, <1>5 DEF OpenAISound, OpenAIState
  <2>3. z.out = named.out  BY <1>5 DEF OpenAISound, OpenAIState
  <2> HIDE DEF z
  <2> QED BY <2>2, <2>3, <1>5 DEF OpenAISound
<1>7. OpenAIPart(s, p) = Emit(z, << e >>)
  BY DEF OpenAIPart, z, calls, named, e, index, first
<1> HIDE DEF z
<1>8. Emit(z, << e >>) \in OpenAISound /\ ~Over(Emit(z, << e >>).out)  BY <1>4, <1>6, OpenAIEmit
<1> QED BY <1>7, <1>8 DEF OpenAILive

\* A frame leaves the answer under way, unless it finishes it.
LEMMA OpenAIFrameSound ==
  ASSUME NEW s \in OpenAILive, NEW f \in FrameSet
  PROVE  LET r == OpenAIFrame(s, f) IN r \in OpenAISound /\ (Over(r.out) => Finishing(f))
<1> DEFINE told == FoldLeft(OpenAIPart, s, f.parts)
           notice == Event("delta", "notice", 0, 0)
           stop == Event("finish", "STOP", 0, 0)
           e == Event("finish", IF told.calls > 0 THEN "call" ELSE f.finish, 0, 0)
           r == OpenAIFrame(s, f)
<1>1. f.parts \in Seq(PartSet) /\ f.finish \in EvKind /\ s \in OpenAISound /\ s \in OpenAIState
      /\ ~Over(s.out)
  BY DEF FrameSet, EvKind, OpenAILive, OpenAISound
<1>2. told \in OpenAILive
  <2>1. \A v \in OpenAILive, d \in PartSet : OpenAIPart(v, d) \in OpenAILive  BY OpenAIPartLive
  <2> DEFINE J == Nat \X OpenAILive
  <2>2. << 0, s >> \in J  OBVIOUS
  <2>3. \A i \in 1 .. Len(f.parts), v \in OpenAILive :
          << i - 1, v >> \in J => << i, OpenAIPart(v, f.parts[i]) >> \in J
    BY <1>1, <2>1
  <2> HIDE DEF J
  <2> QED BY <1>1, <2>1, <2>2, <2>3, OpenAIParts
<1>3. notice \in Ev /\ notice.stage = "delta" /\ stop \in Ev  BY Words, EventIs
<1>4. e \in Ev
  <2> DEFINE k == IF told.calls > 0 THEN "call" ELSE f.finish
  <2>1. k \in EvKind  BY <1>1, Words
  <2> HIDE DEF k
  <2>2. Event("finish", k, 0, 0) \in Ev  BY <2>1, Words, EventIs
  <2> QED BY <2>2 DEF k
<1>5. r = CASE f.blocked -> Emit(s, << notice, stop >>)
            [] ~f.blocked /\ f.finish = "none" -> told
            [] OTHER -> Emit(told, << e >>)
  BY DEF OpenAIFrame
<1> HIDE DEF told, notice, stop, e, r
<1>6. ASSUME f.blocked PROVE r \in OpenAISound /\ (Over(r.out) => Finishing(f))
  <2> DEFINE z == Emit(s, << notice >>)
  <2>1. r = Emit(z, << stop >>)  BY <1>1, <1>3, <1>5, <1>6, OpenAIEmitTwo
  <2>2. z \in OpenAISound /\ ~Over(z.out)  BY <1>1, <1>3, OpenAIEmit
  <2> HIDE DEF z
  <2>3. r \in OpenAISound  BY <2>1, <2>2, <1>3, OpenAIEmit
  <2> QED BY <2>3, <1>6 DEF Finishing
<1>7. ASSUME ~f.blocked, f.finish = "none" PROVE r \in OpenAISound /\ ~Over(r.out)
  <2>1. r = told  BY <1>5, <1>7
  <2> QED BY <2>1, <1>2 DEF OpenAILive
<1>8. ASSUME ~f.blocked, f.finish # "none" PROVE r \in OpenAISound /\ (Over(r.out) => Finishing(f))
  <2>1. r = Emit(told, << e >>)  BY <1>5, <1>8
  <2>2. told \in OpenAISound /\ ~Over(told.out)  BY <1>2 DEF OpenAILive
  <2>3. r \in OpenAISound  BY <2>1, <2>2, <1>4, OpenAIEmit
  <2> QED BY <2>3, <1>8 DEF Finishing
<1>9. r \in OpenAISound /\ (Over(r.out) => Finishing(f))  BY <1>6, <1>7, <1>8
<1> QED BY <1>9 DEF r

\* A chunk keeps the stream live, or is one whole frame that finishes it.
LEMMA OpenAIChunkSound ==
  ASSUME NEW s \in OpenAILive, NEW chunk \in Seq(FrameSet)
  PROVE  LET r == OpenAIChunk(s, chunk) IN
         /\ r \in OpenAISound
         /\ Over(r.out) => Len(chunk) > 0 /\ Finishing(chunk[Len(chunk)]) /\ ~chunk[Len(chunk)].torn
<1> DEFINE r == OpenAIChunk(s, chunk)
<1>1. CASE ~Readable(chunk)
  <2>1. r = s  BY <1>1 DEF OpenAIChunk
  <2> QED BY <2>1 DEF OpenAILive
<1>2. CASE Readable(chunk)
  <2>1. Len(chunk) = 1 /\ chunk[1] \in FrameSet /\ ~chunk[1].torn  BY <1>2 DEF Readable
  <2>2. r = OpenAIFrame(s, chunk[1])  BY <1>2 DEF OpenAIChunk
  <2> HIDE DEF r
  <2>3. r \in OpenAISound /\ (Over(r.out) => Finishing(chunk[1]))  BY <2>1, <2>2, OpenAIFrameSound
  <2>4. /\ r \in OpenAISound
        /\ Over(r.out) => Len(chunk) > 0 /\ Finishing(chunk[Len(chunk)]) /\ ~chunk[Len(chunk)].torn
    BY <2>1, <2>3
  <2> QED BY <2>4 DEF r
<1> QED BY <1>1, <1>2

-----------------------------------------------------------------------------
(* Gemini. *)

\* The same induction over the frames of a chunk, for GeminiFrame.
LEMMA GeminiFrames ==
  ASSUME NEW V, NEW D, NEW base \in V, NEW q \in Seq(D),
         \A v \in V, d \in D : GeminiFrame(v, d) \in V,
         NEW J, << 0, base >> \in J,
         \A i \in 1 .. Len(q), v \in V :
           << i - 1, v >> \in J => << i, GeminiFrame(v, q[i]) >> \in J
  PROVE  /\ FoldLeft(GeminiFrame, base, q) \in V
         /\ << Len(q), FoldLeft(GeminiFrame, base, q) >> \in J
<1> DEFINE f == [x \in V \X D |-> GeminiFrame(x[1], x[2])]
           Is(g) == g = [t \in SUBSET (DOMAIN q) |->
                           IF t = {} THEN base ELSE GeminiFrame(g[t \ {Max(t)}], q[Max(t)])]
           c == CHOOSE g : Is(g)
<1>1. f \in [V \X D -> V] /\ \A v \in V, d \in D : f[<< v, d >>] = GeminiFrame(v, d)  OBVIOUS
<1>2. DOMAIN q = 1 .. Len(q) /\ \A i \in 1 .. Len(q) : q[i] \in D  OBVIOUS
<1>3. \A t \in SUBSET (1 .. Len(q)) : t \ {Max(t)} \in SUBSET (1 .. Len(q))  OBVIOUS
<1> HIDE DEF f
<1>4. PICK g \in [SUBSET (1 .. Len(q)) -> V] : Folds(g, f, base, q, Len(q))  BY <1>1, FoldExists
<1>5. Is(g)
  <2>1. ASSUME NEW t \in SUBSET (1 .. Len(q))
        PROVE  g[t] = IF t = {} THEN base ELSE GeminiFrame(g[t \ {Max(t)}], q[Max(t)])
    <3>1. CASE t # {}
      <4>1. Max(t) \in 1 .. Len(q) /\ g[t] = f[<< g[t \ {Max(t)}], q[Max(t)] >>]
        BY <1>4, <3>1 DEF Folds
      <4>2. g[t \ {Max(t)}] \in V  BY <1>3, <1>4
      <4> QED BY <4>1, <4>2, <1>1, <1>2, <3>1
    <3>2. CASE t = {}  BY <1>4, <3>2 DEF Folds
    <3> QED BY <3>1, <3>2
  <2> QED BY <2>1, <1>2, <1>4
<1>6. Is(c)  BY <1>5
<1>7. FoldLeft(GeminiFrame, base, q) = c[1 .. Len(q)]
  BY <1>2, Zenon DEF FoldLeft, MapThenFoldSet
<1> HIDE DEF c
<1>8. c[{}] = base /\ \A t \in SUBSET (1 .. Len(q)) :
        t # {} => c[t] = GeminiFrame(c[t \ {Max(t)}], q[Max(t)])  BY <1>2, <1>6
<1>9. \A t \in SUBSET (1 .. Len(q)) : t # {} => Max(t) \in 1 .. Len(q)  BY <1>4 DEF Folds
<1>10. \A t \in SUBSET (1 .. Len(q)) :
         t # {} /\ c[t \ {Max(t)}] \in V => c[t] = f[<< c[t \ {Max(t)}], q[Max(t)] >>]
  BY <1>1, <1>2, <1>8, <1>9
<1>11. \A i \in 1 .. Len(q), v \in V : << i - 1, v >> \in J => << i, f[<< v, q[i] >>] >> \in J
  BY <1>1, <1>2
<1>12. c[1 .. Len(q)] \in V /\ << Len(q), c[1 .. Len(q)] >> \in J
  <2>1. Steps(c, f, V, base, q)  BY <1>8, <1>10 DEF Steps
  <2>2. Keeps(J, f, V, base, q)  BY <1>11 DEF Keeps
  <2> QED BY <1>1, <2>1, <2>2, FoldInduction
<1> QED BY <1>7, <1>12

GeminiState == [half : BOOLEAN, out : Seq(Ev)]

\* Two sequences without a finish have none together.
LEMMA NotOverConcat ==
  ASSUME NEW x \in Seq(Ev), NEW y \in Seq(Ev), ~Over(x), ~Over(y)
  PROVE  ~Over(x \o y) /\ x \o y \in Seq(Ev)
<1>1. \A i \in 1 .. Len(x) : x[i].stage # "finish"  BY DEF Over, Endings
<1>2. \A i \in 1 .. Len(y) : y[i].stage # "finish"  BY DEF Over, Endings
<1> DEFINE z == x \o y
<1>3. /\ z \in Seq(Ev) /\ Len(z) = Len(x) + Len(y) /\ Len(x) \in Nat /\ Len(y) \in Nat
      /\ \A i \in 1 .. Len(x) + Len(y) : z[i] = IF i <= Len(x) THEN x[i] ELSE y[i - Len(x)]
  BY ConcatProperties
<1> HIDE DEF z
<1>4. ASSUME NEW i \in 1 .. Len(z) PROVE z[i].stage # "finish"
  <2>1. CASE i <= Len(x)  BY <2>1, <1>1, <1>3
  <2>2. CASE ~(i <= Len(x))
    <3>1. i - Len(x) \in 1 .. Len(y)  BY <2>2, <1>3
    <3>2. z[i] = y[i - Len(x)]  BY <2>2, <1>3
    <3> QED BY <3>1, <3>2, <1>2
  <2> QED BY <2>1, <2>2
<1>5. DOMAIN z = 1 .. Len(z)  BY <1>3
<1>6. ~Over(z)  BY <1>4, <1>5 DEF Over, Endings
<1> QED BY <1>3, <1>6 DEF z

\* Nor has one event that is none.
LEMMA NotOverOne ==
  ASSUME NEW e \in Ev, e.stage # "finish"
  PROVE  << e >> \in Seq(Ev) /\ ~Over(<< e >>)
BY DEF Over, Endings

\* Nor has nothing.
LEMMA NotOverNone == << >> \in Seq(Ev) /\ ~Over(<< >>)
BY DEF Over, Endings

\* An event at the end of a concatenation is appended.
LEMMA ConcatOne ==
  ASSUME NEW x \in Seq(Ev), NEW y \in Seq(Ev), NEW e \in Ev
  PROVE  x \o (y \o << e >>) = Append(x \o y, e) /\ Append(x \o y, e) \in Seq(Ev)
<1>1. << e >> \in Seq(Ev)  OBVIOUS
<1>2. (x \o y) \o << e >> = x \o (y \o << e >>)  BY <1>1, ConcatAssociative
<1>3. x \o y \in Seq(Ev)  OBVIOUS
<1> HIDE DEF Ev
<1>4. (x \o y) \o << e >> = Append(x \o y, e) /\ Append(x \o y, e) \in Seq(Ev)  BY <1>3, AppendOne
<1> QED BY <1>2, <1>4

\* The parts of a frame as a Gemini client is told them.
PartDeltas(parts) == [i \in DOMAIN parts |-> Event("delta", parts[i].kind, 0, parts[i].id)]

\* The parts of a frame are told without a finish.
LEMMA PartDeltasAre ==
  ASSUME NEW parts \in Seq(PartSet)
  PROVE  PartDeltas(parts) \in Seq(Ev) /\ ~Over(PartDeltas(parts))
<1>1. ASSUME NEW i \in 1 .. Len(parts)
      PROVE  LET e == Event("delta", parts[i].kind, 0, parts[i].id) IN e \in Ev /\ e.stage = "delta"
  <2>1. parts[i] \in PartSet  OBVIOUS
  <2>2. parts[i].kind \in EvKind /\ parts[i].id \in Int  BY <2>1, Words DEF PartSet, Kind
  <2> QED BY <2>2, Words, EventIs
<1>2. DOMAIN parts = 1 .. Len(parts) /\ Len(parts) \in Nat  OBVIOUS
<1>3. PartDeltas(parts) \in Seq(Ev)  BY <1>1, <1>2 DEF PartDeltas
<1>4. \A i \in DOMAIN PartDeltas(parts) : PartDeltas(parts)[i].stage = "delta"
  BY <1>1, <1>2 DEF PartDeltas
<1> QED BY <1>3, <1>4 DEF Over, Endings

\* The stream finishes as the frame says: for its reason, if it has one.
EndsAs(out, f) ==
  /\ Over(out) <=> f.finish # "none"
  /\ \A i \in Endings(out) : out[i].kind = f.finish

\* Parts are passed on, and the answer is finished by a finish reason only.
LEMMA PassOnSound ==
  ASSUME NEW s \in GeminiState, ~Over(s.out), NEW parts \in Seq(PartSet), NEW f \in FrameSet
  PROVE  LET r == PassOn(s, parts, f) IN
         /\ r \in GeminiState /\ r.half = s.half
         /\ EndsOnce(r.out) /\ EndsAs(r.out, f)
<1> DEFINE r == PassOn(s, parts, f)
           a == PartDeltas(parts)
           b == IF f.finish = "none" THEN <<>> ELSE << Event("finish", f.finish, 0, 0) >>
           c == IF f.blocked THEN << Event("delta", "notice", 0, 0) >> ELSE <<>>
           o == s.out \o a
<1>1. /\ f.finish \in EvKind /\ f.blocked \in BOOLEAN
      /\ f.blocked => f.finish = "none"
  BY DEF FrameSet, EvKind
<1>2. s.out \in Seq(Ev)  BY DEF GeminiState
<1>3. a \in Seq(Ev) /\ ~Over(a) /\ o \in Seq(Ev) /\ ~Over(o)
  BY <1>2, PartDeltasAre, NotOverConcat
<1>4. r = [s EXCEPT !.out = s.out \o ((a \o b) \o c)]  BY DEF PassOn, Emit, PartDeltas
<1> HIDE DEF a, r
<1>5. CASE f.finish = "none"
  <2> DEFINE notice == Event("delta", "notice", 0, 0)
  <2>1. notice \in Ev /\ notice.stage = "delta"  BY Words, EventIs
  <2> HIDE DEF notice
  <2>2. b = << >> /\ c = IF f.blocked THEN << notice >> ELSE <<>>  BY <1>5 DEF notice
  <2>3. c \in Seq(Ev) /\ ~Over(c)
    <3>1. << notice >> \in Seq(Ev) /\ ~Over(<< notice >>)  BY <2>1, NotOverOne
    <3> HIDE DEF c
    <3> QED BY <2>2, <3>1, NotOverNone
  <2> HIDE DEF b, c
  <2>4. a \o b = a  BY <2>2, <1>3
  <2>5. s.out \o (a \o c) \in Seq(Ev) /\ ~Over(s.out \o (a \o c))
    BY <1>2, <1>3, <2>3, NotOverConcat
  <2>6. r = [s EXCEPT !.out = s.out \o (a \o c)]  BY <1>4, <2>4
  <2>7. r \in GeminiState /\ r.half = s.half /\ r.out = s.out \o (a \o c)  BY <2>5, <2>6 DEF GeminiState
  <2>8. EndsAs(r.out, f)  BY <2>5, <2>7, <1>5 DEF EndsAs, Over
  <2> QED BY <2>5, <2>7, <2>8, NotOverEndsOnce DEF r
<1>6. CASE f.finish # "none"
  <2> DEFINE e == Event("finish", f.finish, 0, 0)
  <2>1. e \in Ev /\ e.stage = "finish" /\ e.kind = f.finish  BY <1>1, Words, EventIs
  <2> HIDE DEF e
  <2>2. b = << e >> /\ c = << >>  BY <1>1, <1>6 DEF e
  <2> HIDE DEF b, c
  <2>3. (a \o b) \o c = a \o << e >> /\ << e >> \in Seq(Ev)
    <3>1. << e >> \in Seq(Ev)  BY <2>1
    <3>2. a \o << e >> \in Seq(Ev)  BY <3>1, <1>3
    <3>3. (a \o << e >>) \o << >> = a \o << e >>  BY <3>2
    <3> QED BY <3>1, <3>3, <2>2
  <2>4. s.out \o (a \o << e >>) = Append(o, e) /\ Append(o, e) \in Seq(Ev)
    BY <1>2, <1>3, <2>1, ConcatOne
  <2> HIDE DEF o
  <2>5. EndsOnce(Append(o, e))  BY <1>3, <2>1, NotOverEndsOnce, EndsAppend
  <2>6. r = [s EXCEPT !.out = Append(o, e)]  BY <1>4, <2>3, <2>4
  <2>7. r \in GeminiState /\ r.half = s.half /\ r.out = Append(o, e)  BY <2>4, <2>6 DEF GeminiState
  <2>8. EndsAs(Append(o, e), f)
    <3>1. Endings(Append(o, e)) = {Len(o) + 1}  BY <1>3, <2>1, EndingsAppend DEF Over
    <3>2. Append(o, e)[Len(o) + 1] = e  BY <1>3
    <3> QED BY <3>1, <3>2, <2>1, <1>6 DEF EndsAs, Over
  <2> QED BY <2>5, <2>7, <2>8 DEF r
<1> QED BY <1>5, <1>6

\* Any frame keeps the type of the state, finished or not.
LEMMA GeminiFrameTyped ==
  ASSUME NEW s \in GeminiState, NEW f \in FrameSet
  PROVE  GeminiFrame(s, f) \in GeminiState
<1> DEFINE z == [s EXCEPT !.half = FALSE]
           a == PartDeltas(f.parts)
           b == IF f.finish = "none" THEN <<>> ELSE << Event("finish", f.finish, 0, 0) >>
           c == IF f.blocked THEN << Event("delta", "notice", 0, 0) >> ELSE <<>>
<1>1. f.parts \in Seq(PartSet) /\ f.finish \in EvKind  BY DEF FrameSet, EvKind
<1>2. z \in GeminiState /\ [s EXCEPT !.half = TRUE] \in GeminiState  BY DEF GeminiState
<1>3. a \in Seq(Ev)  BY <1>1, PartDeltasAre
<1>4. b \in Seq(Ev)
  <2>1. Event("finish", f.finish, 0, 0) \in Ev  BY <1>1, Words, EventIs
  <2> QED BY <2>1
<1>5. c \in Seq(Ev)
  <2>1. Event("delta", "notice", 0, 0) \in Ev  BY Words, EventIs
  <2> QED BY <2>1
<1>6. PassOn(z, f.parts, f) = [z EXCEPT !.out = z.out \o ((a \o b) \o c)]
  BY DEF PassOn, Emit, PartDeltas
<1> HIDE DEF a, b, c, z
<1>7. z.out \in Seq(Ev)  BY <1>2 DEF GeminiState
<1>8. z.out \o ((a \o b) \o c) \in Seq(Ev)
  <2>1. (a \o b) \o c \in Seq(Ev)  BY <1>3, <1>4, <1>5
  <2> QED BY <2>1, <1>7
<1>9. PassOn(z, f.parts, f) \in GeminiState  BY <1>2, <1>6, <1>8 DEF GeminiState
<1>10. GeminiFrame(s, f) = IF f.torn /\ ~s.half THEN [s EXCEPT !.half = TRUE] ELSE PassOn(z, f.parts, f)
  BY DEF GeminiFrame, z
<1> QED BY <1>2, <1>9, <1>10

GeminiSound == { s \in GeminiState : EndsOnce(s.out) }
GeminiLive == { s \in GeminiState : ~Over(s.out) }

\* A frame keeps a live stream live or finishes it, and half a frame is kept.
LEMMA GeminiFrameLive ==
  ASSUME NEW s \in GeminiLive, NEW f \in FrameSet
  PROVE  LET r == GeminiFrame(s, f) IN
         /\ r \in GeminiSound
         /\ r.half <=> f.torn /\ ~s.half
         /\ r.half => ~Over(r.out)
         /\ ~r.half => EndsAs(r.out, f)
<1> DEFINE z == [s EXCEPT !.half = FALSE]
           t == [s EXCEPT !.half = TRUE]
           p == PassOn(z, f.parts, f)
           r == GeminiFrame(s, f)
<1>1. f.parts \in Seq(PartSet)  BY DEF FrameSet
<1>2. s \in GeminiState /\ ~Over(s.out)  BY DEF GeminiLive
<1>3. z \in GeminiState /\ z.out = s.out  BY <1>2 DEF GeminiState
<1>4. t \in GeminiState /\ t.out = s.out  BY <1>2 DEF GeminiState
<1>5. z.half = FALSE /\ t.half = TRUE  BY <1>2 DEF GeminiState
<1>6. r = IF f.torn /\ ~s.half THEN t ELSE p  BY DEF GeminiFrame
<1> HIDE DEF z, t
<1>7. /\ p \in GeminiState /\ p.half = z.half
      /\ EndsOnce(p.out) /\ EndsAs(p.out, f)
  BY <1>1, <1>2, <1>3, PassOnSound
<1> HIDE DEF r, p
<1>8. CASE f.torn /\ ~s.half
  <2>1. r = t  BY <1>6, <1>8
  <2>2. EndsOnce(t.out) /\ ~Over(t.out)  BY <1>2, <1>4, NotOverEndsOnce
  <2>3. r \in GeminiSound  BY <2>1, <2>2, <1>4 DEF GeminiSound
  <2> QED BY <2>1, <2>2, <2>3, <1>5, <1>8 DEF r
<1>9. CASE ~(f.torn /\ ~s.half)
  <2>1. r = p  BY <1>6, <1>9
  <2>2. r \in GeminiSound  BY <2>1, <1>7 DEF GeminiSound
  <2>3. ~r.half  BY <2>1, <1>5, <1>7
  <2>4. EndsAs(r.out, f)  BY <2>1, <1>7
  <2> QED BY <2>2, <2>3, <2>4, <1>9 DEF r
<1> QED BY <1>8, <1>9

\* A chunk whose pieces are those of a stream: its first frame is torn if it
\* is the rest of one, and its last one if it is half of one.
LEMMA GeminiChunkSound ==
  ASSUME NEW s \in GeminiLive, NEW chunk \in Seq(FrameSet), Len(chunk) > 0, NEW tear \in BOOLEAN,
         \A i \in 1 .. Len(chunk) : Finishing(chunk[i]) => i = Len(chunk),
         \A i \in 1 .. Len(chunk) :
           chunk[i].torn <=> (i = 1 /\ s.half) \/ (i = Len(chunk) /\ tear),
         tear /\ s.half => Len(chunk) # 1
  PROVE  LET r == GeminiChunk(s, chunk) IN
         /\ r \in GeminiSound
         /\ r.half <=> tear
         /\ tear => ~Over(r.out)
         /\ ~tear => EndsAs(r.out, chunk[Len(chunk)])
<1> DEFINE n == Len(chunk)
           Good(i, v) == /\ v \in GeminiSound
                         /\ v.half <=> i = n /\ tear
                         /\ v.half => ~Over(v.out)
                         /\ ~v.half => EndsAs(v.out, chunk[i])
           J == { x \in Nat \X GeminiState : (x[1] = 0 /\ x[2] = s) \/ (x[1] > 0 /\ Good(x[1], x[2])) }
           r == FoldLeft(GeminiFrame, s, chunk)
<1>1. s \in GeminiState /\ n \in Nat /\ \A i \in 1 .. n : chunk[i] \in FrameSet  BY DEF GeminiLive
<1>2. \A v \in GeminiState, d \in FrameSet : GeminiFrame(v, d) \in GeminiState  BY GeminiFrameTyped
<1>3. << 0, s >> \in J  BY <1>1
<1>4. ASSUME NEW i \in 1 .. n, NEW v \in GeminiState, << i - 1, v >> \in J
      PROVE  << i, GeminiFrame(v, chunk[i]) >> \in J
  <2> DEFINE w == GeminiFrame(v, chunk[i])
  <2>0. (i = 1 /\ v = s) \/ (i > 1 /\ Good(i - 1, v))
    <3>1. (i - 1 = 0 /\ v = s) \/ (i - 1 > 0 /\ Good(i - 1, v))
      <4> HIDE DEF Good
      <4> QED BY <1>4
    <3> HIDE DEF Good
    <3> QED BY <3>1, <1>1
  <2>1. v \in GeminiLive /\ (v.half <=> i = 1 /\ s.half)
    <3>1. CASE i = 1 /\ v = s  BY <3>1
    <3>2. CASE i > 1 /\ Good(i - 1, v)
      <4>1. i - 1 # n /\ i # 1  BY <3>2, <1>1
      <4>2. ~v.half /\ ~Over(v.out)
        <5>1. ~v.half /\ EndsAs(v.out, chunk[i - 1])  BY <3>2, <4>1
        <5>2. i - 1 \in 1 .. n  BY <4>1, <1>1
        <5>3. ~Finishing(chunk[i - 1])  BY <4>1, <5>2
        <5> QED BY <5>1, <5>3 DEF EndsAs, Finishing
      <4> QED BY <4>1, <4>2 DEF GeminiLive
    <3> QED BY <2>0, <3>1, <3>2
  <2>2. /\ w \in GeminiSound
        /\ w.half <=> chunk[i].torn /\ ~v.half
        /\ w.half => ~Over(w.out)
        /\ ~w.half => EndsAs(w.out, chunk[i])
    BY <1>1, <2>1, GeminiFrameLive
  <2> HIDE DEF w
  <2>3. w.half <=> i = n /\ tear
    <3>1. chunk[i].torn <=> (i = 1 /\ s.half) \/ (i = n /\ tear)  OBVIOUS
    <3>2. tear /\ s.half /\ i = n => i # 1  OBVIOUS
    <3> QED BY <2>1, <2>2, <3>1, <3>2
  <2>5. Good(i, w)  BY <2>2, <2>3
  <2>6. w \in GeminiState /\ i \in Nat /\ i > 0  BY <1>1, <2>2 DEF GeminiSound
  <2> HIDE DEF Good
  <2>7. << i, w >> \in J  BY <2>5, <2>6
  <2> QED BY <2>7 DEF w
<1> HIDE DEF J
<1>5. r \in GeminiState /\ << n, r >> \in J  BY <1>1, <1>2, <1>3, <1>4, GeminiFrames
<1> HIDE DEF r
<1>6. Good(n, r)
  <2> HIDE DEF Good
  <2> QED BY <1>5 DEF J
<1> QED BY <1>6 DEF r, GeminiChunk

-----------------------------------------------------------------------------
(* Messages: its events and blocks. *)

\* The same induction over the parts of a frame, for ClaudePart.
LEMMA ClaudeParts ==
  ASSUME NEW V, NEW D, NEW base \in V, NEW q \in Seq(D),
         \A v \in V, d \in D : ClaudePart(v, d) \in V,
         NEW J, << 0, base >> \in J,
         \A i \in 1 .. Len(q), v \in V :
           << i - 1, v >> \in J => << i, ClaudePart(v, q[i]) >> \in J
  PROVE  /\ FoldLeft(ClaudePart, base, q) \in V
         /\ << Len(q), FoldLeft(ClaudePart, base, q) >> \in J
<1> DEFINE f == [x \in V \X D |-> ClaudePart(x[1], x[2])]
           Is(g) == g = [t \in SUBSET (DOMAIN q) |->
                           IF t = {} THEN base ELSE ClaudePart(g[t \ {Max(t)}], q[Max(t)])]
           c == CHOOSE g : Is(g)
<1>1. f \in [V \X D -> V] /\ \A v \in V, d \in D : f[<< v, d >>] = ClaudePart(v, d)  OBVIOUS
<1>2. DOMAIN q = 1 .. Len(q) /\ \A i \in 1 .. Len(q) : q[i] \in D  OBVIOUS
<1>3. \A t \in SUBSET (1 .. Len(q)) : t \ {Max(t)} \in SUBSET (1 .. Len(q))  OBVIOUS
<1> HIDE DEF f
<1>4. PICK g \in [SUBSET (1 .. Len(q)) -> V] : Folds(g, f, base, q, Len(q))  BY <1>1, FoldExists
<1>5. Is(g)
  <2>1. ASSUME NEW t \in SUBSET (1 .. Len(q))
        PROVE  g[t] = IF t = {} THEN base ELSE ClaudePart(g[t \ {Max(t)}], q[Max(t)])
    <3>1. CASE t # {}
      <4>1. Max(t) \in 1 .. Len(q) /\ g[t] = f[<< g[t \ {Max(t)}], q[Max(t)] >>]
        BY <1>4, <3>1 DEF Folds
      <4>2. g[t \ {Max(t)}] \in V  BY <1>3, <1>4
      <4> QED BY <4>1, <4>2, <1>1, <1>2, <3>1
    <3>2. CASE t = {}  BY <1>4, <3>2 DEF Folds
    <3> QED BY <3>1, <3>2
  <2> QED BY <2>1, <1>2, <1>4
<1>6. Is(c)  BY <1>5
<1>7. FoldLeft(ClaudePart, base, q) = c[1 .. Len(q)]
  BY <1>2, Zenon DEF FoldLeft, MapThenFoldSet
<1> HIDE DEF c
<1>8. c[{}] = base /\ \A t \in SUBSET (1 .. Len(q)) :
        t # {} => c[t] = ClaudePart(c[t \ {Max(t)}], q[Max(t)])  BY <1>2, <1>6
<1>9. \A t \in SUBSET (1 .. Len(q)) : t # {} => Max(t) \in 1 .. Len(q)  BY <1>4 DEF Folds
<1>10. \A t \in SUBSET (1 .. Len(q)) :
         t # {} /\ c[t \ {Max(t)}] \in V => c[t] = f[<< c[t \ {Max(t)}], q[Max(t)] >>]
  BY <1>1, <1>2, <1>8, <1>9
<1>11. \A i \in 1 .. Len(q), v \in V : << i - 1, v >> \in J => << i, f[<< v, q[i] >>] >> \in J
  BY <1>1, <1>2
<1>12. c[1 .. Len(q)] \in V /\ << Len(q), c[1 .. Len(q)] >> \in J
  <2>1. Steps(c, f, V, base, q)  BY <1>8, <1>10 DEF Steps
  <2>2. Keeps(J, f, V, base, q)  BY <1>11 DEF Keeps
  <2> QED BY <1>1, <2>1, <2>2, FoldInduction
<1> QED BY <1>7, <1>12

\* A Messages stream, where a thought may be late.
Late == {"thought"}
ClaudeState ==
  [started : BOOLEAN, next : Nat, thinking : Int, thinkingOpen : BOOLEAN,
   text : Int, textOpen : BOOLEAN, tool : BOOLEAN, out : Seq(Ev)]
SameBlocks(s, r) ==
  /\ r.next = s.next /\ r.thinking = s.thinking /\ r.text = s.text
  /\ r.thinkingOpen <=> s.thinkingOpen
  /\ r.textOpen <=> s.textOpen

MayTell(out, e) ==
  /\ AllFit(out, Late)
  /\ e.stage = "open" => e.index \notin At(out, "open") /\ 0 .. e.index - 1 \subseteq At(out, "open")
  /\ e.stage \in Mids =>
       /\ e.index \in At(out, "open")
       /\ e.index \in At(out, "close") => e.kind \in Late /\ e.stage = "delta"
Grows(out, e, o) ==
  /\ AllFit(o, Late)
  /\ \A x : At(o, x) = IF e.stage = x THEN At(out, x) \cup {e.index} ELSE At(out, x)
  /\ Over(o) <=> Over(out) \/ e.stage = "finish"

\* Writing an event that the blocks allow.
LEMMA Tell ==
  ASSUME NEW s \in ClaudeState, NEW e \in Ev
  PROVE  LET r == Emit(s, << e >>) IN
         /\ r \in ClaudeState /\ r.out = Append(s.out, e) /\ SameBlocks(s, r)
         /\ MayTell(s.out, e) => Grows(s.out, e, r.out)
<1> DEFINE r == Emit(s, << e >>)
           o == Append(s.out, e)
<1>1. s.out \in Seq(Ev)  BY DEF ClaudeState
<1>2. r = [s EXCEPT !.out = o] /\ o \in Seq(Ev)  BY <1>1, AppendOne DEF Emit
<1> HIDE DEF r, o
<1>3. r \in ClaudeState /\ r.out = o  BY <1>2 DEF ClaudeState
<1>4. r.next = s.next /\ r.thinking = s.thinking /\ r.text = s.text  BY <1>2 DEF ClaudeState
<1>5. r.thinkingOpen <=> s.thinkingOpen  BY <1>2 DEF ClaudeState
<1>6. r.textOpen <=> s.textOpen  BY <1>2 DEF ClaudeState
<1>7. SameBlocks(s, r)  BY <1>4, <1>5, <1>6 DEF SameBlocks
<1>8. ASSUME MayTell(s.out, e) PROVE Grows(s.out, e, o)
  <2>1. AllFit(o, Late)  BY <1>1, <1>8, FitsAppend DEF MayTell, o
  <2>2. \A x : At(o, x) = IF e.stage = x THEN At(s.out, x) \cup {e.index} ELSE At(s.out, x)
    BY <1>1, AtAppend DEF o
  <2>3. Over(o) <=> Over(s.out) \/ e.stage = "finish"  BY <1>1, EndingsAppend DEF o
  <2> QED BY <2>1, <2>2, <2>3 DEF Grows
<1> QED BY <1>3, <1>7, <1>8 DEF r, o

OpenThought(s) == IF s.thinkingOpen THEN {s.thinking} ELSE {}
OpenText(s) == IF s.textOpen THEN {s.text} ELSE {}

\* The blocks up to "next" are open, and of those the thinking and the text
\* block may not be closed.
ClaudeFit ==
  { s \in ClaudeState :
      /\ ~Over(s.out) /\ AllFit(s.out, Late)
      /\ At(s.out, "open") = 0 .. s.next - 1
      /\ s.thinking # Absent => s.thinking \in 0 .. s.next - 1
      /\ s.text # Absent => s.text \in 0 .. s.next - 1 /\ s.text # s.thinking
      /\ s.thinkingOpen => s.thinking # Absent
      /\ s.textOpen => s.text # Absent
      /\ At(s.out, "close") = (0 .. s.next - 1) \ (OpenThought(s) \cup OpenText(s)) }
ClaudeLive == { s \in ClaudeFit : s.text # Absent => s.textOpen }

\* One more event about a block, or about none.
LEMMA TellFit ==
  ASSUME NEW s \in ClaudeFit, NEW e \in Ev, MayTell(s.out, e),
         e.stage \notin {"open", "close", "finish"}
  PROVE  LET r == Emit(s, << e >>) IN r \in ClaudeFit /\ SameBlocks(s, r)
<1> DEFINE r == Emit(s, << e >>)
<1>1. s \in ClaudeState  BY DEF ClaudeFit
<1>2. r \in ClaudeState /\ SameBlocks(s, r) /\ Grows(s.out, e, r.out)  BY <1>1, Tell
<1> HIDE DEF r
<1>3. /\ AllFit(r.out, Late) /\ ~Over(r.out) /\ At(r.out, "open") = At(s.out, "open")
      /\ At(r.out, "close") = At(s.out, "close")
  BY <1>2 DEF Grows, ClaudeFit
<1>4. OpenThought(r) = OpenThought(s)  BY <1>2 DEF SameBlocks, OpenThought
<1>5. OpenText(r) = OpenText(s)  BY <1>2 DEF SameBlocks, OpenText
<1>6. r \in ClaudeFit  BY <1>2, <1>3, <1>4, <1>5 DEF ClaudeFit, SameBlocks
<1> QED BY <1>2, <1>6 DEF r

\* Closing the thinking block, if it is open.
LEMMA StopThinkingFit ==
  ASSUME NEW s \in ClaudeFit
  PROVE  LET r == StopThinking(s) IN
         /\ r \in ClaudeFit /\ ~r.thinkingOpen /\ r.text = s.text
         /\ r.textOpen <=> s.textOpen
<1> DEFINE r == StopThinking(s)
           z == [s EXCEPT !.thinkingOpen = FALSE]
           e == Event("close", "thought", s.thinking, 0)
<1>1. CASE ~s.thinkingOpen  BY <1>1 DEF StopThinking
<1>2. CASE s.thinkingOpen
  <2>1. /\ s \in ClaudeState /\ s.thinking \in 0 .. s.next - 1 /\ s.thinking \in Int
        /\ s.next \in Nat /\ ~Over(s.out) /\ AllFit(s.out, Late)
        /\ At(s.out, "open") = 0 .. s.next - 1
        /\ s.text # Absent => s.text \in 0 .. s.next - 1 /\ s.text # s.thinking
        /\ s.textOpen => s.text # Absent
    BY <1>2 DEF ClaudeFit, ClaudeState
  <2>2. At(s.out, "close") = (0 .. s.next - 1) \ ({s.thinking} \cup OpenText(s))
    BY <1>2 DEF ClaudeFit, OpenThought
  <2>3. z \in ClaudeState /\ z.out = s.out /\ z.next = s.next /\ z.thinking = s.thinking /\ z.text = s.text
    BY <2>1 DEF ClaudeState
  <2>4. ~z.thinkingOpen /\ (z.textOpen <=> s.textOpen)  BY <2>1 DEF ClaudeState
  <2>5. e \in Ev /\ e.stage = "close" /\ e.index = s.thinking  BY <2>1, Words, EventIs
  <2>6. r = Emit(z, << e >>)  BY <1>2 DEF StopThinking
  <2> HIDE DEF z, e, r
  <2>7. s.thinking \notin At(s.out, "close")  BY <2>2
  <2>8. MayTell(z.out, e)  BY <2>1, <2>3, <2>5, <2>7 DEF MayTell
  <2>9. r \in ClaudeState /\ SameBlocks(z, r) /\ Grows(z.out, e, r.out)  BY <2>3, <2>5, <2>6, <2>8, Tell
  <2>10. /\ AllFit(r.out, Late) /\ ~Over(r.out) /\ At(r.out, "open") = 0 .. s.next - 1
         /\ At(r.out, "close") = At(s.out, "close") \cup {s.thinking}
    BY <2>1, <2>3, <2>5, <2>9 DEF Grows
  <2>11. ~r.thinkingOpen /\ (r.textOpen <=> s.textOpen)  BY <2>4, <2>9 DEF SameBlocks
  <2>12. r.next = s.next /\ r.thinking = s.thinking /\ r.text = s.text  BY <2>3, <2>9 DEF SameBlocks
  <2>13. OpenThought(r) = {} /\ OpenText(r) = OpenText(s)  BY <2>11, <2>12 DEF OpenThought, OpenText
  <2>14. s.thinking \notin OpenText(s)  BY <2>1 DEF OpenText
  <2>15. At(r.out, "close") = (0 .. r.next - 1) \ (OpenThought(r) \cup OpenText(r))
    BY <2>1, <2>2, <2>10, <2>12, <2>13, <2>14
  <2>16. r \in ClaudeFit  BY <2>1, <2>9, <2>10, <2>11, <2>12, <2>15 DEF ClaudeFit
  <2> QED BY <2>11, <2>12, <2>16 DEF r
<1> QED BY <1>1, <1>2

\* Closing the text block, if it is open.
LEMMA StopTextFit ==
  ASSUME NEW s \in ClaudeFit
  PROVE  LET r == StopText(s) IN r \in ClaudeFit /\ ~r.textOpen
<1> DEFINE r == StopText(s)
           z == [s EXCEPT !.textOpen = FALSE]
           e == Event("close", "text", s.text, 0)
<1>1. CASE ~s.textOpen  BY <1>1 DEF StopText
<1>2. CASE s.textOpen
  <2>1. /\ s \in ClaudeState /\ s.text \in 0 .. s.next - 1 /\ s.text \in Int /\ s.text # s.thinking
        /\ s.next \in Nat /\ ~Over(s.out) /\ AllFit(s.out, Late)
        /\ At(s.out, "open") = 0 .. s.next - 1
        /\ s.thinking # Absent => s.thinking \in 0 .. s.next - 1
        /\ s.thinkingOpen => s.thinking # Absent
    BY <1>2 DEF ClaudeFit, ClaudeState
  <2>2. At(s.out, "close") = (0 .. s.next - 1) \ (OpenThought(s) \cup {s.text})
    BY <1>2 DEF ClaudeFit, OpenText
  <2>3. z \in ClaudeState /\ z.out = s.out /\ z.next = s.next /\ z.thinking = s.thinking /\ z.text = s.text
    BY <2>1 DEF ClaudeState
  <2>4. ~z.textOpen /\ (z.thinkingOpen <=> s.thinkingOpen)  BY <2>1 DEF ClaudeState
  <2>5. e \in Ev /\ e.stage = "close" /\ e.index = s.text  BY <2>1, Words, EventIs
  <2>6. r = Emit(z, << e >>)  BY <1>2 DEF StopText
  <2> HIDE DEF z, e, r
  <2>7. s.text \notin At(s.out, "close")  BY <2>2
  <2>8. MayTell(z.out, e)  BY <2>1, <2>3, <2>5, <2>7 DEF MayTell
  <2>9. r \in ClaudeState /\ SameBlocks(z, r) /\ Grows(z.out, e, r.out)  BY <2>3, <2>5, <2>6, <2>8, Tell
  <2>10. /\ AllFit(r.out, Late) /\ ~Over(r.out) /\ At(r.out, "open") = 0 .. s.next - 1
         /\ At(r.out, "close") = At(s.out, "close") \cup {s.text}
    BY <2>1, <2>3, <2>5, <2>9 DEF Grows
  <2>11. ~r.textOpen /\ (r.thinkingOpen <=> s.thinkingOpen)  BY <2>4, <2>9 DEF SameBlocks
  <2>12. r.next = s.next /\ r.thinking = s.thinking /\ r.text = s.text  BY <2>3, <2>9 DEF SameBlocks
  <2>13. OpenText(r) = {} /\ OpenThought(r) = OpenThought(s)  BY <2>11, <2>12 DEF OpenThought, OpenText
  <2>14. s.text \notin OpenThought(s)  BY <2>1 DEF OpenThought
  <2>15. At(r.out, "close") = (0 .. r.next - 1) \ (OpenThought(r) \cup OpenText(r))
    BY <2>1, <2>2, <2>10, <2>12, <2>13, <2>14
  <2>16. r \in ClaudeFit  BY <2>1, <2>9, <2>10, <2>11, <2>12, <2>15 DEF ClaudeFit
  <2> QED BY <2>11, <2>16 DEF r
<1> QED BY <1>1, <1>2

-----------------------------------------------------------------------------
(* Messages: thoughts and text. *)

\* A thought goes to the one thinking block, even when text has closed it.
LEMMA ClaudeThoughtLive ==
  ASSUME NEW s \in ClaudeLive, NEW p \in PartSet
  PROVE  ClaudeThought(s, p) \in ClaudeLive
<1> DEFINE z == [s EXCEPT !.thinking = s.next, !.thinkingOpen = TRUE, !.next = s.next + 1]
           e == Event("open", "thought", s.next, 0)
           r == IF s.thinking # Absent THEN s ELSE Emit(z, << e >>)
           d == Event("delta", "thought", r.thinking, p.id)
<1>1. /\ s \in ClaudeState /\ s \in ClaudeFit /\ s.next \in Nat /\ s.next \in Int /\ ~Over(s.out)
      /\ AllFit(s.out, Late)
      /\ At(s.out, "open") = 0 .. s.next - 1
      /\ s.text # Absent => s.text \in 0 .. s.next - 1 /\ s.text # s.thinking
      /\ s.textOpen => s.text # Absent
      /\ s.thinkingOpen => s.thinking # Absent
      /\ s.text # Absent => s.textOpen
  BY DEF ClaudeLive, ClaudeFit, ClaudeState
<1>2. At(s.out, "close") = (0 .. s.next - 1) \ (OpenThought(s) \cup OpenText(s))
  BY DEF ClaudeLive, ClaudeFit
<1>3. r \in ClaudeLive /\ r.thinking # Absent
  <2>1. CASE s.thinking # Absent  BY <2>1
  <2>2. CASE s.thinking = Absent
    <3>1. r = Emit(z, << e >>)  BY <2>2
    <3>2. z \in ClaudeState /\ z.out = s.out /\ z.next = s.next + 1 /\ z.thinking = s.next /\ z.text = s.text
      <4>1. s.next + 1 \in Nat  BY <1>1
      <4> QED BY <4>1, <1>1 DEF ClaudeState
    <3>3. z.thinkingOpen /\ (z.textOpen <=> s.textOpen)  BY <1>1 DEF ClaudeState
    <3>4. e \in Ev /\ e.stage = "open" /\ e.index = s.next  BY <1>1, Words, EventIs
    <3> HIDE DEF z, e, r
    <3>5. MayTell(z.out, e)  BY <1>1, <3>2, <3>4 DEF MayTell, Mids
    <3>6. r \in ClaudeState /\ SameBlocks(z, r) /\ Grows(z.out, e, r.out)
      BY <3>1, <3>2, <3>4, <3>5, Tell
    <3>7. /\ AllFit(r.out, Late) /\ ~Over(r.out) /\ At(r.out, "open") = (0 .. s.next - 1) \cup {s.next}
          /\ At(r.out, "close") = At(s.out, "close")
      BY <1>1, <3>2, <3>4, <3>6 DEF Grows
    <3>8. r.thinkingOpen /\ (r.textOpen <=> s.textOpen)  BY <3>3, <3>6 DEF SameBlocks
    <3>9. r.next = s.next + 1 /\ r.thinking = s.next /\ r.text = s.text  BY <3>2, <3>6 DEF SameBlocks
    <3>10. OpenThought(r) = {s.next} /\ OpenText(r) = OpenText(s)  BY <3>8, <3>9 DEF OpenThought, OpenText
    <3>11. OpenThought(s) = {} /\ s.next # Absent  BY <1>1, <2>2 DEF OpenThought, Absent
    <3>12. At(r.out, "open") = 0 .. r.next - 1
      <4>1. At(r.out, "open") = 0 .. s.next  BY <3>7, <1>1, OneMore
      <4> QED BY <4>1, <3>9, <1>1
    <3>13. At(r.out, "close") = (0 .. r.next - 1) \ (OpenThought(r) \cup OpenText(r))
      <4>1. (0 .. r.next - 1) \ {s.next} = 0 .. s.next - 1  BY <3>9, <1>1
      <4> QED BY <4>1, <1>2, <3>7, <3>10, <3>11
    <3>14. r.text # Absent => r.text \in 0 .. r.next - 1 /\ r.text # r.thinking  BY <1>1, <3>9
    <3>15. r.thinking \in 0 .. r.next - 1 /\ r.thinking # Absent  BY <1>1, <3>9, <3>11
    <3>16. r \in ClaudeFit
      BY <1>1, <3>6, <3>7, <3>8, <3>9, <3>12, <3>13, <3>14, <3>15 DEF ClaudeFit
    <3>17. r \in ClaudeLive  BY <3>16, <3>8, <3>9, <1>1 DEF ClaudeLive
    <3> QED BY <3>15, <3>17
  <2> QED BY <2>1, <2>2
<1>4. ClaudeThought(s, p) = Emit(r, << d >>)  BY DEF ClaudeThought
<1> HIDE DEF r
<1>5. r.thinking \in Int /\ p.id \in Int  BY <1>3 DEF ClaudeLive, ClaudeFit, ClaudeState, PartSet
<1>6. d \in Ev /\ d.stage = "delta" /\ d.index = r.thinking /\ d.kind = "thought"
  BY <1>5, Words, EventIs
<1> HIDE DEF d
<1>7. MayTell(r.out, d)  BY <1>3, <1>6 DEF ClaudeLive, ClaudeFit, MayTell, Late
<1>8. Emit(r, << d >>) \in ClaudeFit /\ SameBlocks(r, Emit(r, << d >>))
  <2>1. r \in ClaudeFit  BY <1>3 DEF ClaudeLive
  <2> QED BY <2>1, <1>6, <1>7, TellFit
<1> QED BY <1>3, <1>4, <1>8 DEF ClaudeLive, SameBlocks

\* Text closes the thinking block and goes to the one text block.
LEMMA ClaudeTextLive ==
  ASSUME NEW s \in ClaudeLive, NEW p \in PartSet
  PROVE  ClaudeText(s, p) \in ClaudeLive
<1> DEFINE t == StopThinking(s)
           z == [t EXCEPT !.text = t.next, !.textOpen = TRUE, !.next = t.next + 1]
           e == Event("open", "text", t.next, 0)
           r == IF t.text # Absent THEN t ELSE Emit(z, << e >>)
           d == Event("delta", "text", r.text, p.id)
<1>1. t \in ClaudeFit /\ ~t.thinkingOpen /\ (t.text # Absent => t.textOpen)
  <2>1. s \in ClaudeFit /\ (s.text # Absent => s.textOpen)  BY DEF ClaudeLive
  <2> HIDE DEF t
  <2>2. t \in ClaudeFit /\ ~t.thinkingOpen /\ t.text = s.text /\ (t.textOpen <=> s.textOpen)
    BY <2>1, StopThinkingFit DEF t
  <2> QED BY <2>1, <2>2
<1>2. ClaudeText(s, p) = Emit(r, << d >>)  BY DEF ClaudeText
<1> HIDE DEF t
<1>3. /\ t \in ClaudeState /\ t.next \in Nat /\ t.next \in Int /\ ~Over(t.out)
      /\ AllFit(t.out, Late)
      /\ At(t.out, "open") = 0 .. t.next - 1
      /\ t.thinking # Absent => t.thinking \in 0 .. t.next - 1
      /\ t.textOpen => t.text # Absent
  BY <1>1 DEF ClaudeFit, ClaudeState
<1>4. At(t.out, "close") = (0 .. t.next - 1) \ (OpenThought(t) \cup OpenText(t))
  BY <1>1 DEF ClaudeFit
<1>5. r \in ClaudeLive /\ r.text # Absent
  <2>1. CASE t.text # Absent  BY <2>1, <1>1 DEF ClaudeLive
  <2>2. CASE t.text = Absent
    <3>1. r = Emit(z, << e >>)  BY <2>2
    <3>2. z \in ClaudeState /\ z.out = t.out /\ z.next = t.next + 1 /\ z.text = t.next
          /\ z.thinking = t.thinking
      <4>1. t.next + 1 \in Nat  BY <1>3
      <4> QED BY <4>1, <1>3 DEF ClaudeState
    <3>3. z.textOpen /\ (z.thinkingOpen <=> t.thinkingOpen)  BY <1>3 DEF ClaudeState
    <3>4. e \in Ev /\ e.stage = "open" /\ e.index = t.next  BY <1>3, Words, EventIs
    <3> HIDE DEF z, e, r
    <3>5. MayTell(z.out, e)  BY <1>3, <3>2, <3>4 DEF MayTell, Mids
    <3>6. r \in ClaudeState /\ SameBlocks(z, r) /\ Grows(z.out, e, r.out)
      BY <3>1, <3>2, <3>4, <3>5, Tell
    <3>7. /\ AllFit(r.out, Late) /\ ~Over(r.out) /\ At(r.out, "open") = (0 .. t.next - 1) \cup {t.next}
          /\ At(r.out, "close") = At(t.out, "close")
      BY <1>3, <3>2, <3>4, <3>6 DEF Grows
    <3>8. r.textOpen /\ ~r.thinkingOpen  BY <1>1, <3>3, <3>6 DEF SameBlocks
    <3>9. r.next = t.next + 1 /\ r.thinking = t.thinking /\ r.text = t.next  BY <3>2, <3>6 DEF SameBlocks
    <3>10. OpenText(r) = {t.next} /\ OpenThought(r) = {} /\ OpenThought(t) = {}
      BY <1>1, <3>8, <3>9 DEF OpenThought, OpenText
    <3>11. OpenText(t) = {} /\ t.next # Absent  BY <1>3, <2>2 DEF OpenText, Absent
    <3>12. At(r.out, "open") = 0 .. r.next - 1
      <4>1. At(r.out, "open") = 0 .. t.next  BY <3>7, <1>3, OneMore
      <4> QED BY <4>1, <3>9, <1>3
    <3>13. At(r.out, "close") = (0 .. r.next - 1) \ (OpenThought(r) \cup OpenText(r))
      <4>1. (0 .. r.next - 1) \ {t.next} = 0 .. t.next - 1  BY <3>9, <1>3
      <4> QED BY <4>1, <1>4, <3>7, <3>10, <3>11
    <3>14. r.thinking # Absent => r.thinking \in 0 .. r.next - 1  BY <1>3, <3>9
    <3>15. r.text \in 0 .. r.next - 1 /\ r.text # Absent /\ r.text # r.thinking
      BY <1>3, <3>9, <3>11
    <3>16. r \in ClaudeFit
      BY <3>6, <3>7, <3>8, <3>12, <3>13, <3>14, <3>15 DEF ClaudeFit
    <3>17. r \in ClaudeLive  BY <3>16, <3>8 DEF ClaudeLive
    <3> QED BY <3>15, <3>17
  <2> QED BY <2>1, <2>2
<1> HIDE DEF r
<1>6. r.text \in Int /\ p.id \in Int  BY <1>5 DEF ClaudeLive, ClaudeFit, ClaudeState, PartSet
<1>7. d \in Ev /\ d.stage = "delta" /\ d.index = r.text /\ d.kind = "text"
  BY <1>6, Words, EventIs
<1> HIDE DEF d
<1>8. MayTell(r.out, d)
  <2>1. /\ AllFit(r.out, Late) /\ r.text \in At(r.out, "open") /\ r.textOpen
        /\ At(r.out, "close") = (0 .. r.next - 1) \ (OpenThought(r) \cup OpenText(r))
    BY <1>5 DEF ClaudeLive, ClaudeFit
  <2>2. r.text \notin At(r.out, "close")  BY <2>1 DEF OpenText
  <2> QED BY <2>1, <2>2, <1>7 DEF MayTell
<1>9. Emit(r, << d >>) \in ClaudeFit /\ SameBlocks(r, Emit(r, << d >>))
  <2>1. r \in ClaudeFit  BY <1>5 DEF ClaudeLive
  <2> QED BY <2>1, <1>7, <1>8, TellFit
<1> QED BY <1>2, <1>5, <1>9 DEF ClaudeLive, SameBlocks

\* Several events are one after the other.
LEMMA TellThree ==
  ASSUME NEW s \in ClaudeState, NEW c \in Ev, NEW d \in Ev, NEW e \in Ev
  PROVE  /\ Emit(s, << c, d >>) = Emit(Emit(s, << c >>), << d >>)
         /\ Emit(s, << c, d, e >>) = Emit(Emit(Emit(s, << c >>), << d >>), << e >>)
<1> DEFINE y == Emit(s, << c >>)
           z == Emit(y, << d >>)
<1>1. s.out \in Seq(Ev)  BY DEF ClaudeState
<1>2. y = [s EXCEPT !.out = s.out \o << c >>] /\ y.out = s.out \o << c >>  BY DEF Emit, ClaudeState
<1>3. s.out \o << c, d >> = (s.out \o << c >>) \o << d >>  BY <1>1, AppendTwo
<1>4. z = [y EXCEPT !.out = y.out \o << d >>]  BY DEF Emit
<1> HIDE DEF y, z
<1>5. z = [s EXCEPT !.out = s.out \o << c, d >>] /\ z.out = s.out \o << c, d >>
  BY <1>2, <1>3, <1>4 DEF ClaudeState
<1>6. s.out \o << c, d, e >> = (s.out \o << c, d >>) \o << e >>
  <2>1. << c, d >> \in Seq(Ev) /\ << e >> \in Seq(Ev) /\ << c, d, e >> \in Seq(Ev)  OBVIOUS
  <2>2. << c, d >> \o << e >> = << c, d, e >>
    <3> DEFINE l == << c, d >> \o << e >>
               w == << c, d, e >>
    <3>1. l \in Seq(Ev) /\ Len(l) = 3 /\ l[1] = c /\ l[2] = d /\ l[3] = e  BY <2>1
    <3>2. w \in Seq(Ev) /\ Len(w) = 3 /\ w[1] = c /\ w[2] = d /\ w[3] = e  OBVIOUS
    <3>3. \A i \in 1 .. 3 : i = 1 \/ i = 2 \/ i = 3  OBVIOUS
    <3> HIDE DEF l, w
    <3>4. \A i \in 1 .. Len(l) : l[i] = w[i]  BY <3>1, <3>2, <3>3
    <3>5. l = w  BY <3>1, <3>2, <3>4, SeqEqual
    <3> QED BY <3>5 DEF l, w
  <2>3. (s.out \o << c, d >>) \o << e >> = s.out \o (<< c, d >> \o << e >>)
    BY <1>1, <2>1, ConcatAssociative
  <2> QED BY <2>2, <2>3
<1>7. Emit(z, << e >>) = [z EXCEPT !.out = z.out \o << e >>]  BY DEF Emit
<1>8. Emit(z, << e >>) = [s EXCEPT !.out = s.out \o << c, d, e >>]
  BY <1>5, <1>6, <1>7 DEF ClaudeState
<1>9. Emit(s, << c, d, e >>) = [s EXCEPT !.out = s.out \o << c, d, e >>]
      /\ Emit(s, << c, d >>) = [s EXCEPT !.out = s.out \o << c, d >>]  BY DEF Emit
<1> QED BY <1>5, <1>8, <1>9 DEF y, z

-----------------------------------------------------------------------------
(* Messages: calls, frames and chunks. *)

\* A call is a block of its own, opened and closed at once.
LEMMA ClaudeCallLive ==
  ASSUME NEW s \in ClaudeLive, NEW p \in PartSet
  PROVE  ClaudeCall(s, p) \in ClaudeLive
<1> DEFINE z == [s EXCEPT !.next = s.next + 1, !.tool = TRUE]
           c == Event("open", "call", s.next, 0)
           d == Event("delta", "call", s.next, p.id)
           e == Event("close", "call", s.next, 0)
           x == Emit(z, << c >>)
           y == Emit(x, << d >>)
           r == Emit(y, << e >>)
<1>1. /\ s \in ClaudeState /\ s.next \in Nat /\ s.next \in Int /\ ~Over(s.out)
      /\ AllFit(s.out, Late)
      /\ At(s.out, "open") = 0 .. s.next - 1
      /\ s.thinking # Absent => s.thinking \in 0 .. s.next - 1
      /\ s.text # Absent => s.text \in 0 .. s.next - 1 /\ s.text # s.thinking
      /\ s.textOpen => s.text # Absent
      /\ s.thinkingOpen => s.thinking # Absent
      /\ s.text # Absent => s.textOpen
  BY DEF ClaudeLive, ClaudeFit, ClaudeState
<1>2. At(s.out, "close") = (0 .. s.next - 1) \ (OpenThought(s) \cup OpenText(s))
  BY DEF ClaudeLive, ClaudeFit
<1>2a. OpenThought(s) \cup OpenText(s) \subseteq 0 .. s.next - 1
  BY <1>1 DEF OpenThought, OpenText
<1>3. z \in ClaudeState /\ z.out = s.out /\ z.next = s.next + 1 /\ z.thinking = s.thinking /\ z.text = s.text
  <2>1. s.next + 1 \in Nat  BY <1>1
  <2> QED BY <2>1, <1>1 DEF ClaudeState
<1>4. (z.thinkingOpen <=> s.thinkingOpen) /\ (z.textOpen <=> s.textOpen)  BY <1>1 DEF ClaudeState
<1>5. /\ c \in Ev /\ c.stage = "open" /\ c.index = s.next
      /\ e \in Ev /\ e.stage = "close" /\ e.index = s.next
  BY <1>1, Words, EventIs
<1>6. d \in Ev /\ d.stage = "delta" /\ d.index = s.next
  <2>1. p.id \in Int  BY DEF PartSet
  <2> QED BY <2>1, <1>1, Words, EventIs
<1>7. ClaudeCall(s, p) = r
  <2>1. ClaudeCall(s, p) = Emit(z, << c, d, e >>)  BY DEF ClaudeCall
  <2> HIDE DEF z, c, d, e
  <2> QED BY <2>1, <1>3, <1>5, <1>6, TellThree
<1> HIDE DEF z, c, d, e, x, y, r
<1>8. s.next \notin At(s.out, "close") /\ s.next \notin 0 .. s.next - 1  BY <1>1, <1>2
<1>9. x \in ClaudeState /\ SameBlocks(z, x) /\ Grows(s.out, c, x.out)
  <2>1. MayTell(z.out, c)  BY <1>1, <1>3, <1>5 DEF MayTell, Mids
  <2> QED BY <2>1, <1>3, <1>5, Tell DEF x
<1>10. /\ AllFit(x.out, Late) /\ ~Over(x.out) /\ At(x.out, "open") = (0 .. s.next - 1) \cup {s.next}
       /\ At(x.out, "close") = At(s.out, "close")
  BY <1>1, <1>5, <1>9 DEF Grows
<1>11. y \in ClaudeState /\ SameBlocks(x, y) /\ Grows(x.out, d, y.out)
  <2>1. MayTell(x.out, d)  BY <1>6, <1>8, <1>10 DEF MayTell
  <2> QED BY <2>1, <1>6, <1>9, Tell DEF y
<1>12. /\ AllFit(y.out, Late) /\ ~Over(y.out) /\ At(y.out, "open") = (0 .. s.next - 1) \cup {s.next}
       /\ At(y.out, "close") = At(s.out, "close")
  BY <1>6, <1>10, <1>11 DEF Grows
<1>13. r \in ClaudeState /\ SameBlocks(y, r) /\ Grows(y.out, e, r.out)
  <2>1. MayTell(y.out, e)  BY <1>5, <1>8, <1>12 DEF MayTell
  <2> QED BY <2>1, <1>5, <1>11, Tell DEF r
<1>14. /\ AllFit(r.out, Late) /\ ~Over(r.out) /\ At(r.out, "open") = (0 .. s.next - 1) \cup {s.next}
       /\ At(r.out, "close") = At(s.out, "close") \cup {s.next}
  BY <1>5, <1>12, <1>13 DEF Grows
<1>15. r.next = s.next + 1 /\ r.thinking = s.thinking /\ r.text = s.text
  BY <1>3, <1>9, <1>11, <1>13 DEF SameBlocks
<1>16. (r.thinkingOpen <=> s.thinkingOpen) /\ (r.textOpen <=> s.textOpen)
  BY <1>4, <1>9, <1>11, <1>13 DEF SameBlocks
<1>17. OpenThought(r) = OpenThought(s) /\ OpenText(r) = OpenText(s)
  BY <1>15, <1>16 DEF OpenThought, OpenText
<1>18. (0 .. s.next - 1) \cup {s.next} = 0 .. r.next - 1
  BY <1>1, <1>15, OneMore
<1>19. At(r.out, "close") = (0 .. r.next - 1) \ (OpenThought(r) \cup OpenText(r))
  <2> DEFINE k == OpenThought(s) \cup OpenText(s)
  <2>1. s.next \notin k  BY <1>2a, <1>8
  <2> HIDE DEF k
  <2>2. At(r.out, "close") = ((0 .. s.next - 1) \cup {s.next}) \ k  BY <1>2, <1>14, <2>1 DEF k
  <2> QED BY <2>2, <1>17, <1>18 DEF k
<1>20. /\ r.thinking # Absent => r.thinking \in 0 .. r.next - 1
       /\ r.text # Absent => r.text \in 0 .. r.next - 1 /\ r.text # r.thinking
  BY <1>1, <1>15
<1>21. r \in ClaudeFit
  BY <1>1, <1>13, <1>14, <1>15, <1>16, <1>18, <1>19, <1>20 DEF ClaudeFit
<1> QED BY <1>1, <1>7, <1>15, <1>16, <1>21 DEF ClaudeLive

\* Every part keeps a live Messages stream live.
LEMMA ClaudePartLive ==
  ASSUME NEW s \in ClaudeLive, NEW p \in PartSet
  PROVE  ClaudePart(s, p) \in ClaudeLive
<1>1. p.kind \in Kind  BY DEF PartSet
<1>2. CASE p.kind = "thought"  BY <1>2, ClaudeThoughtLive DEF ClaudePart
<1>3. CASE p.kind \in {"text", "image"}  BY <1>3, ClaudeTextLive DEF ClaudePart
<1>4. CASE p.kind = "call"  BY <1>4, ClaudeCallLive DEF ClaudePart
<1> QED BY <1>1, <1>2, <1>3, <1>4 DEF Kind

\* What holds of a Messages stream, under way or over.
ClaudeSound ==
  { s \in ClaudeState : EndsOnce(s.out) /\ AllClosed(s.out) /\ AllFit(s.out, Late) }

ClaudeOver == { s \in ClaudeSound : Over(s.out) }

\* The finish closes both blocks before it is told, and it is told once.
LEMMA ClaudeFinishSound ==
  ASSUME NEW s \in ClaudeLive, NEW f \in FrameSet
  PROVE  LET r == ClaudeFinish(s, f) IN
         /\ r \in ClaudeOver
         /\ \A i \in Endings(r.out) : r.out[i].kind = IF s.tool THEN "call" ELSE f.finish
<1> DEFINE a == StopText(s)
           b == StopThinking(a)
           kind == IF s.tool THEN "call" ELSE f.finish
           d == Event("stop_reason", kind, 0, 0)
           e == Event("finish", kind, 0, 0)
           y == Emit(b, << d >>)
           r == Emit(y, << e >>)
<1>1. kind \in EvKind
  <2>1. f.finish \in EvKind  BY DEF FrameSet, EvKind
  <2> QED BY <2>1, Words
<1>2. a \in ClaudeFit /\ ~a.textOpen
  <2>1. s \in ClaudeFit  BY DEF ClaudeLive
  <2> QED BY <2>1, StopTextFit
<1>3. ClaudeFinish(s, f) = Emit(b, << d, e >>)  BY DEF ClaudeFinish
<1> HIDE DEF a, kind
<1>4. b \in ClaudeFit /\ ~b.thinkingOpen /\ ~b.textOpen  BY <1>2, StopThinkingFit
<1> HIDE DEF b
<1>5. /\ d \in Ev /\ d.stage = "stop_reason"
      /\ e \in Ev /\ e.stage = "finish" /\ e.kind = kind
  BY <1>1, Words, EventIs
<1> HIDE DEF d, e, y, r
<1>6. b \in ClaudeState /\ At(b.out, "close") = At(b.out, "open")
  <2>1. OpenThought(b) = {} /\ OpenText(b) = {}  BY <1>4 DEF OpenThought, OpenText
  <2>2. b \in ClaudeState /\ At(b.out, "open") = 0 .. b.next - 1
        /\ At(b.out, "close") = (0 .. b.next - 1) \ (OpenThought(b) \cup OpenText(b))
    BY <1>4 DEF ClaudeFit
  <2> QED BY <2>1, <2>2
<1>7. ClaudeFinish(s, f) = r  BY <1>3, <1>5, <1>6, TellThree DEF r, y
<1>8. y \in ClaudeState /\ Grows(b.out, d, y.out)
  <2>1. MayTell(b.out, d)  BY <1>4, <1>5 DEF ClaudeFit, MayTell, Mids
  <2> QED BY <2>1, <1>5, <1>6, Tell DEF y
<1>9. ~Over(y.out) /\ AllFit(y.out, Late) /\ At(y.out, "open") \subseteq At(y.out, "close")
      /\ y.out \in Seq(Ev)
  BY <1>4, <1>5, <1>6, <1>8 DEF Grows, ClaudeFit, ClaudeState
<1>10. r \in ClaudeState /\ r.out = Append(y.out, e) /\ Grows(y.out, e, r.out)
  <2>1. MayTell(y.out, e)  BY <1>5, <1>9 DEF MayTell, Mids
  <2> QED BY <2>1, <1>5, <1>8, Tell DEF r
<1>11. EndsOnce(y.out) /\ AllClosed(y.out)  BY <1>9, NotOverEndsOnce
<1>12. EndsOnce(r.out)  BY <1>5, <1>9, <1>10, <1>11, EndsAppend
<1>13. AllClosed(r.out)  BY <1>5, <1>9, <1>10, <1>11, ClosedAppend
<1>14. Over(r.out)  BY <1>5, <1>10 DEF Grows
<1>15. \A i \in Endings(r.out) : r.out[i].kind = kind
  <2> DEFINE q == y.out
  <2>1. q \in Seq(Ev) /\ ~Over(q) /\ r.out = Append(q, e)  BY <1>9, <1>10
  <2> HIDE DEF q
  <2>2. Endings(Append(q, e)) = {Len(q) + 1} /\ Append(q, e)[Len(q) + 1] = e
    BY <2>1, <1>5, EndingsAppend DEF Over
  <2> QED BY <2>1, <2>2, <1>5
<1>16. r \in ClaudeOver  BY <1>10, <1>12, <1>13, <1>14 DEF ClaudeOver, ClaudeSound, Grows
<1> QED BY <1>7, <1>15, <1>16 DEF kind

\* The start of a stream, told once.
ClaudeBegun(s) == IF s.started THEN s
                  ELSE Emit([s EXCEPT !.started = TRUE], << Event("start", "none", 0, 0) >>)

\* It opens nothing.
LEMMA ClaudeBegunLive ==
  ASSUME NEW s \in ClaudeLive
  PROVE  ClaudeBegun(s) \in ClaudeLive
<1> DEFINE first == Event("start", "none", 0, 0)
           z == [s EXCEPT !.started = TRUE]
<1>1. first \in Ev /\ first.stage = "start"  BY Words, EventIs
<1>2. s \in ClaudeState /\ s \in ClaudeFit  BY DEF ClaudeLive, ClaudeFit
<1>3. z \in ClaudeState  BY <1>2 DEF ClaudeState
<1>3a. z.out = s.out /\ z.next = s.next /\ z.thinking = s.thinking /\ z.text = s.text
  BY <1>2 DEF ClaudeState
<1>4. (z.thinkingOpen <=> s.thinkingOpen) /\ (z.textOpen <=> s.textOpen)  BY <1>2 DEF ClaudeState
<1> HIDE DEF first, z
<1>5. z \in ClaudeFit
  <2>1. OpenThought(z) = OpenThought(s)  BY <1>3a, <1>4 DEF OpenThought
  <2>2. OpenText(z) = OpenText(s)  BY <1>3a, <1>4 DEF OpenText
  <2>3. At(z.out, "close") = (0 .. z.next - 1) \ (OpenThought(z) \cup OpenText(z))
    BY <1>2, <1>3a, <2>1, <2>2 DEF ClaudeFit
  <2> QED BY <1>2, <1>3, <1>3a, <1>4, <2>3 DEF ClaudeFit
<1>6. MayTell(z.out, first)  BY <1>1, <1>5 DEF ClaudeFit, MayTell, Mids
<1>7. Emit(z, << first >>) \in ClaudeFit /\ SameBlocks(z, Emit(z, << first >>))
  BY <1>1, <1>5, <1>6, TellFit
<1>8. Emit(z, << first >>) \in ClaudeLive  BY <1>3a, <1>4, <1>7 DEF ClaudeLive, SameBlocks
<1> QED BY <1>8 DEF ClaudeBegun, z, first

\* A frame keeps a live stream live, or finishes it.
LEMMA ClaudeFrameSound ==
  ASSUME NEW s \in ClaudeLive, NEW f \in FrameSet
  PROVE  LET r == ClaudeFrame(s, f) IN r \in ClaudeLive \/ (r \in ClaudeOver /\ Finishing(f))
<1> DEFINE begun == ClaudeBegun(s)
           told == FoldLeft(ClaudePart, begun, f.parts)
           r == ClaudeFrame(s, f)
<1>1. f.parts \in Seq(PartSet)  BY DEF FrameSet
<1>2. begun \in ClaudeLive  BY ClaudeBegunLive
<1>3. told \in ClaudeLive
  <2>1. \A v \in ClaudeLive, d \in PartSet : ClaudePart(v, d) \in ClaudeLive  BY ClaudePartLive
  <2> DEFINE J == Nat \X ClaudeLive
  <2> HIDE DEF begun
  <2>2. << 0, begun >> \in J  BY <1>2
  <2>3. \A i \in 1 .. Len(f.parts), v \in ClaudeLive :
          << i - 1, v >> \in J => << i, ClaudePart(v, f.parts[i]) >> \in J
    BY <1>1, <2>1
  <2> HIDE DEF J
  <2> QED BY <1>1, <1>2, <2>1, <2>2, <2>3, ClaudeParts
<1>4. r = CASE f.blocked -> s
            [] ~f.blocked /\ f.finish = "none" -> told
            [] OTHER -> ClaudeFinish(told, f)
  BY DEF ClaudeFrame, ClaudeBegun
<1> HIDE DEF told, r
<1>5. CASE f.blocked
  <2>1. r = s  BY <1>4, <1>5
  <2> QED BY <2>1 DEF r
<1>6. CASE ~f.blocked /\ f.finish = "none"
  <2>1. r = told  BY <1>4, <1>6
  <2> QED BY <2>1, <1>3 DEF r
<1>7. CASE ~f.blocked /\ f.finish # "none"
  <2>1. r = ClaudeFinish(told, f)  BY <1>4, <1>7
  <2>2. r \in ClaudeOver  BY <2>1, <1>3, ClaudeFinishSound
  <2> QED BY <2>2, <1>7 DEF r, Finishing
<1> QED BY <1>5, <1>6, <1>7

\* A chunk keeps a live stream live, or is one whole frame that finishes it.
LEMMA ClaudeChunkSound ==
  ASSUME NEW s \in ClaudeLive, NEW chunk \in Seq(FrameSet)
  PROVE  LET r == ClaudeChunk(s, chunk) IN
         \/ r \in ClaudeLive
         \/ /\ r \in ClaudeOver /\ Len(chunk) > 0
            /\ Finishing(chunk[Len(chunk)]) /\ ~chunk[Len(chunk)].torn
<1> DEFINE r == ClaudeChunk(s, chunk)
<1>1. CASE ~Readable(chunk)  BY <1>1 DEF ClaudeChunk
<1>2. CASE Readable(chunk)
  <2>1. Len(chunk) = 1 /\ chunk[1] \in FrameSet /\ ~chunk[1].torn  BY <1>2 DEF Readable
  <2>2. r = ClaudeFrame(s, chunk[1])  BY <1>2 DEF ClaudeChunk
  <2> HIDE DEF r
  <2>3. r \in ClaudeLive \/ (r \in ClaudeOver /\ Finishing(chunk[1]))  BY <2>1, <2>2, ClaudeFrameSound
  <2>4. \/ r \in ClaudeLive
        \/ /\ r \in ClaudeOver /\ Len(chunk) > 0
           /\ Finishing(chunk[Len(chunk)]) /\ ~chunk[Len(chunk)].torn
    BY <2>1, <2>3
  <2> QED BY <2>4 DEF r
<1> QED BY <1>1, <1>2

-----------------------------------------------------------------------------
(* Every format. *)

Formats == {"openai", "responses", "claude", "gemini", "shim"}

\* A stream under way, and one under way or over, in each format.
Live(f, s) ==
  /\ f = "responses" => s \in ResponsesLive
  /\ f = "claude" => s \in ClaudeLive
  /\ f = "gemini" => s \in GeminiLive
  /\ f \in {"openai", "shim"} => s \in OpenAILive
Good(f, s) ==
  /\ f = "responses" => s \in ResponsesLive \cup ResponsesOver
  /\ f = "claude" => s \in ClaudeSound
  /\ f = "gemini" => s \in GeminiSound
  /\ f \in {"openai", "shim"} => s \in OpenAISound

\* A stream under way is good, and not over.
LEMMA LiveGood ==
  ASSUME NEW f \in Formats, NEW s, Live(f, s)
  PROVE  Good(f, s) /\ ~Over(s.out)
<1>1. CASE f = "responses"  BY <1>1 DEF Live, Good, ResponsesLive
<1>2. CASE f = "claude"
  <2>1. s \in ClaudeFit  BY <1>2 DEF Live, ClaudeLive
  <2>2. s \in ClaudeState /\ ~Over(s.out) /\ AllFit(s.out, Late)  BY <2>1 DEF ClaudeFit
  <2>3. EndsOnce(s.out) /\ AllClosed(s.out)  BY <2>2, NotOverEndsOnce
  <2>4. s \in ClaudeSound  BY <2>2, <2>3 DEF ClaudeSound
  <2> QED BY <2>2, <2>4, <1>2 DEF Good
<1>3. CASE f = "gemini"
  <2>1. s \in GeminiState /\ ~Over(s.out)  BY <1>3 DEF Live, GeminiLive
  <2>2. s \in GeminiSound  BY <2>1, NotOverEndsOnce DEF GeminiSound
  <2> QED BY <2>1, <2>2, <1>3 DEF Good
<1>4. CASE f \in {"openai", "shim"}  BY <1>4 DEF Live, Good, OpenAILive
<1> QED BY <1>1, <1>2, <1>3, <1>4 DEF Formats

TranslateOf(f, s, chunk) == CASE f = "responses" -> ResponsesChunk(s, chunk)
                              [] f = "claude" -> ClaudeChunk(s, chunk)
                              [] f = "gemini" -> GeminiChunk(s, chunk)
                              [] OTHER -> OpenAIChunk(s, chunk)

\* A chunk of the wire: only its last frame may finish the answer, its last one
\* is torn if "tear" says so, and for the rest only what is left of a frame.
ChunkOK(chunk, tear) ==
  /\ chunk \in Seq(FrameSet) /\ Len(chunk) > 0
  /\ \A i \in 1 .. Len(chunk) : Finishing(chunk[i]) => i = Len(chunk)
  /\ tear => chunk[Len(chunk)].torn

HalfOK(s, chunk, tear) ==
  /\ \A i \in 1 .. Len(chunk) :
       chunk[i].torn <=> (i = 1 /\ s.half) \/ (i = Len(chunk) /\ tear)
  /\ tear /\ s.half => Len(chunk) # 1

\* In every format a chunk keeps a live stream live or finishes it with its
\* last frame, whole.
LEMMA TranslateSound ==
  ASSUME NEW f \in Formats, NEW s, Live(f, s), NEW chunk, NEW tear \in BOOLEAN,
         ChunkOK(chunk, tear), f = "gemini" => HalfOK(s, chunk, tear)
  PROVE  LET r == TranslateOf(f, s, chunk) IN
         /\ Good(f, r)
         /\ ~Over(r.out) => Live(f, r)
         /\ Over(r.out) => Finishing(chunk[Len(chunk)]) /\ ~tear
         /\ f = "gemini" => (r.half <=> tear)
<1> DEFINE r == TranslateOf(f, s, chunk)
<1>0. /\ chunk \in Seq(FrameSet) /\ Len(chunk) > 0
      /\ \A i \in 1 .. Len(chunk) : Finishing(chunk[i]) => i = Len(chunk)
      /\ tear => chunk[Len(chunk)].torn
  BY DEF ChunkOK
<1>1. CASE f = "responses"
  <2>1. s \in ResponsesLive /\ r = ResponsesChunk(s, chunk)  BY <1>1 DEF Live, TranslateOf
  <2> HIDE DEF r
  <2>2. \/ r \in ResponsesLive
        \/ /\ r \in ResponsesOver /\ Len(chunk) > 0
           /\ Finishing(chunk[Len(chunk)]) /\ ~chunk[Len(chunk)].torn
    <3> DEFINE told == Len(chunk) > 0 /\ chunk[Len(chunk)].finish # "none" /\ ~chunk[Len(chunk)].torn
    <3>1. (~told => r \in ResponsesLive) /\ (told => r \in ResponsesOver)
      BY <2>1, <1>0, ResponsesChunkLive
    <3> QED BY <3>1 DEF Finishing
  <2>3. r \in ResponsesLive => ~Over(r.out)  BY DEF ResponsesLive
  <2>4. r \in ResponsesOver => Over(r.out)  BY DEF ResponsesOver
  <2> QED BY <2>2, <2>3, <2>4, <1>0, <1>1 DEF Good, Live, r
<1>2. CASE f = "claude"
  <2>1. s \in ClaudeLive /\ r = ClaudeChunk(s, chunk)  BY <1>2 DEF Live, TranslateOf
  <2> HIDE DEF r
  <2>2. \/ r \in ClaudeLive
        \/ /\ r \in ClaudeOver /\ Len(chunk) > 0
           /\ Finishing(chunk[Len(chunk)]) /\ ~chunk[Len(chunk)].torn
    BY <2>1, <1>0, ClaudeChunkSound
  <2>3. CASE r \in ClaudeLive
    <3>1. Live(f, r)  BY <2>3, <1>2 DEF Live
    <3>2. Good(f, r) /\ ~Over(r.out)  BY <3>1, LiveGood
    <3> QED BY <3>1, <3>2, <1>2 DEF r
  <2>4. CASE r \in ClaudeOver /\ Finishing(chunk[Len(chunk)]) /\ ~chunk[Len(chunk)].torn
    <3>1. Good(f, r) /\ Over(r.out)  BY <2>4, <1>2 DEF Good, ClaudeOver
    <3> QED BY <3>1, <2>4, <1>0, <1>2 DEF r
  <2> QED BY <2>2, <2>3, <2>4
<1>3. CASE f = "gemini"
  <2>1. s \in GeminiLive /\ r = GeminiChunk(s, chunk)  BY <1>3 DEF Live, TranslateOf
  <2> HIDE DEF r
  <2>2. /\ r \in GeminiSound
        /\ r.half <=> tear
        /\ Over(r.out) => Finishing(chunk[Len(chunk)]) /\ ~tear
    <3>1. /\ r \in GeminiSound
          /\ r.half <=> tear
          /\ tear => ~Over(r.out)
          /\ ~tear => EndsAs(r.out, chunk[Len(chunk)])
      BY <2>1, <1>0, <1>3, GeminiChunkSound DEF HalfOK
    <3> QED BY <3>1 DEF EndsAs, Finishing
  <2>3. Good(f, r)  BY <2>2, <1>3 DEF Good
  <2>4. ~Over(r.out) => Live(f, r)  BY <2>2, <1>3 DEF Live, GeminiLive, GeminiSound
  <2> QED BY <2>2, <2>3, <2>4 DEF r
<1>4. CASE f \in {"openai", "shim"}
  <2>1. s \in OpenAILive /\ r = OpenAIChunk(s, chunk)  BY <1>4 DEF Live, TranslateOf
  <2> HIDE DEF r
  <2>2. /\ r \in OpenAISound
        /\ Over(r.out) => Len(chunk) > 0 /\ Finishing(chunk[Len(chunk)]) /\ ~chunk[Len(chunk)].torn
    BY <2>1, <1>0, OpenAIChunkSound
  <2>3. Good(f, r)  BY <2>2, <1>4 DEF Good
  <2>4. ~Over(r.out) => Live(f, r)  BY <2>2, <1>4 DEF Live, OpenAILive
  <2> QED BY <2>2, <2>3, <2>4, <1>0, <1>4 DEF r
<1> QED BY <1>1, <1>2, <1>3, <1>4 DEF Formats

\* The error event, and [DONE].
ErrorOf(f, s) == IF f = "responses" THEN Push(s, "error", "none", 0, 0)
                 ELSE Emit(s, << Event("error", "none", 0, 0) >>)

\* An error may follow anything.
LEMMA ErrorGood ==
  ASSUME NEW f \in Formats, NEW s, Good(f, s)
  PROVE  Good(f, ErrorOf(f, s))
<1> DEFINE r == ErrorOf(f, s)
           e == Event("error", "none", 0, 0)
<1>0. e \in Ev /\ e.stage = "error"  BY Words, EventIs
<1>1. CASE f = "responses"
  <2>1. r = Push(s, "error", "none", 0, 0)  BY <1>1 DEF ErrorOf
  <2>2. 0 \in Int /\ "error" \in Stage /\ "none" \in EvKind
        /\ "error" \notin {"open", "close", "finish"} /\ "error" \notin Mids
    BY Words DEF Mids
  <2> HIDE DEF r
  <2>3. CASE s \in ResponsesLive
    <3>1. r \in ResponsesLive  BY <2>1, <2>2, <2>3, PushLive
    <3> QED BY <3>1, <1>1 DEF Good, r
  <2>4. CASE s \in ResponsesOver
    <3> DEFINE d == EventAt("error", "none", 0, 0, s.seq + 1)
    <3>1. /\ s \in ResponsesState /\ s.out \in Seq(Ev) /\ Numbered(s) /\ s.completed /\ Over(s.out)
          /\ AllFit(s.out, {}) /\ EndsOnce(s.out) /\ AllClosed(s.out)
      BY <2>4 DEF ResponsesOver, ResponsesState
    <3>2. /\ r \in ResponsesState /\ d \in Ev /\ r.out = Append(s.out, d) /\ Numbered(r)
      BY <2>1, <2>2, <3>1, PushIs
    <3>2a. r.completed = s.completed  BY <2>1, <2>2, <3>1, PushIs
    <3>3. d.stage = "error"  BY DEF EventAt
    <3> HIDE DEF d
    <3>4. AllFit(r.out, {})  BY <2>2, <3>1, <3>2, <3>3, FitsAppend
    <3>5. EndsOnce(r.out)  BY <3>1, <3>2, <3>3, EndsAppend
    <3>6. AllClosed(r.out)  BY <3>1, <3>2, <3>3, ClosedAppend
    <3>7. Over(r.out)  BY <3>1, <3>2, EndingsAppend
    <3>8. r \in ResponsesOver  BY <3>1, <3>2, <3>2a, <3>4, <3>5, <3>6, <3>7 DEF ResponsesOver
    <3> QED BY <3>8, <1>1 DEF Good, r
  <2> QED BY <2>3, <2>4, <1>1 DEF Good
<1>2. CASE f = "claude"
  <2>1. r = Emit(s, << e >>)  BY <1>2 DEF ErrorOf
  <2> HIDE DEF r, e
  <2>2. s \in ClaudeState /\ EndsOnce(s.out) /\ AllClosed(s.out) /\ AllFit(s.out, Late)
        /\ s.out \in Seq(Ev)
    BY <1>2 DEF Good, ClaudeSound, ClaudeState
  <2>3. MayTell(s.out, e)  BY <2>2, <1>0 DEF MayTell, Mids
  <2>4. r \in ClaudeState /\ r.out = Append(s.out, e) /\ Grows(s.out, e, r.out)
    BY <2>1, <2>2, <2>3, <1>0, Tell
  <2>5. EndsOnce(r.out) /\ AllClosed(r.out)  BY <2>2, <2>4, <1>0, EndsAppend, ClosedAppend
  <2>6. r \in ClaudeSound  BY <2>4, <2>5 DEF ClaudeSound, Grows
  <2> QED BY <2>6, <1>2 DEF Good, r
<1>3. CASE f = "gemini"
  <2>1. r = Emit(s, << e >>)  BY <1>3 DEF ErrorOf
  <2> HIDE DEF r, e
  <2>2. s \in GeminiState /\ EndsOnce(s.out) /\ s.out \in Seq(Ev)
    BY <1>3 DEF Good, GeminiSound, GeminiState
  <2>3. r = [s EXCEPT !.out = Append(s.out, e)] /\ Append(s.out, e) \in Seq(Ev)
    BY <2>1, <2>2, <1>0, AppendOne DEF Emit
  <2>4. r \in GeminiState /\ r.out = Append(s.out, e)  BY <2>2, <2>3 DEF GeminiState
  <2>5. EndsOnce(r.out)  BY <2>2, <2>4, <1>0, EndsAppend
  <2> QED BY <2>4, <2>5, <1>3 DEF Good, GeminiSound, r
<1>4. CASE f \in {"openai", "shim"}
  <2>1. r = Emit(s, << e >>)  BY <1>4 DEF ErrorOf
  <2>2. s \in OpenAISound  BY <1>4 DEF Good
  <2> HIDE DEF r, e
  <2>3. r \in OpenAISound  BY <2>1, <2>2, <1>0, OpenAIEmit
  <2> QED BY <2>3, <1>4 DEF Good, r
<1> QED BY <1>1, <1>2, <1>3, <1>4 DEF Formats

\* [DONE] may follow anything.
LEMMA DoneGood ==
  ASSUME NEW f \in Formats, NEW s, Good(f, s)
  PROVE  Good(f, IF f \in {"openai", "shim"} THEN Emit(s, << Event("done", "none", 0, 0) >>) ELSE s)
<1> DEFINE e == Event("done", "none", 0, 0)
<1>1. e \in Ev /\ e.stage = "done"  BY Words, EventIs
<1> HIDE DEF e
<1>2. CASE f \in {"openai", "shim"}
  <2>1. s \in OpenAISound  BY <1>2 DEF Good
  <2>2. Emit(s, << e >>) \in OpenAISound  BY <2>1, <1>1, OpenAIEmit
  <2> QED BY <2>2, <1>2 DEF Good, e
<1> QED BY <1>2

\* An answer starts.
StartOf(f) == CASE f = "responses" -> ResponsesStart
                [] f = "claude" -> ClaudeStart
                [] f = "gemini" -> GeminiStart
                [] OTHER -> OpenAIStart

\* Every answer starts live.
LEMMA StartLive ==
  ASSUME NEW f \in Formats
  PROVE  Live(f, StartOf(f)) /\ (f = "gemini" => ~StartOf(f).half)
<1>1. << >> \in Seq(Ev) /\ ~Over(<< >>) /\ (\A l : AllFit(<< >>, l)) /\ (\A x : At(<< >>, x) = {})
      /\ 0 .. 0 - 1 = {} /\ Len(<< >>) = 0
  BY DEF Over, Endings, AllFit, At, Earlier
<1>2. CASE f = "responses"
  <2>1. ResponsesStart \in ResponsesState  BY <1>1 DEF ResponsesStart, ResponsesState, Absent
  <2>2. Numbered(ResponsesStart)  BY DEF Numbered, ResponsesStart
  <2>3. ResponsesStart \in ResponsesLive  BY <1>1, <2>1, <2>2 DEF ResponsesLive, ResponsesStart, Absent
  <2> QED BY <2>3, <1>2 DEF Live, StartOf
<1>3. CASE f = "claude"
  <2>1. ClaudeStart \in ClaudeState  BY <1>1 DEF ClaudeStart, ClaudeState, Absent
  <2>2. ClaudeStart \in ClaudeFit  BY <1>1, <2>1 DEF ClaudeFit, ClaudeStart, OpenThought, OpenText
  <2>3. ClaudeStart \in ClaudeLive  BY <2>2 DEF ClaudeLive, ClaudeStart
  <2> QED BY <2>3, <1>3 DEF Live, StartOf
<1>4. CASE f = "gemini"
  <2>1. GeminiStart \in GeminiState  BY <1>1 DEF GeminiStart, GeminiState
  <2>2. GeminiStart \in GeminiLive /\ ~GeminiStart.half  BY <1>1, <2>1 DEF GeminiLive, GeminiStart
  <2> QED BY <2>2, <1>4 DEF Live, StartOf
<1>5. CASE f \in {"openai", "shim"}
  <2>1. OpenAIStart \in OpenAIState  BY <1>1 DEF OpenAIStart, OpenAIState
  <2>2. OpenAIStart \in OpenAILive
    BY <1>1, <2>1, ChatStart DEF OpenAILive, OpenAISound, OpenAIStart
  <2> QED BY <2>2, <1>5 DEF Live, StartOf
<1> QED BY <1>2, <1>3, <1>4, <1>5 DEF Formats

-----------------------------------------------------------------------------
(* What travels between Gemini and the adapter. *)

\* What travels: only its first frame may be the rest of a torn one, and only
\* its last one finishes the answer.
WireOK(w, e) ==
  /\ w \in Seq(FrameSet)
  /\ \A i \in 1 .. Len(w) : w[i].torn => i = 1
  /\ \A i \in 1 .. Len(w) : Finishing(w[i]) => i = Len(w) /\ e # "no"

\* One more frame travels behind the others.
LEMMA SayWire ==
  ASSUME NEW w, WireOK(w, "no"), NEW f \in FrameSet, ~f.torn, NEW e, Finishing(f) => e # "no"
  PROVE  WireOK(Append(w, f), e)
<1> DEFINE v == Append(w, f)
<1>1. w \in Seq(FrameSet) /\ \A i \in 1 .. Len(w) : (w[i].torn => i = 1) /\ ~Finishing(w[i])
  BY DEF WireOK
<1>2. /\ v \in Seq(FrameSet) /\ Len(v) = Len(w) + 1 /\ v[Len(w) + 1] = f
      /\ \A i \in 1 .. Len(w) : v[i] = w[i]
      /\ Len(w) \in Nat
  BY <1>1
<1> HIDE DEF v
<1>3. \A i \in 1 .. Len(v) : i \in 1 .. Len(w) \/ i = Len(w) + 1  BY <1>2
<1>4. \A i \in 1 .. Len(v) : v[i].torn => i = 1  BY <1>1, <1>2, <1>3
<1>5. \A i \in 1 .. Len(v) : Finishing(v[i]) => i = Len(v) /\ e # "no"  BY <1>1, <1>2, <1>3
<1> QED BY <1>2, <1>4, <1>5 DEF WireOK, v

Half(f) == [f EXCEPT !.torn = TRUE]
ChunkOf(w, k, tear) == IF tear THEN Append(SubSeq(w, 1, k - 1), Half(w[k])) ELSE SubSeq(w, 1, k)
RestOf(w, k, tear) == IF tear THEN << Half(w[k]) >> \o SubSeq(w, k + 1, Len(w))
                      ELSE SubSeq(w, k + 1, Len(w))

\* Half a frame says what the frame says.
LEMMA HalfIs ==
  ASSUME NEW f \in FrameSet
  PROVE  Half(f) \in FrameSet /\ Half(f).torn /\ (Finishing(Half(f)) <=> Finishing(f))
BY DEF Half, FrameSet, Finishing

\* A chunk is the front of the wire, its last frame whole or half.
LEMMA ChunkIs ==
  ASSUME NEW w \in Seq(FrameSet), NEW k \in 1 .. Len(w), NEW tear \in BOOLEAN
  PROVE  /\ ChunkOf(w, k, tear) \in Seq(FrameSet) /\ Len(ChunkOf(w, k, tear)) = k
         /\ \A i \in 1 .. k : i # k => ChunkOf(w, k, tear)[i] = w[i]
         /\ ChunkOf(w, k, tear)[k] = IF tear THEN Half(w[k]) ELSE w[k]
<1>1. w[k] \in FrameSet /\ Half(w[k]) \in FrameSet /\ k \in Nat /\ k > 0  BY HalfIs
<1>2. CASE tear
  <2> DEFINE a == SubSeq(w, 1, k - 1)
             h == Half(w[k])
  <2>1. a \in Seq(FrameSet) /\ Len(a) = k - 1 /\ \A i \in 1 .. k - 1 : a[i] = w[i]  BY <1>1
  <2>2. h \in FrameSet /\ ChunkOf(w, k, tear) = Append(a, h)  BY <1>1, <1>2 DEF ChunkOf
  <2> HIDE DEF a, h
  <2>3. /\ Append(a, h) \in Seq(FrameSet) /\ Len(Append(a, h)) = k /\ Append(a, h)[k] = h
        /\ \A i \in 1 .. k - 1 : Append(a, h)[i] = a[i]
    BY <2>1, <2>2, <1>1
  <2>4. \A i \in 1 .. k : i # k => i \in 1 .. k - 1  BY <1>1
  <2> QED BY <2>1, <2>2, <2>3, <2>4, <1>2 DEF h
<1>3. CASE ~tear  BY <1>1, <1>3 DEF ChunkOf
<1> QED BY <1>2, <1>3

\* The rest is what follows, behind the other half.
LEMMA RestIs ==
  ASSUME NEW w \in Seq(FrameSet), NEW k \in 1 .. Len(w), NEW tear \in BOOLEAN
  PROVE  LET r == RestOf(w, k, tear)
             d == IF tear THEN k - 1 ELSE k IN
         /\ r \in Seq(FrameSet) /\ Len(r) = Len(w) - d
         /\ tear => r[1] = Half(w[k])
         /\ \A i \in 1 .. Len(r) : i + d # k => r[i] = w[i + d] /\ i + d \in k + 1 .. Len(w)
<1> DEFINE r == RestOf(w, k, tear)
           b == SubSeq(w, k + 1, Len(w))
           h == Half(w[k])
<1>1. w[k] \in FrameSet /\ h \in FrameSet /\ k \in Nat /\ k > 0 /\ Len(w) \in Nat /\ k <= Len(w)
  BY HalfIs
<1>2. b \in Seq(FrameSet) /\ Len(b) = Len(w) - k /\ \A i \in 1 .. Len(w) - k : b[i] = w[i + k]
  BY <1>1
<1>3. r = IF tear THEN << h >> \o b ELSE b  BY DEF RestOf
<1> HIDE DEF r, b, h
<1>4. CASE tear
  <2>1. /\ << h >> \in Seq(FrameSet) /\ Len(<< h >>) = 1 /\ << h >>[1] = h  BY <1>1
  <2>2. r = << h >> \o b  BY <1>3, <1>4
  <2>3. /\ r \in Seq(FrameSet) /\ Len(r) = 1 + Len(b)
        /\ \A i \in 1 .. 1 + Len(b) : r[i] = IF i <= 1 THEN << h >>[i] ELSE b[i - 1]
    BY <2>1, <2>2, <1>2, ConcatProperties, ZenonT(60)
  <2>4. r[1] = h
    <3>1. 1 \in 1 .. 1 + Len(b)  BY <1>1, <1>2
    <3> QED BY <3>1, <2>1, <2>3
  <2>5. ASSUME NEW i \in 1 .. Len(r), i + (k - 1) # k
        PROVE  r[i] = w[i + (k - 1)] /\ i + (k - 1) \in k + 1 .. Len(w)
    <3>1. i > 1 /\ i - 1 \in 1 .. Len(w) - k  BY <2>5, <2>3, <1>1, <1>2
    <3>2. r[i] = b[i - 1]  BY <3>1, <2>3
    <3>3. b[i - 1] = w[i - 1 + k]  BY <3>1, <1>2
    <3>4. i - 1 + k = i + (k - 1)  BY <1>1
    <3> QED BY <3>1, <3>2, <3>3, <3>4, <1>1
  <2>6. Len(r) = Len(w) - (k - 1)  BY <2>3, <1>1, <1>2
  <2> QED BY <2>3, <2>4, <2>5, <2>6, <1>4 DEF r, h
<1>5. CASE ~tear
  <2>1. r = b  BY <1>3, <1>5
  <2>2. /\ r \in Seq(FrameSet) /\ Len(r) = Len(w) - k
        /\ \A i \in 1 .. Len(r) : r[i] = w[i + k] /\ i + k \in k + 1 .. Len(w)
    BY <2>1, <1>1, <1>2
  <2> QED BY <2>2, <1>5 DEF r
<1> QED BY <1>4, <1>5

\* What the browser reads is a chunk, and what is left is a wire.
LEMMA ReadWire ==
  ASSUME NEW w, NEW e, WireOK(w, e), NEW k \in 1 .. Len(w), NEW tear \in BOOLEAN,
         tear => ~w[k].torn
  PROVE  /\ ChunkOK(ChunkOf(w, k, tear), tear)
         /\ WireOK(RestOf(w, k, tear), e)
         /\ RestOf(w, k, tear) # << >> /\ RestOf(w, k, tear)[1].torn <=> tear
         /\ \A s : (s.half <=> w # << >> /\ w[1].torn) => HalfOK(s, ChunkOf(w, k, tear), tear)
         /\ Finishing(ChunkOf(w, k, tear)[Len(ChunkOf(w, k, tear))]) /\ ~tear =>
              RestOf(w, k, tear) = << >> /\ e # "no"
<1> DEFINE c == ChunkOf(w, k, tear)
           r == RestOf(w, k, tear)
           d == IF tear THEN k - 1 ELSE k
           h == Half(w[k])
<1>1. /\ w \in Seq(FrameSet) /\ k \in Nat /\ k > 0 /\ k <= Len(w) /\ Len(w) \in Nat
      /\ \A i \in 1 .. Len(w) : w[i].torn => i = 1
      /\ \A i \in 1 .. Len(w) : Finishing(w[i]) => i = Len(w) /\ e # "no"
  BY DEF WireOK
<1>2. /\ c \in Seq(FrameSet) /\ Len(c) = k
      /\ \A i \in 1 .. k : i # k => c[i] = w[i]
      /\ c[k] = IF tear THEN h ELSE w[k]
  BY <1>1, ChunkIs
<1>3. /\ r \in Seq(FrameSet) /\ Len(r) = Len(w) - d
      /\ tear => r[1] = h
      /\ \A i \in 1 .. Len(r) : i + d # k => r[i] = w[i + d] /\ i + d \in k + 1 .. Len(w)
  BY <1>1, RestIs
<1>4. w[k] \in FrameSet /\ h.torn /\ (Finishing(h) <=> Finishing(w[k]))
  <2>1. w[k] \in FrameSet  BY <1>1
  <2> QED BY <2>1, HalfIs
<1> HIDE DEF c, r, h
<1>5. ChunkOK(c, tear)
  <2>1. \A i \in 1 .. k : Finishing(c[i]) => Finishing(w[i])
    <3>1. Finishing(c[k]) <=> Finishing(w[k])  BY <1>2, <1>4
    <3> QED BY <3>1, <1>2
  <2>2. \A i \in 1 .. k : Finishing(c[i]) => i = k
    <3>1. \A i \in 1 .. k : i \in 1 .. Len(w)  BY <1>1
    <3> QED BY <3>1, <2>1, <1>1
  <2>3. tear => c[k].torn  BY <1>2, <1>4
  <2> QED BY <2>2, <2>3, <1>1, <1>2 DEF ChunkOK
<1>6. WireOK(r, e)
  <2>1. ASSUME NEW i \in 1 .. Len(r), r[i].torn PROVE i = 1
    <3>1. CASE i + d = k
      <4> QED BY <3>1, <1>1, <1>3
    <3>2. CASE i + d # k
      <4>1. w[i + d].torn /\ i + d \in 1 .. Len(w) /\ i + d # 1  BY <2>1, <3>2, <1>1, <1>3
      <4> QED BY <4>1, <1>1
    <3> QED BY <3>1, <3>2
  <2>2. ASSUME NEW i \in 1 .. Len(r), Finishing(r[i]) PROVE i = Len(r) /\ e # "no"
    <3>1. CASE i + d = k
      <4>1. i = 1 /\ tear  BY <3>1, <1>1, <1>3
      <4>2. Finishing(w[k])  BY <4>1, <2>2, <1>3, <1>4
      <4>3. k = Len(w) /\ e # "no"  BY <4>2, <1>1
      <4> QED BY <4>1, <4>3, <1>1, <1>3
    <3>2. CASE i + d # k
      <4>1. Finishing(w[i + d]) /\ i + d \in 1 .. Len(w)  BY <2>2, <3>2, <1>1, <1>3
      <4>2. i + d = Len(w) /\ e # "no"  BY <4>1, <1>1
      <4> QED BY <4>2, <1>1, <1>3
    <3> QED BY <3>1, <3>2
  <2> QED BY <2>1, <2>2, <1>3 DEF WireOK
<1>7. r # << >> /\ r[1].torn <=> tear
  <2>1. CASE tear
    <3>1. Len(r) > 0  BY <2>1, <1>1, <1>3
    <3> QED BY <2>1, <3>1, <1>3, <1>4
  <2>2. CASE ~tear /\ r # << >>
    <3>1. 1 \in 1 .. Len(r)  BY <2>2, <1>3
    <3>2. r[1] = w[1 + k] /\ 1 + k \in 1 .. Len(w) /\ 1 + k # 1  BY <3>1, <2>2, <1>1, <1>3
    <3>3. ~w[1 + k].torn  BY <3>2, <1>1
    <3> QED BY <3>2, <3>3, <2>2
  <2>3. CASE ~tear /\ r = << >>  BY <2>3
  <2> QED BY <2>1, <2>2, <2>3
<1>8. ASSUME NEW s, s.half <=> w # << >> /\ w[1].torn PROVE HalfOK(s, c, tear)
  <2>1. s.half <=> w[1].torn  BY <1>8, <1>1
  <2>2. ASSUME NEW i \in 1 .. k PROVE c[i].torn <=> (i = 1 /\ s.half) \/ (i = k /\ tear)
    <3>1. w[i].torn <=> i = 1 /\ s.half  BY <2>1, <1>1
    <3>2. CASE i # k  BY <3>1, <3>2, <1>2
    <3>3. CASE i = k /\ tear  BY <3>3, <1>2, <1>4
    <3>4. CASE i = k /\ ~tear  BY <3>1, <3>4, <1>2
    <3> QED BY <3>2, <3>3, <3>4
  <2>3. tear /\ s.half => k # 1  BY <2>1
  <2> QED BY <2>2, <2>3, <1>2 DEF HalfOK
<1>9. Finishing(c[k]) /\ ~tear => r = << >> /\ e # "no"
  <2>1. ASSUME Finishing(c[k]), ~tear PROVE r = << >> /\ e # "no"
    <3>1. k = Len(w) /\ e # "no"  BY <2>1, <1>1, <1>2
    <3>2. Len(r) = 0  BY <2>1, <3>1, <1>1, <1>3
    <3> QED BY <3>1, <3>2, <1>3
  <2> QED BY <2>1
<1> QED BY <1>2, <1>5, <1>6, <1>7, <1>8, <1>9 DEF c, r

-----------------------------------------------------------------------------
(* Answers at once, and what Gemini says. *)

\* Some of the parts are parts.
LEMMA PartsOfKindTyped ==
  ASSUME NEW parts \in Seq(PartSet), NEW kinds
  PROVE  PartsOfKind(parts, kinds) \in Seq(PartSet)
<1> DEFINE ss == [i \in DOMAIN parts |-> IF parts[i].kind \in kinds THEN << parts[i] >> ELSE <<>>]
<1>1. DOMAIN parts = 1 .. Len(parts) /\ Len(parts) \in Nat
      /\ \A i \in 1 .. Len(parts) : parts[i] \in PartSet
  OBVIOUS
<1>2. << >> \in Seq(PartSet) /\ \A p \in PartSet : << p >> \in Seq(PartSet)  OBVIOUS
<1>3. \A i \in 1 .. Len(parts) :
        (IF parts[i].kind \in kinds THEN << parts[i] >> ELSE <<>>) \in Seq(PartSet)
  BY <1>1, <1>2
<1>4. ss \in [1 .. Len(parts) -> Seq(PartSet)]  BY <1>1, <1>3
<1>5. ss \in Seq(Seq(PartSet))  BY <1>1, <1>4
<1> HIDE DEF ss
<1>6. FlattenSeq(ss) \in Seq(PartSet)  BY <1>2, <1>5, FlattenAppend
<1> QED BY <1>6 DEF PartsOfKind, ss

\* A pseudo stream passes on the thoughts, then the rest, and finishes at most
\* once.
LEMMA PseudoSound ==
  ASSUME NEW s \in GeminiLive, NEW f \in FrameSet
  PROVE  GeminiPseudo(s, f) \in GeminiSound /\ EndsAs(GeminiPseudo(s, f).out, f)
<1> DEFINE a == PartsOfKind(f.parts, {"thought"})
           b == PartsOfKind(f.parts, {"text", "image", "call"})
           e == Frame(<<>>, "none", FALSE)
           m == PassOn(s, a, e)
<1>1. f.parts \in Seq(PartSet)  BY DEF FrameSet
<1>2. a \in Seq(PartSet) /\ b \in Seq(PartSet)  BY <1>1, PartsOfKindTyped
<1>3. e \in FrameSet /\ e.finish = "none"  BY DEF Frame, FrameSet
<1>4. GeminiPseudo(s, f) = PassOn(m, b, f)  BY DEF GeminiPseudo
<1> HIDE DEF a, b, e
<1>5. s \in GeminiState /\ ~Over(s.out)  BY DEF GeminiLive
<1>6. m \in GeminiState /\ ~Over(m.out)  BY <1>2, <1>3, <1>5, PassOnSound DEF EndsAs
<1> HIDE DEF m
<1>7. /\ PassOn(m, b, f) \in GeminiState /\ EndsOnce(PassOn(m, b, f).out)
      /\ EndsAs(PassOn(m, b, f).out, f)
  BY <1>2, <1>6, PassOnSound
<1> QED BY <1>4, <1>7 DEF GeminiSound

\* An answer at once is one frame.
AtOnceOf(f, s, frame) == IF f = "gemini" THEN GeminiPseudo(s, frame) ELSE TranslateOf(f, s, << frame >>)

\* Whatever the answer, its stream at once is good.
LEMMA AtOnceGood ==
  ASSUME NEW f \in Formats, NEW s, Live(f, s), NEW frame \in FrameSet
  PROVE  Good(f, AtOnceOf(f, s, frame))
<1>1. CASE f = "gemini"
  <2>1. s \in GeminiLive  BY <1>1 DEF Live
  <2>2. GeminiPseudo(s, frame) \in GeminiSound  BY <2>1, PseudoSound
  <2> QED BY <2>2, <1>1 DEF AtOnceOf, Good
<1>2. CASE f # "gemini"
  <2> DEFINE c == << frame >>
  <2>1. c \in Seq(FrameSet) /\ Len(c) = 1  OBVIOUS
  <2> HIDE DEF c
  <2>2. ChunkOK(c, FALSE)  BY <2>1 DEF ChunkOK
  <2>3. Good(f, TranslateOf(f, s, c))  BY <2>2, <1>2, TranslateSound
  <2> QED BY <2>3, <1>2 DEF AtOnceOf, c
<1> QED BY <1>1, <1>2

\* What Gemini says is a frame.
LEMMA EndedIs ==
  ASSUME NEW n \in Int, NEW kinds \in Answers(n), used \in Nat,
         NEW how \in Reasons \cup {"no", "blocked"}, how = "blocked" => kinds = <<>>
  PROVE  /\ Ended(NewParts(kinds), how) \in FrameSet /\ ~Ended(NewParts(kinds), how).torn
         /\ Finishing(Ended(NewParts(kinds), how)) => how # "no"
         /\ NewParts(kinds) \in Seq(PartSet) /\ used + Len(kinds) \in Nat
<1>1. PICK k \in 0 .. n : kinds \in [1 .. k -> Kinds]  BY DEF Answers
<1>2. k \in Nat /\ DOMAIN kinds = 1 .. k /\ Len(kinds) = k  BY <1>1
<1> DEFINE p == NewParts(kinds)
<1>3. p \in [1 .. k -> PartSet]
  <2>1. \A i \in 1 .. k : kinds[i] \in Kind /\ used + i \in Nat \ {0}  BY <1>1, <1>2 DEF Kinds, Kind
  <2>2. \A i \in 1 .. k : [kind |-> kinds[i], id |-> used + i] \in PartSet  BY <2>1 DEF PartSet
  <2> QED BY <2>2, <1>2 DEF NewParts
<1>4. p \in Seq(PartSet) /\ Len(p) = k  BY <1>2, <1>3
<1>5. how = "blocked" => p = << >>
  <2>1. how = "blocked" => k = 0  BY <1>2
  <2> HIDE DEF p
  <2> QED BY <2>1, <1>4
<1> HIDE DEF p
<1>6. Ended(p, how) \in FrameSet /\ ~Ended(p, how).torn /\ (Finishing(Ended(p, how)) => how # "no")
  BY <1>4, <1>5 DEF Ended, Frame, FrameSet, Finishing, Reasons
<1> QED BY <1>2, <1>4, <1>6 DEF p

-----------------------------------------------------------------------------
(* The inductive invariant of the streams. *)

\* A stream under way: once its translator has finished the answer, nothing
\* more of it travels.
Streaming ==
  /\ WireOK(wire, ending)
  /\ Over(state.out) => wire = <<>> /\ ending # "no"
  /\ ~Over(state.out) => Live(format, state)
  /\ format = "gemini" => (state.half <=> wire # <<>> /\ wire[1].torn)
StreamInv ==
  /\ format \in Formats /\ used \in Nat
  /\ Good(format, state)
  /\ phase = "ask" => wire = <<>>
  /\ phase = "answer" /\ mode = "real" => Streaming
  /\ phase = "answer" /\ mode # "real" => wire = <<>> /\ Live(format, state)

\* The stream state a request begins with.
LEMMA StartIs == StreamState = StartOf(format)
BY DEF StreamState, StartOf

\* Nothing travels.
LEMMA NoWire == \A e : WireOK(<<>>, e)
BY DEF WireOK

\* The inductive invariant holds at the start.
LEMMA InitStreams == Init => StreamInv
<1>1. SUFFICES ASSUME Init PROVE StreamInv  OBVIOUS
<1>2. format \in Formats /\ used \in Nat /\ phase = "ask" /\ wire = <<>> /\ state = StartOf(format)
  BY <1>1, CanvasAssumption, StartIs DEF Init, Formats
<1>3. Good(format, state)
  <2>1. Live(format, state)  BY <1>2, StartLive
  <2> QED BY <1>2, <2>1, LiveGood
<1> QED BY <1>2, <1>3 DEF StreamInv

\* Every action keeps the inductive invariant.
LEMMA StreamStep ==
  ASSUME StreamInv, [Next]_vars
  PROVE  StreamInv'
<1>0. /\ format \in Formats /\ used \in Nat /\ Good(format, state)
      /\ phase = "ask" => wire = <<>>
      /\ phase = "answer" /\ mode = "real" => Streaming
      /\ phase = "answer" /\ mode # "real" => wire = <<>> /\ Live(format, state)
  BY DEF StreamInv
<1>1. ASSUME Ask PROVE StreamInv'
  <2>1. /\ phase = "ask" /\ wire' = wire /\ state' = StartOf(format) /\ format' = format
        /\ used' = used /\ phase' = "answer"
    BY <1>1, StartIs DEF Ask
  <2>2. wire' = <<>>  BY <2>1, <1>0
  <2>3. Live(format', state') /\ (format' = "gemini" => ~state'.half)  BY <2>1, <1>0, StartLive
  <2>4. Good(format', state') /\ ~Over(state'.out)  BY <2>1, <2>3, <1>0, LiveGood
  <2>5. WireOK(wire', ending')  BY <2>2, NoWire
  <2> QED BY <1>0, <2>1, <2>2, <2>3, <2>4, <2>5 DEF StreamInv, Streaming
<1>2. ASSUME AskWithSettings PROVE StreamInv'
  <2>1. phase' = "configured" /\ format' = format /\ used' = used /\ state' = state
    BY <1>2 DEF AskWithSettings, answerVars
  <2> QED BY <1>0, <2>1 DEF StreamInv
<1>3. ASSUME AskWithSchema PROVE StreamInv'
  <2>1. phase' = "offered" /\ format' = format /\ used' = used /\ state' = state
    BY <1>3 DEF AskWithSchema, answerVars
  <2> QED BY <1>0, <2>1 DEF StreamInv
<1>4. ASSUME Say PROVE StreamInv'
  <2>1. /\ phase = "answer" /\ mode = "real" /\ ending = "no"
        /\ format' = format /\ state' = state /\ phase' = phase /\ mode' = mode
    BY <1>4 DEF Say
  <2>2. PICK kinds \in Answers(MaxParts - used), how \in Reasons \cup {"no", "blocked"} :
          /\ how = "blocked" => kinds = <<>>
          /\ wire' = Append(wire, Ended(NewParts(kinds), how))
          /\ used' = used + Len(kinds) /\ ending' = how
    BY <1>4 DEF Say
  <2> DEFINE f == Ended(NewParts(kinds), how)
  <2>3. /\ f \in FrameSet /\ ~f.torn /\ (Finishing(f) => how # "no") /\ used + Len(kinds) \in Nat
    <3>1. MaxParts - used \in Int  BY <1>0, CanvasAssumption
    <3> QED BY <3>1, <2>2, <1>0, EndedIs
  <2> HIDE DEF f
  <2>4. WireOK(wire, "no") /\ ~Over(state.out) /\ Live(format, state)
        /\ (format = "gemini" => (state.half <=> wire # <<>> /\ wire[1].torn))
    BY <1>0, <2>1 DEF Streaming
  <2>5. wire' = Append(wire, f)  BY <2>2 DEF f
  <2>6. WireOK(wire', ending')  BY <2>2, <2>3, <2>4, <2>5, SayWire
  <2>7. (wire # <<>> /\ wire[1].torn) <=> (wire' # <<>> /\ wire'[1].torn)
    <3>1. wire \in Seq(FrameSet)  BY <2>4 DEF WireOK
    <3>2. CASE wire = <<>>
      <4>1. wire'[1] = f  BY <3>2, <2>5
      <4> QED BY <4>1, <3>2, <2>3
    <3>3. CASE wire # <<>>
      <4>1. wire'[1] = wire[1] /\ wire' # <<>>  BY <3>1, <3>3, <2>3, <2>5
      <4> QED BY <4>1, <3>3
    <3> QED BY <3>2, <3>3
  <2>8. Streaming'  BY <2>1, <2>4, <2>6, <2>7 DEF Streaming
  <2> QED BY <1>0, <2>1, <2>2, <2>3, <2>8 DEF StreamInv
<1>5. ASSUME Read PROVE StreamInv'
  <2>1. /\ phase = "answer" /\ mode = "real" /\ phase' = phase /\ mode' = mode
        /\ format' = format /\ used' = used /\ ending' = ending
    BY <1>5 DEF Read
  <2>2. PICK k \in DOMAIN wire, tear \in BOOLEAN :
          /\ tear => ~wire[k].torn
          /\ wire' = RestOf(wire, k, tear)
          /\ state' = Translate(ChunkOf(wire, k, tear))
    BY <1>5 DEF Read, RestOf, ChunkOf, Half
  <2>3. Streaming  BY <1>0, <2>1
  <2>4. WireOK(wire, ending) /\ wire \in Seq(FrameSet)  BY <2>3 DEF Streaming, WireOK
  <2>5. k \in 1 .. Len(wire) /\ wire # <<>>  BY <2>4
  <2>6. ~Over(state.out) /\ Live(format, state)
        /\ (format = "gemini" => (state.half <=> wire # <<>> /\ wire[1].torn))
    BY <2>3, <2>5 DEF Streaming
  <2> DEFINE c == ChunkOf(wire, k, tear)
             w == RestOf(wire, k, tear)
  <2>7. /\ ChunkOK(c, tear) /\ WireOK(w, ending) /\ (w # << >> /\ w[1].torn <=> tear)
        /\ \A s : (s.half <=> wire # << >> /\ wire[1].torn) => HalfOK(s, c, tear)
        /\ Finishing(c[Len(c)]) /\ ~tear => w = << >> /\ ending # "no"
    BY <2>2, <2>4, <2>5, ReadWire
  <2> HIDE DEF c, w
  <2>8. state' = TranslateOf(format, state, c)  BY <2>2 DEF Translate, TranslateOf, c
  <2>9. format = "gemini" => HalfOK(state, c, tear)  BY <2>6, <2>7
  <2>10. /\ Good(format, state')
         /\ ~Over(state'.out) => Live(format, state')
         /\ Over(state'.out) => Finishing(c[Len(c)]) /\ ~tear
         /\ format = "gemini" => (state'.half <=> tear)
    BY <1>0, <2>6, <2>7, <2>8, <2>9, TranslateSound
  <2>11. wire' = w  BY <2>2 DEF w
  <2>12. Streaming'  BY <2>1, <2>7, <2>10, <2>11 DEF Streaming
  <2> QED BY <1>0, <2>1, <2>10, <2>12 DEF StreamInv
<1>6. ASSUME End PROVE StreamInv'
  <2>1. /\ format' = format /\ used' = used /\ phase' = "ask" /\ wire' = wire /\ wire = <<>>
        /\ state' = IF format \in {"openai", "shim"} THEN Emit(state, << Event("done", "none", 0, 0) >>)
                    ELSE state
    BY <1>6 DEF End, EndTurn
  <2>2. Good(format, state')  BY <2>1, <1>0, DoneGood
  <2> QED BY <1>0, <2>1, <2>2 DEF StreamInv
<1>7. ASSUME AnswerAtOnce PROVE StreamInv'
  <2>1. /\ phase = "answer" /\ mode # "real" /\ format' = format /\ wire' = wire /\ phase' = "ask"
    BY <1>7 DEF AnswerAtOnce, EndTurn
  <2>2. PICK kinds \in Answers(MaxParts - used), how \in Reasons \cup {"blocked"} :
          /\ how = "blocked" => kinds = <<>>
          /\ said' = NewParts(kinds) /\ used' = used + Len(kinds)
          /\ state' = IF mode = "whole" THEN state
                      ELSE LET r == IF format = "gemini" THEN GeminiPseudo(state, Ended(said', how))
                                    ELSE Translate(<< Ended(said', how) >>)
                           IN  IF format \in {"openai", "shim"}
                               THEN Emit(r, << Event("done", "none", 0, 0) >>) ELSE r
    BY <1>7 DEF AnswerAtOnce
  <2>3. wire = <<>> /\ Live(format, state)  BY <1>0, <2>1
  <2> DEFINE f == Ended(NewParts(kinds), how)
             r == AtOnceOf(format, state, f)
  <2>4. f \in FrameSet /\ used + Len(kinds) \in Nat
    <3>1. MaxParts - used \in Int  BY <1>0, CanvasAssumption
    <3> QED BY <3>1, <2>2, <1>0, EndedIs
  <2>5. state' = IF mode = "whole" THEN state
                 ELSE IF format \in {"openai", "shim"}
                      THEN Emit(r, << Event("done", "none", 0, 0) >>) ELSE r
    BY <2>2 DEF AtOnceOf, Translate, TranslateOf
  <2> HIDE DEF f
  <2>6. Good(format, r)  BY <1>0, <2>3, <2>4, AtOnceGood
  <2> HIDE DEF r
  <2>7. Good(format, IF format \in {"openai", "shim"} THEN Emit(r, << Event("done", "none", 0, 0) >>)
                     ELSE r)
    BY <1>0, <2>6, DoneGood
  <2>8. Good(format, state')
    <3>1. CASE mode = "whole"  BY <3>1, <2>5, <1>0
    <3>2. CASE mode # "whole"  BY <3>2, <2>5, <2>7
    <3> QED BY <3>1, <3>2
  <2> QED BY <1>0, <2>1, <2>2, <2>3, <2>4, <2>8 DEF StreamInv
<1>8. ASSUME Interrupt PROVE StreamInv'
  <2>1. /\ format' = format /\ used' = used /\ wire' = <<>>
        /\ state' = ErrorOf(format, state) \/ state' = state
        /\ phase' \in {"ask", "failed"}
    BY <1>8 DEF Interrupt, EndTurn, ErrorEvent, ErrorOf
  <2>2. Good(format, state')  BY <1>0, <2>1, ErrorGood
  <2> QED BY <1>0, <2>1, <2>2 DEF StreamInv
<1>9. ASSUME Refuse PROVE StreamInv'
  <2>1. phase' = "failed" /\ format' = format /\ used' = used /\ state' = state
    BY <1>9 DEF Refuse
  <2> QED BY <1>0, <2>1 DEF StreamInv
<1>10. ASSUME UNCHANGED vars PROVE StreamInv'
  <2>1. /\ format' = format /\ used' = used /\ state' = state /\ wire' = wire /\ phase' = phase
        /\ mode' = mode /\ ending' = ending
    BY <1>10 DEF vars, answerVars
  <2> QED BY <1>0, <2>1 DEF StreamInv, Streaming
<1> QED BY <1>1, <1>2, <1>3, <1>4, <1>5, <1>6, <1>7, <1>8, <1>9, <1>10 DEF Next

\* The inductive invariant of the streams.
LEMMA StreamInvHolds == Spec => []StreamInv
<1>1. Init => StreamInv  BY InitStreams
<1>2. StreamInv /\ [Next]_vars => StreamInv'  BY StreamStep
<1> QED BY <1>1, <1>2, PTL DEF Spec

-----------------------------------------------------------------------------
(* Streams are well formed. *)

\* What a client is told of a good stream.
Sent(f, out) == IF f = "shim" THEN ShimEnd(out) ELSE out

\* What a client is told of a good stream, behind the shim too.
LEMMA SentSound ==
  ASSUME NEW f \in Formats, NEW s, Good(f, s)
  PROVE  LET o == Sent(f, s.out) IN
         /\ o \in Seq(Ev) /\ EndsOnce(o)
         /\ f = "responses" => AllFit(o, {}) /\ Numbered(s) /\ o = s.out
         /\ f = "claude" => AllFit(o, Late)
         /\ f \in {"responses", "claude"} => AllClosed(o)
         /\ f = "shim" => Over(o)
<1> DEFINE o == Sent(f, s.out)
<1>1. f # "shim" => o = s.out  BY DEF Sent
<1>2. CASE f = "responses"
  <2>1. s \in ResponsesState /\ Numbered(s) /\ AllFit(s.out, {}) /\ EndsOnce(s.out) /\ AllClosed(s.out)
    <3>1. CASE s \in ResponsesLive
      <4>1. s \in ResponsesState /\ Numbered(s) /\ AllFit(s.out, {}) /\ ~Over(s.out)
        BY <3>1 DEF ResponsesLive
      <4> QED BY <4>1, NotOverEndsOnce
    <3>2. CASE s \in ResponsesOver  BY <3>2 DEF ResponsesOver
    <3> QED BY <3>1, <3>2, <1>2 DEF Good
  <2>2. s.out \in Seq(Ev)  BY <2>1 DEF ResponsesState
  <2> QED BY <2>1, <2>2, <1>1, <1>2
<1>3. CASE f = "claude"
  <2>1. s \in ClaudeState /\ EndsOnce(s.out) /\ AllClosed(s.out) /\ AllFit(s.out, Late)
    BY <1>3 DEF Good, ClaudeSound
  <2>2. s.out \in Seq(Ev)  BY <2>1 DEF ClaudeState
  <2> QED BY <2>1, <2>2, <1>1, <1>3
<1>4. CASE f = "gemini"
  <2>1. s.out \in Seq(Ev) /\ EndsOnce(s.out)  BY <1>4 DEF Good, GeminiSound, GeminiState
  <2> QED BY <2>1, <1>1, <1>4
<1>5. CASE f = "openai"
  <2>1. s.out \in Seq(Ev) /\ EndsOnce(s.out)  BY <1>5 DEF Good, OpenAISound, OpenAIState, ChatSound
  <2> QED BY <2>1, <1>1, <1>5
<1>6. CASE f = "shim"
  <2>1. s.out \in Seq(Ev) /\ ShimSound(s.out)  BY <1>6 DEF Good, OpenAISound, OpenAIState, ChatSound
  <2> DEFINE e == ShimEnd(s.out)
  <2>2. EndsOnce(e) /\ Over(e) /\ e \in Seq(Ev)  BY <2>1, ShimEndsOnce
  <2>3. o = e  BY <1>6 DEF Sent
  <2> HIDE DEF e
  <2> QED BY <2>2, <2>3, <1>6
<1> QED BY <1>2, <1>3, <1>4, <1>5, <1>6 DEF Formats

\* The inductive invariant says what StreamsAreWellFormed says.
LEMMA StreamInvWellFormed == StreamInv => StreamsAreWellFormed
<1>1. SUFFICES ASSUME StreamInv PROVE StreamsAreWellFormed  OBVIOUS
<1> DEFINE o == Sent(format, state.out)
<1>2. format \in Formats /\ Good(format, state)  BY <1>1 DEF StreamInv
<1>3. /\ o \in Seq(Ev) /\ EndsOnce(o)
      /\ format = "responses" => AllFit(o, {}) /\ Numbered(state) /\ o = state.out
      /\ format = "claude" => AllFit(o, Late)
      /\ format \in {"responses", "claude"} => AllClosed(o)
  BY <1>2, SentSound
<1>4. Out = o /\ Terminal = Endings(o) /\ \A i, s, x : Before(i, s, x) <=> Earlier(o, i, s, x)
  BY DEF Out, Told, Sent, Terminal, Endings, Before, Earlier
<1> HIDE DEF o
<1>5. format = "responses" => \A i \in DOMAIN Out : Out[i].seq = i  BY <1>3, <1>4 DEF Numbered
<1>6. \A i, j \in Terminal : i = j  BY <1>3, <1>4 DEF EndsOnce
<1>7. \A i \in Terminal, j \in DOMAIN Out : j > i => Out[j].stage \in {"done", "error"}
  BY <1>3, <1>4 DEF EndsOnce
<1>8. ASSUME format \in {"responses", "claude"}
      PROVE  /\ \A i \in DOMAIN Out : Out[i].stage = "open" =>
                  /\ ~Before(i, "open", Out[i].index)
                  /\ \A k \in 0 .. Out[i].index - 1 : Before(i, "open", k)
             /\ \A i \in DOMAIN Out : Out[i].stage \in {"delta", "text_done", "close_part", "close"} =>
                  /\ Before(i, "open", Out[i].index)
                  /\ Before(i, "close", Out[i].index) =>
                       format = "claude" /\ Out[i].kind = "thought" /\ Out[i].stage = "delta"
             /\ \A i \in Terminal, j \in DOMAIN Out :
                  Out[j].stage = "open" => Before(i, "close", Out[j].index)
  <2>1. PICK late \in {{}, Late} : AllFit(o, late) /\ (late = {} \/ format = "claude")  BY <1>3, <1>8
  <2>2. \A i \in DOMAIN o : Fits(o, i, late)  BY <2>1 DEF AllFit
  <2>3. \A x : x \in late => format = "claude" /\ x = "thought"  BY <2>1 DEF Late
  <2>4. AllClosed(o)  BY <1>3, <1>8
  <2>5. \A i \in DOMAIN Out : Out[i].stage = "open" =>
          /\ ~Before(i, "open", Out[i].index)
          /\ \A k \in 0 .. Out[i].index - 1 : Before(i, "open", k)
    BY <2>2, <1>4 DEF Fits
  <2>6. \A i \in DOMAIN Out : Out[i].stage \in {"delta", "text_done", "close_part", "close"} =>
          /\ Before(i, "open", Out[i].index)
          /\ Before(i, "close", Out[i].index) =>
               format = "claude" /\ Out[i].kind = "thought" /\ Out[i].stage = "delta"
    BY <2>2, <2>3, <1>4 DEF Fits, Mids
  <2>7. \A i \in Terminal, j \in DOMAIN Out : Out[j].stage = "open" => Before(i, "close", Out[j].index)
    BY <2>4, <1>4 DEF AllClosed
  <2> QED BY <2>5, <2>6, <2>7
<1> QED BY <1>5, <1>6, <1>7, <1>8 DEF StreamsAreWellFormed

\* Whatever Gemini says, in whatever order, and however its frames are joined
\* and torn on the way, the events a client of any of the five formats is told
\* make a well-formed stream: numbered, opened once and in order, nothing added
\* to what is not open, all closed when the answer finishes, once.
THEOREM WellFormedStreams == Spec => []StreamsAreWellFormed
BY StreamInvHolds, StreamInvWellFormed, PTL

-----------------------------------------------------------------------------
(* Induction over sequences once more, and gathering over them. *)

\* Induction over the sequences of a set.
LEMMA SeqInduction ==
  ASSUME NEW D, NEW J, << >> \in J, \A s \in Seq(D), x \in D : s \in J => Append(s, x) \in J
  PROVE  \A s \in Seq(D) : s \in J
<1> DEFINE T == { n \in Nat : \A s \in Seq(D) : Len(s) = n => s \in J }
<1>1. 0 \in T
  <2>1. \A s \in Seq(D) : Len(s) = 0 => s = << >>  OBVIOUS
  <2> QED BY <2>1
<1>2. ASSUME NEW n \in T PROVE n + 1 \in T
  <2>1. ASSUME NEW s \in Seq(D), Len(s) = n + 1 PROVE s \in J
    <3> DEFINE t == SubSeq(s, 1, n)
    <3>1. n \in Nat  OBVIOUS
    <3>2. t \in Seq(D) /\ Len(t) = n /\ s[n + 1] \in D  BY <3>1, <2>1
    <3>3. s = Append(t, s[n + 1])  BY <3>1, <2>1
    <3>4. t \in J  BY <3>2
    <3> HIDE DEF t
    <3> QED BY <3>2, <3>3, <3>4
  <2> QED BY <2>1
<1>3. T = Nat
  <2>1. T \subseteq Nat  OBVIOUS
  <2> HIDE DEF T
  <2> QED BY <1>1, <1>2, <2>1, NatSet
<1>4. ASSUME NEW s \in Seq(D) PROVE s \in J
  <2>1. Len(s) \in T
    <3>1. Len(s) \in Nat  OBVIOUS
    <3> HIDE DEF T
    <3> QED BY <3>1, <1>3
  <2> QED BY <2>1
<1> QED BY <1>4

\* What a function g makes of the elements of a sequence, one after the other.
\* Most of what the model takes from a sequence is of this form.
Maker(g, D, T) == g \in [D -> Seq(T)]
Each(g, s) == [i \in DOMAIN s |-> g[s[i]]]
Gather(g, s) == FlattenSeq(Each(g, s))

\* Three sequences, and four, one after the other.
LEMMA ConcatThree ==
  ASSUME NEW T, NEW a \in Seq(T), NEW b \in Seq(T), NEW c \in Seq(T)
  PROVE  /\ (a \o b) \o c = a \o (b \o c)
         /\ a \o b \in Seq(T) /\ (a \o b) \o c \in Seq(T)
OBVIOUS

\* The equation under a name, as the provers lose themselves in its terms.
Regroups(a, b, c) == (a \o b) \o c = a \o (b \o c)

\* Concatenation associates.
LEMMA ConcatAssoc ==
  ASSUME NEW T, NEW a \in Seq(T), NEW b \in Seq(T), NEW c \in Seq(T)
  PROVE  Regroups(a, b, c)
BY ConcatThree DEF Regroups

\* Gathering what a typed function makes of each element stays typed.
LEMMA EachTyped ==
  ASSUME NEW D, NEW T, NEW g, Maker(g, D, T), NEW s \in Seq(D)
  PROVE  Each(g, s) \in Seq(Seq(T)) /\ Gather(g, s) \in Seq(T)
<1>1. DOMAIN s = 1 .. Len(s) /\ Len(s) \in Nat /\ \A i \in 1 .. Len(s) : g[s[i]] \in Seq(T)
  BY DEF Maker
<1>2. Each(g, s) \in Seq(Seq(T))  BY <1>1 DEF Each
<1>3. Gather(g, s) \in Seq(T)
  <2>1. << >> \in Seq(T)  OBVIOUS
  <2> QED BY <1>2, <2>1, FlattenAppend DEF Gather
<1> QED BY <1>2, <1>3

\* Of one more element, or of none.
LEMMA GatherAppend ==
  ASSUME NEW D, NEW T, NEW g, Maker(g, D, T), NEW s \in Seq(D), NEW x \in D
  PROVE  Gather(g, Append(s, x)) = Gather(g, s) \o g[x] /\ g[x] \in Seq(T)
<1> DEFINE r == Append(s, x)
<1>1. DOMAIN s = 1 .. Len(s) /\ Len(s) \in Nat /\ r \in Seq(D) /\ Len(r) = Len(s) + 1
      /\ DOMAIN r = 1 .. Len(s) + 1
      /\ r[Len(s) + 1] = x /\ \A i \in 1 .. Len(s) : r[i] = s[i]  OBVIOUS
<1> HIDE DEF r
<1>2. Each(g, s) \in Seq(Seq(T)) /\ Len(Each(g, s)) = Len(s)
      /\ \A i \in 1 .. Len(s) : Each(g, s)[i] = g[s[i]]
  <2>1. Each(g, s) \in Seq(Seq(T))  BY EachTyped
  <2>2. DOMAIN Each(g, s) = 1 .. Len(s) /\ \A i \in 1 .. Len(s) : Each(g, s)[i] = g[s[i]]
    BY <1>1 DEF Each
  <2> QED BY <1>1, <2>1, <2>2
<1>3. Each(g, r) \in Seq(Seq(T)) /\ Len(Each(g, r)) = Len(s) + 1
      /\ \A i \in 1 .. Len(s) + 1 : Each(g, r)[i] = g[r[i]]
  <2>1. Each(g, r) \in Seq(Seq(T))  BY <1>1, EachTyped
  <2>2. DOMAIN Each(g, r) = 1 .. Len(s) + 1 /\ \A i \in 1 .. Len(s) + 1 : Each(g, r)[i] = g[r[i]]
    BY <1>1 DEF Each
  <2> QED BY <1>1, <2>1, <2>2
<1>4. g[x] \in Seq(T)  BY DEF Maker
<1>5. Each(g, r) = Append(Each(g, s), g[x])
  <2> DEFINE a == Each(g, s)
             b == Each(g, r)
  <2>1. ASSUME NEW i \in 1 .. Len(s) PROVE b[i] = a[i]
    <3>1. i \in 1 .. Len(s) + 1 /\ r[i] = s[i]  BY <1>1
    <3>2. a[i] = g[s[i]]  BY <1>2
    <3>3. b[i] = g[r[i]]  BY <1>3, <3>1
    <3> HIDE DEF a, b
    <3> QED BY <3>1, <3>2, <3>3
  <2>2. b[Len(s) + 1] = g[x]  BY <1>1, <1>3
  <2> HIDE DEF a, b
  <2>3. a \in Seq(Seq(T)) /\ Len(a) = Len(s) /\ b \in Seq(Seq(T)) /\ Len(b) = Len(s) + 1
    BY <1>2, <1>3 DEF a, b
  <2>4. b = Append(a, g[x])  BY <1>4, <2>1, <2>2, <2>3
  <2> QED BY <2>4 DEF a, b
<1>6. Gather(g, r) = Gather(g, s) \o g[x]  BY <1>2, <1>4, <1>5, FlattenAppend DEF Gather
<1> QED BY <1>4, <1>6 DEF r

\* Nothing is gathered from nothing.
LEMMA GatherNone == \A g : Gather(g, << >>) = << >>
<1>1. ASSUME NEW g PROVE Each(g, << >>) = << >>  BY DEF Each
<1> QED BY <1>1, FlattenNone DEF Gather

\* From one element, what it makes.
LEMMA GatherOne ==
  ASSUME NEW D, NEW T, NEW g, Maker(g, D, T), NEW x \in D
  PROVE  Gather(g, << x >>) = g[x]
<1>1. << >> \in Seq(D) /\ Append(<< >>, x) = << x >> /\ g[x] \in Seq(T)  BY DEF Maker
<1> DEFINE e == << >>
<1>2. << >> \o g[x] = g[x]  BY <1>1
<1>3. e \in Seq(D) /\ Append(e, x) = << x >> /\ Gather(g, e) = << >>  BY <1>1, GatherNone
<1> HIDE DEF e
<1>4. e \in Seq(D)  BY <1>3
<1>5. Gather(g, Append(e, x)) = Gather(g, e) \o g[x]  BY <1>4, GatherAppend
<1> QED BY <1>2, <1>3, <1>5

\* Of two sequences.
LEMMA GatherConcat ==
  ASSUME NEW D, NEW T, NEW g, Maker(g, D, T), NEW a \in Seq(D), NEW b \in Seq(D)
  PROVE  Gather(g, a \o b) = Gather(g, a) \o Gather(g, b)
<1> DEFINE J == { s \in Seq(D) : Gather(g, a \o s) = Gather(g, a) \o Gather(g, s) }
<1>1. << >> \in J
  <2>0. Gather(g, a) \in Seq(T)  BY EachTyped
  <2>1. a \o << >> = a /\ << >> \in Seq(D)  OBVIOUS
  <2>2. Gather(g, a) \o << >> = Gather(g, a)  BY <2>0
  <2> QED BY <2>1, <2>2, GatherNone
<1>2. ASSUME NEW s \in Seq(D), NEW x \in D, s \in J PROVE Append(s, x) \in J
  <2>1. Append(s, x) \in Seq(D) /\ a \o s \in Seq(D) /\ a \o Append(s, x) = Append(a \o s, x)  OBVIOUS
  <2>2. Gather(g, Append(s, x)) = Gather(g, s) \o g[x] /\ g[x] \in Seq(T)  BY GatherAppend
  <2>3. Gather(g, Append(a \o s, x)) = Gather(g, a \o s) \o g[x]
    <3> DEFINE t == a \o s
    <3>1. t \in Seq(D)  OBVIOUS
    <3> HIDE DEF t
    <3>2. Gather(g, Append(t, x)) = Gather(g, t) \o g[x]  BY <3>1, GatherAppend
    <3> QED BY <3>2 DEF t
  <2>4. Gather(g, a) \in Seq(T) /\ Gather(g, s) \in Seq(T)  BY EachTyped
  <2>5. Gather(g, a \o s) = Gather(g, a) \o Gather(g, s)  BY <1>2
  <2>6. (Gather(g, a) \o Gather(g, s)) \o g[x] = Gather(g, a) \o (Gather(g, s) \o g[x])
    <3> DEFINE u == Gather(g, a)
               v == Gather(g, s)
               w == g[x]
    <3>1. u \in Seq(T) /\ v \in Seq(T) /\ w \in Seq(T)  BY <2>2, <2>4
    <3> HIDE DEF u, v, w
    <3>2. Regroups(u, v, w)  BY <3>1, ConcatAssoc
    <3>3. (u \o v) \o w = u \o (v \o w)  BY <3>2, Zenon DEF Regroups
    <3> QED BY <3>3 DEF u, v, w
  <2> QED BY <2>1, <2>2, <2>3, <2>5, <2>6
<1>3. b \in J
  <2> HIDE DEF J
  <2> QED BY <1>1, <1>2, SeqInduction
<1> QED BY <1>3

\* One after the other.
LEMMA GatherGather ==
  ASSUME NEW D, NEW T, NEW U, NEW g, Maker(g, D, T), NEW h, Maker(h, T, U), NEW k, Maker(k, D, U),
         \A x \in D : k[x] = Gather(h, g[x]), NEW s \in Seq(D)
  PROVE  Gather(h, Gather(g, s)) = Gather(k, s)
<1> DEFINE J == { t \in Seq(D) : Gather(h, Gather(g, t)) = Gather(k, t) }
<1>1. << >> \in J
  <2>1. << >> \in Seq(D)  OBVIOUS
  <2> QED BY <2>1, GatherNone
<1>2. ASSUME NEW t \in Seq(D), NEW x \in D, t \in J PROVE Append(t, x) \in J
  <2>1. Append(t, x) \in Seq(D)  OBVIOUS
  <2>2. Gather(g, Append(t, x)) = Gather(g, t) \o g[x] /\ g[x] \in Seq(T)  BY GatherAppend
  <2>3. Gather(k, Append(t, x)) = Gather(k, t) \o k[x]  BY GatherAppend
  <2>4. Gather(g, t) \in Seq(T)  BY EachTyped
  <2>5. Gather(h, Gather(g, t) \o g[x]) = Gather(h, Gather(g, t)) \o Gather(h, g[x])
    BY <2>2, <2>4, GatherConcat, SMTT(30)
  <2>6. Gather(h, Gather(g, t)) = Gather(k, t) /\ k[x] = Gather(h, g[x])  BY <1>2
  <2> QED BY <2>1, <2>2, <2>3, <2>5, <2>6
<1>3. s \in J
  <2> HIDE DEF J
  <2> QED BY <1>1, <1>2, SeqInduction
<1> QED BY <1>3

\* Only what it makes of the sequence's own elements matters.
LEMMA GatherSame ==
  ASSUME NEW g, NEW h, NEW s, \A i \in DOMAIN s : g[s[i]] = h[s[i]]
  PROVE  Gather(g, s) = Gather(h, s)
<1>1. Each(g, s) = Each(h, s)  BY DEF Each
<1> QED BY <1>1 DEF Gather

\* Nothing of each element is nothing.
LEMMA GatherNothing ==
  ASSUME NEW D, NEW g, NEW s \in Seq(D), \A i \in DOMAIN s : g[s[i]] = << >>
  PROVE  Gather(g, s) = << >>
<1> DEFINE e == [x \in D |-> << >>]
           J == { t \in Seq(D) : Gather(e, t) = << >> }
<1>1. Maker(e, D, {}) /\ \A x \in D : e[x] = << >>
  <2>1. << >> \in Seq({})  OBVIOUS
  <2> QED BY <2>1 DEF Maker
<1> HIDE DEF e
<1>2. << >> \in J
  <2>1. << >> \in Seq(D)  OBVIOUS
  <2> QED BY <2>1, GatherNone
<1>3. ASSUME NEW t \in Seq(D), NEW x \in D, t \in J PROVE Append(t, x) \in J
  <2>1. Gather(e, Append(t, x)) = Gather(e, t) \o e[x]  BY <1>1, GatherAppend
  <2>2. Append(t, x) \in Seq(D) /\ << >> \o << >> = << >>  OBVIOUS
  <2> QED BY <2>1, <2>2, <1>3, <1>1
<1>4. s \in J
  <2> HIDE DEF J
  <2> QED BY <1>2, <1>3, SeqInduction
<1>5. \A i \in DOMAIN s : s[i] \in D  OBVIOUS
<1>6. Gather(g, s) = Gather(e, s)  BY <1>1, <1>5, GatherSame
<1> QED BY <1>4, <1>6

Associates(a, b, c, d) == ((a \o b) \o c) \o d = a \o ((b \o c) \o d)

\* Concatenation of four sequences associates.
LEMMA ConcatFour ==
  ASSUME NEW T, NEW a \in Seq(T), NEW b \in Seq(T), NEW c \in Seq(T), NEW d \in Seq(T)
  PROVE  Associates(a, b, c, d)
<1> DEFINE e == b \o c
<1>1. e \in Seq(T)  BY ConcatThree
<1>2. (a \o b) \o c = a \o e
  <2>1. Regroups(a, b, c)  BY ConcatAssoc
  <2> QED BY <2>1, Zenon DEF Regroups, e
<1> HIDE DEF e
<1>3. Regroups(a, e, d)  BY <1>1, ConcatAssoc
<1>4. (a \o e) \o d = a \o (e \o d)  BY <1>3, Zenon DEF Regroups
<1>5. ((a \o b) \o c) \o d = (a \o e) \o d  BY <1>2, Zenon
<1>6. ((a \o b) \o c) \o d = a \o (e \o d)  BY <1>4, <1>5, Zenon
<1> QED BY <1>6, Zenon DEF e, Associates

-----------------------------------------------------------------------------
(* Signing the first call of a content. *)

\* A part, a content, a block and a turn of a conversation.
PartRec == [kind : EvKind \cup {"response"}, id : Int, name : Int, signed : BOOLEAN]
PlainPart == { p \in PartRec : ~p.signed }
ContentRec == [role : {"user", "model"}, parts : Seq(PartRec)]
BlockRec == [kind : EvKind, parts : Seq(Int \ {0})]
TurnRec == [results : Seq(Int \ {0}), asks : BOOLEAN, blocks : Seq(BlockRec)]

\* A set of numbers that has an element has a least one.
LEMMA MinIs ==
  ASSUME NEW S \in SUBSET Nat, S # {}
  PROVE  Min(S) \in S /\ \A y \in S : Min(S) <= y
<1>1. IsWellFoundedOn(OpToRel(<, Nat), Nat)  BY NatLessThanWellFounded
<1>2. \E x \in S : \A y \in S : ~ (<< y, x >> \in OpToRel(<, Nat))  BY <1>1, WFMin
<1>3. PICK x \in S : \A y \in S : ~ (y < x)  BY <1>2 DEF OpToRel
<1>4. \A y \in S : x <= y  BY <1>3
<1>5. Min(S) = CHOOSE z \in S : \A y \in S : z <= y  BY DEF Min
<1> QED BY <1>4, <1>5

\* The calls that are not signed.
Open(parts) == { i \in DOMAIN parts : parts[i].kind = "call" /\ ~parts[i].signed }
Signed(p) == [p EXCEPT !.signed = TRUE]
Keeping(q, r) ==
  /\ Len(r) = Len(q)
  /\ \A i \in 1 .. Len(q) : r[i].kind = q[i].kind /\ r[i].id = q[i].id /\ r[i].name = q[i].name

\* A signature changes neither the kind nor the identity of a part.
LEMMA SignFirstKeeps ==
  ASSUME NEW q \in Seq(PartRec)
  PROVE  SignFirst(q) \in Seq(PartRec) /\ Keeping(q, SignFirst(q))
<1>0. DOMAIN q = 1 .. Len(q) /\ Len(q) \in Nat /\ \A i \in 1 .. Len(q) : q[i] \in PartRec  OBVIOUS
<1>1. CASE Open(q) = {}
  <2>1. SignFirst(q) = q  BY <1>1 DEF SignFirst, Open
  <2> QED BY <2>1 DEF Keeping
<1>2. CASE Open(q) # {}
  <2> DEFINE m == Min(Open(q))
             r == [i \in 1 .. Len(q) |-> IF i = m THEN Signed(q[i]) ELSE q[i]]
  <2>1. m \in Open(q)
    <3>1. Open(q) \in SUBSET Nat  BY <1>0 DEF Open
    <3> QED BY <3>1, <1>2, MinIs
  <2>2. SignFirst(q) = [q EXCEPT ![m].signed = TRUE]  BY <1>2 DEF SignFirst, Open
  <2> HIDE DEF m
  <2>3. m \in 1 .. Len(q)  BY <2>1, <1>0 DEF Open
  <2>4. \A p \in PartRec : /\ Signed(p) \in PartRec /\ Signed(p).kind = p.kind
                           /\ Signed(p).id = p.id /\ Signed(p).name = p.name
    BY DEF PartRec, Signed
  <2>5. SignFirst(q) = r  BY <2>2, <2>3, <1>0 DEF Signed
  <2>6. r \in Seq(PartRec)  BY <2>4, <1>0
  <2>7. \A i \in 1 .. Len(q) : r[i] = IF i = m THEN Signed(q[i]) ELSE q[i]  OBVIOUS
  <2>8. Len(r) = Len(q)  BY <1>0
  <2> HIDE DEF r
  <2>9. Keeping(q, r)  BY <2>4, <2>7, <2>8, <1>0 DEF Keeping
  <2> QED BY <2>5, <2>6, <2>9
<1> QED BY <1>1, <1>2

\* The last part is signed only if no call before it can be.
LEMMA SignFirstAppend ==
  ASSUME NEW q \in Seq(PartRec), NEW x \in PartRec
  PROVE  /\ Open(q) # {} => SignFirst(Append(q, x)) = Append(SignFirst(q), x)
         /\ Open(q) = {} => SignFirst(Append(q, x)) =
              Append(q, IF x.kind = "call" /\ ~x.signed THEN Signed(x) ELSE x)
         /\ Open(q) = {} => SignFirst(q) = q
<1> DEFINE n == Len(q)
           a == Append(q, x)
<1>1. n \in Nat /\ DOMAIN q = 1 .. n /\ DOMAIN a = 1 .. n + 1 /\ a[n + 1] = x
      /\ \A i \in 1 .. n : a[i] = q[i]  OBVIOUS
<1>2. a \in Seq(PartRec) /\ Len(a) = n + 1  OBVIOUS
<1> HIDE DEF a
<1>3. Open(a) = Open(q) \cup (IF x.kind = "call" /\ ~x.signed THEN {n + 1} ELSE {})
  BY <1>1 DEF Open
<1>4. Open(q) = {} => SignFirst(q) = q  BY DEF SignFirst, Open
<1>5. CASE Open(q) # {}
  <2> DEFINE m == Min(Open(q))
  <2>1. Open(q) \in SUBSET Nat /\ Open(a) \in SUBSET Nat /\ Open(a) # {}
    BY <1>1, <1>3, <1>5 DEF Open
  <2>2. m \in Open(q) /\ \A y \in Open(q) : m <= y  BY <2>1, <1>5, MinIs
  <2>3. Min(Open(a)) \in Open(a) /\ \A y \in Open(a) : Min(Open(a)) <= y  BY <2>1, MinIs
  <2> HIDE DEF m
  <2>4. m \in 1 .. n  BY <2>2, <1>1 DEF Open
  <2>5. Min(Open(a)) = m
    <3> DEFINE k == Min(Open(a))
    <3> HIDE DEF k
    <3>1. k \in Open(a) /\ \A y \in Open(a) : k <= y  BY <2>3 DEF k
    <3>2. m \in Open(a)  BY <2>2, <1>3
    <3>3. k <= m /\ k \in 1 .. n + 1  BY <3>1, <3>2, <1>1 DEF Open
    <3>4. k \in Open(q)  BY <3>1, <3>3, <2>4, <1>1, <1>3
    <3>5. m <= k  BY <3>4, <2>2
    <3>6. k = m  BY <3>3, <3>5, <2>4
    <3> QED BY <3>6 DEF k
  <2>6. SignFirst(q) = [q EXCEPT ![m].signed = TRUE]  BY <1>5 DEF SignFirst, Open, m
  <2>7. SignFirst(a) = [a EXCEPT ![m].signed = TRUE]  BY <2>1, <2>5 DEF SignFirst, Open
  <2> DEFINE u == [q EXCEPT ![m].signed = TRUE]
             v == [a EXCEPT ![m].signed = TRUE]
  <2>8. SignFirst(q) \in Seq(PartRec) /\ SignFirst(a) \in Seq(PartRec)  BY <1>2, SignFirstKeeps
  <2>9. Len(u) = n /\ Len(v) = n + 1 /\ u \in Seq(PartRec) /\ v \in Seq(PartRec)
    BY <2>6, <2>7, <2>8, <1>1, <1>2
  <2>10. /\ \A i \in 1 .. n : u[i] = IF i = m THEN Signed(q[i]) ELSE q[i]
         /\ \A i \in 1 .. n + 1 : v[i] = IF i = m THEN Signed(a[i]) ELSE a[i]
    BY <1>1, <2>4 DEF Signed
  <2> HIDE DEF u, v
  <2>11. \A i \in 1 .. n : v[i] = u[i]  BY <2>10, <1>1
  <2>12. v[n + 1] = x  BY <2>10, <1>1, <2>4
  <2>13. v = Append(u, x)  BY <2>9, <2>11, <2>12, <1>1
  <2>14. u = SignFirst(q) /\ v = SignFirst(a)  BY <2>6, <2>7 DEF u, v
  <2> QED BY <2>13, <2>14, <1>5 DEF a
<1>6. CASE Open(q) = {} /\ x.kind = "call" /\ ~x.signed
  <2>1. Open(a) = {n + 1}  BY <1>3, <1>6
  <2>2. Min(Open(a)) = n + 1
    <3>1. Open(a) \in SUBSET Nat /\ Open(a) # {}  BY <2>1, <1>1
    <3> QED BY <3>1, <2>1, MinIs
  <2>3. SignFirst(a) = [a EXCEPT ![n + 1].signed = TRUE]  BY <2>1, <2>2 DEF SignFirst, Open
  <2>4. Signed(x) \in PartRec  BY DEF Signed, PartRec
  <2>5. [a EXCEPT ![n + 1].signed = TRUE] = Append(q, Signed(x))
    <3> DEFINE v == [a EXCEPT ![n + 1].signed = TRUE]
    <3>1. v \in Seq(PartRec)  BY <2>3, <1>2, SignFirstKeeps
    <3>2. DOMAIN v = 1 .. n + 1 /\ (\A i \in 1 .. n : v[i] = q[i]) /\ v[n + 1] = Signed(x)
      BY <1>1 DEF Signed
    <3> HIDE DEF v
    <3>3. Len(v) = n + 1  BY <3>1, <3>2, <1>1
    <3>4. v = Append(q, Signed(x))  BY <3>1, <3>2, <3>3, <2>4, <1>1
    <3> QED BY <3>4 DEF v
  <2> QED BY <2>3, <2>5, <1>6, <1>4 DEF a
<1>7. CASE Open(q) = {} /\ ~(x.kind = "call" /\ ~x.signed)
  <2>1. Open(a) = {}  BY <1>3, <1>7
  <2>2. SignFirst(a) = a  BY <2>1 DEF SignFirst, Open
  <2> QED BY <2>2, <1>7, <1>4 DEF a
<1> QED BY <1>5, <1>6, <1>7

-----------------------------------------------------------------------------
(* Picking out the parts of a kind. *)

\* The kinds of the parts that a client keeps.
PartKinds == {"call", "text", "image", "thought"}


\* The numbers, and the parts, of these kinds.
Ids(D, kinds) == [p \in D |-> IF p.kind \in kinds THEN << p.id >> ELSE << >>]
Those(D, kinds) == [p \in D |-> IF p.kind \in kinds THEN << p >> ELSE << >>]

\* The model's OfKind and PartsOfKind, as gatherings.
LEMMA OfKindIs ==
  ASSUME NEW D, NEW q \in Seq(D), NEW kinds
  PROVE  OfKind(q, kinds) = Gather(Ids(D, kinds), q)
         /\ PartsOfKind(q, kinds) = Gather(Those(D, kinds), q)
<1>1. DOMAIN q = 1 .. Len(q) /\ \A i \in 1 .. Len(q) : q[i] \in D  OBVIOUS
<1>2. Each(Ids(D, kinds), q)
        = [i \in DOMAIN q |-> IF q[i].kind \in kinds THEN << q[i].id >> ELSE << >>]
  BY <1>1 DEF Each, Ids
<1>3. Each(Those(D, kinds), q)
        = [i \in DOMAIN q |-> IF q[i].kind \in kinds THEN << q[i] >> ELSE << >>]
  BY <1>1 DEF Each, Those
<1>4. OfKind(q, kinds) = FlattenSeq(Each(Ids(D, kinds), q))  BY <1>2, Zenon DEF OfKind
<1>5. PartsOfKind(q, kinds) = FlattenSeq(Each(Those(D, kinds), q))  BY <1>3, Zenon DEF PartsOfKind
<1> QED BY <1>4, <1>5 DEF Gather

-----------------------------------------------------------------------------
(* Signatures and kinds of parts. *)

\* Those gatherings are typed.
LEMMA KindsMake ==
  ASSUME NEW kinds
  PROVE  /\ Maker(Ids(PartRec, kinds), PartRec, Int)
         /\ Maker(Those(PartRec, kinds), PartRec, PartRec)
         /\ Maker(Those(PlainPart, kinds), PlainPart, PlainPart)
<1>1. \A p \in PartRec : p.id \in Int /\ << p.id >> \in Seq(Int)  BY DEF PartRec
<1>2. << >> \in Seq(Int) /\ << >> \in Seq(PartRec) /\ << >> \in Seq(PlainPart)  OBVIOUS
<1>3. \A p \in PartRec : << p >> \in Seq(PartRec)  OBVIOUS
<1>4. \A p \in PlainPart : << p >> \in Seq(PlainPart)  OBVIOUS
<1>5. Maker(Ids(PartRec, kinds), PartRec, Int)  BY <1>1, <1>2 DEF Maker, Ids
<1>6. Maker(Those(PartRec, kinds), PartRec, PartRec)  BY <1>2, <1>3 DEF Maker, Those
<1>7. Maker(Those(PlainPart, kinds), PlainPart, PlainPart)  BY <1>2, <1>4 DEF Maker, Those
<1> QED BY <1>5, <1>6, <1>7

\* A signature changes no numbers.
LEMMA SignFirstIds ==
  ASSUME NEW q \in Seq(PartRec), NEW kinds
  PROVE  OfKind(SignFirst(q), kinds) = OfKind(q, kinds)
<1> DEFINE r == SignFirst(q)
<1>1. r \in Seq(PartRec) /\ Keeping(q, r)  BY SignFirstKeeps
<1> HIDE DEF r
<1>2. DOMAIN r = DOMAIN q /\ \A i \in DOMAIN q : r[i].kind = q[i].kind /\ r[i].id = q[i].id
  BY <1>1 DEF Keeping
<1>3. [i \in DOMAIN q |-> IF q[i].kind \in kinds THEN << q[i].id >> ELSE << >>]
      = [i \in DOMAIN r |-> IF r[i].kind \in kinds THEN << r[i].id >> ELSE << >>]
  BY <1>2
<1>4. OfKind(q, kinds) = OfKind(r, kinds)  BY <1>3, Zenon DEF OfKind
<1> QED BY <1>4 DEF r

CallPart == { p \in PartRec : p.kind = "call" }
CallsOf(q) == PartsOfKind(q, {"call"})

\* The calls of one more part.
LEMMA CallsAppend ==
  ASSUME NEW q \in Seq(PartRec), NEW x \in PartRec
  PROVE  CallsOf(Append(q, x)) = IF x.kind = "call" THEN Append(CallsOf(q), x) ELSE CallsOf(q)
<1> DEFINE g == Those(PartRec, {"call"})
<1>1. Maker(g, PartRec, PartRec) /\ g[x] = IF x.kind = "call" THEN << x >> ELSE << >>
  BY KindsMake DEF Those
<1> HIDE DEF g
<1>2. Append(q, x) \in Seq(PartRec)  OBVIOUS
<1>3. Gather(g, Append(q, x)) = Gather(g, q) \o g[x]
  <2>1. Maker(g, PartRec, PartRec)  BY <1>1
  <2> QED BY <2>1, GatherAppend
<1>4. Gather(g, q) \in Seq(PartRec)  BY <1>1, EachTyped
<1>5. CallsOf(q) = Gather(g, q)  BY OfKindIs DEF CallsOf, g
<1>6. CallsOf(Append(q, x)) = Gather(g, Append(q, x))  BY <1>2, OfKindIs DEF CallsOf, g
<1> DEFINE c == Gather(g, q)
<1> HIDE DEF c
<1>7. c \in Seq(PartRec) /\ CallsOf(q) = c /\ CallsOf(Append(q, x)) = c \o g[x]
  BY <1>3, <1>4, <1>5, <1>6 DEF c
<1>8. CASE x.kind = "call"
  <2>1. c \o << x >> = Append(c, x)  BY <1>7
  <2> QED BY <2>1, <1>7, <1>1, <1>8
<1>9. CASE x.kind # "call"
  <2>1. c \o << >> = c  BY <1>7
  <2> QED BY <2>1, <1>7, <1>1, <1>9
<1> QED BY <1>8, <1>9

\* To sign the first call is to sign the first of the calls.
Commutes(q) ==
  /\ CallsOf(q) \in Seq(CallPart)
  /\ CallsOf(SignFirst(q)) = SignFirst(CallsOf(q))
  /\ Open(q) = {} <=> Open(CallsOf(q)) = {}

\* Signing the first call and picking out the calls commute.
LEMMA SignFirstCalls == \A q \in Seq(PartRec) : Commutes(q)
<1> DEFINE J == { q \in Seq(PartRec) : Commutes(q) }
<1>1. << >> \in J
  <2>1. CallsOf(<< >>) = << >>
    <3>1. << >> \in Seq(PartRec)  OBVIOUS
    <3>2. CallsOf(<< >>) = Gather(Those(PartRec, {"call"}), << >>)  BY <3>1, OfKindIs DEF CallsOf
    <3> QED BY <3>2, GatherNone
  <2>2. Open(<< >>) = {}  BY DEF Open
  <2>3. SignFirst(<< >>) = << >>  BY <2>2 DEF SignFirst, Open
  <2>4. << >> \in Seq(PartRec) /\ << >> \in Seq(CallPart)  OBVIOUS
  <2> QED BY <2>1, <2>2, <2>3, <2>4 DEF Commutes
<1>2. ASSUME NEW q \in Seq(PartRec), NEW x \in PartRec, q \in J PROVE Append(q, x) \in J
  <2> DEFINE a == Append(q, x)
             c == CallsOf(q)
             s == SignFirst(q)
  <2>1. a \in Seq(PartRec) /\ s \in Seq(PartRec)  BY SignFirstKeeps
  <2>2. c \in Seq(CallPart) /\ CallsOf(s) = SignFirst(c) /\ (Open(q) = {} <=> Open(c) = {})
    BY <1>2 DEF Commutes
  <2>3. c \in Seq(PartRec)  BY <2>2 DEF CallPart
  <2>4. CallsOf(a) = IF x.kind = "call" THEN Append(c, x) ELSE c  BY CallsAppend
  <2>5. CallsOf(Append(s, x)) = IF x.kind = "call" THEN Append(CallsOf(s), x) ELSE CallsOf(s)
    BY <2>1, CallsAppend
  <2>6. /\ Open(q) # {} => SignFirst(a) = Append(s, x)
        /\ Open(q) = {} => SignFirst(a) = Append(q, IF x.kind = "call" /\ ~x.signed THEN Signed(x) ELSE x)
    BY SignFirstAppend
  <2>7. /\ Open(c) # {} => SignFirst(Append(c, x)) = Append(SignFirst(c), x)
        /\ Open(c) = {} => SignFirst(Append(c, x)) =
             Append(c, IF x.kind = "call" /\ ~x.signed THEN Signed(x) ELSE x)
        /\ Open(c) = {} => SignFirst(c) = c
    BY <2>3, SignFirstAppend
  <2>8. Open(a) = Open(q) \cup (IF x.kind = "call" /\ ~x.signed THEN {Len(q) + 1} ELSE {})
    BY DEF Open
  <2>9. Open(Append(c, x)) = Open(c) \cup (IF x.kind = "call" /\ ~x.signed THEN {Len(c) + 1} ELSE {})
    BY <2>3 DEF Open
  <2>10. Signed(x) \in PartRec /\ Signed(x).kind = x.kind  BY DEF Signed, PartRec
  <2>11. CallsOf(Append(q, Signed(x))) = IF x.kind = "call" THEN Append(c, Signed(x)) ELSE c
    BY <2>10, CallsAppend
  <2> HIDE DEF a, c, s
  <2>12. CallsOf(a) \in Seq(CallPart)
    <3>1. x.kind = "call" => x \in CallPart  BY DEF CallPart
    <3> QED BY <3>1, <2>2, <2>4
  <2>13. Open(a) = {} <=> Open(CallsOf(a)) = {}
    <3>1. CASE x.kind = "call"
      <4>1. CallsOf(a) = Append(c, x)  BY <3>1, <2>4
      <4> QED BY <4>1, <2>2, <2>8, <2>9
    <3>2. CASE x.kind # "call"  BY <3>2, <2>2, <2>4, <2>8
    <3> QED BY <3>1, <3>2
  <2>14. CallsOf(SignFirst(a)) = SignFirst(CallsOf(a))
    <3>1. CASE Open(q) # {}
      <4>1. SignFirst(a) = Append(s, x)  BY <2>6, <3>1
      <4>2. SignFirst(Append(c, x)) = Append(SignFirst(c), x)  BY <2>7, <2>2, <3>1
      <4> QED BY <4>1, <4>2, <2>2, <2>4, <2>5
    <3>2. CASE Open(q) = {} /\ x.kind = "call" /\ ~x.signed
      <4>1. SignFirst(a) = Append(q, Signed(x))  BY <2>6, <3>2
      <4>2. SignFirst(Append(c, x)) = Append(c, Signed(x))  BY <2>7, <2>2, <3>2
      <4>3. CallsOf(a) = Append(c, x)  BY <2>4, <3>2
      <4> QED BY <4>1, <4>2, <4>3, <2>11, <3>2
    <3>3. CASE Open(q) = {} /\ ~(x.kind = "call" /\ ~x.signed)
      <4>1. SignFirst(a) = a  BY <2>6, <3>3 DEF a
      <4>2. SignFirst(Append(c, x)) = Append(c, x) /\ SignFirst(c) = c  BY <2>7, <2>2, <3>3
      <4> QED BY <4>1, <4>2, <2>4
    <3> QED BY <3>1, <3>2, <3>3
  <2> QED BY <2>1, <2>12, <2>13, <2>14 DEF Commutes, a
<1>3. \A q \in Seq(PartRec) : q \in J
  <2> HIDE DEF J
  <2> QED BY <1>1, <1>2, SeqInduction
<1> QED BY <1>3

\* The first n calls of a content are signed, and no others.
SignedTo(q, n) == \A j \in DOMAIN CallsOf(q) : CallsOf(q)[j].signed <=> j <= n

\* Signing once more signs at most one call more.
LEMMA SignsFirst ==
  ASSUME NEW q \in Seq(PartRec), NEW n \in Nat, SignedTo(q, n)
  PROVE  SignedTo(SignFirst(q), n + 1)
<1> DEFINE c == CallsOf(q)
           m == Len(c)
<1>1. c \in Seq(CallPart) /\ CallsOf(SignFirst(q)) = SignFirst(c)  BY SignFirstCalls DEF Commutes
<1>2. \A j \in DOMAIN c : c[j].signed <=> j <= n  BY DEF SignedTo
<1> HIDE DEF c
<1>3. m \in Nat /\ DOMAIN c = 1 .. m /\ c \in Seq(PartRec) /\ \A j \in 1 .. m : c[j].kind = "call"
  BY <1>1 DEF CallPart
<1>4. Open(c) = { j \in 1 .. m : j > n }  BY <1>2, <1>3 DEF Open
<1>5. SignFirst(c) \in Seq(PartRec) /\ Len(SignFirst(c)) = m  BY <1>3, SignFirstKeeps DEF Keeping
<1>6. CASE m <= n
  <2>1. Open(c) = {}  BY <1>3, <1>4, <1>6
  <2>2. SignFirst(c) = c  BY <2>1 DEF SignFirst, Open
  <2>3. \A j \in 1 .. m : c[j].signed /\ j <= n + 1  BY <1>2, <1>3, <1>6
  <2> QED BY <2>2, <2>3, <1>1, <1>3 DEF SignedTo
<1>7. CASE m > n
  <2>1. n + 1 \in Open(c) /\ Open(c) \in SUBSET Nat  BY <1>3, <1>4, <1>7
  <2> DEFINE k == Min(Open(c))
  <2>2. k \in Open(c) /\ \A y \in Open(c) : k <= y  BY <2>1, MinIs
  <2> HIDE DEF k
  <2>3. k = n + 1  BY <2>1, <2>2, <1>3, <1>4
  <2>4. SignFirst(c) = [c EXCEPT ![k].signed = TRUE]  BY <2>1 DEF SignFirst, Open, k
  <2>5. \A j \in 1 .. m : SignFirst(c)[j] = IF j = n + 1 THEN Signed(c[j]) ELSE c[j]
    BY <2>3, <2>4, <1>3 DEF Signed
  <2>6. \A p \in PartRec : Signed(p).signed  BY DEF Signed, PartRec
  <2>7. ASSUME NEW j \in 1 .. m PROVE SignFirst(c)[j].signed <=> j <= n + 1
    <3>0. c[j] \in PartRec  BY <1>3
    <3>1. CASE j = n + 1
      <4>1. SignFirst(c)[j] = Signed(c[j])  BY <2>5, <3>1
      <4>2. SignFirst(c)[j].signed  BY <4>1, <3>0, <2>6, Zenon
      <4>3. j <= n + 1  BY <3>1
      <4> QED BY <4>2, <4>3
    <3>2. CASE j # n + 1
      <4>1. SignFirst(c)[j] = c[j]  BY <2>5, <3>2
      <4>2. c[j].signed <=> j <= n  BY <1>2, <1>3
      <4>3. j <= n <=> j <= n + 1  BY <3>2, <1>3
      <4> QED BY <4>1, <4>2, <4>3, Zenon
    <3> QED BY <3>1, <3>2
  <2>8. DOMAIN SignFirst(c) = 1 .. m  BY <1>5, <1>3
  <2> QED BY <2>7, <2>8, <1>1 DEF SignedTo
<1> QED BY <1>6, <1>7, <1>3

\* A part that was never signed carries no signature.
LEMMA PlainUnsigned ==
  ASSUME NEW q \in Seq(PlainPart)
  PROVE  q \in Seq(PartRec) /\ SignedTo(q, 0)
<1> DEFINE g == Those(PlainPart, {"call"})
           c == CallsOf(q)
<1>1. Maker(g, PlainPart, PlainPart)  BY KindsMake
<1>2. CallsOf(q) = Gather(g, q)  BY OfKindIs DEF CallsOf
<1> HIDE DEF g
<1>3. c \in Seq(PlainPart)  BY <1>1, <1>2, EachTyped
<1> HIDE DEF c
<1>4. \A j \in DOMAIN c : ~c[j].signed /\ j \in Nat /\ j > 0  BY <1>3 DEF PlainPart
<1>5. \A j \in DOMAIN c : ~(j <= 0)  BY <1>4
<1>6. SignedTo(q, 0)  BY <1>4, <1>5, Zenon DEF SignedTo, c
<1>7. q \in Seq(PartRec)  BY DEF PlainPart
<1> QED BY <1>6, <1>7

-----------------------------------------------------------------------------
(* The blocks a client keeps. *)

\* One value of each element is a function of the sequence.
LEMMA GatherMap ==
  ASSUME NEW D, NEW T, NEW f, NEW g, \A x \in D : f[x] \in T /\ g[x] = << f[x] >>,
         Maker(g, D, T), NEW s \in Seq(D)
  PROVE  Gather(g, s) = [i \in DOMAIN s |-> f[s[i]]]
<1> DEFINE M(t) == [i \in DOMAIN t |-> f[t[i]]]
           J == { t \in Seq(D) : Gather(g, t) = M(t) }
<1>1. << >> \in J
  <2>1. << >> \in Seq(D) /\ M(<< >>) = << >>  OBVIOUS
  <2> QED BY <2>1, GatherNone
<1>2. ASSUME NEW t \in Seq(D), NEW x \in D, t \in J PROVE Append(t, x) \in J
  <2>1. Gather(g, Append(t, x)) = Gather(g, t) \o g[x]  BY GatherAppend
  <2>2. Gather(g, t) = M(t) /\ g[x] = << f[x] >> /\ f[x] \in T  BY <1>2
  <2>3. M(t) \in Seq(T) /\ Len(M(t)) = Len(t) /\ \A i \in 1 .. Len(t) : M(t)[i] = f[t[i]]
    BY DEF M
  <2> DEFINE a == Append(t, x)
             m == M(a)
             w == M(t)
  <2>4. a \in Seq(D) /\ Len(a) = Len(t) + 1 /\ a[Len(t) + 1] = x /\ \A i \in 1 .. Len(t) : a[i] = t[i]
    OBVIOUS
  <2> HIDE DEF a
  <2>5. m \in Seq(T) /\ Len(m) = Len(t) + 1 /\ \A i \in 1 .. Len(t) + 1 : m[i] = f[a[i]]
    BY <2>4 DEF M
  <2> HIDE DEF m, w, M
  <2>6. \A i \in 1 .. Len(t) : m[i] = w[i]  BY <2>3, <2>4, <2>5 DEF w
  <2>7. m[Len(t) + 1] = f[x]  BY <2>4, <2>5
  <2>8. w \in Seq(T) /\ Len(w) = Len(t)  BY <2>3 DEF w
  <2>9. m = w \o << f[x] >>  BY <2>2, <2>5, <2>6, <2>7, <2>8
  <2>10. Gather(g, a) = M(a)  BY <2>1, <2>2, <2>9 DEF a, m, w
  <2> QED BY <2>4, <2>10 DEF a
<1>3. s \in J
  <2> HIDE DEF J
  <2> QED BY <1>1, <1>2, SeqInduction
<1> QED BY <1>3

Numbers(q) == [i \in DOMAIN q |-> q[i].id]

\* The numbers of this kind in a block, of blocks and of turns.
BlockIds(kind) == [b \in BlockRec |-> IF b.kind = kind THEN b.parts ELSE << >>]
BlockParts(kind) == [b \in BlockRec |-> IF b.kind = kind THEN PartsOf(b) ELSE << >>]
EveryPart == [b \in BlockRec |-> PartsOf(b)]
KeptIn(blocks, kind) == Gather(BlockIds(kind), blocks)
TurnBlocks == [t \in TurnRec |-> t.blocks]
TurnKept(kind) == [t \in TurnRec |-> KeptIn(t.blocks, kind)]
KeptOf(h, kind) == Gather(TurnKept(kind), h)

\* The gatherings over the blocks of an answer are typed.
LEMMA BlockMakers ==
  ASSUME NEW kind
  PROVE  /\ Maker(BlockIds(kind), BlockRec, Int)
         /\ Maker(BlockParts(kind), BlockRec, PlainPart)
         /\ Maker(EveryPart, BlockRec, PlainPart)
         /\ Maker(TurnBlocks, TurnRec, BlockRec)
         /\ Maker(TurnKept(kind), TurnRec, Int)
<1>1. \A b \in BlockRec : b.parts \in Seq(Int) /\ << >> \in Seq(Int) /\ << >> \in Seq(PlainPart)
  BY DEF BlockRec
<1>2. ASSUME NEW b \in BlockRec PROVE PartsOf(b) \in Seq(PlainPart)
  <2>1. b.kind \in EvKind /\ b.parts \in Seq(Int)  BY DEF BlockRec
  <2>2. \A x \in Int : Part(b.kind, x) \in PlainPart  BY <2>1 DEF Part, PlainPart, PartRec, Unknown
  <2> QED BY <2>1, <2>2 DEF PartsOf
<1>3. \A t \in TurnRec : t.blocks \in Seq(BlockRec)  BY DEF TurnRec
<1>4. Maker(BlockIds(kind), BlockRec, Int)  BY <1>1 DEF Maker, BlockIds
<1>5. \A t \in TurnRec : KeptIn(t.blocks, kind) \in Seq(Int)  BY <1>3, <1>4, EachTyped DEF KeptIn
<1>6. Maker(TurnKept(kind), TurnRec, Int)  BY <1>5 DEF Maker, TurnKept
<1>7. Maker(BlockParts(kind), BlockRec, PlainPart)  BY <1>1, <1>2 DEF Maker, BlockParts
<1>8. Maker(EveryPart, BlockRec, PlainPart)  BY <1>2 DEF Maker, EveryPart
<1>9. Maker(TurnBlocks, TurnRec, BlockRec)  BY <1>3 DEF Maker, TurnBlocks
<1> QED BY <1>4, <1>6, <1>7, <1>8, <1>9

\* The parts of one block.
LEMMA PartsOfIds ==
  ASSUME NEW b \in BlockRec, NEW k
  PROVE  Gather(Ids(PlainPart, {k}), PartsOf(b)) = IF b.kind = k THEN b.parts ELSE << >>
<1> DEFINE g == Ids(PlainPart, {k})
           q == PartsOf(b)
<1>1. b.kind \in EvKind /\ b.parts \in Seq(Int)  BY DEF BlockRec
<1>2. \A x \in Int : LET p == Part(b.kind, x) IN p \in PlainPart /\ p.kind = b.kind /\ p.id = x
  BY <1>1 DEF Part, PlainPart, PartRec, Unknown
<1>3. q \in Seq(PlainPart) /\ DOMAIN q = DOMAIN b.parts
      /\ \A i \in DOMAIN b.parts : q[i].kind = b.kind /\ q[i].id = b.parts[i]
  BY <1>1, <1>2 DEF PartsOf
<1> HIDE DEF q
<1>4. CASE b.kind # k
  <2>1. \A i \in DOMAIN q : g[q[i]] = << >>  BY <1>3, <1>4 DEF Ids
  <2> HIDE DEF g
  <2>2. Gather(g, q) = << >>  BY <1>3, <2>1, GatherNothing
  <2> QED BY <2>2, <1>4 DEF g, q
<1>5. CASE b.kind = k
  <2> DEFINE f == [p \in PlainPart |-> p.id]
             h == [p \in PlainPart |-> << p.id >>]
  <2>1. \A p \in PlainPart : p.id \in Int /\ << p.id >> \in Seq(Int)  BY DEF PlainPart, PartRec
  <2>2. Maker(h, PlainPart, Int)  BY <2>1 DEF Maker
  <2>3. \A p \in PlainPart : f[p] \in Int /\ h[p] = << f[p] >>  BY <2>1
  <2>4. \A i \in DOMAIN q : g[q[i]] = h[q[i]]
    <3>1. \A i \in DOMAIN q : q[i] \in PlainPart /\ q[i].kind = k  BY <1>3, <1>5
    <3> QED BY <3>1 DEF Ids
  <2>5. \A i \in DOMAIN q : f[q[i]] = b.parts[i]
    <3>1. \A i \in DOMAIN q : q[i] \in PlainPart  BY <1>3
    <3> QED BY <3>1, <1>3
  <2> HIDE DEF g, h, f
  <2>6. Gather(g, q) = Gather(h, q)  BY <2>4, GatherSame
  <2>7. Gather(h, q) = [i \in DOMAIN q |-> f[q[i]]]  BY <1>3, <2>2, <2>3, GatherMap
  <2>8. [i \in DOMAIN q |-> f[q[i]]] = b.parts  BY <2>5, <1>3, <1>1
  <2> QED BY <2>6, <2>7, <2>8, <1>5 DEF g, q
<1> QED BY <1>4, <1>5

\* So are those over parts without a signature.
LEMMA IdsMake == \A kinds : Maker(Ids(PlainPart, kinds), PlainPart, Int)
<1>1. \A p \in PlainPart : << p.id >> \in Seq(Int)  BY DEF PlainPart, PartRec
<1>2. << >> \in Seq(Int)  OBVIOUS
<1> QED BY <1>1, <1>2 DEF Maker, Ids

\* The parts of one kind, and every part, of some blocks.
LEMMA OfBlocksIs ==
  ASSUME NEW blocks \in Seq(BlockRec), NEW kind
  PROVE  /\ OfBlocks(blocks, kind) \in Seq(PlainPart)
         /\ \A k : OfKind(OfBlocks(blocks, kind), {k}) = IF k = kind THEN KeptIn(blocks, kind) ELSE << >>
         /\ Numbers(OfBlocks(blocks, kind)) = KeptIn(blocks, kind)
<1> DEFINE g == BlockParts(kind)
           q == Gather(g, blocks)
<1>0. Maker(g, BlockRec, PlainPart) /\ Maker(BlockIds(kind), BlockRec, Int)  BY BlockMakers
<1>1. OfBlocks(blocks, kind) = q
  <2>1. DOMAIN blocks = 1 .. Len(blocks) /\ \A i \in 1 .. Len(blocks) : blocks[i] \in BlockRec  OBVIOUS
  <2>2. [i \in DOMAIN blocks |-> IF blocks[i].kind = kind THEN PartsOf(blocks[i]) ELSE << >>]
        = Each(g, blocks)
    BY <2>1 DEF Each, BlockParts
  <2> QED BY <2>2, Zenon DEF OfBlocks, Gather
<1>2. \A b \in BlockRec : \A k : Gather(Ids(PlainPart, {k}), g[b]) =
        IF b.kind = kind THEN (IF b.kind = k THEN b.parts ELSE << >>) ELSE << >>
  <2>1. ASSUME NEW b \in BlockRec, NEW k
        PROVE  Gather(Ids(PlainPart, {k}), g[b]) =
                 IF b.kind = kind THEN (IF b.kind = k THEN b.parts ELSE << >>) ELSE << >>
    <3>1. CASE b.kind = kind
      <4>1. g[b] = PartsOf(b)  BY <3>1 DEF BlockParts
      <4> QED BY <4>1, <3>1, PartsOfIds
    <3>2. CASE b.kind # kind
      <4>1. g[b] = << >>  BY <3>2 DEF BlockParts
      <4> QED BY <4>1, <3>2, GatherNone
    <3> QED BY <3>1, <3>2
  <2> QED BY <2>1
<1> HIDE DEF g
<1>3. q \in Seq(PlainPart)
  <2>1. Maker(g, BlockRec, PlainPart)  BY <1>0
  <2> QED BY <2>1, EachTyped
<1>4. ASSUME NEW k
      PROVE  Gather(Ids(PlainPart, {k}), q) = IF k = kind THEN KeptIn(blocks, kind) ELSE << >>
  <2> DEFINE h == Ids(PlainPart, {k})
             e == [b \in BlockRec |-> IF k = kind THEN BlockIds(kind)[b] ELSE << >>]
  <2>1. Maker(h, PlainPart, Int)  BY IdsMake
  <2>2. \A b \in BlockRec : BlockIds(kind)[b] = IF b.kind = kind THEN b.parts ELSE << >>
    BY DEF BlockIds
  <2>3. Maker(e, BlockRec, Int)
    <3>1. \A b \in BlockRec : BlockIds(kind)[b] \in Seq(Int)  BY <1>0 DEF Maker
    <3> QED BY <3>1 DEF Maker
  <2>4. \A b \in BlockRec : e[b] = Gather(h, g[b])  BY <1>2, <2>2
  <2> DEFINE z == IF k = kind THEN KeptIn(blocks, kind) ELSE << >>
  <2>5. Gather(e, blocks) = z
    <3>1. CASE k = kind
      <4>1. \A i \in DOMAIN blocks : blocks[i] \in BlockRec  OBVIOUS
      <4>2. \A i \in DOMAIN blocks : e[blocks[i]] = BlockIds(kind)[blocks[i]]  BY <3>1, <4>1
      <4> HIDE DEF e
      <4>3. Gather(e, blocks) = Gather(BlockIds(kind), blocks)  BY <4>2, GatherSame
      <4> QED BY <4>3, <3>1 DEF KeptIn
    <3>2. CASE k # kind
      <4>1. \A i \in DOMAIN blocks : e[blocks[i]] = << >>  BY <3>2
      <4> HIDE DEF e
      <4>2. Gather(e, blocks) = << >>  BY <4>1, GatherNothing
      <4> QED BY <4>2, <3>2
    <3> QED BY <3>1, <3>2
  <2> HIDE DEF h, e, z
  <2>6. Maker(g, BlockRec, PlainPart)  BY <1>0
  <2>7. Gather(h, q) = Gather(e, blocks)  BY <2>1, <2>3, <2>4, <2>6, GatherGather
  <2> QED BY <2>5, <2>7 DEF h, z
<1> HIDE DEF q
<1>5. \A k : OfKind(q, {k}) = Gather(Ids(PlainPart, {k}), q)  BY <1>3, OfKindIs
<1>6. Numbers(q) = Gather(Ids(PlainPart, {kind}), q)
  <2> DEFINE f == [p \in PlainPart |-> p.id]
             h == [p \in PlainPart |-> << p.id >>]
             c == Ids(PlainPart, {kind})
  <2>1. \A p \in PlainPart : p.id \in Int /\ << p.id >> \in Seq(Int)  BY DEF PlainPart, PartRec
  <2>2. Maker(h, PlainPart, Int)  BY <2>1 DEF Maker
  <2>3. \A p \in PlainPart : f[p] \in Int /\ h[p] = << f[p] >>  BY <2>1
  <2>4. \A i \in DOMAIN q : q[i] \in PlainPart /\ q[i].kind = kind
    <3> DEFINE K == { p \in PlainPart : p.kind = kind }
    <3>1. Maker(g, BlockRec, K)
      <4>1. ASSUME NEW b \in BlockRec PROVE g[b] \in Seq(K)
        <5>1. CASE b.kind = kind
          <6>1. g[b] = PartsOf(b) /\ b.kind \in EvKind /\ b.parts \in Seq(Int)
            BY <5>1 DEF g, BlockParts, BlockRec
          <6>2. \A x \in Int : Part(b.kind, x) \in K
            BY <6>1, <5>1 DEF Part, PlainPart, PartRec, Unknown
          <6> HIDE DEF K
          <6>3. PartsOf(b) \in Seq(K)  BY <6>1, <6>2 DEF PartsOf
          <6> QED BY <6>1, <6>3
        <5>2. CASE b.kind # kind
          <6>1. g[b] = << >>  BY <5>2 DEF g, BlockParts
          <6> QED BY <6>1
        <5> QED BY <5>1, <5>2
      <4>2. g = [b \in BlockRec |-> g[b]]  BY DEF g, BlockParts
      <4> HIDE DEF K
      <4> QED BY <4>1, <4>2 DEF Maker
    <3> HIDE DEF K
    <3>2. q \in Seq(K)  BY <3>1, EachTyped DEF q
    <3> QED BY <3>2 DEF K
  <2>5. \A i \in DOMAIN q : c[q[i]] = h[q[i]]  BY <2>4 DEF Ids
  <2>6. Numbers(q) = [i \in DOMAIN q |-> f[q[i]]]  BY <2>4 DEF Numbers
  <2> HIDE DEF c, h, f
  <2>7. Gather(c, q) = Gather(h, q)  BY <2>5, GatherSame
  <2>8. Gather(h, q) = [i \in DOMAIN q |-> f[q[i]]]  BY <1>3, <2>2, <2>3, GatherMap
  <2> QED BY <2>6, <2>7, <2>8 DEF c
<1> QED BY <1>1, <1>3, <1>4, <1>5, <1>6

\* Every part of some blocks, in order.
AllParts(blocks) == FlattenSeq([i \in DOMAIN blocks |-> PartsOf(blocks[i])])

\* The parts of all blocks, kind by kind, are the parts of the blocks of that kind.
LEMMA AllPartsIs ==
  ASSUME NEW blocks \in Seq(BlockRec)
  PROVE  /\ AllParts(blocks) \in Seq(PlainPart)
         /\ \A k : OfKind(AllParts(blocks), {k}) = KeptIn(blocks, k)
<1> DEFINE g == EveryPart
           q == Gather(g, blocks)
<1>0. Maker(g, BlockRec, PlainPart)  BY BlockMakers
<1>1. AllParts(blocks) = q
  <2>1. DOMAIN blocks = 1 .. Len(blocks) /\ \A i \in 1 .. Len(blocks) : blocks[i] \in BlockRec  OBVIOUS
  <2>2. [i \in DOMAIN blocks |-> PartsOf(blocks[i])] = Each(g, blocks)  BY <2>1 DEF Each, EveryPart
  <2> QED BY <2>2, Zenon DEF AllParts, Gather
<1>2. \A b \in BlockRec : g[b] = PartsOf(b)  BY DEF EveryPart
<1> HIDE DEF g
<1>3. q \in Seq(PlainPart)  BY <1>0, EachTyped
<1>4. ASSUME NEW k PROVE Gather(Ids(PlainPart, {k}), q) = KeptIn(blocks, k)
  <2> DEFINE h == Ids(PlainPart, {k})
             e == BlockIds(k)
  <2>1. Maker(h, PlainPart, Int) /\ Maker(e, BlockRec, Int)  BY IdsMake, BlockMakers
  <2>0. \A b \in BlockRec : e[b] = IF b.kind = k THEN b.parts ELSE << >>  BY DEF BlockIds
  <2>6. \A b \in BlockRec : Gather(h, PartsOf(b)) = IF b.kind = k THEN b.parts ELSE << >>
    BY PartsOfIds
  <2> HIDE DEF h, e
  <2>2. \A b \in BlockRec : e[b] = Gather(h, g[b])  BY <1>2, <2>0, <2>6
  <2>3. Maker(h, PlainPart, Int)  BY <2>1
  <2>4. Maker(e, BlockRec, Int)  BY <2>1
  <2>5. Gather(h, q) = Gather(e, blocks)  BY <2>2, <2>3, <2>4, <1>0, GatherGather
  <2> QED BY <2>5 DEF h, e, KeptIn
<1> HIDE DEF q
<1>5. \A k : OfKind(q, {k}) = Gather(Ids(PlainPart, {k}), q)  BY <1>3, OfKindIs
<1> QED BY <1>1, <1>3, <1>4, <1>5

-----------------------------------------------------------------------------
(* What a client files of a stream. *)

\* One more element that gives one value, or none.
LEMMA GatherOnto ==
  ASSUME NEW D, NEW T, NEW g, Maker(g, D, T), NEW s \in Seq(D), NEW x \in D, NEW y, g[x] = << y >>
  PROVE  Gather(g, Append(s, x)) = Append(Gather(g, s), y) /\ y \in T
<1> DEFINE z == Gather(g, s)
<1>1. z \in Seq(T)  BY EachTyped
<1>2. Gather(g, Append(s, x)) = Gather(g, s) \o g[x] /\ g[x] \in Seq(T)  BY GatherAppend
<1>3. y \in T
  <2>1. << y >> \in Seq(T)  BY <1>2
  <2>2. << y >>[1] \in T  BY <2>1
  <2> QED BY <2>2
<1>4. Gather(g, Append(s, x)) = z \o << y >>  BY <1>2
<1> HIDE DEF z
<1>5. z \o << y >> = Append(z, y)  BY <1>1, <1>3
<1> QED BY <1>3, <1>4, <1>5 DEF z

\* An element that makes nothing is skipped.
LEMMA GatherPast ==
  ASSUME NEW D, NEW T, NEW g, Maker(g, D, T), NEW s \in Seq(D), NEW x \in D
  PROVE  g[x] = << >> => Gather(g, Append(s, x)) = Gather(g, s)
<1> DEFINE z == Gather(g, s)
<1>1. z \in Seq(T)  BY EachTyped
<1>2. Gather(g, Append(s, x)) = Gather(g, s) \o g[x]  BY GatherAppend
<1>3. SUFFICES ASSUME g[x] = << >> PROVE Gather(g, Append(s, x)) = z  OBVIOUS
<1>4. Gather(g, Append(s, x)) = z \o << >>  BY <1>2, <1>3
<1> HIDE DEF z
<1>5. z \o << >> = z  BY <1>1
<1> QED BY <1>4, <1>5

\* The parts that a client files under an index, those told of a kind, and the
\* indexes opened for a kind.
PartNo == Int \ {0}
Files(k, x) == [e \in Ev |-> IF e.stage = "delta" /\ e.kind = k /\ e.index = x /\ e.part # 0
                             THEN << e.part >> ELSE << >>]
Tells(k) == [e \in Ev |-> IF e.stage = "delta" /\ e.kind = k /\ e.part # 0
                          THEN << e.part >> ELSE << >>]
Opens(k) == [e \in Ev |-> IF e.stage = "open" /\ e.kind = k THEN << e.index >> ELSE << >>]
FiledAt(out, k) == [x \in Int |-> Gather(Files(k, x), out)]
OpenedFor(out, k) == Gather(Opens(k), out)
FiledFor(out, k) == Gather(FiledAt(out, k), OpenedFor(out, k))
ToldOf(out, k) == Gather(Tells(k), out)

\* The gatherings over the events of a stream are typed.
LEMMA FilesMake ==
  /\ \A k, x : Maker(Files(k, x), Ev, PartNo)
  /\ \A k : Maker(Tells(k), Ev, PartNo)
  /\ \A k : Maker(Opens(k), Ev, Int)
<1>1. \A e \in Ev : e.index \in Int /\ e.part \in Int  BY DEF Ev
<1>2. \A e \in Ev : << e.index >> \in Seq(Int) /\ (e.part # 0 => << e.part >> \in Seq(PartNo))
  BY <1>1 DEF PartNo
<1>3. << >> \in Seq(PartNo) /\ << >> \in Seq(Int)  OBVIOUS
<1>4. \A k, x : Maker(Files(k, x), Ev, PartNo)  BY <1>2, <1>3 DEF Maker, Files
<1>5. \A k : Maker(Tells(k), Ev, PartNo)  BY <1>2, <1>3 DEF Maker, Tells
<1>6. \A k : Maker(Opens(k), Ev, Int)  BY <1>2, <1>3 DEF Maker, Opens
<1> QED BY <1>4, <1>5, <1>6

\* What is filed under an index, what is opened and what is told are typed.
LEMMA FiledTyped ==
  ASSUME NEW out \in Seq(Ev), NEW k
  PROVE  /\ Maker(FiledAt(out, k), Int, PartNo)
         /\ \A x \in Int : FiledAt(out, k)[x] \in Seq(PartNo)
         /\ OpenedFor(out, k) \in Seq(Int)
         /\ FiledFor(out, k) \in Seq(PartNo) /\ ToldOf(out, k) \in Seq(PartNo)
<1>1. \A x \in Int : Gather(Files(k, x), out) \in Seq(PartNo)  BY FilesMake, EachTyped
<1>2. Maker(FiledAt(out, k), Int, PartNo)  BY <1>1 DEF Maker, FiledAt
<1>3. OpenedFor(out, k) \in Seq(Int)  BY FilesMake, EachTyped DEF OpenedFor
<1>4. FiledFor(out, k) \in Seq(PartNo)  BY <1>2, <1>3, EachTyped DEF FiledFor
<1>5. ToldOf(out, k) \in Seq(PartNo)  BY FilesMake, EachTyped DEF ToldOf
<1>6. \A x \in Int : FiledAt(out, k)[x] \in Seq(PartNo)  BY <1>1 DEF FiledAt
<1> QED BY <1>2, <1>3, <1>4, <1>5, <1>6

\* What one more event changes.
Carries(e, k) == e.stage = "delta" /\ e.kind = k /\ e.part # 0

\* How one more event changes what is opened, filed and told.
LEMMA FiledAppend ==
  ASSUME NEW out \in Seq(Ev), NEW e \in Ev, NEW k
  PROVE  LET o == Append(out, e) IN
         /\ e.stage = "open" /\ e.kind = k => OpenedFor(o, k) = Append(OpenedFor(out, k), e.index)
         /\ ~(e.stage = "open" /\ e.kind = k) => OpenedFor(o, k) = OpenedFor(out, k)
         /\ \A x \in Int : Carries(e, k) /\ e.index = x =>
              FiledAt(o, k)[x] = Append(FiledAt(out, k)[x], e.part)
         /\ \A x \in Int : ~(Carries(e, k) /\ e.index = x) => FiledAt(o, k)[x] = FiledAt(out, k)[x]
         /\ Carries(e, k) => ToldOf(o, k) = Append(ToldOf(out, k), e.part)
         /\ ~Carries(e, k) => ToldOf(o, k) = ToldOf(out, k)
<1> DEFINE o == Append(out, e)
<1>1. Maker(Opens(k), Ev, Int) /\ Maker(Tells(k), Ev, PartNo)
      /\ \A x : Maker(Files(k, x), Ev, PartNo)
  BY FilesMake
<1>2. ASSUME e.stage = "open" /\ e.kind = k
      PROVE  OpenedFor(o, k) = Append(OpenedFor(out, k), e.index)
  <2>1. Opens(k)[e] = << e.index >>  BY <1>2 DEF Opens
  <2> DEFINE g == Opens(k)
             i == e.index
  <2> HIDE DEF g, i
  <2>2. g[e] = << i >> /\ Maker(g, Ev, Int)  BY <1>1, <2>1 DEF g, i
  <2>3. Gather(g, Append(out, e)) = Append(Gather(g, out), i)  BY <2>2, GatherOnto
  <2> QED BY <2>3 DEF g, i, OpenedFor
<1>3. ASSUME ~(e.stage = "open" /\ e.kind = k) PROVE OpenedFor(o, k) = OpenedFor(out, k)
  <2>1. Opens(k)[e] = << >>  BY <1>3 DEF Opens
  <2> DEFINE g == Opens(k)
  <2> HIDE DEF g
  <2>2. g[e] = << >> /\ Maker(g, Ev, Int)  BY <1>1, <2>1 DEF g
  <2>3. Gather(g, Append(out, e)) = Gather(g, out)  BY <2>2, GatherPast
  <2> QED BY <2>3 DEF g, OpenedFor
<1>4. ASSUME NEW x \in Int, Carries(e, k) /\ e.index = x
      PROVE  FiledAt(o, k)[x] = Append(FiledAt(out, k)[x], e.part)
  <2>1. Files(k, x)[e] = << e.part >>  BY <1>4 DEF Files, Carries
  <2> DEFINE g == Files(k, x)
             i == e.part
  <2> HIDE DEF g, i
  <2>2. g[e] = << i >> /\ Maker(g, Ev, PartNo)  BY <1>1, <2>1 DEF g, i
  <2>3. Gather(g, Append(out, e)) = Append(Gather(g, out), i)  BY <2>2, GatherOnto
  <2> QED BY <2>3 DEF g, i, FiledAt
<1>5. ASSUME NEW x \in Int, ~(Carries(e, k) /\ e.index = x)
      PROVE  FiledAt(o, k)[x] = FiledAt(out, k)[x]
  <2>1. Files(k, x)[e] = << >>  BY <1>5 DEF Files, Carries
  <2> DEFINE g == Files(k, x)
  <2> HIDE DEF g
  <2>2. g[e] = << >> /\ Maker(g, Ev, PartNo)  BY <1>1, <2>1 DEF g
  <2>3. Gather(g, Append(out, e)) = Gather(g, out)  BY <2>2, GatherPast
  <2> QED BY <2>3 DEF g, FiledAt
<1>6. ASSUME Carries(e, k) PROVE ToldOf(o, k) = Append(ToldOf(out, k), e.part)
  <2>1. Tells(k)[e] = << e.part >>  BY <1>6 DEF Tells, Carries
  <2> DEFINE g == Tells(k)
             i == e.part
  <2> HIDE DEF g, i
  <2>2. g[e] = << i >> /\ Maker(g, Ev, PartNo)  BY <1>1, <2>1 DEF g, i
  <2>3. Gather(g, Append(out, e)) = Append(Gather(g, out), i)  BY <2>2, GatherOnto
  <2> QED BY <2>3 DEF g, i, ToldOf
<1>7. ASSUME ~Carries(e, k) PROVE ToldOf(o, k) = ToldOf(out, k)
  <2>1. Tells(k)[e] = << >>  BY <1>7 DEF Tells, Carries
  <2> DEFINE g == Tells(k)
  <2> HIDE DEF g
  <2>2. g[e] = << >> /\ Maker(g, Ev, PartNo)  BY <1>1, <2>1 DEF g
  <2>3. Gather(g, Append(out, e)) = Gather(g, out)  BY <2>2, GatherPast
  <2> QED BY <2>3 DEF g, ToldOf
<1> HIDE DEF o
<1>8. e.stage = "open" /\ e.kind = k => OpenedFor(o, k) = Append(OpenedFor(out, k), e.index)
  BY <1>2
<1>9. ~(e.stage = "open" /\ e.kind = k) => OpenedFor(o, k) = OpenedFor(out, k)  BY <1>3
<1>10. \A x \in Int : Carries(e, k) /\ e.index = x =>
              FiledAt(o, k)[x] = Append(FiledAt(out, k)[x], e.part)
  BY <1>4
<1>11. \A x \in Int : ~(Carries(e, k) /\ e.index = x) => FiledAt(o, k)[x] = FiledAt(out, k)[x]
  BY <1>5
<1> QED BY <1>6, <1>7, <1>8, <1>9, <1>10, <1>11 DEF o

\* The events so far have indexes below n, open blocks of kinds the client knows,
\* and carry one part of a call at most under its index.
Below(out, n) == \A i \in DOMAIN out : out[i].stage \in {"open", "delta"} => out[i].index < n
OpensKinds(out) ==
  \A i \in DOMAIN out : out[i].stage = "open" => out[i].kind \in {"text", "thought", "call"}
Single(out) == \A x \in Int : Len(FiledAt(out, "call")[x]) <= 1

\* Index x is the last one opened for a kind, and the only one of its number.
LastFor(out, k, x) ==
  \E s \in Seq(Int) : OpenedFor(out, k) = Append(s, x) /\ \A j \in DOMAIN s : s[j] # x

\* Nothing is filed under an index to come, nor is it opened.
LEMMA BelowFresh ==
  ASSUME NEW out \in Seq(Ev), NEW n \in Int, Below(out, n), NEW k
  PROVE  /\ FiledAt(out, k)[n] = << >>
         /\ \A j \in DOMAIN OpenedFor(out, k) : OpenedFor(out, k)[j] < n
<1>1. FiledAt(out, k)[n] = << >>
  <2> DEFINE g == Files(k, n)
  <2>0. \A e \in Ev : e.index \in Int  BY DEF Ev
  <2>01. \A i \in DOMAIN out : out[i] \in Ev  OBVIOUS
  <2>1. \A i \in DOMAIN out : out[i] \in Ev /\ out[i].index \in Int  BY <2>0, <2>01
  <2>2. \A i \in DOMAIN out : out[i].stage = "delta" => out[i].index # n  BY <2>1 DEF Below
  <2>3. \A i \in DOMAIN out : g[out[i]] = << >>  BY <2>1, <2>2 DEF Files
  <2> HIDE DEF g
  <2>4. Gather(g, out) = << >>  BY <2>3, GatherNothing
  <2> QED BY <2>4 DEF FiledAt, g
<1>2. OpenedFor(out, k) \in Seq({ x \in Int : x < n })
  <2> DEFINE D == { e \in Ev : e.stage \in {"open", "delta"} => e.index < n }
             T == { x \in Int : x < n }
             g == Opens(k)
             h == [e \in D |-> g[e]]
  <2>1. \A i \in DOMAIN out : out[i] \in D  BY DEF Below
  <2>2. out \in Seq(D)
    <3> HIDE DEF D
    <3> QED BY <2>1
  <2>3. Maker(h, D, T)
    <3>1. ASSUME NEW e \in D PROVE g[e] \in Seq(T)
      <4>1. e \in Ev /\ e.index \in Int  BY DEF Ev
      <4>2. CASE e.stage = "open" /\ e.kind = k
        <5>1. g[e] = << e.index >> /\ e.index \in T  BY <4>1, <4>2 DEF Opens
        <5> HIDE DEF g, T
        <5> QED BY <5>1
      <4>3. CASE ~(e.stage = "open" /\ e.kind = k)
        <5>1. g[e] = << >>  BY <4>1, <4>3 DEF Opens
        <5> HIDE DEF g, T
        <5> QED BY <5>1
      <4> QED BY <4>2, <4>3
    <3> HIDE DEF D, T, g
    <3> QED BY <3>1 DEF Maker
  <2>4. \A i \in DOMAIN out : g[out[i]] = h[out[i]]
    <3> HIDE DEF D, g
    <3> QED BY <2>1
  <2> HIDE DEF g, h, D, T
  <2>5. Gather(g, out) = Gather(h, out)  BY <2>4, GatherSame
  <2>6. Gather(h, out) \in Seq(T)  BY <2>2, <2>3, EachTyped
  <2> QED BY <2>5, <2>6 DEF OpenedFor, g, T
<1> QED BY <1>1, <1>2

-----------------------------------------------------------------------------
(* One event more, kind by kind. *)

\* What a client files under the indexes of one kind is what it was told of it.
KindFiled(out, k) == FiledFor(out, k) = ToldOf(out, k)

\* An event that neither opens an index of a kind nor carries a part of it.
LEMMA KindSame ==
  ASSUME NEW out \in Seq(Ev), NEW e \in Ev, NEW k,
         ~(e.stage = "open" /\ e.kind = k), ~Carries(e, k)
  PROVE  LET o == Append(out, e) IN
         /\ OpenedFor(o, k) = OpenedFor(out, k) /\ FiledAt(o, k) = FiledAt(out, k)
         /\ KindFiled(out, k) => KindFiled(o, k)
         /\ \A x : LastFor(out, k, x) => LastFor(o, k, x)
<1> DEFINE o == Append(out, e)
<1>1. /\ OpenedFor(o, k) = OpenedFor(out, k)
      /\ \A x \in Int : FiledAt(o, k)[x] = FiledAt(out, k)[x]
      /\ ToldOf(o, k) = ToldOf(out, k)
  BY FiledAppend
<1>2. FiledAt(o, k) = FiledAt(out, k)
  <2> HIDE DEF o
  <2>1. DOMAIN FiledAt(o, k) = Int /\ DOMAIN FiledAt(out, k) = Int
        /\ FiledAt(o, k) = [x \in Int |-> FiledAt(o, k)[x]]
        /\ FiledAt(out, k) = [x \in Int |-> FiledAt(out, k)[x]]
    BY DEF FiledAt
  <2> QED BY <1>1, <2>1
<1> HIDE DEF o
<1>3. KindFiled(out, k) => KindFiled(o, k)  BY <1>1, <1>2, Zenon DEF KindFiled, FiledFor
<1>4. \A x : LastFor(out, k, x) => LastFor(o, k, x)  BY <1>1, Zenon DEF LastFor
<1> QED BY <1>1, <1>2, <1>3, <1>4 DEF o

\* A new index is opened for a kind.
LEMMA KindOpened ==
  ASSUME NEW out \in Seq(Ev), NEW e \in Ev, NEW k, NEW n \in Int, Below(out, n),
         e.stage = "open", e.kind = k, e.index = n, KindFiled(out, k)
  PROVE  LET o == Append(out, e) IN KindFiled(o, k) /\ LastFor(o, k, n) /\ FiledAt(o, k) = FiledAt(out, k)
<1> DEFINE o == Append(out, e)
           F == FiledAt(out, k)
           s == OpenedFor(out, k)
<1>1. ~Carries(e, k)  BY DEF Carries
<1>2. OpenedFor(o, k) = Append(s, n) /\ ToldOf(o, k) = ToldOf(out, k)
      /\ \A x \in Int : FiledAt(o, k)[x] = F[x]
  BY <1>1, FiledAppend
<1>3. FiledAt(o, k) = F
  <2> HIDE DEF o
  <2>1. FiledAt(o, k) = [x \in Int |-> FiledAt(o, k)[x]] /\ F = [x \in Int |-> F[x]]
    BY DEF FiledAt
  <2> HIDE DEF F
  <2> QED BY <1>2, <2>1
<1>4. F[n] = << >> /\ \A j \in DOMAIN s : s[j] < n  BY BelowFresh
<1>5. s \in Seq(Int) /\ Maker(F, Int, PartNo)  BY FiledTyped
<1> HIDE DEF o, F, s
<1>6. Gather(F, Append(s, n)) = Gather(F, s)  BY <1>4, <1>5, GatherPast
<1>7. KindFiled(o, k)
  <2>1. Gather(F, s) = ToldOf(out, k)  BY DEF KindFiled, FiledFor, F, s
  <2>2. FiledFor(o, k) = Gather(F, Append(s, n))  BY <1>2, <1>3, Zenon DEF FiledFor
  <2> QED BY <1>2, <1>6, <2>1, <2>2, Zenon DEF KindFiled
<1>8. LastFor(o, k, n)
  <2>1. \A j \in DOMAIN s : s[j] # n  BY <1>4, <1>5
  <2> QED BY <1>2, <1>5, <2>1 DEF LastFor
<1> QED BY <1>3, <1>7, <1>8 DEF o, F

\* The part an event carries is the last one under its index.
LEMMA FiledMore ==
  ASSUME NEW out \in Seq(Ev), NEW e \in Ev, NEW k, Carries(e, k)
  PROVE  FiledAt(Append(out, e), k)[e.index] = Append(FiledAt(out, k)[e.index], e.part)
<1> DEFINE x == e.index
           g == Files(k, x)
           i == e.part
<1>1. x \in Int
  <2>1. \A d \in Ev : d.index \in Int  BY DEF Ev
  <2> QED BY <2>1
<1>2. g[e] = << i >>  BY DEF Files, Carries
<1>3. Maker(g, Ev, PartNo)  BY FilesMake
<1> HIDE DEF g, i, x
<1>4. Gather(g, Append(out, e)) = Append(Gather(g, out), i)  BY <1>2, <1>3, GatherOnto
<1>5. FiledAt(Append(out, e), k)[x] = Append(FiledAt(out, k)[x], i)  BY <1>1, <1>4 DEF g, FiledAt
<1> QED BY <1>5 DEF x, i

\* A part of a kind arrives under the last index of the kind.
LEMMA KindTold ==
  ASSUME NEW out \in Seq(Ev), NEW e \in Ev, NEW k, NEW x \in Int, LastFor(out, k, x),
         Carries(e, k), e.index = x, KindFiled(out, k)
  PROVE  LET o == Append(out, e) IN KindFiled(o, k) /\ LastFor(o, k, x)
<1> DEFINE o == Append(out, e)
           F == FiledAt(out, k)
           G == FiledAt(o, k)
           p == e.part
<1>1. ~(e.stage = "open" /\ e.kind = k)  BY DEF Carries
<1>2. /\ OpenedFor(o, k) = OpenedFor(out, k) /\ ToldOf(o, k) = Append(ToldOf(out, k), p)
      /\ G[x] = Append(F[x], p) /\ \A y \in Int : y # x => G[y] = F[y]
  <2>1. OpenedFor(o, k) = OpenedFor(out, k)  BY <1>1, FiledAppend
  <2>2. ToldOf(o, k) = Append(ToldOf(out, k), p)  BY FiledAppend
  <2>3. G[x] = Append(F[x], p)
    <3>1. G[e.index] = Append(F[e.index], p)  BY FiledMore
    <3> QED BY <3>1
  <2>4. \A y \in Int : y # x => G[y] = F[y]  BY FiledAppend
  <2> QED BY <2>1, <2>2, <2>3, <2>4
<1>3. PICK s \in Seq(Int) : OpenedFor(out, k) = Append(s, x) /\ \A j \in DOMAIN s : s[j] # x
  BY DEF LastFor
<1>4. /\ Maker(F, Int, PartNo) /\ Maker(G, Int, PartNo)
      /\ F[x] \in Seq(PartNo) /\ ToldOf(out, k) \in Seq(PartNo) /\ o \in Seq(Ev)
  <2>1. o \in Seq(Ev)  OBVIOUS
  <2> HIDE DEF o
  <2> QED BY <2>1, FiledTyped
<1>5. p \in PartNo
  <2>1. \A d \in Ev : d.part \in Int  BY DEF Ev
  <2> QED BY <2>1 DEF Carries, PartNo
<1> HIDE DEF o, F, G, p
<1>6. Gather(G, s) = Gather(F, s)
  <2>1. \A j \in DOMAIN s : G[s[j]] = F[s[j]]  BY <1>2, <1>3
  <2> QED BY <2>1, GatherSame
<1>7. Gather(G, Append(s, x)) = Gather(G, s) \o G[x] /\ Gather(F, Append(s, x)) = Gather(F, s) \o F[x]
      /\ Gather(F, s) \in Seq(PartNo)
  <2>1. Gather(G, Append(s, x)) = Gather(G, s) \o G[x]  BY <1>4, GatherAppend
  <2>2. Gather(F, Append(s, x)) = Gather(F, s) \o F[x]  BY <1>4, GatherAppend
  <2>3. Gather(F, s) \in Seq(PartNo)  BY <1>4, EachTyped
  <2> QED BY <2>1, <2>2, <2>3
<1> DEFINE z == Gather(F, s)
           q == F[x]
<1>8. z \o Append(q, p) = Append(z \o q, p)
  <2>1. z \in Seq(PartNo) /\ q \in Seq(PartNo)  BY <1>4, <1>7
  <2> HIDE DEF z, q
  <2> QED BY <2>1, <1>5
<1>9. KindFiled(o, k)
  <2>1. FiledFor(o, k) = Gather(G, Append(s, x))  BY <1>2, <1>3, Zenon DEF FiledFor, G
  <2>2. FiledFor(out, k) = Gather(F, Append(s, x))  BY <1>3, Zenon DEF FiledFor, F
  <2>3. ToldOf(out, k) = z \o q  BY <1>7, <2>2 DEF KindFiled
  <2>4. FiledFor(o, k) = z \o Append(q, p)  BY <1>2, <1>6, <1>7, <2>1
  <2> HIDE DEF z, q
  <2> QED BY <1>2, <1>8, <2>3, <2>4, Zenon DEF KindFiled
<1>10. LastFor(o, k, x)  BY <1>2, <1>3 DEF LastFor
<1> QED BY <1>9, <1>10 DEF o

-----------------------------------------------------------------------------
(* Filing loses nothing. *)

\* The events so far, and the indexes of the text and of the thoughts.
IndexOf(out, k, x, n) == x = Absent \/ (x < n /\ LastFor(out, k, x))
Filing(out, n, t, g) ==
  /\ out \in Seq(Ev) /\ Below(out, n) /\ OpensKinds(out)
  /\ \A k \in PartKinds : KindFiled(out, k)
  /\ Single(out)
  /\ IndexOf(out, "text", t, n) /\ IndexOf(out, "thought", g, n)

\* One more event is below the next index, and opens an item of a kind.
LEMMA FrameAppend ==
  ASSUME NEW out \in Seq(Ev), NEW e \in Ev, NEW n \in Int, NEW m \in Int, n <= m,
         Below(out, n), OpensKinds(out),
         e.stage \in {"open", "delta"} => e.index < m,
         e.stage = "open" => e.kind \in {"text", "thought", "call"}
  PROVE  LET o == Append(out, e) IN o \in Seq(Ev) /\ Below(o, m) /\ OpensKinds(o)
<1> DEFINE o == Append(out, e)
<1>1. o \in Seq(Ev) /\ DOMAIN o = 1 .. Len(out) + 1 /\ o[Len(out) + 1] = e
      /\ \A i \in 1 .. Len(out) : o[i] = out[i]
  OBVIOUS
<1>2. DOMAIN out = 1 .. Len(out) /\ Len(out) \in Nat /\ \A i \in DOMAIN out : out[i] \in Ev  OBVIOUS
<1> HIDE DEF o
<1>3. \A i \in DOMAIN o : (i \in DOMAIN out /\ o[i] = out[i]) \/ o[i] = e  BY <1>1, <1>2
<1>4. \A d \in Ev : d.index \in Int  BY DEF Ev
<1>5. \A i \in DOMAIN out : out[i].stage \in {"open", "delta"} => out[i].index < m
  BY <1>2, <1>4 DEF Below
<1>6. Below(o, m)  BY <1>3, <1>5 DEF Below
<1>7. OpensKinds(o)  BY <1>3 DEF OpensKinds
<1> QED BY <1>1, <1>6, <1>7 DEF o

\* There is at most one part of a call under an index.
LEMMA SingleSame ==
  ASSUME NEW out, NEW o, Single(out), FiledAt(o, "call") = FiledAt(out, "call")
  PROVE  Single(o)
BY Zenon DEF Single

\* An event that opens nothing and carries no part.
LEMMA FilingOther ==
  ASSUME NEW out, NEW n \in Int, NEW t \in Int, NEW g \in Int, Filing(out, n, t, g),
         NEW e \in Ev, e.stage # "open", e.stage = "delta" => e.part = 0 /\ e.index < n
  PROVE  Filing(Append(out, e), n, t, g)
<1> DEFINE o == Append(out, e)
<1>1. /\ out \in Seq(Ev) /\ Below(out, n) /\ OpensKinds(out) /\ Single(out)
      /\ \A k \in PartKinds : KindFiled(out, k)
      /\ IndexOf(out, "text", t, n) /\ IndexOf(out, "thought", g, n)
  BY DEF Filing
<1>2. o \in Seq(Ev) /\ Below(o, n) /\ OpensKinds(o)
  BY <1>1, FrameAppend
<1>3. \A k : ~(e.stage = "open" /\ e.kind = k) /\ ~Carries(e, k)  BY DEF Carries
<1>4. ASSUME NEW k
      PROVE  /\ FiledAt(o, k) = FiledAt(out, k) /\ (KindFiled(out, k) => KindFiled(o, k))
             /\ \A x : LastFor(out, k, x) => LastFor(o, k, x)
  BY <1>1, <1>3, KindSame
<1> HIDE DEF o
<1>5. Single(o)
  <2>1. FiledAt(o, "call") = FiledAt(out, "call")  BY <1>4
  <2> QED BY <1>1, <2>1, SingleSame
<1>6. IndexOf(o, "text", t, n) /\ IndexOf(o, "thought", g, n)  BY <1>1, <1>4 DEF IndexOf
<1>7. \A k \in PartKinds : KindFiled(o, k)  BY <1>1, <1>4
<1> QED BY <1>2, <1>5, <1>6, <1>7 DEF Filing, o

\* An item of text or of thoughts is opened at the next index.
LEMMA FilingOpen ==
  ASSUME NEW out, NEW n \in Int, NEW t \in Int, NEW g \in Int, Filing(out, n, t, g),
         NEW e \in Ev, e.stage = "open", e.kind \in {"text", "thought"}, e.index = n
  PROVE  Filing(Append(out, e), n + 1, IF e.kind = "text" THEN n ELSE t,
                IF e.kind = "thought" THEN n ELSE g)
<1> DEFINE o == Append(out, e)
           m == n + 1
           c == e.kind
<1>1. /\ out \in Seq(Ev) /\ Below(out, n) /\ OpensKinds(out) /\ Single(out)
      /\ \A k \in PartKinds : KindFiled(out, k)
      /\ IndexOf(out, "text", t, n) /\ IndexOf(out, "thought", g, n)
  BY DEF Filing
<1>2. m \in Int /\ n <= m /\ n < m  OBVIOUS
<1>3. o \in Seq(Ev) /\ Below(o, m) /\ OpensKinds(o)
  <2> HIDE DEF m
  <2> QED BY <1>1, <1>2, FrameAppend
<1>4. \A k : ~Carries(e, k)  BY DEF Carries
<1>5. ASSUME NEW k, k # c
      PROVE  /\ FiledAt(o, k) = FiledAt(out, k) /\ (KindFiled(out, k) => KindFiled(o, k))
             /\ \A x : LastFor(out, k, x) => LastFor(o, k, x)
  BY <1>1, <1>4, <1>5, KindSame
<1>6. KindFiled(o, c) /\ LastFor(o, c, n)
  <2>1. c \in PartKinds  BY DEF PartKinds
  <2>2. KindFiled(out, c)  BY <1>1, <2>1
  <2> QED BY <1>1, <2>2, KindOpened
<1> HIDE DEF o, c
<1>7. c \in {"text", "thought"}  BY DEF c
<1>8. Single(o)
  <2>1. FiledAt(o, "call") = FiledAt(out, "call")  BY <1>5, <1>7
  <2> QED BY <1>1, <2>1, SingleSame
<1>9. \A k \in PartKinds : KindFiled(o, k)  BY <1>1, <1>5, <1>6
<1>10. \A k, x : IndexOf(out, k, x, n) /\ x \in Int /\ k # c => IndexOf(o, k, x, m)
  <2>1. ASSUME NEW k, NEW x \in Int, IndexOf(out, k, x, n), k # c PROVE IndexOf(o, k, x, m)
    <3>1. CASE x = Absent  BY <3>1 DEF IndexOf
    <3>2. CASE x < n /\ LastFor(out, k, x)
      <4>1. x < m  BY <1>2, <3>2
      <4> QED BY <4>1, <3>2, <2>1, <1>5 DEF IndexOf
    <3> QED BY <3>1, <3>2, <2>1 DEF IndexOf
  <2> QED BY <2>1
<1>11. IndexOf(o, c, n, m)  BY <1>2, <1>6 DEF IndexOf
<1> HIDE DEF m
<1>12. CASE c = "text"
  <2>1. IndexOf(o, "text", n, m) /\ IndexOf(o, "thought", g, m)  BY <1>1, <1>10, <1>11, <1>12
  <2>2. Filing(o, m, n, g)  BY <1>3, <1>8, <1>9, <2>1 DEF Filing
  <2> QED BY <2>2, <1>12 DEF m, o, c
<1>13. CASE c = "thought"
  <2>1. IndexOf(o, "thought", n, m) /\ IndexOf(o, "text", t, m)  BY <1>1, <1>10, <1>11, <1>13
  <2>2. Filing(o, m, t, n)  BY <1>3, <1>8, <1>9, <2>1 DEF Filing
  <2> QED BY <2>2, <1>13 DEF m, o, c
<1> QED BY <1>7, <1>12, <1>13

\* A part of text or of thoughts arrives.
LEMMA FilingTell ==
  ASSUME NEW out, NEW n \in Int, NEW t \in Int, NEW g \in Int, Filing(out, n, t, g),
         NEW e \in Ev, e.stage = "delta", e.kind \in {"text", "thought"},
         e.index # Absent, e.index = IF e.kind = "text" THEN t ELSE g, e.part # 0
  PROVE  Filing(Append(out, e), n, t, g)
<1> DEFINE o == Append(out, e)
           c == e.kind
           x == e.index
<1>1. /\ out \in Seq(Ev) /\ Below(out, n) /\ OpensKinds(out) /\ Single(out)
      /\ \A k \in PartKinds : KindFiled(out, k)
      /\ IndexOf(out, "text", t, n) /\ IndexOf(out, "thought", g, n)
  BY DEF Filing
<1>2. x \in Int /\ x < n /\ LastFor(out, c, x)
  <2>1. IndexOf(out, c, x, n)  BY <1>1
  <2> QED BY <2>1 DEF IndexOf
<1>3. o \in Seq(Ev) /\ Below(o, n) /\ OpensKinds(o)
  <2>1. e.stage \in {"open", "delta"} => e.index < n  BY <1>2
  <2> QED BY <1>1, <2>1, FrameAppend
<1>4. ASSUME NEW k, k # c
      PROVE  /\ FiledAt(o, k) = FiledAt(out, k) /\ (KindFiled(out, k) => KindFiled(o, k))
             /\ \A y : LastFor(out, k, y) => LastFor(o, k, y)
  <2>1. ~(e.stage = "open" /\ e.kind = k) /\ ~Carries(e, k)  BY <1>4 DEF Carries
  <2> QED BY <1>1, <2>1, KindSame
<1>5. KindFiled(o, c) /\ LastFor(o, c, x)
  <2>1. c \in PartKinds  BY DEF PartKinds
  <2>2. KindFiled(out, c) /\ Carries(e, c)  BY <1>1, <2>1 DEF Carries
  <2> QED BY <1>1, <1>2, <2>2, KindTold
<1>6. c \in {"text", "thought"} /\ x = IF c = "text" THEN t ELSE g  OBVIOUS
<1> HIDE DEF o, c, x
<1>7. Single(o)
  <2>1. FiledAt(o, "call") = FiledAt(out, "call")  BY <1>4, <1>6
  <2> QED BY <1>1, <2>1, SingleSame
<1>8. \A k \in PartKinds : KindFiled(o, k)  BY <1>1, <1>4, <1>5
<1>9. \A k, y : k # c /\ IndexOf(out, k, y, n) => IndexOf(o, k, y, n)  BY <1>4 DEF IndexOf
<1>10. IndexOf(o, c, x, n)  BY <1>2, <1>5 DEF IndexOf
<1>11. IndexOf(o, "text", t, n) /\ IndexOf(o, "thought", g, n)
  <2>1. CASE c = "text"
    <3>1. x = t /\ "thought" # c  BY <2>1, <1>6
    <3> QED BY <3>1, <2>1, <1>1, <1>9, <1>10
  <2>2. CASE c = "thought"
    <3>1. x = g /\ "text" # c  BY <2>2, <1>6
    <3> QED BY <3>1, <2>2, <1>1, <1>9, <1>10
  <2> QED BY <2>1, <2>2, <1>6
<1> QED BY <1>3, <1>7, <1>8, <1>11 DEF Filing, o

-----------------------------------------------------------------------------
(* Filing a call. *)

\* The index of a call is opened, then its one part arrives.
CallOpened(out, n, t, g) ==
  /\ Filing(out, n + 1, t, g) /\ LastFor(out, "call", n) /\ FiledAt(out, "call")[n] = << >>

\* Opening a call keeps everything told filed.
LEMMA CallOpens ==
  ASSUME NEW out, NEW n \in Int, NEW t \in Int, NEW g \in Int, Filing(out, n, t, g),
         NEW e \in Ev, e.stage = "open", e.kind = "call", e.index = n
  PROVE  CallOpened(Append(out, e), n, t, g)
<1> DEFINE o == Append(out, e)
           m == n + 1
<1>1. /\ out \in Seq(Ev) /\ Below(out, n) /\ OpensKinds(out) /\ Single(out)
      /\ \A k \in PartKinds : KindFiled(out, k)
      /\ IndexOf(out, "text", t, n) /\ IndexOf(out, "thought", g, n)
  BY DEF Filing
<1>2. m \in Int /\ n <= m /\ n < m  OBVIOUS
<1>3. o \in Seq(Ev) /\ Below(o, m) /\ OpensKinds(o)
  <2> HIDE DEF m
  <2> QED BY <1>1, <1>2, FrameAppend
<1>4. ASSUME NEW k, k # "call"
      PROVE  /\ KindFiled(out, k) => KindFiled(o, k)
             /\ \A x : LastFor(out, k, x) => LastFor(o, k, x)
  <2>1. ~(e.stage = "open" /\ e.kind = k) /\ ~Carries(e, k)  BY <1>4 DEF Carries
  <2> QED BY <1>1, <2>1, KindSame
<1>5. KindFiled(o, "call") /\ LastFor(o, "call", n) /\ FiledAt(o, "call") = FiledAt(out, "call")
  <2>1. KindFiled(out, "call")  BY <1>1 DEF PartKinds
  <2> QED BY <1>1, <2>1, KindOpened
<1>6. FiledAt(out, "call")[n] = << >>  BY <1>1, BelowFresh
<1> HIDE DEF o, m
<1>7. Single(o)  BY <1>1, <1>5, SingleSame
<1>8. \A k \in PartKinds : KindFiled(o, k)  BY <1>1, <1>4, <1>5
<1>9. \A k, x : k # "call" /\ x \in Int /\ IndexOf(out, k, x, n) => IndexOf(o, k, x, m)
  <2>1. ASSUME NEW k, NEW x \in Int, IndexOf(out, k, x, n), k # "call" PROVE IndexOf(o, k, x, m)
    <3>1. CASE x = Absent  BY <3>1 DEF IndexOf
    <3>2. CASE x < n /\ LastFor(out, k, x)
      <4>1. x < m  BY <1>2, <3>2
      <4> QED BY <4>1, <3>2, <2>1, <1>4 DEF IndexOf
    <3> QED BY <3>1, <3>2, <2>1 DEF IndexOf
  <2> QED BY <2>1
<1>10. IndexOf(o, "text", t, m) /\ IndexOf(o, "thought", g, m)  BY <1>1, <1>9
<1>11. Filing(o, m, t, g)  BY <1>3, <1>7, <1>8, <1>10 DEF Filing
<1> QED BY <1>5, <1>6, <1>11 DEF CallOpened, m, o

\* Telling its arguments files the call.
LEMMA CallTells ==
  ASSUME NEW out, NEW n \in Int, NEW t \in Int, NEW g \in Int, CallOpened(out, n, t, g),
         NEW e \in Ev, e.stage = "delta", e.kind = "call", e.index = n, e.part # 0
  PROVE  Filing(Append(out, e), n + 1, t, g)
<1> DEFINE o == Append(out, e)
           m == n + 1
<1>1. /\ out \in Seq(Ev) /\ Below(out, m) /\ OpensKinds(out) /\ Single(out)
      /\ \A k \in PartKinds : KindFiled(out, k)
      /\ IndexOf(out, "text", t, m) /\ IndexOf(out, "thought", g, m)
      /\ LastFor(out, "call", n) /\ FiledAt(out, "call")[n] = << >>
  BY DEF Filing, CallOpened
<1>2. m \in Int /\ n < m  OBVIOUS
<1>3. o \in Seq(Ev) /\ Below(o, m) /\ OpensKinds(o)
  <2> HIDE DEF m
  <2>1. e.stage \in {"open", "delta"} => e.index < m  BY <1>2
  <2> QED BY <1>1, <1>2, <2>1, FrameAppend
<1>4. ASSUME NEW k, k # "call"
      PROVE  /\ KindFiled(out, k) => KindFiled(o, k)
             /\ \A x : LastFor(out, k, x) => LastFor(o, k, x)
  <2>1. ~(e.stage = "open" /\ e.kind = k) /\ ~Carries(e, k)  BY <1>4 DEF Carries
  <2> QED BY <1>1, <2>1, KindSame
<1>5. Carries(e, "call") /\ e.part \in Int
  <2>1. \A d \in Ev : d.part \in Int  BY DEF Ev
  <2> QED BY <2>1 DEF Carries
<1>6. KindFiled(o, "call")
  <2>1. KindFiled(out, "call")  BY <1>1 DEF PartKinds
  <2> QED BY <1>1, <1>5, <2>1, KindTold
<1>7. Single(o)
  <2> DEFINE F == FiledAt(out, "call")
             G == FiledAt(o, "call")
             p == e.part
  <2>1. G[n] = Append(F[n], p)
    <3>1. G[e.index] = Append(F[e.index], p)  BY <1>1, <1>5, FiledMore
    <3> QED BY <3>1
  <2>2. \A x \in Int : x # n => G[x] = F[x]  BY <1>1, FiledAppend
  <2>3. F[n] = << >>  BY <1>1
  <2> HIDE DEF F, G, p, o
  <2>4. Len(G[n]) <= 1  BY <2>1, <2>3
  <2>5. \A x \in Int : Len(F[x]) <= 1  BY <1>1 DEF Single, F
  <2>6. \A x \in Int : Len(G[x]) <= 1  BY <2>2, <2>4, <2>5
  <2> QED BY <2>6 DEF Single, G
<1> HIDE DEF o, m
<1>8. \A k \in PartKinds : KindFiled(o, k)  BY <1>1, <1>4, <1>6
<1>9. IndexOf(o, "text", t, m) /\ IndexOf(o, "thought", g, m)  BY <1>1, <1>4 DEF IndexOf
<1> QED BY <1>3, <1>7, <1>8, <1>9 DEF Filing, o, m

\* A whole call: opened at the next index, told and closed.
LEMMA FilingCall ==
  ASSUME NEW out, NEW n \in Int, NEW t \in Int, NEW g \in Int, Filing(out, n, t, g),
         NEW c1 \in Ev, c1.stage = "open", c1.kind = "call", c1.index = n,
         NEW c2 \in Ev, c2.stage = "delta", c2.kind = "call", c2.index = n, c2.part # 0,
         NEW c3 \in Ev, c3.stage = "close"
  PROVE  Filing(Append(Append(Append(out, c1), c2), c3), n + 1, t, g)
<1> DEFINE a == Append(out, c1)
           b == Append(a, c2)
           m == n + 1
<1>1. CallOpened(a, n, t, g)  BY CallOpens
<1> HIDE DEF a
<1>2. Filing(b, n + 1, t, g)  BY <1>1, CallTells
<1> HIDE DEF b
<1>3. m \in Int /\ Filing(b, m, t, g)  BY <1>2
<1> HIDE DEF m
<1>4. Filing(Append(b, c3), m, t, g)  BY <1>3, FilingOther
<1> QED BY <1>4 DEF a, b, m

-----------------------------------------------------------------------------
(* Responses: filing parts. *)

\* A Responses stream with what its client files of it.
ResponsesFiling ==
  { s \in ResponsesState : Filing(s.out, s.next, s.message, s.reasoning) }

\* The streams of the two formats start with nothing to file.
LEMMA FilingStart == Filing(<< >>, 0, Absent, Absent)
<1> DEFINE e == << >>
<1>1. e \in Seq(Ev)  OBVIOUS
<1>2. \A k : OpenedFor(e, k) = << >> /\ ToldOf(e, k) = << >> /\ FiledAt(e, k) = [x \in Int |-> << >>]
  BY GatherNone DEF OpenedFor, ToldOf, FiledAt
<1>3. \A k : KindFiled(e, k)
  <2>1. ASSUME NEW k PROVE FiledFor(e, k) = << >>
    <3>1. OpenedFor(e, k) = << >>  BY <1>2
    <3> HIDE DEF e
    <3>2. FiledFor(e, k) = Gather(FiledAt(e, k), << >>)  BY <3>1, Zenon DEF FiledFor
    <3> QED BY <3>2, GatherNone
  <2> HIDE DEF e
  <2> QED BY <1>2, <2>1 DEF KindFiled
<1>4. Single(e)
  <2>1. \A x \in Int : FiledAt(e, "call")[x] = << >>  BY <1>2
  <2> HIDE DEF e
  <2> QED BY <2>1 DEF Single
<1>5. Below(e, 0) /\ OpensKinds(e)  BY DEF Below, OpensKinds
<1> HIDE DEF e
<1>6. IndexOf(e, "text", Absent, 0) /\ IndexOf(e, "thought", Absent, 0)  BY DEF IndexOf
<1>7. Filing(e, 0, Absent, Absent)  BY <1>1, <1>3, <1>4, <1>5, <1>6 DEF Filing
<1> QED BY <1>7 DEF e

\* The fields a stream files by, and one that differs in no other.
LEMMA FilingSame ==
  ASSUME NEW s \in ResponsesFiling, NEW r \in ResponsesState, r.out = s.out, r.next = s.next,
         r.message = s.message, r.reasoning = s.reasoning
  PROVE  r \in ResponsesFiling
BY DEF ResponsesFiling

\* An event that neither opens an item nor carries a part.
LEMMA PushFiling ==
  ASSUME NEW s \in ResponsesFiling, NEW stage \in Stage, NEW kind \in EvKind, NEW index \in Int,
         stage # "open", stage = "delta" => index < s.next
  PROVE  Push(s, stage, kind, index, 0) \in ResponsesFiling
<1> DEFINE r == Push(s, stage, kind, index, 0)
           e == EventAt(stage, kind, index, 0, s.seq + 1)
<1>1. s \in ResponsesState /\ Filing(s.out, s.next, s.message, s.reasoning)  BY DEF ResponsesFiling
<1>2. s.next \in Int /\ s.message \in Int /\ s.reasoning \in Int /\ 0 \in Int
  BY <1>1 DEF ResponsesState
<1>3. /\ r \in ResponsesState /\ e \in Ev /\ r.out = Append(s.out, e) /\ r.next = s.next
      /\ r.message = s.message /\ r.reasoning = s.reasoning
  BY <1>1, <1>2, PushIs
<1>4. e.stage = stage /\ e.part = 0 /\ e.index = index  BY DEF EventAt
<1> HIDE DEF e, r
<1>5. Filing(Append(s.out, e), s.next, s.message, s.reasoning)
  BY <1>1, <1>2, <1>3, <1>4, FilingOther
<1> QED BY <1>3, <1>5 DEF ResponsesFiling, r

\* A part of text or of thoughts.
LEMMA PushTold ==
  ASSUME NEW s \in ResponsesFiling, NEW kind \in {"text", "thought"}, NEW part \in Nat \ {0},
         NEW index \in Int, index = IF kind = "text" THEN s.message ELSE s.reasoning, index # Absent
  PROVE  Push(s, "delta", kind, index, part) \in ResponsesFiling
<1> DEFINE r == Push(s, "delta", kind, index, part)
           e == EventAt("delta", kind, index, part, s.seq + 1)
<1>1. s \in ResponsesState /\ Filing(s.out, s.next, s.message, s.reasoning)  BY DEF ResponsesFiling
<1>2. s.next \in Int /\ s.message \in Int /\ s.reasoning \in Int /\ part \in Int
  BY <1>1 DEF ResponsesState
<1>3. /\ r \in ResponsesState /\ e \in Ev /\ r.out = Append(s.out, e) /\ r.next = s.next
      /\ r.message = s.message /\ r.reasoning = s.reasoning
  <2>1. "delta" \in Stage /\ kind \in EvKind  BY Words
  <2> QED BY <1>1, <1>2, <2>1, PushIs
<1>4. e.stage = "delta" /\ e.kind = kind /\ e.part = part /\ e.index = index  BY DEF EventAt
<1> HIDE DEF e, r
<1>5. Filing(Append(s.out, e), s.next, s.message, s.reasoning)
  BY <1>1, <1>2, <1>3, <1>4, FilingTell
<1> QED BY <1>3, <1>5 DEF ResponsesFiling, r

\* The items of a stream, opened when they are first needed.
LEMMA EnsuredFiling ==
  ASSUME NEW s \in ResponsesFiling
  PROVE  /\ EnsureMessageItem(s) \in ResponsesFiling /\ EnsureMessageItem(s).message # Absent
         /\ EnsureReasoningItem(s) \in ResponsesFiling /\ EnsureReasoningItem(s).reasoning # Absent
<1> DEFINE n == s.next
           m == n + 1
           e == EventAt("open", "text", n, 0, s.seq + 1)
           d == EventAt("open", "thought", n, 0, s.seq + 1)
           y == [s EXCEPT !.message = n, !.next = m]
           z == [s EXCEPT !.reasoning = n, !.next = m]
           a == Push(y, "open", "text", n, 0)
           b == Push(z, "open", "thought", n, 0)
<1>1. s \in ResponsesState /\ Filing(s.out, n, s.message, s.reasoning)  BY DEF ResponsesFiling
<1>2. n \in Nat /\ n \in Int /\ m \in Nat /\ n < m /\ n # Absent /\ s.message \in Int /\ s.reasoning \in Int
      /\ 0 \in Int
  BY <1>1 DEF ResponsesState, Absent
<1>3. /\ y \in ResponsesState /\ y.out = s.out /\ y.message = n /\ y.next = m
      /\ y.reasoning = s.reasoning /\ y.seq = s.seq
      /\ z \in ResponsesState /\ z.out = s.out /\ z.reasoning = n /\ z.next = m
      /\ z.message = s.message /\ z.seq = s.seq
  <2> HIDE DEF n, m
  <2> QED BY <1>1, <1>2 DEF ResponsesState
<1> HIDE DEF y, z, m
<1>4. /\ a \in ResponsesState /\ e \in Ev /\ a.out = Append(s.out, e) /\ a.next = m
      /\ a.message = n /\ a.reasoning = s.reasoning
  BY <1>2, <1>3, Words, PushIs, SMTT(30)
<1>5. /\ b \in ResponsesState /\ d \in Ev /\ b.out = Append(s.out, d) /\ b.next = m
      /\ b.reasoning = n /\ b.message = s.message
  BY <1>2, <1>3, Words, PushIs, SMTT(30)
<1>6. e.stage = "open" /\ e.kind = "text" /\ e.index = n /\ d.stage = "open" /\ d.kind = "thought"
      /\ d.index = n
  BY DEF EventAt
<1> HIDE DEF e, d, a, b, n
<1>7. Filing(Append(s.out, e), m, n, s.reasoning)
  <2>1. Filing(Append(s.out, e), n + 1, IF e.kind = "text" THEN n ELSE s.message,
               IF e.kind = "thought" THEN n ELSE s.reasoning)
    BY <1>1, <1>2, <1>4, <1>6, FilingOpen
  <2> QED BY <2>1, <1>6 DEF m
<1>8. Filing(Append(s.out, d), m, s.message, n)
  <2>1. Filing(Append(s.out, d), n + 1, IF d.kind = "text" THEN n ELSE s.message,
               IF d.kind = "thought" THEN n ELSE s.reasoning)
    BY <1>1, <1>2, <1>5, <1>6, FilingOpen
  <2> QED BY <2>1, <1>6 DEF m
<1>9. a \in ResponsesFiling /\ b \in ResponsesFiling
  BY <1>4, <1>5, <1>7, <1>8 DEF ResponsesFiling
<1>10. Push(a, "open_part", "text", n, 0) \in ResponsesFiling
       /\ Push(b, "open_part", "thought", n, 0) \in ResponsesFiling
  BY <1>2, <1>9, Words, PushFiling
<1>11. Push(a, "open_part", "text", n, 0).message = n
       /\ Push(b, "open_part", "thought", n, 0).reasoning = n
  BY <1>2, <1>4, <1>5, Words, PushIs, SMTT(30)
<1>12. CASE s.message = Absent
  <2>1. EnsureMessageItem(s) = Push(a, "open_part", "text", n, 0)
    BY <1>12 DEF EnsureMessageItem, a, y, n, m
  <2>2. EnsureMessageItem(s) \in ResponsesFiling /\ EnsureMessageItem(s).message # Absent
    BY <2>1, <1>2, <1>10, <1>11
  <2>3. s.reasoning = Absent => EnsureReasoningItem(s) = Push(b, "open_part", "thought", n, 0)
    BY DEF EnsureReasoningItem, b, z, n, m
  <2>4. s.reasoning # Absent => EnsureReasoningItem(s) = s  BY DEF EnsureReasoningItem
  <2>5. EnsureReasoningItem(s) \in ResponsesFiling /\ EnsureReasoningItem(s).reasoning # Absent
    BY <2>3, <2>4, <1>2, <1>10, <1>11
  <2> QED BY <2>2, <2>5
<1>13. CASE s.message # Absent
  <2>1. EnsureMessageItem(s) = s  BY <1>13 DEF EnsureMessageItem
  <2>2. s.reasoning = Absent => EnsureReasoningItem(s) = Push(b, "open_part", "thought", n, 0)
    BY DEF EnsureReasoningItem, b, z, n, m
  <2>3. s.reasoning # Absent => EnsureReasoningItem(s) = s  BY DEF EnsureReasoningItem
  <2>4. EnsureReasoningItem(s) \in ResponsesFiling /\ EnsureReasoningItem(s).reasoning # Absent
    BY <2>2, <2>3, <1>2, <1>10, <1>11
  <2> QED BY <2>1, <2>4, <1>13
<1> QED BY <1>12, <1>13

-----------------------------------------------------------------------------
(* Responses: filing frames and chunks. *)

\* A call takes the next index.
LEMMA CallFiling ==
  ASSUME NEW s \in ResponsesFiling, NEW p \in PartSet
  PROVE  PushCall(s, p) \in ResponsesFiling
<1> DEFINE n == s.next
           m == n + 1
           id == p.id
           e1 == EventAt("open", "call", n, 0, s.seq + 1)
           a == Push(s, "open", "call", n, 0)
           e2 == EventAt("delta", "call", n, id, a.seq + 1)
           b == Push(a, "delta", "call", n, id)
           e3 == EventAt("close", "call", n, 0, b.seq + 1)
           c == Push(b, "close", "call", n, 0)
           r == [c EXCEPT !.next = c.next + 1]
<1>1. s \in ResponsesState /\ Filing(s.out, n, s.message, s.reasoning)  BY DEF ResponsesFiling
<1>2. n \in Nat /\ n \in Int /\ m \in Nat /\ s.message \in Int /\ s.reasoning \in Int /\ 0 \in Int
      /\ id \in Int /\ id # 0
  BY <1>1 DEF ResponsesState, PartSet
<1>3. PushCall(s, p) = r  BY DEF PushCall
<1> HIDE DEF n, id
<1>4. /\ a \in ResponsesState /\ e1 \in Ev /\ a.out = Append(s.out, e1) /\ a.next = s.next
      /\ a.message = s.message /\ a.reasoning = s.reasoning
  BY <1>1, <1>2, Words, PushIs, SMTT(30)
<1> HIDE DEF a
<1>5. /\ b \in ResponsesState /\ e2 \in Ev /\ b.out = Append(a.out, e2) /\ b.next = a.next
      /\ b.message = a.message /\ b.reasoning = a.reasoning
  <2>1. "delta" \in Stage /\ "call" \in EvKind  BY Words
  <2>2. a \in ResponsesState  BY <1>4
  <2>3. n \in Int /\ id \in Int  BY <1>2
  <2> QED BY <2>1, <2>2, <2>3, PushIs
<1> HIDE DEF b
<1>6. /\ c \in ResponsesState /\ e3 \in Ev /\ c.out = Append(b.out, e3) /\ c.next = b.next
      /\ c.message = b.message /\ c.reasoning = b.reasoning
  BY <1>2, <1>5, Words, PushIs, SMTT(30)
<1>7. /\ e1.stage = "open" /\ e1.kind = "call" /\ e1.index = n
      /\ e2.stage = "delta" /\ e2.kind = "call" /\ e2.index = n /\ e2.part # 0
      /\ e3.stage = "close"
  BY <1>2 DEF EventAt
<1>8. c.next = n  BY <1>4, <1>5, <1>6 DEF n
<1> HIDE DEF c, e1, e2, e3
<1>9. Filing(Append(Append(Append(s.out, e1), e2), e3), n + 1, s.message, s.reasoning)
  BY <1>1, <1>2, <1>4, <1>5, <1>6, <1>7, FilingCall
<1>10. r \in ResponsesState /\ r.out = c.out /\ r.next = m /\ r.message = c.message
       /\ r.reasoning = c.reasoning
  <2> HIDE DEF m
  <2>1. c.next + 1 = m  BY <1>8 DEF m
  <2> QED BY <2>1, <1>2, <1>6 DEF ResponsesState
<1> HIDE DEF r
<1>11. Filing(r.out, r.next, r.message, r.reasoning)
  BY <1>4, <1>5, <1>6, <1>9, <1>10 DEF m
<1> QED BY <1>3, <1>10, <1>11 DEF ResponsesFiling

\* Any part.
LEMMA ResponsesPartFiling ==
  ASSUME NEW s \in ResponsesFiling, NEW p \in PartSet
  PROVE  ResponsesPart(s, p) \in ResponsesFiling
<1>1. p.kind \in Kind /\ p.id \in Nat \ {0} /\ s \in ResponsesState  BY DEF PartSet, ResponsesFiling
<1>2. CASE p.kind = "thought"
  <2> DEFINE r == EnsureReasoningItem(s)
             x == r.reasoning
  <2>1. ResponsesPart(s, p) = Push(r, "delta", "thought", x, p.id)  BY <1>2 DEF ResponsesPart
  <2>2. r \in ResponsesFiling /\ x # Absent  BY EnsuredFiling
  <2> HIDE DEF r
  <2>3. x \in Int  BY <2>2 DEF ResponsesFiling, ResponsesState
  <2>4. x = IF "thought" = "text" THEN r.message ELSE r.reasoning  OBVIOUS
  <2> HIDE DEF x
  <2> QED BY <1>1, <2>1, <2>2, <2>3, <2>4, PushTold
<1>3. CASE p.kind = "text"
  <2> DEFINE r == EnsureMessageItem(s)
             x == r.message
  <2>1. ResponsesPart(s, p) = Push(r, "delta", "text", x, p.id)  BY <1>3 DEF ResponsesPart
  <2>2. r \in ResponsesFiling /\ x # Absent  BY EnsuredFiling
  <2> HIDE DEF r
  <2>3. x \in Int  BY <2>2 DEF ResponsesFiling, ResponsesState
  <2>4. x = IF "text" = "text" THEN r.message ELSE r.reasoning  OBVIOUS
  <2> HIDE DEF x
  <2> QED BY <1>1, <2>1, <2>2, <2>3, <2>4, PushTold
<1>4. CASE p.kind = "image" /\ ~s.noticed
  <2> DEFINE z == [s EXCEPT !.noticed = TRUE]
             r == EnsureMessageItem(z)
             x == r.message
  <2>1. ResponsesPart(s, p) = Push(r, "delta", "notice", x, 0)  BY <1>4 DEF ResponsesPart
  <2>2. z \in ResponsesFiling
    <3>1. z \in ResponsesState /\ z.out = s.out /\ z.next = s.next /\ z.message = s.message
          /\ z.reasoning = s.reasoning
      BY <1>1 DEF ResponsesState
    <3> HIDE DEF z
    <3> QED BY <3>1, FilingSame
  <2> HIDE DEF z
  <2>3. r \in ResponsesFiling /\ x # Absent  BY <2>2, EnsuredFiling
  <2> HIDE DEF r
  <2>4. x \in Int /\ x < r.next  BY <2>3 DEF ResponsesFiling, ResponsesState, Filing, IndexOf
  <2> HIDE DEF x
  <2> QED BY <2>1, <2>3, <2>4, Words, PushFiling
<1>5. CASE p.kind = "image" /\ s.noticed  BY <1>5 DEF ResponsesPart
<1>6. CASE p.kind = "call"
  <2>1. ResponsesPart(s, p) = PushCall(s, p)  BY <1>6 DEF ResponsesPart
  <2> QED BY <2>1, CallFiling
<1> QED BY <1>1, <1>2, <1>3, <1>4, <1>5, <1>6 DEF Kind

\* The end of an item.
LEMMA CloseFiling ==
  ASSUME NEW s \in ResponsesFiling, NEW kind \in EvKind, NEW x \in Int
  PROVE  Push(Push(Push(s, "text_done", kind, x, 0), "close_part", kind, x, 0), "close", kind, x, 0)
           \in ResponsesFiling
<1> DEFINE a == Push(s, "text_done", kind, x, 0)
           b == Push(a, "close_part", kind, x, 0)
<1>1. a \in ResponsesFiling  BY Words, PushFiling
<1> HIDE DEF a
<1>2. b \in ResponsesFiling  BY <1>1, Words, PushFiling
<1> HIDE DEF b
<1>3. Push(b, "close", kind, x, 0) \in ResponsesFiling  BY <1>2, Words, PushFiling
<1> QED BY <1>3 DEF a, b

\* Any frame.
LEMMA ResponsesFrameFiling ==
  ASSUME NEW s \in ResponsesFiling, NEW f \in FrameSet
  PROVE  ResponsesFrame(s, f) \in ResponsesFiling
<1> DEFINE V == ResponsesFiling
           begun == Begun(s)
           told == FoldLeft(ResponsesPart, begun, f.parts)
           a == FinalizeReasoningItem(told)
           b == FinalizeMessageItem(a)
           c == Push(b, "finish", f.finish, 0, 0)
<1>1. f.parts \in Seq(PartSet) /\ f.finish \in EvKind  BY DEF FrameSet, EvKind
<1>2. begun \in V
  <2> DEFINE z == [s EXCEPT !.created = TRUE]
             y == Push(z, "start", "none", 0, 0)
  <2>1. z \in V
    <3>1. s \in ResponsesState  BY DEF ResponsesFiling
    <3>2. z \in ResponsesState /\ z.out = s.out /\ z.next = s.next /\ z.message = s.message
          /\ z.reasoning = s.reasoning
      BY <3>1 DEF ResponsesState
    <3> HIDE DEF z
    <3> QED BY <3>2, FilingSame
  <2>2. begun = IF s.created THEN s ELSE Push(y, "start", "none", 0, 0)  BY DEF Begun
  <2> HIDE DEF z
  <2>3. 0 \in Int  OBVIOUS
  <2>4. y \in V  BY <2>1, <2>3, Words, PushFiling
  <2> HIDE DEF y
  <2>5. Push(y, "start", "none", 0, 0) \in V  BY <2>3, <2>4, Words, PushFiling
  <2> HIDE DEF begun, V
  <2>6. s \in V  BY DEF V
  <2> QED BY <2>2, <2>5, <2>6
<1> HIDE DEF begun
<1>3. told \in V
  <2>1. \A v \in V, d \in PartSet : ResponsesPart(v, d) \in V  BY ResponsesPartFiling
  <2> DEFINE J == Nat \X V
  <2>2. << 0, begun >> \in J  BY <1>2
  <2>3. \A i \in 1 .. Len(f.parts), v \in V :
          << i - 1, v >> \in J => << i, ResponsesPart(v, f.parts[i]) >> \in J
    BY <1>1, <2>1
  <2> HIDE DEF J, V
  <2> QED BY <1>1, <1>2, <2>1, <2>2, <2>3, ResponsesParts
<1> HIDE DEF told, V
<1>4. told \in ResponsesFiling /\ told.reasoning \in Int
  BY <1>3 DEF V, ResponsesFiling, ResponsesState
<1>5. a \in ResponsesFiling
  <2>1. told.reasoning # Absent =>
          a = Push(Push(Push(told, "text_done", "thought", told.reasoning, 0),
                        "close_part", "thought", told.reasoning, 0),
                   "close", "thought", told.reasoning, 0)
    BY DEF FinalizeReasoningItem
  <2>2. told.reasoning = Absent => a = told  BY DEF FinalizeReasoningItem
  <2>3. Push(Push(Push(told, "text_done", "thought", told.reasoning, 0),
                        "close_part", "thought", told.reasoning, 0),
                   "close", "thought", told.reasoning, 0) \in ResponsesFiling
    BY <1>4, Words, CloseFiling
  <2> HIDE DEF a
  <2> QED BY <1>4, <2>1, <2>2, <2>3
<1> HIDE DEF a
<1>6. a.message \in Int  BY <1>5 DEF ResponsesFiling, ResponsesState
<1>7. b \in ResponsesFiling
  <2>1. a.message # Absent =>
          b = Push(Push(Push(a, "text_done", "text", a.message, 0),
                        "close_part", "text", a.message, 0),
                   "close", "text", a.message, 0)
    BY DEF FinalizeMessageItem
  <2>2. a.message = Absent => b = a  BY DEF FinalizeMessageItem
  <2>3. Push(Push(Push(a, "text_done", "text", a.message, 0),
                        "close_part", "text", a.message, 0),
                   "close", "text", a.message, 0) \in ResponsesFiling
    BY <1>5, <1>6, Words, CloseFiling
  <2> HIDE DEF b
  <2> QED BY <1>5, <2>1, <2>2, <2>3
<1> HIDE DEF b
<1>8. c \in ResponsesFiling
  <2>1. 0 \in Int  OBVIOUS
  <2> QED BY <1>1, <1>7, <2>1, Words, PushFiling
<1> HIDE DEF c
<1>9. [c EXCEPT !.completed = TRUE] \in ResponsesFiling
  <2> DEFINE d == [c EXCEPT !.completed = TRUE]
  <2>1. c \in ResponsesState  BY <1>8 DEF ResponsesFiling
  <2>2. d \in ResponsesState /\ d.out = c.out /\ d.next = c.next /\ d.message = c.message
          /\ d.reasoning = c.reasoning
    BY <2>1 DEF ResponsesState
  <2> HIDE DEF d
  <2>3. d \in ResponsesFiling  BY <1>8, <2>2, FilingSame
  <2> QED BY <2>3 DEF d
<1>10. ResponsesFrame(s, f) = CASE f.blocked -> s
            [] ~f.blocked /\ (f.finish = "none" \/ told.completed) -> told
            [] OTHER -> [c EXCEPT !.completed = TRUE]
  BY DEF ResponsesFrame, Begun, told, begun, a, b, c
<1> QED BY <1>4, <1>9, <1>10

\* A chunk, and the error event.
LEMMA ResponsesChunkFiling ==
  ASSUME NEW s \in ResponsesFiling, NEW chunk \in Seq(FrameSet)
  PROVE  ResponsesChunk(s, chunk) \in ResponsesFiling
<1> DEFINE V == ResponsesFiling
           J == Nat \X V
<1>1. \A v \in V, d \in FrameSet : ResponsesPiece(v, d) \in V
  BY ResponsesFrameFiling DEF ResponsesPiece
<1>2. << 0, s >> \in J  OBVIOUS
<1>3. \A i \in 1 .. Len(chunk), v \in V :
          << i - 1, v >> \in J => << i, ResponsesPiece(v, chunk[i]) >> \in J
  BY <1>1
<1> HIDE DEF J
<1>4. s \in V  OBVIOUS
<1> HIDE DEF V
<1>5. FoldLeft(ResponsesPiece, s, chunk) \in V  BY <1>1, <1>2, <1>3, <1>4, ResponsesPieces
<1> QED BY <1>5 DEF ResponsesChunk, V

-----------------------------------------------------------------------------
(* What a stream tells, kind by kind. *)

\* What an answer said, kind by kind, and the kind a part arrives as: an image is
\* a link in the text of two formats, and a Responses client is only noticed of it.
Spoken(out) == [k \in PartKinds |-> ToldOf(out, k)]
HeardAs(f, kind) == IF f = "gemini" THEN kind
                    ELSE IF f = "responses" THEN IF kind = "image" THEN "none" ELSE kind
                    ELSE OpenAIKind(kind)
Sources(f, k) == { c \in Kind : HeardAs(f, c) = k }
Hear(f, m, p) == [k \in PartKinds |-> IF HeardAs(f, p.kind) = k THEN Append(m[k], p.id) ELSE m[k]]
Heard(f, m, q) == [k \in PartKinds |-> m[k] \o OfKind(q, Sources(f, k))]
Hearing == [PartKinds -> Seq(PartNo)]

\* An event that carries no part.
LEMMA SpokenQuiet ==
  ASSUME NEW out \in Seq(Ev), NEW e \in Ev, e.stage = "delta" => e.part = 0
  PROVE  Spoken(Append(out, e)) = Spoken(out)
<1>1. \A k : ~Carries(e, k)  BY DEF Carries
<1>2. \A k : ToldOf(Append(out, e), k) = ToldOf(out, k)  BY <1>1, FiledAppend
<1> QED BY <1>2, Zenon DEF Spoken

\* An event that carries one.
LEMMA SpokenPart ==
  ASSUME NEW out \in Seq(Ev), NEW e \in Ev, NEW f, NEW p \in PartSet, e.stage = "delta",
         e.part = p.id, e.kind = HeardAs(f, p.kind)
  PROVE  Spoken(Append(out, e)) = Hear(f, Spoken(out), p)
<1> DEFINE a == Spoken(Append(out, e))
           b == Hear(f, Spoken(out), p)
<1>1. e.part # 0  BY DEF PartSet
<1>2. ASSUME NEW k \in PartKinds PROVE a[k] = b[k]
  <2>1. a[k] = ToldOf(Append(out, e), k)  BY DEF Spoken
  <2>2. b[k] = IF e.kind = k THEN Append(ToldOf(out, k), e.part) ELSE ToldOf(out, k)
    BY DEF Hear, Spoken
  <2>3. Carries(e, k) <=> e.kind = k  BY <1>1 DEF Carries
  <2> HIDE DEF a, b
  <2> QED BY <2>1, <2>2, <2>3, FiledAppend
<1>3. a = [k \in PartKinds |-> a[k]] /\ b = [k \in PartKinds |-> b[k]]  BY DEF Spoken, Hear
<1> HIDE DEF a, b
<1>4. a = b  BY <1>2, <1>3
<1> QED BY <1>4 DEF a, b

\* What was said is heard by kinds.
LEMMA SpokenTyped ==
  ASSUME NEW out \in Seq(Ev)
  PROVE  Spoken(out) \in Hearing
BY FiledTyped DEF Spoken, Hearing

\* The ids of the parts of some kinds.
LEMMA SaidMake == \A kinds : Maker(Ids(PartSet, kinds), PartSet, PartNo)
BY DEF Maker, Ids, PartSet, PartNo

\* What was said of some kinds, as a gathering.
LEMMA SaidIs ==
  ASSUME NEW q \in Seq(PartSet), NEW kinds
  PROVE  OfKind(q, kinds) = Gather(Ids(PartSet, kinds), q) /\ OfKind(q, kinds) \in Seq(PartNo)
BY OfKindIs, SaidMake, EachTyped

\* Nothing more is heard.
LEMMA HearNone ==
  ASSUME NEW f, NEW m \in Hearing
  PROVE  Heard(f, m, << >>) = m
<1> DEFINE a == Heard(f, m, << >>)
<1>0. << >> \in Seq(PartSet)  OBVIOUS
<1>1. ASSUME NEW k \in PartKinds PROVE a[k] = m[k]
  <2>1. a[k] = m[k] \o OfKind(<< >>, Sources(f, k))  BY DEF Heard
  <2>2. OfKind(<< >>, Sources(f, k)) = << >>  BY <1>0, SaidIs, GatherNone
  <2>3. m[k] \in Seq(PartNo)  BY DEF Hearing
  <2> QED BY <2>1, <2>2, <2>3
<1>2. a = [k \in PartKinds |-> a[k]] /\ m = [k \in PartKinds |-> m[k]]  BY DEF Heard, Hearing
<1> HIDE DEF a
<1>3. a = m  BY <1>1, <1>2
<1> QED BY <1>3 DEF a

\* What was heard is told in parts.
LEMMA HeardTyped ==
  ASSUME NEW f, NEW m \in Hearing, NEW q \in Seq(PartSet)
  PROVE  Heard(f, m, q) \in Hearing
<1>1. \A k \in PartKinds : m[k] \in Seq(PartNo) /\ OfKind(q, Sources(f, k)) \in Seq(PartNo)
  BY SaidIs DEF Hearing
<1>2. \A k \in PartKinds : m[k] \o OfKind(q, Sources(f, k)) \in Seq(PartNo)
  BY <1>1
<1> QED BY <1>2 DEF Heard, Hearing

\* To hear two pieces is to hear one and then the other.
LEMMA HeardConcat ==
  ASSUME NEW f, NEW m \in Hearing, NEW a \in Seq(PartSet), NEW b \in Seq(PartSet)
  PROVE  Heard(f, m, a \o b) = Heard(f, Heard(f, m, a), b)
<1> DEFINE x == Heard(f, m, a \o b)
           y == Heard(f, Heard(f, m, a), b)
<1>0. a \o b \in Seq(PartSet)  OBVIOUS
<1>1. ASSUME NEW k \in PartKinds PROVE x[k] = y[k]
  <2> DEFINE s == Sources(f, k)
             c == OfKind(a, s)
             d == OfKind(b, s)
  <2>1. OfKind(a \o b, s) = c \o d
    <3>1. Gather(Ids(PartSet, s), a \o b) = Gather(Ids(PartSet, s), a) \o Gather(Ids(PartSet, s), b)
      BY SaidMake, GatherConcat
    <3>2. OfKind(a \o b, s) = Gather(Ids(PartSet, s), a \o b)  BY <1>0, SaidIs
    <3>3. c = Gather(Ids(PartSet, s), a) /\ d = Gather(Ids(PartSet, s), b)  BY SaidIs
    <3> HIDE DEF c, d, s
    <3> QED BY <3>1, <3>2, <3>3
  <2>2. c \in Seq(PartNo) /\ d \in Seq(PartNo) /\ m[k] \in Seq(PartNo)  BY SaidIs DEF Hearing
  <2>3. x[k] = m[k] \o OfKind(a \o b, s) /\ y[k] = (m[k] \o c) \o d  BY DEF Heard
  <2> HIDE DEF c, d, s, x, y
  <2>4. Regroups(m[k], c, d)  BY <2>2, ConcatAssoc
  <2> QED BY <2>1, <2>3, <2>4, Zenon DEF Regroups
<1>2. x = [k \in PartKinds |-> x[k]] /\ y = [k \in PartKinds |-> y[k]]  BY DEF Heard
<1> HIDE DEF x, y
<1>3. x = y  BY <1>1, <1>2
<1> QED BY <1>3 DEF x, y

\* One part is heard.
LEMMA HearOne ==
  ASSUME NEW f, NEW m \in Hearing, NEW p \in PartSet
  PROVE  Heard(f, m, << p >>) = Hear(f, m, p)
<1> DEFINE x == Heard(f, m, << p >>)
           y == Hear(f, m, p)
<1>0. << p >> \in Seq(PartSet) /\ p.kind \in Kind /\ p.id \in PartNo  BY DEF PartSet, PartNo
<1>1. ASSUME NEW k \in PartKinds PROVE x[k] = y[k]
  <2> DEFINE s == Sources(f, k)
  <2>1. OfKind(<< p >>, s) = IF p.kind \in s THEN << p.id >> ELSE << >>
    <3>1. Gather(Ids(PartSet, s), << p >>) = Ids(PartSet, s)[p]  BY SaidMake, GatherOne
    <3>2. OfKind(<< p >>, s) = Gather(Ids(PartSet, s), << p >>)  BY <1>0, SaidIs
    <3> QED BY <3>1, <3>2 DEF Ids
  <2>2. p.kind \in s <=> HeardAs(f, p.kind) = k  BY <1>0 DEF Sources
  <2>3. m[k] \in Seq(PartNo)  BY DEF Hearing
  <2>4. m[k] \o << p.id >> = Append(m[k], p.id) /\ m[k] \o << >> = m[k]  BY <1>0, <2>3
  <2>5. x[k] = m[k] \o OfKind(<< p >>, s)  BY DEF Heard
  <2>6. y[k] = IF HeardAs(f, p.kind) = k THEN Append(m[k], p.id) ELSE m[k]  BY DEF Hear
  <2> HIDE DEF x, y, s
  <2> QED BY <2>1, <2>2, <2>4, <2>5, <2>6
<1>2. x = [k \in PartKinds |-> x[k]] /\ y = [k \in PartKinds |-> y[k]]  BY DEF Heard, Hear
<1> HIDE DEF x, y
<1>3. x = y  BY <1>1, <1>2
<1> QED BY <1>3 DEF x, y

\* Parts heard one by one.
LEMMA HearNext ==
  ASSUME NEW f, NEW m \in Hearing, NEW q \in Seq(PartSet), NEW i \in 1 .. Len(q)
  PROVE  Heard(f, m, SubSeq(q, 1, i)) = Hear(f, Heard(f, m, SubSeq(q, 1, i - 1)), q[i])
<1> DEFINE a == SubSeq(q, 1, i - 1)
           b == << q[i] >>
           c == SubSeq(q, 1, i)
<1>1. a \in Seq(PartSet) /\ b \in Seq(PartSet) /\ c \in Seq(PartSet) /\ q[i] \in PartSet  OBVIOUS
<1>2. c = a \o b
  <2>1. Len(a) = i - 1 /\ Len(c) = i /\ Len(b) = 1  OBVIOUS
  <2>2. \A j \in 1 .. i : c[j] = q[j]  OBVIOUS
  <2>3. \A j \in 1 .. i - 1 : a[j] = q[j]  OBVIOUS
  <2>4. b[1] = q[i]  OBVIOUS
  <2> HIDE DEF a, b, c
  <2> DEFINE d == a \o b
  <2>5. d \in Seq(PartSet) /\ Len(d) = i /\ d[i] = b[1]
    <3>1. /\ d \in Seq(PartSet) /\ Len(d) = Len(a) + Len(b)
          /\ \A j \in 1 .. Len(a) + Len(b) : d[j] = IF j <= Len(a) THEN a[j] ELSE b[j - Len(a)]
      BY <1>1, ConcatProperties
    <3>2. i \in Nat /\ i > 0  OBVIOUS
    <3> HIDE DEF d
    <3> QED BY <2>1, <3>1, <3>2
  <2>6. ASSUME NEW j \in 1 .. i PROVE d[j] = c[j]
    <3>1. CASE j = i  BY <3>1, <2>2, <2>4, <2>5
    <3>2. CASE j # i
      <4>1. j \in 1 .. i - 1 /\ j \in 1 .. Len(a)  BY <3>2, <2>1
      <4> QED BY <4>1, <1>1, <2>2, <2>3
    <3> QED BY <3>1, <3>2
  <2> HIDE DEF d
  <2>7. d = c  BY <1>1, <2>1, <2>5, <2>6, SeqEqual
  <2> QED BY <2>7 DEF d
<1> HIDE DEF a, c
<1>3. Heard(f, m, c) = Heard(f, Heard(f, m, a), b)
  <2> HIDE DEF b
  <2> QED BY <1>1, <1>2, HeardConcat
<1>4. Heard(f, m, a) \in Hearing  BY <1>1, HeardTyped
<1>5. Heard(f, Heard(f, m, a), b) = Hear(f, Heard(f, m, a), q[i])
  <2> DEFINE w == Heard(f, m, a)
             p == q[i]
  <2> HIDE DEF w, p
  <2>1. Heard(f, w, << p >>) = Hear(f, w, p)  BY <1>1, <1>4, HearOne DEF w, p
  <2> QED BY <2>1 DEF w, p
<1> QED BY <1>3, <1>5 DEF a, c

-----------------------------------------------------------------------------
(* Messages: what its events tell and file. *)

\* A Messages stream with what its client files of it.
ClaudeFiling == { s \in ClaudeState : Filing(s.out, s.next, s.text, s.thinking) }

\* The pieces of such a state.
LEMMA ClaudeFiled ==
  ASSUME NEW s \in ClaudeFiling
  PROVE  /\ s \in ClaudeState /\ Filing(s.out, s.next, s.text, s.thinking) /\ s.out \in Seq(Ev)
         /\ s.next \in Int /\ s.text \in Int /\ s.thinking \in Int
<1>1. s \in ClaudeState /\ Filing(s.out, s.next, s.text, s.thinking)  BY DEF ClaudeFiling
<1> QED BY <1>1 DEF ClaudeState

\* Its blocks are among those it opened.
LEMMA ClaudeIndexes ==
  ASSUME NEW s \in ClaudeFiling
  PROVE  s.next \in Nat /\ s.text < s.next /\ s.thinking < s.next
<1>1. s \in ClaudeState /\ Filing(s.out, s.next, s.text, s.thinking)  BY DEF ClaudeFiling
<1>2. s.next \in Nat /\ s.text \in Int /\ s.thinking \in Int  BY <1>1 DEF ClaudeState
<1> QED BY <1>1, <1>2 DEF Filing, IndexOf, Absent

\* An event that carries nothing.
LEMMA ClaudeQuiet ==
  ASSUME NEW s \in ClaudeFiling, NEW e \in Ev, e.stage # "open",
         e.stage = "delta" => e.part = 0 /\ e.index < s.next
  PROVE  LET r == Emit(s, << e >>) IN
         r \in ClaudeFiling /\ Spoken(r.out) = Spoken(s.out) /\ SameBlocks(s, r)
<1> DEFINE r == Emit(s, << e >>)
<1>1. /\ s \in ClaudeState /\ Filing(s.out, s.next, s.text, s.thinking) /\ s.out \in Seq(Ev)
      /\ s.next \in Int /\ s.text \in Int /\ s.thinking \in Int
  BY ClaudeFiled
<1>2. r \in ClaudeState /\ r.out = Append(s.out, e) /\ SameBlocks(s, r)  BY <1>1, Tell
<1> HIDE DEF r
<1>3. Filing(Append(s.out, e), s.next, s.text, s.thinking)  BY <1>1, FilingOther
<1>4. r.next = s.next /\ r.text = s.text /\ r.thinking = s.thinking  BY <1>2 DEF SameBlocks
<1>5. r \in ClaudeFiling  BY <1>2, <1>3, <1>4 DEF ClaudeFiling
<1>6. Spoken(r.out) = Spoken(s.out)  BY <1>1, <1>2, SpokenQuiet
<1> QED BY <1>2, <1>5, <1>6 DEF r

\* A delta of an opened block is filed.
LEMMA ClaudeTold ==
  ASSUME NEW s \in ClaudeFiling, NEW kind \in {"text", "thought"}, NEW p \in PartSet,
         kind = HeardAs("claude", p.kind), NEW x \in Int,
         x = IF kind = "text" THEN s.text ELSE s.thinking, x # Absent
  PROVE  LET r == Emit(s, << Event("delta", kind, x, p.id) >>) IN
         r \in ClaudeFiling /\ Spoken(r.out) = Hear("claude", Spoken(s.out), p)
<1> DEFINE e == Event("delta", kind, x, p.id)
           r == Emit(s, << e >>)
<1>1. /\ s \in ClaudeState /\ Filing(s.out, s.next, s.text, s.thinking) /\ s.out \in Seq(Ev)
      /\ s.next \in Int /\ s.text \in Int /\ s.thinking \in Int
  BY ClaudeFiled
<1>2. e \in Ev /\ e.stage = "delta" /\ e.kind = kind /\ e.index = x /\ e.part = p.id /\ e.part # 0
  <2>1. p.id \in Int /\ p.id # 0  BY DEF PartSet
  <2>2. kind \in EvKind /\ "delta" \in Stage  BY Words
  <2> QED BY <2>1, <2>2, EventIs
<1> HIDE DEF e
<1>3. r \in ClaudeState /\ r.out = Append(s.out, e) /\ SameBlocks(s, r)  BY <1>1, <1>2, Tell
<1> HIDE DEF r
<1>4. Filing(Append(s.out, e), s.next, s.text, s.thinking)  BY <1>1, <1>2, FilingTell
<1>5. r.next = s.next /\ r.text = s.text /\ r.thinking = s.thinking  BY <1>3 DEF SameBlocks
<1>6. r \in ClaudeFiling  BY <1>3, <1>4, <1>5 DEF ClaudeFiling
<1>7. Spoken(r.out) = Hear("claude", Spoken(s.out), p)  BY <1>1, <1>2, <1>3, SpokenPart
<1> QED BY <1>6, <1>7 DEF r, e

Opens1(s, kind, z, r) ==
  /\ r = Emit(z, << Event("open", kind, s.next, 0) >>)
  /\ z \in ClaudeState /\ z.out = s.out /\ z.next = s.next + 1
  /\ z.text = IF kind = "text" THEN s.next ELSE s.text
  /\ z.thinking = IF kind = "thought" THEN s.next ELSE s.thinking

\* A block that is opened has nothing in it yet.
LEMMA ClaudeOpened ==
  ASSUME NEW s \in ClaudeFiling, NEW kind \in {"text", "thought"}, NEW z, NEW r,
         Opens1(s, kind, z, r)
  PROVE  /\ r \in ClaudeFiling /\ Spoken(r.out) = Spoken(s.out)
         /\ r.text = z.text /\ r.thinking = z.thinking
<1> DEFINE e == Event("open", kind, s.next, 0)
<1>0. /\ z \in ClaudeState /\ z.out = s.out /\ z.next = s.next + 1
      /\ z.text = IF kind = "text" THEN s.next ELSE s.text
      /\ z.thinking = IF kind = "thought" THEN s.next ELSE s.thinking
  BY DEF Opens1
<1>1. /\ s \in ClaudeState /\ Filing(s.out, s.next, s.text, s.thinking) /\ s.out \in Seq(Ev)
      /\ s.next \in Int /\ s.text \in Int /\ s.thinking \in Int
  BY ClaudeFiled
<1>2. e \in Ev /\ e.stage = "open" /\ e.kind = kind /\ e.index = s.next
  <2>1. kind \in EvKind /\ "open" \in Stage /\ 0 \in Int  BY Words
  <2> QED BY <1>1, <2>1, EventIs
<1> HIDE DEF e
<1>3. r \in ClaudeState /\ r.out = Append(z.out, e) /\ SameBlocks(z, r)
  <2>1. r = Emit(z, << e >>)  BY DEF e, Opens1
  <2> QED BY <1>0, <1>2, <2>1, Tell
<1>4. Filing(Append(s.out, e), s.next + 1, IF e.kind = "text" THEN s.next ELSE s.text,
             IF e.kind = "thought" THEN s.next ELSE s.thinking)
  BY <1>1, <1>2, FilingOpen
<1>5. r.next = z.next /\ r.text = z.text /\ r.thinking = z.thinking  BY <1>3 DEF SameBlocks
<1>6. Filing(r.out, r.next, r.text, r.thinking)  BY <1>0, <1>2, <1>3, <1>4, <1>5
<1>7. r \in ClaudeFiling  BY <1>3, <1>6 DEF ClaudeFiling
<1>8. Spoken(r.out) = Spoken(s.out)  BY <1>0, <1>1, <1>2, <1>3, SpokenQuiet
<1> QED BY <1>5, <1>7, <1>8

\* The end of a block.
LEMMA ClaudeStops ==
  ASSUME NEW s \in ClaudeFiling
  PROVE  /\ StopThinking(s) \in ClaudeFiling /\ Spoken(StopThinking(s).out) = Spoken(s.out)
         /\ StopThinking(s).text = s.text /\ StopThinking(s).next = s.next
         /\ StopText(s) \in ClaudeFiling /\ Spoken(StopText(s).out) = Spoken(s.out)
<1> DEFINE y == [s EXCEPT !.thinkingOpen = FALSE]
           z == [s EXCEPT !.textOpen = FALSE]
           d == Event("close", "thought", s.thinking, 0)
           e == Event("close", "text", s.text, 0)
           b == Emit(y, << d >>)
           c == Emit(z, << e >>)
<1>1. /\ s \in ClaudeState /\ Filing(s.out, s.next, s.text, s.thinking) /\ s.out \in Seq(Ev)
      /\ s.next \in Int /\ s.text \in Int /\ s.thinking \in Int
  BY ClaudeFiled
<1>2. /\ y \in ClaudeState /\ y.out = s.out /\ y.next = s.next /\ y.text = s.text
      /\ y.thinking = s.thinking
  BY <1>1 DEF ClaudeState
<1>3. /\ z \in ClaudeState /\ z.out = s.out /\ z.next = s.next /\ z.text = s.text
      /\ z.thinking = s.thinking
  BY <1>1 DEF ClaudeState
<1>4. d \in Ev /\ d.stage = "close" /\ e \in Ev /\ e.stage = "close"
  <2>1. 0 \in Int /\ "close" \in Stage /\ "text" \in EvKind /\ "thought" \in EvKind  BY Words
  <2> QED BY <1>1, <2>1, EventIs
<1>5. StopThinking(s) = IF ~s.thinkingOpen THEN s ELSE b  BY DEF StopThinking
<1>6. StopText(s) = IF ~s.textOpen THEN s ELSE c  BY DEF StopText
<1> HIDE DEF y, z, d, e
<1>7. y \in ClaudeFiling /\ z \in ClaudeFiling  BY <1>1, <1>2, <1>3 DEF ClaudeFiling
<1>8. b \in ClaudeFiling /\ Spoken(b.out) = Spoken(y.out) /\ SameBlocks(y, b)
  BY <1>4, <1>7, ClaudeQuiet
<1>9. c \in ClaudeFiling /\ Spoken(c.out) = Spoken(z.out)
  BY <1>4, <1>7, ClaudeQuiet
<1> HIDE DEF b, c
<1>10. b.text = s.text /\ b.next = s.next /\ Spoken(b.out) = Spoken(s.out)
  BY <1>2, <1>8 DEF SameBlocks
<1>11. Spoken(c.out) = Spoken(s.out)  BY <1>3, <1>9
<1>12. StopThinking(s) \in {s, b} /\ StopText(s) \in {s, c}  BY <1>5, <1>6, Zenon
<1> QED BY <1>8, <1>9, <1>10, <1>11, <1>12

-----------------------------------------------------------------------------
(* Messages: filing parts. *)

\* What a part does to a Messages stream: it is filed, and heard as its kind.
Files1(s, p, r) == r \in ClaudeFiling /\ Spoken(r.out) = Hear("claude", Spoken(s.out), p)

\* A thought.
LEMMA ClaudeThoughtFiled ==
  ASSUME NEW s \in ClaudeFiling, NEW p \in PartSet, p.kind = "thought"
  PROVE  Files1(s, p, ClaudeThought(s, p))
<1> DEFINE z == [s EXCEPT !.thinking = s.next, !.thinkingOpen = TRUE, !.next = s.next + 1]
           a == Emit(z, << Event("open", "thought", s.next, 0) >>)
           r == IF s.thinking # Absent THEN s ELSE a
           x == r.thinking
<1>1. s \in ClaudeState /\ s.next \in Int /\ s.thinking \in Int  BY ClaudeFiled
<1>2. s.next \in Nat /\ s.next # Absent  BY ClaudeIndexes DEF Absent
<1>3. ClaudeThought(s, p) = Emit(r, << Event("delta", "thought", x, p.id) >>)
  BY DEF ClaudeThought
<1>4. /\ z \in ClaudeState /\ z.out = s.out /\ z.next = s.next + 1 /\ z.text = s.text
      /\ z.thinking = s.next
  <2>1. s.next + 1 \in Nat  BY <1>2
  <2> QED BY <2>1, <1>1 DEF ClaudeState
<1> HIDE DEF z
<1>5. a \in ClaudeFiling /\ Spoken(a.out) = Spoken(s.out) /\ a.thinking = s.next
  <2> DEFINE kind == "thought"
  <2>1. /\ kind \in {"text", "thought"}
        /\ z.text = IF kind = "text" THEN s.next ELSE s.text
        /\ z.thinking = IF kind = "thought" THEN s.next ELSE s.thinking
    <3>1. z.text = s.text /\ z.thinking = s.next  BY <1>4
    <3>2. "thought" # "text"  OBVIOUS
    <3> QED BY <3>1, <3>2, Zenon
  <2>1a. a = Emit(z, << Event("open", kind, s.next, 0) >>)  OBVIOUS
  <2> HIDE DEF kind, a
  <2>2. /\ a \in ClaudeFiling /\ Spoken(a.out) = Spoken(s.out)
        /\ a.text = z.text /\ a.thinking = z.thinking
    <3>1. Opens1(s, kind, z, a)  BY <1>4, <2>1, <2>1a DEF Opens1
    <3>2. s \in ClaudeFiling /\ kind \in {"text", "thought"}  BY <2>1
    <3> QED BY <3>1, <3>2, ClaudeOpened
  <2> QED BY <2>2, <1>4
<1> HIDE DEF a
<1>6. r \in ClaudeFiling /\ Spoken(r.out) = Spoken(s.out) /\ x # Absent
  BY <1>2, <1>5
<1> HIDE DEF r
<1>7. x \in Int  BY <1>6, ClaudeFiled
<1>8. "thought" = HeardAs("claude", p.kind)  BY DEF HeardAs, OpenAIKind
<1>9. x = IF "thought" = "text" THEN r.text ELSE r.thinking  OBVIOUS
<1> HIDE DEF x
<1>10. LET w == Emit(r, << Event("delta", "thought", x, p.id) >>) IN
       w \in ClaudeFiling /\ Spoken(w.out) = Hear("claude", Spoken(r.out), p)
  BY <1>6, <1>7, <1>8, <1>9, ClaudeTold
<1> QED BY <1>3, <1>6, <1>10 DEF Files1

\* Text, and an image, which is a link in it.
LEMMA ClaudeTextFiled ==
  ASSUME NEW s \in ClaudeFiling, NEW p \in PartSet, p.kind \in {"text", "image"}
  PROVE  Files1(s, p, ClaudeText(s, p))
<1> DEFINE t == StopThinking(s)
           z == [t EXCEPT !.text = t.next, !.textOpen = TRUE, !.next = t.next + 1]
           a == Emit(z, << Event("open", "text", t.next, 0) >>)
           r == IF t.text # Absent THEN t ELSE a
           x == r.text
<1>0. ClaudeText(s, p) = Emit(r, << Event("delta", "text", x, p.id) >>)  BY DEF ClaudeText
<1>1. t \in ClaudeFiling /\ Spoken(t.out) = Spoken(s.out)  BY ClaudeStops
<1> HIDE DEF t
<1>2. t \in ClaudeState /\ t.next \in Int /\ t.text \in Int  BY <1>1, ClaudeFiled
<1>3. t.next \in Nat /\ t.next # Absent  BY <1>1, ClaudeIndexes DEF Absent
<1>4. /\ z \in ClaudeState /\ z.out = t.out /\ z.next = t.next + 1 /\ z.text = t.next
      /\ z.thinking = t.thinking
  <2>1. t.next + 1 \in Nat  BY <1>3
  <2> QED BY <2>1, <1>2 DEF ClaudeState
<1> HIDE DEF z
<1>5. a \in ClaudeFiling /\ Spoken(a.out) = Spoken(t.out) /\ a.text = t.next
  <2> DEFINE kind == "text"
  <2>1. /\ kind \in {"text", "thought"}
        /\ z.text = IF kind = "text" THEN t.next ELSE t.text
        /\ z.thinking = IF kind = "thought" THEN t.next ELSE t.thinking
    BY <1>4
  <2>1a. a = Emit(z, << Event("open", kind, t.next, 0) >>)  OBVIOUS
  <2> HIDE DEF kind, a
  <2>2. /\ a \in ClaudeFiling /\ Spoken(a.out) = Spoken(t.out)
        /\ a.text = z.text /\ a.thinking = z.thinking
    <3>1. Opens1(t, kind, z, a)  BY <1>4, <2>1, <2>1a DEF Opens1
    <3>2. t \in ClaudeFiling /\ kind \in {"text", "thought"}  BY <1>1, <2>1
    <3> QED BY <3>1, <3>2, ClaudeOpened
  <2> QED BY <2>2, <1>4
<1> HIDE DEF a
<1>6. r \in ClaudeFiling /\ Spoken(r.out) = Spoken(s.out) /\ x # Absent
  BY <1>1, <1>3, <1>5
<1> HIDE DEF r
<1>7. x \in Int  BY <1>6, ClaudeFiled
<1>8. "text" = HeardAs("claude", p.kind)  BY DEF HeardAs, OpenAIKind
<1>9. x = IF "text" = "text" THEN r.text ELSE r.thinking  OBVIOUS
<1> HIDE DEF x
<1>10. LET w == Emit(r, << Event("delta", "text", x, p.id) >>) IN
       w \in ClaudeFiling /\ Spoken(w.out) = Hear("claude", Spoken(r.out), p)
  BY <1>6, <1>7, <1>8, <1>9, ClaudeTold
<1> QED BY <1>0, <1>6, <1>10 DEF Files1

\* A call.
LEMMA ClaudeCallFiled ==
  ASSUME NEW s \in ClaudeFiling, NEW p \in PartSet, p.kind = "call"
  PROVE  Files1(s, p, ClaudeCall(s, p))
<1> DEFINE n == s.next
           z == [s EXCEPT !.next = n + 1, !.tool = TRUE]
           c == Event("open", "call", n, 0)
           d == Event("delta", "call", n, p.id)
           e == Event("close", "call", n, 0)
           x == Emit(z, << c >>)
           y == Emit(x, << d >>)
           r == Emit(y, << e >>)
<1>1. /\ s \in ClaudeState /\ Filing(s.out, n, s.text, s.thinking) /\ s.out \in Seq(Ev)
      /\ n \in Int /\ s.text \in Int /\ s.thinking \in Int
  BY ClaudeFiled
<1>2. n \in Nat  BY ClaudeIndexes
<1>3. z \in ClaudeState /\ z.out = s.out /\ z.next = n + 1 /\ z.thinking = s.thinking /\ z.text = s.text
  <2>1. n + 1 \in Nat  BY <1>2
  <2> QED BY <2>1, <1>1 DEF ClaudeState
<1>4. p.id \in Int /\ p.id # 0  BY DEF PartSet
<1>5. /\ c \in Ev /\ c.stage = "open" /\ c.kind = "call" /\ c.index = n
      /\ e \in Ev /\ e.stage = "close"
  <2>1. "open" \in Stage /\ "close" \in Stage /\ "call" \in EvKind /\ 0 \in Int  BY Words
  <2> QED BY <1>1, <2>1, EventIs
<1>6. d \in Ev /\ d.stage = "delta" /\ d.kind = "call" /\ d.index = n /\ d.part = p.id
  <2>1. "delta" \in Stage /\ "call" \in EvKind  BY Words
  <2> QED BY <1>1, <1>4, <2>1, EventIs
<1>7. ClaudeCall(s, p) = r
  <2>1. ClaudeCall(s, p) = Emit(z, << c, d, e >>)  BY DEF ClaudeCall
  <2> HIDE DEF z, c, d, e
  <2> QED BY <2>1, <1>3, <1>5, <1>6, TellThree
<1> HIDE DEF z, c, d, e, n
<1>8. x \in ClaudeState /\ x.out = Append(s.out, c) /\ SameBlocks(z, x)  BY <1>3, <1>5, Tell
<1> HIDE DEF x
<1>9. y \in ClaudeState /\ y.out = Append(x.out, d) /\ SameBlocks(x, y)  BY <1>6, <1>8, Tell
<1> HIDE DEF y
<1>10. r \in ClaudeState /\ r.out = Append(y.out, e) /\ SameBlocks(y, r)  BY <1>5, <1>9, Tell
<1> HIDE DEF r
<1>11. r.next = n + 1 /\ r.text = s.text /\ r.thinking = s.thinking
  BY <1>3, <1>8, <1>9, <1>10 DEF SameBlocks
<1>12. Filing(Append(Append(Append(s.out, c), d), e), n + 1, s.text, s.thinking)
  BY <1>1, <1>4, <1>5, <1>6, FilingCall
<1>13. r \in ClaudeFiling
  BY <1>8, <1>9, <1>10, <1>11, <1>12 DEF ClaudeFiling
<1>14. Spoken(x.out) = Spoken(s.out)  BY <1>1, <1>5, <1>8, SpokenQuiet
<1>15. Spoken(y.out) = Hear("claude", Spoken(x.out), p)
  <2>1. x.out \in Seq(Ev) /\ d.kind = HeardAs("claude", p.kind)
    BY <1>6, <1>8 DEF ClaudeState, HeardAs, OpenAIKind
  <2> QED BY <2>1, <1>6, <1>9, SpokenPart
<1>16. Spoken(r.out) = Spoken(y.out)
  <2>1. y.out \in Seq(Ev)  BY <1>9 DEF ClaudeState
  <2> QED BY <2>1, <1>5, <1>10, SpokenQuiet
<1> QED BY <1>7, <1>13, <1>14, <1>15, <1>16 DEF Files1

\* Any part.
LEMMA ClaudePartFiled ==
  ASSUME NEW s \in ClaudeFiling, NEW p \in PartSet
  PROVE  Files1(s, p, ClaudePart(s, p))
<1>1. p.kind \in Kind  BY DEF PartSet
<1>2. CASE p.kind = "thought"
  <2>1. ClaudePart(s, p) = ClaudeThought(s, p)  BY <1>2 DEF ClaudePart
  <2> QED BY <2>1, <1>2, ClaudeThoughtFiled
<1>3. CASE p.kind \in {"text", "image"}
  <2>1. ClaudePart(s, p) = ClaudeText(s, p)  BY <1>3 DEF ClaudePart
  <2> QED BY <2>1, <1>3, ClaudeTextFiled
<1>4. CASE p.kind = "call"
  <2>1. ClaudePart(s, p) = ClaudeCall(s, p)  BY <1>4 DEF ClaudePart
  <2> QED BY <2>1, <1>4, ClaudeCallFiled
<1> QED BY <1>1, <1>2, <1>3, <1>4 DEF Kind

-----------------------------------------------------------------------------
(* Messages: filing frames and chunks. *)

\* The first pieces of a sequence.
LEMMA SubSeqAll ==
  ASSUME NEW D, NEW q \in Seq(D)
  PROVE  SubSeq(q, 1, Len(q)) = q /\ SubSeq(q, 1, 0) = << >>
OBVIOUS

\* What is heard of the first i parts.
HeardTo(f, m, q, i, out) == Spoken(out) = Heard(f, m, SubSeq(q, 1, i))

\* Before the first part of a frame nothing of it is heard.
LEMMA HeardFirst ==
  ASSUME NEW f, NEW out \in Seq(Ev), NEW q \in Seq(PartSet)
  PROVE  HeardTo(f, Spoken(out), q, 0, out)
BY SubSeqAll, HearNone, SpokenTyped DEF HeardTo

\* One part more of a frame is heard.
LEMMA HeardStep ==
  ASSUME NEW f, NEW m \in Hearing, NEW q \in Seq(PartSet), NEW i \in 1 .. Len(q), NEW a, NEW b,
         HeardTo(f, m, q, i - 1, a), Spoken(b) = Hear(f, Spoken(a), q[i])
  PROVE  HeardTo(f, m, q, i, b)
<1>1. Spoken(a) = Heard(f, m, SubSeq(q, 1, i - 1))  BY DEF HeardTo
<1>2. Heard(f, m, SubSeq(q, 1, i)) = Hear(f, Heard(f, m, SubSeq(q, 1, i - 1)), q[i])  BY HearNext
<1> QED BY <1>1, <1>2, Zenon DEF HeardTo

\* All parts of a frame are heard.
LEMMA HeardAll ==
  ASSUME NEW f, NEW m, NEW q \in Seq(PartSet), NEW out, HeardTo(f, m, q, Len(q), out)
  PROVE  Spoken(out) = Heard(f, m, q)
BY SubSeqAll DEF HeardTo

\* The parts of a frame.
LEMMA ClaudePartsFiled ==
  ASSUME NEW s \in ClaudeFiling, NEW q \in Seq(PartSet), NEW r, r = FoldLeft(ClaudePart, s, q)
  PROVE  r \in ClaudeFiling /\ Spoken(r.out) = Heard("claude", Spoken(s.out), q)
<1> DEFINE V == ClaudeFiling
           m == Spoken(s.out)
           J == { w \in Nat \X V : HeardTo("claude", m, q, w[1], w[2].out) }
           t == FoldLeft(ClaudePart, s, q)
<1>1. s \in V /\ s.out \in Seq(Ev)  BY ClaudeFiled
<1>2. m \in Hearing  BY <1>1, SpokenTyped
<1>3. \A v \in V, d \in PartSet : ClaudePart(v, d) \in V  BY ClaudePartFiled DEF Files1
<1>4. << 0, s >> \in J
  <2>1. HeardTo("claude", m, q, 0, s.out)  BY <1>1, HeardFirst
  <2> HIDE DEF m, V
  <2> QED BY <1>1, <2>1
<1>5. \A i \in 1 .. Len(q), v \in V : << i - 1, v >> \in J => << i, ClaudePart(v, q[i]) >> \in J
  <2>1. SUFFICES ASSUME NEW i \in 1 .. Len(q), NEW v \in V, << i - 1, v >> \in J
                 PROVE  << i, ClaudePart(v, q[i]) >> \in J
    OBVIOUS
  <2> DEFINE y == ClaudePart(v, q[i])
  <2>2. q[i] \in PartSet /\ i \in Nat  OBVIOUS
  <2>3. HeardTo("claude", m, q, i - 1, v.out)  BY <2>1
  <2>4. y \in V /\ Spoken(y.out) = Hear("claude", Spoken(v.out), q[i])
    BY <2>2, ClaudePartFiled DEF Files1
  <2> HIDE DEF y, m, V
  <2>5. HeardTo("claude", m, q, i, y.out)  BY <1>2, <2>3, <2>4, HeardStep
  <2>6. << i, y >> \in J  BY <2>2, <2>4, <2>5
  <2> QED BY <2>6 DEF y
<1> HIDE DEF J, V, m
<1>6. t \in V /\ << Len(q), t >> \in J  BY <1>1, <1>3, <1>4, <1>5, ClaudeParts
<1> HIDE DEF t
<1>7. HeardTo("claude", m, q, Len(q), t.out)  BY <1>6 DEF J
<1>8. Spoken(t.out) = Heard("claude", m, q)  BY <1>7, HeardAll
<1>9. r = t  BY DEF t
<1> QED BY <1>6, <1>8, <1>9 DEF m, V

\* The start of a stream says nothing.
LEMMA ClaudeBegunFiled ==
  ASSUME NEW s \in ClaudeFiling
  PROVE  ClaudeBegun(s) \in ClaudeFiling /\ Spoken(ClaudeBegun(s).out) = Spoken(s.out)
<1> DEFINE first == Event("start", "none", 0, 0)
           z == [s EXCEPT !.started = TRUE]
           a == Emit(z, << first >>)
<1>1. first \in Ev /\ first.stage = "start"  BY Words, EventIs
<1>2. s \in ClaudeState /\ Filing(s.out, s.next, s.text, s.thinking)  BY ClaudeFiled
<1>3. /\ z \in ClaudeState /\ z.out = s.out /\ z.next = s.next /\ z.thinking = s.thinking
      /\ z.text = s.text
  BY <1>2 DEF ClaudeState
<1> HIDE DEF z, first
<1>4. z \in ClaudeFiling  BY <1>2, <1>3 DEF ClaudeFiling
<1>5. a \in ClaudeFiling /\ Spoken(a.out) = Spoken(z.out)  BY <1>1, <1>4, ClaudeQuiet
<1> HIDE DEF a
<1> QED BY <1>3, <1>5 DEF ClaudeBegun, a, z, first

\* Any frame.
LEMMA ClaudeFrameFiled ==
  ASSUME NEW s \in ClaudeFiling, NEW f \in FrameSet
  PROVE  LET r == ClaudeFrame(s, f) IN
         r \in ClaudeFiling /\ Spoken(r.out) = Heard("claude", Spoken(s.out), f.parts)
<1> DEFINE begun == ClaudeBegun(s)
           told == FoldLeft(ClaudePart, begun, f.parts)
           x == StopText(told)
           y == StopThinking(x)
           c == IF told.tool THEN "call" ELSE f.finish
           d == Event("stop_reason", c, 0, 0)
           e == Event("finish", c, 0, 0)
           g == Emit(y, << d >>)
           h == Emit(g, << e >>)
           r == ClaudeFrame(s, f)
<1>1. f.parts \in Seq(PartSet) /\ c \in EvKind /\ (f.blocked => f.parts = << >>)
  BY DEF FrameSet, EvKind
<1>2. begun \in ClaudeFiling /\ Spoken(begun.out) = Spoken(s.out)  BY ClaudeBegunFiled
<1> HIDE DEF begun
<1>3. told \in ClaudeFiling /\ Spoken(told.out) = Heard("claude", Spoken(s.out), f.parts)
  <2> DEFINE t == told
  <2>1. t = FoldLeft(ClaudePart, begun, f.parts)  OBVIOUS
  <2> HIDE DEF t
  <2>2. t \in ClaudeFiling /\ Spoken(t.out) = Heard("claude", Spoken(begun.out), f.parts)
    BY <1>1, <1>2, <2>1, ClaudePartsFiled
  <2> QED BY <1>2, <2>2 DEF t
<1>4. r = CASE f.blocked -> s
            [] ~f.blocked /\ f.finish = "none" -> told
            [] OTHER -> Emit(y, << d, e >>)
  BY DEF ClaudeFrame, ClaudeFinish, ClaudeBegun, begun
<1> HIDE DEF told, r, c
<1>5. x \in ClaudeFiling /\ Spoken(x.out) = Spoken(told.out)  BY <1>3, ClaudeStops
<1> HIDE DEF x
<1>6. y \in ClaudeFiling /\ Spoken(y.out) = Spoken(x.out)  BY <1>5, ClaudeStops
<1> HIDE DEF y
<1>7. d \in Ev /\ d.stage = "stop_reason" /\ e \in Ev /\ e.stage = "finish"
  <2>1. "stop_reason" \in Stage /\ "finish" \in Stage /\ 0 \in Int  BY Words
  <2> QED BY <1>1, <2>1, EventIs
<1> HIDE DEF d, e
<1>8. g \in ClaudeFiling /\ Spoken(g.out) = Spoken(y.out)  BY <1>6, <1>7, ClaudeQuiet
<1>9. Emit(y, << d, e >>) = h
  <2>1. y \in ClaudeState  BY <1>6, ClaudeFiled
  <2> QED BY <2>1, <1>7, TellThree
<1> HIDE DEF g
<1>10. h \in ClaudeFiling /\ Spoken(h.out) = Spoken(g.out)  BY <1>7, <1>8, ClaudeQuiet
<1> HIDE DEF h
<1>11. CASE f.blocked
  <2>1. s.out \in Seq(Ev)  BY ClaudeFiled
  <2>2. Spoken(s.out) \in Hearing  BY <2>1, SpokenTyped
  <2>3. Heard("claude", Spoken(s.out), f.parts) = Spoken(s.out)  BY <2>2, <1>1, <1>11, HearNone
  <2>4. r = s  BY <1>4, <1>11
  <2> QED BY <2>3, <2>4 DEF r
<1>12. CASE ~f.blocked /\ f.finish = "none"
  <2>1. r = told  BY <1>4, <1>12
  <2> QED BY <2>1, <1>3 DEF r
<1>13. CASE ~f.blocked /\ f.finish # "none"
  <2>1. r = h  BY <1>4, <1>9, <1>13
  <2> QED BY <2>1, <1>3, <1>5, <1>6, <1>8, <1>10 DEF r
<1> QED BY <1>11, <1>12, <1>13

\* A chunk that is one whole frame; any other is not read.
ReadOf(chunk) == IF Readable(chunk) THEN chunk[1].parts ELSE << >>

\* What a chunk read as one frame says.
LEMMA ReadTyped ==
  ASSUME NEW chunk \in Seq(FrameSet)
  PROVE  ReadOf(chunk) \in Seq(PartSet)
<1>1. Readable(chunk) => chunk[1] \in FrameSet  BY DEF Readable
<1>2. \A f \in FrameSet : f.parts \in Seq(PartSet)  BY DEF FrameSet
<1>3. << >> \in Seq(PartSet)  OBVIOUS
<1> QED BY <1>1, <1>2, <1>3 DEF ReadOf

\* A Messages chunk is heard and filed, if it is one frame.
LEMMA ClaudeChunkFiled ==
  ASSUME NEW s \in ClaudeFiling, NEW chunk \in Seq(FrameSet)
  PROVE  LET r == ClaudeChunk(s, chunk) IN
         r \in ClaudeFiling /\ Spoken(r.out) = Heard("claude", Spoken(s.out), ReadOf(chunk))
<1> DEFINE r == ClaudeChunk(s, chunk)
<1>1. CASE Readable(chunk)
  <2>1. chunk[1] \in FrameSet  BY <1>1 DEF Readable
  <2>2. r = ClaudeFrame(s, chunk[1]) /\ ReadOf(chunk) = chunk[1].parts  BY <1>1 DEF ClaudeChunk, ReadOf
  <2> HIDE DEF r
  <2>3. r \in ClaudeFiling /\ Spoken(r.out) = Heard("claude", Spoken(s.out), ReadOf(chunk))
    BY <2>1, <2>2, ClaudeFrameFiled
  <2> QED BY <2>3 DEF r
<1>2. CASE ~Readable(chunk)
  <2>1. r = s /\ ReadOf(chunk) = << >>  BY <1>2 DEF ClaudeChunk, ReadOf
  <2>2. s.out \in Seq(Ev)  BY ClaudeFiled
  <2>3. Spoken(s.out) \in Hearing  BY <2>2, SpokenTyped
  <2>4. Heard("claude", Spoken(s.out), << >>) = Spoken(s.out)  BY <2>3, HearNone
  <2> HIDE DEF r
  <2>5. r \in ClaudeFiling /\ Spoken(r.out) = Heard("claude", Spoken(s.out), ReadOf(chunk))
    BY <2>1, <2>4
  <2> QED BY <2>5 DEF r
<1> QED BY <1>1, <1>2

-----------------------------------------------------------------------------
(* Responses: parts that are heard. *)

\* An image a Responses client is only noticed of.
LEMMA HearNothing ==
  ASSUME NEW m \in Hearing, NEW p \in PartSet, p.kind = "image"
  PROVE  Hear("responses", m, p) = m
<1>1. HeardAs("responses", p.kind) = "none"  BY DEF HeardAs
<1>2. \A k \in PartKinds : k # "none"  BY DEF PartKinds
<1>3. Hear("responses", m, p) = [k \in PartKinds |-> m[k]]  BY <1>1, <1>2, Zenon DEF Hear
<1> QED BY <1>3 DEF Hearing

\* A Responses event that carries nothing, and one that carries a part.
LEMMA PushQuiet ==
  ASSUME NEW s \in ResponsesState, NEW stage \in Stage, NEW kind \in EvKind, NEW index \in Int
  PROVE  LET r == Push(s, stage, kind, index, 0) IN
         r \in ResponsesState /\ Spoken(r.out) = Spoken(s.out)
<1> DEFINE r == Push(s, stage, kind, index, 0)
           e == EventAt(stage, kind, index, 0, s.seq + 1)
<1>0. 0 \in Int /\ s.out \in Seq(Ev)  BY DEF ResponsesState
<1>1. r \in ResponsesState /\ e \in Ev /\ r.out = Append(s.out, e)  BY <1>0, PushIs
<1>2. e.part = 0  BY DEF EventAt
<1> HIDE DEF r, e
<1>3. Spoken(r.out) = Spoken(s.out)  BY <1>0, <1>1, <1>2, SpokenQuiet
<1> QED BY <1>1, <1>3 DEF r

\* An event that tells a part.
LEMMA PushPart ==
  ASSUME NEW s \in ResponsesState, NEW p \in PartSet, NEW kind \in EvKind, NEW index \in Int,
         kind = HeardAs("responses", p.kind)
  PROVE  LET r == Push(s, "delta", kind, index, p.id) IN
         r \in ResponsesState /\ Spoken(r.out) = Hear("responses", Spoken(s.out), p)
<1> DEFINE id == p.id
           r == Push(s, "delta", kind, index, id)
           e == EventAt("delta", kind, index, id, s.seq + 1)
<1>0. id \in Int /\ s.out \in Seq(Ev) /\ "delta" \in Stage  BY Words DEF ResponsesState, PartSet
<1>1. r \in ResponsesState /\ e \in Ev /\ r.out = Append(s.out, e)
  <2> HIDE DEF id
  <2> QED BY <1>0, PushIs
<1>2. e.stage = "delta" /\ e.part = p.id /\ e.kind = kind  BY DEF EventAt
<1> HIDE DEF r, e
<1>3. Spoken(r.out) = Hear("responses", Spoken(s.out), p)  BY <1>0, <1>1, <1>2, SpokenPart
<1> QED BY <1>1, <1>3 DEF r

\* The items, opened when they are first needed.
LEMMA EnsuredSpoken ==
  ASSUME NEW s \in ResponsesState
  PROVE  /\ EnsureMessageItem(s) \in ResponsesState
         /\ Spoken(EnsureMessageItem(s).out) = Spoken(s.out)
         /\ EnsureReasoningItem(s) \in ResponsesState
         /\ Spoken(EnsureReasoningItem(s).out) = Spoken(s.out)
<1> DEFINE n == s.next
           m == n + 1
           y == [s EXCEPT !.message = n, !.next = m]
           z == [s EXCEPT !.reasoning = n, !.next = m]
           a == Push(y, "open", "text", n, 0)
           b == Push(z, "open", "thought", n, 0)
           c == Push(a, "open_part", "text", n, 0)
           d == Push(b, "open_part", "thought", n, 0)
<1>1. n \in Nat /\ n \in Int /\ m \in Nat /\ m \in Int  BY DEF ResponsesState
<1>2. y \in ResponsesState /\ y.out = s.out /\ z \in ResponsesState /\ z.out = s.out
  <2> HIDE DEF n, m
  <2> QED BY <1>1 DEF ResponsesState
<1>3. EnsureMessageItem(s) = IF s.message # Absent THEN s ELSE c  BY DEF EnsureMessageItem
<1>4. EnsureReasoningItem(s) = IF s.reasoning # Absent THEN s ELSE d  BY DEF EnsureReasoningItem
<1> HIDE DEF n, m, y, z
<1>5. a \in ResponsesState /\ Spoken(a.out) = Spoken(s.out)  BY <1>1, <1>2, Words, PushQuiet
<1>6. b \in ResponsesState /\ Spoken(b.out) = Spoken(s.out)  BY <1>1, <1>2, Words, PushQuiet
<1> HIDE DEF a, b
<1>7. c \in ResponsesState /\ Spoken(c.out) = Spoken(s.out)  BY <1>1, <1>5, Words, PushQuiet
<1>8. d \in ResponsesState /\ Spoken(d.out) = Spoken(s.out)  BY <1>1, <1>6, Words, PushQuiet
<1> HIDE DEF c, d
<1> QED BY <1>3, <1>4, <1>7, <1>8

\* Any part.
LEMMA ResponsesPartSpoken ==
  ASSUME NEW s \in ResponsesState, NEW p \in PartSet
  PROVE  Spoken(ResponsesPart(s, p).out) = Hear("responses", Spoken(s.out), p)
<1>1. p.kind \in Kind /\ s.out \in Seq(Ev) /\ p.id \in Int /\ 0 \in Int  BY DEF PartSet, ResponsesState
<1>1a. Spoken(s.out) \in Hearing  BY <1>1, SpokenTyped
<1>2. CASE p.kind = "thought"
  <2> DEFINE r == EnsureReasoningItem(s)
             x == r.reasoning
  <2>1. ResponsesPart(s, p) = Push(r, "delta", "thought", x, p.id)  BY <1>2 DEF ResponsesPart
  <2>2. r \in ResponsesState /\ Spoken(r.out) = Spoken(s.out)  BY EnsuredSpoken
  <2> HIDE DEF r
  <2>3. x \in Int  BY <2>2 DEF ResponsesState
  <2>4. "thought" = HeardAs("responses", p.kind) /\ "thought" \in EvKind  BY <1>2, Words DEF HeardAs
  <2> HIDE DEF x
  <2>5. Spoken(Push(r, "delta", "thought", x, p.id).out) = Hear("responses", Spoken(r.out), p)
    BY <2>2, <2>3, <2>4, PushPart
  <2> QED BY <2>1, <2>2, <2>5
<1>3. CASE p.kind = "text"
  <2> DEFINE r == EnsureMessageItem(s)
             x == r.message
  <2>1. ResponsesPart(s, p) = Push(r, "delta", "text", x, p.id)  BY <1>3 DEF ResponsesPart
  <2>2. r \in ResponsesState /\ Spoken(r.out) = Spoken(s.out)  BY EnsuredSpoken
  <2> HIDE DEF r
  <2>3. x \in Int  BY <2>2 DEF ResponsesState
  <2>4. "text" = HeardAs("responses", p.kind) /\ "text" \in EvKind  BY <1>3, Words DEF HeardAs
  <2> HIDE DEF x
  <2>5. Spoken(Push(r, "delta", "text", x, p.id).out) = Hear("responses", Spoken(r.out), p)
    BY <2>2, <2>3, <2>4, PushPart
  <2> QED BY <2>1, <2>2, <2>5
<1>4. CASE p.kind = "image" /\ ~s.noticed
  <2> DEFINE z == [s EXCEPT !.noticed = TRUE]
             r == EnsureMessageItem(z)
             x == r.message
  <2>1. ResponsesPart(s, p) = Push(r, "delta", "notice", x, 0)  BY <1>4 DEF ResponsesPart
  <2>2. z \in ResponsesState /\ z.out = s.out  BY DEF ResponsesState
  <2> HIDE DEF z
  <2>3. r \in ResponsesState /\ Spoken(r.out) = Spoken(s.out)  BY <2>2, EnsuredSpoken
  <2> HIDE DEF r
  <2>4. x \in Int  BY <2>3 DEF ResponsesState
  <2> HIDE DEF x
  <2>5. Spoken(Push(r, "delta", "notice", x, 0).out) = Spoken(r.out)
    BY <2>3, <2>4, Words, PushQuiet
  <2> QED BY <1>1a, <1>4, <2>1, <2>3, <2>5, HearNothing
<1>5. CASE p.kind = "image" /\ s.noticed
  <2>1. ResponsesPart(s, p) = s  BY <1>5 DEF ResponsesPart
  <2> QED BY <1>1a, <1>5, <2>1, HearNothing
<1>6. CASE p.kind = "call"
  <2> DEFINE n == s.next
             a == Push(s, "open", "call", n, 0)
             b == Push(a, "delta", "call", n, p.id)
             c == Push(b, "close", "call", n, 0)
  <2>1. ResponsesPart(s, p) = PushCall(s, p)  BY <1>6 DEF ResponsesPart
  <2>2. PushCall(s, p).out = c.out
    <3>1. PushCall(s, p) = [c EXCEPT !.next = @ + 1]  BY DEF PushCall
    <3> HIDE DEF c
    <3>2. [c EXCEPT !.next = @ + 1].out = c.out  OBVIOUS
    <3> QED BY <3>1, <3>2
  <2>3. n \in Int  BY DEF ResponsesState
  <2> HIDE DEF n
  <2>4. a \in ResponsesState /\ Spoken(a.out) = Spoken(s.out)  BY <2>3, Words, PushQuiet
  <2> HIDE DEF a
  <2>5. "call" = HeardAs("responses", p.kind) /\ "call" \in EvKind  BY <1>6, Words DEF HeardAs
  <2>6. b \in ResponsesState /\ Spoken(b.out) = Hear("responses", Spoken(a.out), p)
    BY <2>3, <2>4, <2>5, PushPart
  <2> HIDE DEF b
  <2>7. Spoken(c.out) = Spoken(b.out)  BY <2>3, <2>6, Words, PushQuiet
  <2> QED BY <2>1, <2>2, <2>4, <2>6, <2>7
<1> QED BY <1>1, <1>2, <1>3, <1>4, <1>5, <1>6 DEF Kind

-----------------------------------------------------------------------------
(* Responses: frames and chunks that are heard. *)

\* The parts of a frame.
LEMMA ResponsesPartsSpoken ==
  ASSUME NEW s \in ResponsesState, NEW q \in Seq(PartSet), NEW r, r = FoldLeft(ResponsesPart, s, q)
  PROVE  r \in ResponsesState /\ Spoken(r.out) = Heard("responses", Spoken(s.out), q)
<1> DEFINE V == ResponsesState
           m == Spoken(s.out)
           J == { w \in Nat \X V : HeardTo("responses", m, q, w[1], w[2].out) }
           t == FoldLeft(ResponsesPart, s, q)
<1>1. s \in V /\ s.out \in Seq(Ev)  BY DEF ResponsesState
<1>2. m \in Hearing  BY <1>1, SpokenTyped
<1>3. \A v \in V, d \in PartSet : ResponsesPart(v, d) \in V  BY ResponsesPartTyped
<1>4. << 0, s >> \in J
  <2>1. HeardTo("responses", m, q, 0, s.out)  BY <1>1, HeardFirst
  <2> HIDE DEF m, V
  <2> QED BY <1>1, <2>1
<1>5. \A i \in 1 .. Len(q), v \in V : << i - 1, v >> \in J => << i, ResponsesPart(v, q[i]) >> \in J
  <2>1. SUFFICES ASSUME NEW i \in 1 .. Len(q), NEW v \in V, << i - 1, v >> \in J
                 PROVE  << i, ResponsesPart(v, q[i]) >> \in J
    OBVIOUS
  <2> DEFINE y == ResponsesPart(v, q[i])
  <2>2. q[i] \in PartSet /\ i \in Nat  OBVIOUS
  <2>3. HeardTo("responses", m, q, i - 1, v.out)  BY <2>1
  <2>4. y \in V /\ Spoken(y.out) = Hear("responses", Spoken(v.out), q[i])
    BY <2>2, ResponsesPartTyped, ResponsesPartSpoken
  <2> HIDE DEF y, m, V
  <2>5. HeardTo("responses", m, q, i, y.out)  BY <1>2, <2>3, <2>4, HeardStep
  <2>6. << i, y >> \in J  BY <2>2, <2>4, <2>5
  <2> QED BY <2>6 DEF y
<1> HIDE DEF J, V, m
<1>6. t \in V /\ << Len(q), t >> \in J  BY <1>1, <1>3, <1>4, <1>5, ResponsesParts
<1> HIDE DEF t
<1>7. HeardTo("responses", m, q, Len(q), t.out)  BY <1>6 DEF J
<1>8. Spoken(t.out) = Heard("responses", m, q)  BY <1>7, HeardAll
<1>9. r = t  BY DEF t
<1> QED BY <1>6, <1>8, <1>9 DEF m, V

\* The ends of the items.
LEMMA FinalizedSpoken ==
  ASSUME NEW s \in ResponsesState
  PROVE  /\ FinalizeReasoningItem(s) \in ResponsesState
         /\ Spoken(FinalizeReasoningItem(s).out) = Spoken(s.out)
         /\ FinalizeMessageItem(s) \in ResponsesState
         /\ Spoken(FinalizeMessageItem(s).out) = Spoken(s.out)
<1>1. ASSUME NEW kind \in EvKind, NEW x \in Int, NEW a, a = Push(s, "text_done", kind, x, 0),
             NEW b, b = Push(a, "close_part", kind, x, 0), NEW c, c = Push(b, "close", kind, x, 0)
      PROVE  c \in ResponsesState /\ Spoken(c.out) = Spoken(s.out)
  <2>1. a \in ResponsesState /\ Spoken(a.out) = Spoken(s.out)  BY <1>1, Words, PushQuiet
  <2>2. LET d == Push(a, "close_part", kind, x, 0) IN d \in ResponsesState /\ Spoken(d.out) = Spoken(a.out)
    BY <2>1, Words, PushQuiet
  <2>3. b \in ResponsesState /\ Spoken(b.out) = Spoken(a.out)  BY <1>1, <2>2
  <2>4. LET d == Push(b, "close", kind, x, 0) IN d \in ResponsesState /\ Spoken(d.out) = Spoken(b.out)
    BY <2>3, Words, PushQuiet
  <2>5. c \in ResponsesState /\ Spoken(c.out) = Spoken(b.out)  BY <1>1, <2>4
  <2> QED BY <2>1, <2>3, <2>5
<1> DEFINE g == s.reasoning
           m == s.message
           a == Push(s, "text_done", "thought", g, 0)
           b == Push(a, "close_part", "thought", g, 0)
           c == Push(b, "close", "thought", g, 0)
           x == Push(s, "text_done", "text", m, 0)
           y == Push(x, "close_part", "text", m, 0)
           z == Push(y, "close", "text", m, 0)
<1>2. g \in Int /\ m \in Int  BY DEF ResponsesState
<1>3. FinalizeReasoningItem(s) = IF g = Absent THEN s ELSE c  BY DEF FinalizeReasoningItem
<1>4. FinalizeMessageItem(s) = IF m = Absent THEN s ELSE z  BY DEF FinalizeMessageItem
<1> HIDE DEF g, m
<1>5. a = Push(s, "text_done", "thought", g, 0) /\ x = Push(s, "text_done", "text", m, 0)  OBVIOUS
<1> HIDE DEF a, x
<1>6. b = Push(a, "close_part", "thought", g, 0) /\ y = Push(x, "close_part", "text", m, 0)  OBVIOUS
<1> HIDE DEF b, y
<1>7. c = Push(b, "close", "thought", g, 0) /\ z = Push(y, "close", "text", m, 0)  OBVIOUS
<1> HIDE DEF c, z
<1>8. c \in ResponsesState /\ Spoken(c.out) = Spoken(s.out)  BY <1>1, <1>2, <1>5, <1>6, <1>7, Words
<1>9. z \in ResponsesState /\ Spoken(z.out) = Spoken(s.out)  BY <1>1, <1>2, <1>5, <1>6, <1>7, Words
<1> QED BY <1>3, <1>4, <1>8, <1>9

\* Any frame.
LEMMA ResponsesFrameSpoken ==
  ASSUME NEW s \in ResponsesState, NEW f \in FrameSet
  PROVE  Spoken(ResponsesFrame(s, f).out) = Heard("responses", Spoken(s.out), f.parts)
<1> DEFINE z == [s EXCEPT !.created = TRUE]
           y == Push(z, "start", "none", 0, 0)
           x == Push(y, "start", "none", 0, 0)
           begun == IF s.created THEN s ELSE x
           told == FoldLeft(ResponsesPart, begun, f.parts)
           a == FinalizeReasoningItem(told)
           b == FinalizeMessageItem(a)
           c == Push(b, "finish", f.finish, 0, 0)
           d == [c EXCEPT !.completed = TRUE]
           r == ResponsesFrame(s, f)
<1>1. f.parts \in Seq(PartSet) /\ f.finish \in EvKind /\ (f.blocked => f.parts = << >>) /\ 0 \in Int
  BY DEF FrameSet, EvKind
<1>2. r = CASE f.blocked -> s
            [] ~f.blocked /\ (f.finish = "none" \/ told.completed) -> told
            [] OTHER -> d
  BY DEF ResponsesFrame
<1>3. z \in ResponsesState /\ z.out = s.out  BY DEF ResponsesState
<1> HIDE DEF z, r
<1>4. y \in ResponsesState /\ Spoken(y.out) = Spoken(s.out)
  <2>1. y \in ResponsesState /\ Spoken(y.out) = Spoken(z.out)  BY <1>1, <1>3, Words, PushQuiet
  <2> QED BY <1>3, <2>1
<1> HIDE DEF y
<1>5. x \in ResponsesState /\ Spoken(x.out) = Spoken(s.out)  BY <1>1, <1>4, Words, PushQuiet
<1> HIDE DEF x
<1>6. begun \in ResponsesState /\ Spoken(begun.out) = Spoken(s.out)  BY <1>5
<1> HIDE DEF begun
<1>7. told \in ResponsesState /\ Spoken(told.out) = Heard("responses", Spoken(s.out), f.parts)
  <2> DEFINE t == told
  <2>1. t = FoldLeft(ResponsesPart, begun, f.parts)  OBVIOUS
  <2> HIDE DEF t
  <2>2. t \in ResponsesState /\ Spoken(t.out) = Heard("responses", Spoken(begun.out), f.parts)
    BY <1>1, <1>6, <2>1, ResponsesPartsSpoken
  <2> QED BY <1>6, <2>2 DEF t
<1> HIDE DEF told
<1>8. a \in ResponsesState /\ Spoken(a.out) = Spoken(told.out)  BY <1>7, FinalizedSpoken
<1> HIDE DEF a
<1>9. b \in ResponsesState /\ Spoken(b.out) = Spoken(a.out)  BY <1>8, FinalizedSpoken
<1> HIDE DEF b
<1>10. c \in ResponsesState /\ Spoken(c.out) = Spoken(b.out)  BY <1>1, <1>9, Words, PushQuiet
<1> HIDE DEF c
<1>11. d.out = c.out  BY <1>10 DEF ResponsesState
<1> HIDE DEF d
<1>12. CASE f.blocked
  <2>1. s.out \in Seq(Ev)  BY DEF ResponsesState
  <2>2. Spoken(s.out) \in Hearing  BY <2>1, SpokenTyped
  <2>3. Heard("responses", Spoken(s.out), f.parts) = Spoken(s.out)  BY <2>2, <1>1, <1>12, HearNone
  <2>4. r = s  BY <1>2, <1>12
  <2> QED BY <2>3, <2>4 DEF r
<1>13. CASE ~f.blocked /\ (f.finish = "none" \/ told.completed)
  <2>1. r = told  BY <1>2, <1>13, Zenon
  <2> QED BY <2>1, <1>7 DEF r
<1>14. CASE ~f.blocked /\ ~(f.finish = "none" \/ told.completed)
  <2>1. r = d  BY <1>2, <1>14, Zenon
  <2> QED BY <2>1, <1>7, <1>8, <1>9, <1>10, <1>11 DEF r
<1> QED BY <1>12, <1>13, <1>14

\* A sequence one longer.
LEMMA SubSeqNext ==
  ASSUME NEW D, NEW q \in Seq(D), NEW i \in 1 .. Len(q)
  PROVE  /\ SubSeq(q, 1, i) = Append(SubSeq(q, 1, i - 1), q[i])
         /\ SubSeq(q, 1, i - 1) \in Seq(D) /\ q[i] \in D
<1> DEFINE a == SubSeq(q, 1, i - 1)
           b == Append(a, q[i])
           c == SubSeq(q, 1, i)
<1>1. a \in Seq(D) /\ c \in Seq(D) /\ q[i] \in D /\ Len(a) = i - 1 /\ Len(c) = i  OBVIOUS
<1>2. \A j \in 1 .. i - 1 : a[j] = q[j]  OBVIOUS
<1>3. \A j \in 1 .. i : c[j] = q[j]  OBVIOUS
<1> HIDE DEF a, c
<1>4. b \in Seq(D) /\ Len(b) = i /\ b[i] = q[i] /\ \A j \in 1 .. i - 1 : b[j] = a[j]
  BY <1>1
<1> HIDE DEF b
<1>5. \A j \in 1 .. i : b[j] = c[j]
  <2>1. \A j \in 1 .. i : j = i \/ j \in 1 .. i - 1  OBVIOUS
  <2> QED BY <2>1, <1>2, <1>3, <1>4
<1>6. b = c  BY <1>1, <1>4, <1>5, SeqEqual
<1> QED BY <1>1, <1>6 DEF a, b, c

\* A chunk: the parts of its whole frames.
WholeParts == [f \in FrameSet |-> IF f.torn THEN << >> ELSE f.parts]

\* What the whole frames say.
LEMMA WholeMakes == Maker(WholeParts, FrameSet, PartSet)
<1>1. \A f \in FrameSet : f.parts \in Seq(PartSet)  BY DEF FrameSet
<1>2. << >> \in Seq(PartSet)  OBVIOUS
<1> QED BY <1>1, <1>2 DEF Maker, WholeParts

\* A Responses chunk is heard but for its torn frames.
LEMMA ResponsesChunkSpoken ==
  ASSUME NEW s \in ResponsesState, NEW chunk \in Seq(FrameSet)
  PROVE  LET r == ResponsesChunk(s, chunk) IN
         r \in ResponsesState /\
         Spoken(r.out) = Heard("responses", Spoken(s.out), Gather(WholeParts, chunk))
<1> DEFINE V == ResponsesState
           m == Spoken(s.out)
           g(i) == Gather(WholeParts, SubSeq(chunk, 1, i))
           J == { w \in Nat \X V : Spoken(w[2].out) = Heard("responses", m, g(w[1])) }
           t == FoldLeft(ResponsesPiece, s, chunk)
<1>1. s \in V /\ s.out \in Seq(Ev)  BY DEF ResponsesState
<1>2. m \in Hearing  BY <1>1, SpokenTyped
<1>3. \A v \in V, d \in FrameSet : ResponsesPiece(v, d) \in V
  BY ResponsesFrameTyped DEF ResponsesPiece
<1>4. << 0, s >> \in J
  <2>1. SubSeq(chunk, 1, 0) = << >>  BY SubSeqAll
  <2>2. g(0) = << >>  BY <2>1, GatherNone
  <2>3. Spoken(s.out) = Heard("responses", m, << >>)  BY <1>2, HearNone
  <2> HIDE DEF m, V
  <2> QED BY <1>1, <2>2, <2>3
<1>5. \A i \in 1 .. Len(chunk), v \in V : << i - 1, v >> \in J => << i, ResponsesPiece(v, chunk[i]) >> \in J
  <2>1. SUFFICES ASSUME NEW i \in 1 .. Len(chunk), NEW v \in V, << i - 1, v >> \in J
                 PROVE  << i, ResponsesPiece(v, chunk[i]) >> \in J
    OBVIOUS
  <2> DEFINE y == ResponsesPiece(v, chunk[i])
             b == g(i - 1)
             f == chunk[i]
             w == WholeParts[f]
  <2>2. f \in FrameSet /\ i \in Nat  OBVIOUS
  <2>3. Spoken(v.out) = Heard("responses", m, b)  BY <2>1
  <2>4. g(i) = b \o w /\ b \in Seq(PartSet) /\ w \in Seq(PartSet)
    <3>1. /\ SubSeq(chunk, 1, i) = Append(SubSeq(chunk, 1, i - 1), f)
          /\ SubSeq(chunk, 1, i - 1) \in Seq(FrameSet)
      BY SubSeqNext
    <3> DEFINE k == SubSeq(chunk, 1, i - 1)
    <3>2. Gather(WholeParts, k) \in Seq(PartSet)  BY <3>1, WholeMakes, EachTyped
    <3>2a. k \in Seq(FrameSet)  BY <3>1
    <3> HIDE DEF k, f
    <3>3. Gather(WholeParts, Append(k, f)) = Gather(WholeParts, k) \o WholeParts[f]
          /\ WholeParts[f] \in Seq(PartSet)
      BY <2>2, <3>2a, WholeMakes, GatherAppend
    <3> QED BY <3>1, <3>2, <3>3 DEF k
  <2>5. y \in V  BY <1>3, <2>2
  <2>6. Spoken(y.out) = Heard("responses", Spoken(v.out), w)
    <3>1. CASE f.torn
      <4>1. y = v /\ w = << >>  BY <3>1, <2>2 DEF ResponsesPiece, WholeParts
      <4>2. v.out \in Seq(Ev)  BY DEF ResponsesState
      <4>3. Spoken(v.out) \in Hearing  BY <4>2, SpokenTyped
      <4> HIDE DEF y, w
      <4> QED BY <4>1, <4>3, HearNone
    <3>2. CASE ~f.torn
      <4>1. y = ResponsesFrame(v, f) /\ w = f.parts  BY <3>2, <2>2 DEF ResponsesPiece, WholeParts
      <4> HIDE DEF y, w, f
      <4> QED BY <4>1, <2>2, ResponsesFrameSpoken
    <3> QED BY <3>1, <3>2
  <2> HIDE DEF y, m, V, w, b, g, f
  <2>7. Spoken(y.out) = Heard("responses", m, b \o w)  BY <1>2, <2>3, <2>4, <2>6, HeardConcat
  <2>8. << i, y >> \in J  BY <2>2, <2>4, <2>5, <2>7
  <2> QED BY <2>8 DEF y, f
<1> HIDE DEF J, V, m
<1>6. t \in V /\ << Len(chunk), t >> \in J  BY <1>1, <1>3, <1>4, <1>5, ResponsesPieces
<1> HIDE DEF t
<1>7. Spoken(t.out) = Heard("responses", m, g(Len(chunk)))  BY <1>6 DEF J
<1>8. g(Len(chunk)) = Gather(WholeParts, chunk)  BY SubSeqAll
<1>9. ResponsesChunk(s, chunk) = t  BY DEF ResponsesChunk, t
<1> QED BY <1>6, <1>7, <1>8, <1>9 DEF m, V

-----------------------------------------------------------------------------
(* Chat Completions: what is heard. *)

\* A Chat Completions stream takes one event more.
LEMMA OpenAITell ==
  ASSUME NEW s \in OpenAIState, NEW e \in Ev
  PROVE  LET r == Emit(s, << e >>) IN
         r \in OpenAIState /\ r.out = Append(s.out, e) /\ s.out \in Seq(Ev)
<1> DEFINE o == s.out \o << e >>
           r == Emit(s, << e >>)
<1>1. s.out \in Seq(Ev)  BY DEF OpenAIState
<1>2. o = Append(s.out, e) /\ o \in Seq(Ev)  BY <1>1, AppendOne
<1>3. r = [s EXCEPT !.out = o]  BY DEF Emit
<1> HIDE DEF o, r
<1>4. r \in OpenAIState /\ r.out = o  BY <1>2, <1>3 DEF OpenAIState
<1> QED BY <1>1, <1>2, <1>4 DEF r

\* A Chat Completions part is told as its kind, in whichever call it is.
LEMMA OpenAIPartSpoken ==
  ASSUME NEW s \in OpenAIState, NEW p \in PartSet
  PROVE  LET r == OpenAIPart(s, p) IN
         r \in OpenAIState /\ Spoken(r.out) = Hear("openai", Spoken(s.out), p)
<1> DEFINE first == Event("start", "none", 0, 0)
           a == Emit(s, << first >>)
           named == IF s.role THEN s ELSE a
           index == IF p.kind = "call" THEN s.calls ELSE 0
           n == IF p.kind = "call" THEN named.calls + 1 ELSE named.calls
           z == [named EXCEPT !.role = TRUE, !.calls = n]
           kind == OpenAIKind(p.kind)
           id == p.id
           e == Event("delta", kind, index, id)
           r == Emit(z, << e >>)
<1>0. OpenAIPart(s, p) = r  BY DEF OpenAIPart
<1>1. first \in Ev /\ first.stage = "start"  BY Words, EventIs
<1>2. named \in OpenAIState /\ Spoken(named.out) = Spoken(s.out)
  <2> HIDE DEF first, a
  <2>1. a \in OpenAIState /\ a.out = Append(s.out, first) /\ s.out \in Seq(Ev)
    BY <1>1, OpenAITell DEF a
  <2>2. Spoken(Append(s.out, first)) = Spoken(s.out)  BY <1>1, <2>1, SpokenQuiet
  <2> QED BY <2>1, <2>2
<1> HIDE DEF named
<1>3. n \in Nat  BY <1>2 DEF OpenAIState
<1> HIDE DEF n
<1>4. z \in OpenAIState /\ z.out = named.out  BY <1>2, <1>3 DEF OpenAIState
<1> HIDE DEF z
<1>5. index \in Int /\ id \in Int /\ kind \in EvKind /\ "delta" \in Stage
  <2>1. p.kind \in Kind  BY DEF PartSet
  <2>2. kind \in EvKind  BY <2>1, Words DEF Kind, OpenAIKind
  <2>3. index \in Int /\ id \in Int  BY DEF OpenAIState, PartSet
  <2> QED BY <2>2, <2>3, Words
<1>6. kind = HeardAs("openai", p.kind)  BY DEF HeardAs
<1> HIDE DEF index, kind, id
<1>7. e \in Ev /\ e.stage = "delta" /\ e.kind = kind /\ e.part = id  BY <1>5, EventIs
<1> HIDE DEF e
<1>8. r \in OpenAIState /\ r.out = Append(z.out, e) /\ z.out \in Seq(Ev)  BY <1>4, <1>7, OpenAITell
<1> HIDE DEF r
<1>9. Spoken(Append(z.out, e)) = Hear("openai", Spoken(z.out), p)
  <2> DEFINE o == z.out
  <2>1. e.part = p.id /\ e.kind = HeardAs("openai", p.kind) /\ e \in Ev /\ e.stage = "delta"
    BY <1>6, <1>7 DEF id
  <2>2. o \in Seq(Ev)  BY <1>8
  <2> HIDE DEF o
  <2>3. Spoken(Append(o, e)) = Hear("openai", Spoken(o), p)  BY <2>1, <2>2, SpokenPart
  <2> QED BY <2>3 DEF o
<1> QED BY <1>0, <1>2, <1>4, <1>8, <1>9

\* The parts of a frame.
LEMMA OpenAIPartsSpoken ==
  ASSUME NEW s \in OpenAIState, NEW q \in Seq(PartSet), NEW r, r = FoldLeft(OpenAIPart, s, q)
  PROVE  r \in OpenAIState /\ Spoken(r.out) = Heard("openai", Spoken(s.out), q)
<1> DEFINE V == OpenAIState
           m == Spoken(s.out)
           J == { w \in Nat \X V : HeardTo("openai", m, q, w[1], w[2].out) }
           t == FoldLeft(OpenAIPart, s, q)
<1>1. s \in V /\ s.out \in Seq(Ev)  BY DEF OpenAIState
<1>2. m \in Hearing  BY <1>1, SpokenTyped
<1>3. \A v \in V, d \in PartSet : OpenAIPart(v, d) \in V  BY OpenAIPartSpoken
<1>4. << 0, s >> \in J
  <2>1. HeardTo("openai", m, q, 0, s.out)  BY <1>1, HeardFirst
  <2> HIDE DEF m, V
  <2> QED BY <1>1, <2>1
<1>5. \A i \in 1 .. Len(q), v \in V : << i - 1, v >> \in J => << i, OpenAIPart(v, q[i]) >> \in J
  <2>1. SUFFICES ASSUME NEW i \in 1 .. Len(q), NEW v \in V, << i - 1, v >> \in J
                 PROVE  << i, OpenAIPart(v, q[i]) >> \in J
    OBVIOUS
  <2> DEFINE y == OpenAIPart(v, q[i])
  <2>2. q[i] \in PartSet /\ i \in Nat  OBVIOUS
  <2>3. HeardTo("openai", m, q, i - 1, v.out)  BY <2>1
  <2>4. y \in V /\ Spoken(y.out) = Hear("openai", Spoken(v.out), q[i])
    BY <2>2, OpenAIPartSpoken
  <2> HIDE DEF y, m, V
  <2>5. HeardTo("openai", m, q, i, y.out)  BY <1>2, <2>3, <2>4, HeardStep
  <2>6. << i, y >> \in J  BY <2>2, <2>4, <2>5
  <2> QED BY <2>6 DEF y
<1> HIDE DEF J, V, m
<1>6. t \in V /\ << Len(q), t >> \in J  BY <1>1, <1>3, <1>4, <1>5, OpenAIParts
<1> HIDE DEF t
<1>7. HeardTo("openai", m, q, Len(q), t.out)  BY <1>6 DEF J
<1>8. Spoken(t.out) = Heard("openai", m, q)  BY <1>7, HeardAll
<1>9. r = t  BY DEF t
<1> QED BY <1>6, <1>8, <1>9 DEF m, V

\* A frame.
LEMMA OpenAIFrameSpoken ==
  ASSUME NEW s \in OpenAIState, NEW f \in FrameSet
  PROVE  LET r == OpenAIFrame(s, f) IN
         r \in OpenAIState /\ Spoken(r.out) = Heard("openai", Spoken(s.out), f.parts)
<1> DEFINE told == FoldLeft(OpenAIPart, s, f.parts)
           c == IF told.calls > 0 THEN "call" ELSE f.finish
           d == Event("delta", "notice", 0, 0)
           e == Event("finish", "STOP", 0, 0)
           g == Event("finish", c, 0, 0)
           a == Emit(s, << d >>)
           b == Emit(a, << e >>)
           h == Emit(told, << g >>)
           r == OpenAIFrame(s, f)
<1>1. f.parts \in Seq(PartSet) /\ f.finish \in EvKind /\ (f.blocked => f.parts = << >>)
  BY DEF FrameSet, EvKind
<1>2. r = CASE f.blocked -> Emit(s, << d, e >>)
            [] ~f.blocked /\ f.finish = "none" -> told
            [] OTHER -> h
  BY DEF OpenAIFrame
<1>3. told \in OpenAIState /\ Spoken(told.out) = Heard("openai", Spoken(s.out), f.parts)
  <2> DEFINE t == told
  <2>1. t = FoldLeft(OpenAIPart, s, f.parts)  OBVIOUS
  <2> HIDE DEF t
  <2>2. t \in OpenAIState /\ Spoken(t.out) = Heard("openai", Spoken(s.out), f.parts)
    BY <1>1, <2>1, OpenAIPartsSpoken
  <2> QED BY <2>2 DEF t
<1>4. c \in EvKind  BY <1>1, Words
<1>5. /\ d \in Ev /\ d.part = 0 /\ e \in Ev /\ e.stage = "finish"
  BY Words, EventIs
<1>6. g \in Ev /\ g.stage = "finish"
  <2> HIDE DEF c
  <2> QED BY <1>4, Words, EventIs
<1> HIDE DEF told, c, d, e, g, r
<1>7. a \in OpenAIState /\ a.out = Append(s.out, d) /\ s.out \in Seq(Ev)  BY <1>5, OpenAITell
<1> HIDE DEF a
<1>8. b \in OpenAIState /\ b.out = Append(a.out, e) /\ a.out \in Seq(Ev)  BY <1>5, <1>7, OpenAITell
<1> HIDE DEF b
<1>9. h \in OpenAIState /\ h.out = Append(told.out, g) /\ told.out \in Seq(Ev)
  BY <1>3, <1>6, OpenAITell
<1> HIDE DEF h
<1>10. Spoken(a.out) = Spoken(s.out)  BY <1>5, <1>7, SpokenQuiet
<1>11. Spoken(b.out) = Spoken(a.out)  BY <1>5, <1>8, SpokenQuiet
<1>12. Spoken(h.out) = Spoken(told.out)  BY <1>6, <1>9, SpokenQuiet
<1>13. Emit(s, << d, e >>) = b
  <2>1. Emit(s, << d, e >>) = Emit(Emit(s, << d >>), << e >>)  BY <1>5, OpenAIEmitTwo
  <2> QED BY <2>1 DEF a, b
<1>14. CASE f.blocked
  <2>1. Spoken(s.out) \in Hearing  BY <1>7, SpokenTyped
  <2>2. Heard("openai", Spoken(s.out), f.parts) = Spoken(s.out)  BY <2>1, <1>1, <1>14, HearNone
  <2>3. r = b  BY <1>2, <1>13, <1>14
  <2> QED BY <2>2, <2>3, <1>8, <1>10, <1>11 DEF r
<1>15. CASE ~f.blocked /\ f.finish = "none"
  <2>1. r = told  BY <1>2, <1>15
  <2> QED BY <2>1, <1>3 DEF r
<1>16. CASE ~f.blocked /\ f.finish # "none"
  <2>1. r = h  BY <1>2, <1>16
  <2> QED BY <2>1, <1>3, <1>9, <1>12 DEF r
<1> QED BY <1>14, <1>15, <1>16

\* A chunk.
LEMMA OpenAIChunkSpoken ==
  ASSUME NEW s \in OpenAIState, NEW chunk \in Seq(FrameSet)
  PROVE  LET r == OpenAIChunk(s, chunk) IN
         r \in OpenAIState /\ Spoken(r.out) = Heard("openai", Spoken(s.out), ReadOf(chunk))
<1> DEFINE r == OpenAIChunk(s, chunk)
<1>1. CASE Readable(chunk)
  <2>1. chunk[1] \in FrameSet  BY <1>1 DEF Readable
  <2>2. r = OpenAIFrame(s, chunk[1]) /\ ReadOf(chunk) = chunk[1].parts  BY <1>1 DEF OpenAIChunk, ReadOf
  <2> HIDE DEF r
  <2>3. r \in OpenAIState /\ Spoken(r.out) = Heard("openai", Spoken(s.out), ReadOf(chunk))
    BY <2>1, <2>2, OpenAIFrameSpoken
  <2> QED BY <2>3 DEF r
<1>2. CASE ~Readable(chunk)
  <2>1. r = s /\ ReadOf(chunk) = << >>  BY <1>2 DEF OpenAIChunk, ReadOf
  <2>2. s.out \in Seq(Ev)  BY DEF OpenAIState
  <2>3. Spoken(s.out) \in Hearing  BY <2>2, SpokenTyped
  <2>4. Heard("openai", Spoken(s.out), << >>) = Spoken(s.out)  BY <2>3, HearNone
  <2> HIDE DEF r
  <2>5. r \in OpenAIState /\ Spoken(r.out) = Heard("openai", Spoken(s.out), ReadOf(chunk))
    BY <2>1, <2>4
  <2> QED BY <2>5 DEF r
<1> QED BY <1>1, <1>2

-----------------------------------------------------------------------------
(* Gemini: what is passed on. *)

\* What two pieces of a stream say together.
LEMMA ToldConcat ==
  ASSUME NEW a \in Seq(Ev), NEW b \in Seq(Ev), NEW k
  PROVE  ToldOf(a \o b, k) = ToldOf(a, k) \o ToldOf(b, k) /\ ToldOf(a, k) \in Seq(PartNo)
<1>1. Maker(Tells(k), Ev, PartNo)  BY FilesMake
<1>2. Gather(Tells(k), a \o b) = Gather(Tells(k), a) \o Gather(Tells(k), b)  BY <1>1, GatherConcat
<1> QED BY <1>2, FiledTyped, Zenon DEF ToldOf

\* A piece that says nothing.
LEMMA ToldNothing ==
  ASSUME NEW a \in Seq(Ev), \A i \in DOMAIN a : a[i].stage = "delta" => a[i].part = 0, NEW k
  PROVE  ToldOf(a, k) = << >>
<1>1. \A i \in DOMAIN a : Tells(k)[a[i]] = << >>
  <2>1. \A i \in DOMAIN a : a[i] \in Ev  OBVIOUS
  <2> QED BY <2>1 DEF Tells
<1> QED BY <1>1, GatherNothing, Zenon DEF ToldOf

\* The parts a Gemini client is passed.
LEMMA DeltasTold ==
  ASSUME NEW parts \in Seq(PartSet), NEW k
  PROVE  ToldOf(PartDeltas(parts), k) = OfKind(parts, Sources("gemini", k))
<1> DEFINE d == PartDeltas(parts)
           g == Ids(PartSet, Sources("gemini", k))
<1>1. d \in Seq(Ev) /\ DOMAIN d = DOMAIN parts  BY PartDeltasAre DEF PartDeltas
<1>2. ASSUME NEW i \in DOMAIN parts PROVE Tells(k)[d[i]] = g[parts[i]]
  <2> DEFINE p == parts[i]
             e == d[i]
             c == p.kind
             id == p.id
  <2>1. p \in PartSet /\ e = Event("delta", c, 0, id)  BY DEF PartDeltas
  <2> HIDE DEF e, p
  <2>2. c \in Kind /\ c \in EvKind /\ id \in Int /\ id # 0 /\ 0 \in Int  BY <2>1, Words DEF PartSet, Kind
  <2> HIDE DEF c, id
  <2>3. e \in Ev /\ e.stage = "delta" /\ e.kind = c /\ e.part = id
    BY <2>1, <2>2, Words, EventIs
  <2>4. Tells(k)[e] = IF c = k THEN << id >> ELSE << >>  BY <2>2, <2>3 DEF Tells
  <2>5. c \in Sources("gemini", k) <=> c = k  BY <2>2 DEF Sources, HeardAs
  <2>6. g[p] = IF c = k THEN << id >> ELSE << >>  BY <2>1, <2>5 DEF Ids, c, id
  <2> QED BY <2>4, <2>6 DEF e, p
<1>3. Each(Tells(k), d) = Each(g, parts)
  <2> HIDE DEF d, g
  <2> QED BY <1>1, <1>2 DEF Each
<1>4. ToldOf(d, k) = Gather(g, parts)  BY <1>3, Zenon DEF ToldOf, Gather
<1>5. OfKind(parts, Sources("gemini", k)) = Gather(g, parts)  BY SaidIs
<1> QED BY <1>4, <1>5

\* One event that carries no part, or none.
LEMMA QuietOne ==
  ASSUME NEW e \in Ev, e.stage = "delta" => e.part = 0, NEW a, a = << >> \/ a = << e >>
  PROVE  a \in Seq(Ev) /\ \A i \in DOMAIN a : a[i].stage = "delta" => a[i].part = 0
<1>1. CASE a = << >>  BY <1>1
<1>2. CASE a = << e >>
  <2>1. << e >> \in Seq(Ev) /\ DOMAIN << e >> = {1} /\ << e >>[1] = e  OBVIOUS
  <2>2. a \in Seq(Ev) /\ DOMAIN a = {1} /\ a[1] = e  BY <1>2, <2>1
  <2> QED BY <2>2
<1> QED BY <1>1, <1>2

\* Parts passed on to a Gemini client are heard.
LEMMA PassOnSpoken ==
  ASSUME NEW s \in GeminiState, NEW parts \in Seq(PartSet), NEW f \in FrameSet
  PROVE  LET r == PassOn(s, parts, f) IN
         /\ r \in GeminiState /\ r.half = s.half
         /\ Spoken(r.out) = Heard("gemini", Spoken(s.out), parts)
<1> DEFINE r == PassOn(s, parts, f)
           a == PartDeltas(parts)
           b == IF f.finish = "none" THEN <<>> ELSE << Event("finish", f.finish, 0, 0) >>
           c == IF f.blocked THEN << Event("delta", "notice", 0, 0) >> ELSE <<>>
           ab == a \o b
           x == ab \o c
           o == s.out \o x
<1>1. f.finish \in EvKind /\ f.blocked \in BOOLEAN  BY DEF FrameSet, EvKind
<1>2. s.out \in Seq(Ev)  BY DEF GeminiState
<1>3. a \in Seq(Ev)  BY PartDeltasAre
<1>4. b \in Seq(Ev) /\ \A i \in DOMAIN b : b[i].stage = "delta" => b[i].part = 0
  <2> DEFINE e == Event("finish", f.finish, 0, 0)
  <2>1. e \in Ev /\ e.stage = "finish"  BY <1>1, Words, EventIs
  <2> HIDE DEF e
  <2>2. b = << >> \/ b = << e >>  BY DEF e
  <2> HIDE DEF b
  <2> QED BY <2>1, <2>2, QuietOne
<1>5. c \in Seq(Ev) /\ \A i \in DOMAIN c : c[i].stage = "delta" => c[i].part = 0
  <2> DEFINE e == Event("delta", "notice", 0, 0)
  <2>1. e \in Ev /\ e.part = 0  BY Words, EventIs
  <2> HIDE DEF e
  <2>2. c = << >> \/ c = << e >>  BY DEF e
  <2> HIDE DEF c
  <2> QED BY <2>1, <2>2, QuietOne
<1>6. r = [s EXCEPT !.out = o]  BY DEF PassOn, Emit, PartDeltas
<1> HIDE DEF a, b, c, r
<1>7. ab \in Seq(Ev)  BY <1>3, <1>4
<1> HIDE DEF ab
<1>8. x \in Seq(Ev)  BY <1>5, <1>7
<1> HIDE DEF x
<1>9. o \in Seq(Ev)  BY <1>2, <1>8
<1>10. ASSUME NEW k \in PartKinds
       PROVE  ToldOf(o, k) = ToldOf(s.out, k) \o OfKind(parts, Sources("gemini", k))
  <2> DEFINE w == s.out
             t == OfKind(parts, Sources("gemini", k))
  <2>1. ToldOf(a, k) = t /\ t \in Seq(PartNo)  BY DeltasTold, SaidIs DEF a
  <2>2. ToldOf(b, k) = << >> /\ ToldOf(c, k) = << >>  BY <1>4, <1>5, ToldNothing
  <2>3. w \in Seq(Ev)  BY <1>2
  <2> HIDE DEF t, w
  <2>4. ToldOf(ab, k) = ToldOf(a, k) \o ToldOf(b, k)  BY <1>3, <1>4, ToldConcat DEF ab
  <2>5. ToldOf(x, k) = ToldOf(ab, k) \o ToldOf(c, k)  BY <1>5, <1>7, ToldConcat DEF x
  <2>6. ToldOf(w \o x, k) = ToldOf(w, k) \o ToldOf(x, k)  BY <1>8, <2>3, ToldConcat
  <2>7. t \o << >> = t  BY <2>1
  <2>8. ToldOf(x, k) = t  BY <2>1, <2>2, <2>4, <2>5, <2>7
  <2> QED BY <2>6, <2>8 DEF w, t
<1>11. r \in GeminiState /\ r.half = s.half /\ r.out = o
  <2> HIDE DEF o
  <2> QED BY <1>6, <1>9 DEF GeminiState
<1> HIDE DEF o
<1>12. Spoken(o) = Heard("gemini", Spoken(s.out), parts)
  <2> DEFINE y == Spoken(o)
             z == Heard("gemini", Spoken(s.out), parts)
  <2>1. ASSUME NEW k \in PartKinds PROVE y[k] = z[k]
    <3>1. y[k] = ToldOf(o, k)  BY DEF Spoken
    <3>2. z[k] = ToldOf(s.out, k) \o OfKind(parts, Sources("gemini", k))  BY DEF Heard, Spoken
    <3> QED BY <1>10, <3>1, <3>2
  <2>2. y = [k \in PartKinds |-> y[k]] /\ z = [k \in PartKinds |-> z[k]]  BY DEF Spoken, Heard
  <2> HIDE DEF y, z
  <2>3. y = z  BY <2>1, <2>2
  <2> QED BY <2>3 DEF y, z
<1> QED BY <1>11, <1>12 DEF r

\* A frame, or the half of one that still lacks the other.
LEMMA GeminiFrameSpoken ==
  ASSUME NEW s \in GeminiState, NEW f \in FrameSet
  PROVE  LET r == GeminiFrame(s, f) IN
         /\ r \in GeminiState
         /\ r.half <=> f.torn /\ ~s.half
         /\ Spoken(r.out) = Heard("gemini", Spoken(s.out),
                                  IF f.torn /\ ~s.half THEN << >> ELSE f.parts)
<1> DEFINE r == GeminiFrame(s, f)
           y == [s EXCEPT !.half = TRUE]
           z == [s EXCEPT !.half = FALSE]
<1>1. f.parts \in Seq(PartSet) /\ f.torn \in BOOLEAN  BY DEF FrameSet
<1>2. s.out \in Seq(Ev) /\ s.half \in BOOLEAN  BY DEF GeminiState
<1>3. /\ y \in GeminiState /\ y.out = s.out /\ y.half = TRUE
      /\ z \in GeminiState /\ z.out = s.out /\ z.half = FALSE
  BY DEF GeminiState
<1>4. CASE f.torn /\ ~s.half
  <2>1. r = y  BY <1>4 DEF GeminiFrame
  <2>2. Spoken(s.out) \in Hearing  BY <1>2, SpokenTyped
  <2> HIDE DEF r, y
  <2>3. Heard("gemini", Spoken(s.out), << >>) = Spoken(s.out)  BY <2>2, HearNone
  <2>4. r \in GeminiState /\ r.half /\ Spoken(r.out) = Heard("gemini", Spoken(s.out), << >>)
    BY <1>3, <2>1, <2>3
  <2> QED BY <2>4, <1>4 DEF r
<1>5. CASE ~(f.torn /\ ~s.half)
  <2>1. r = PassOn(z, f.parts, f)  BY <1>5 DEF GeminiFrame
  <2> HIDE DEF r, z
  <2>2. r \in GeminiState /\ r.half = z.half /\ Spoken(r.out) = Heard("gemini", Spoken(z.out), f.parts)
    BY <1>1, <1>3, <2>1, PassOnSpoken
  <2>3. r \in GeminiState /\ ~r.half /\ Spoken(r.out) = Heard("gemini", Spoken(s.out), f.parts)
    BY <1>3, <2>2
  <2> QED BY <2>3, <1>5 DEF r
<1> QED BY <1>4, <1>5

-----------------------------------------------------------------------------
(* Gemini: chunks and whole answers. *)

\* The parts of a frame, whole or not.
EveryFrame == [f \in FrameSet |-> f.parts]

\* Frames are made of parts.
LEMMA EveryMakes == Maker(EveryFrame, FrameSet, PartSet)
<1>1. \A f \in FrameSet : f.parts \in Seq(PartSet)  BY DEF FrameSet
<1> QED BY <1>1 DEF Maker, EveryFrame

\* A Gemini client hears every frame it was given whole, or both halves of.
LEMMA GeminiChunkSpoken ==
  ASSUME NEW s \in GeminiState, NEW chunk \in Seq(FrameSet), Len(chunk) > 0, NEW tear \in BOOLEAN,
         HalfOK(s, chunk, tear)
  PROVE  LET r == GeminiChunk(s, chunk)
             n == IF tear THEN Len(chunk) - 1 ELSE Len(chunk) IN
         r \in GeminiState /\
         Spoken(r.out) = Heard("gemini", Spoken(s.out), Gather(EveryFrame, SubSeq(chunk, 1, n)))
<1> DEFINE V == GeminiState
           n == Len(chunk)
           m == Spoken(s.out)
           g(i) == Gather(EveryFrame, SubSeq(chunk, 1, IF i = n /\ tear THEN i - 1 ELSE i))
           J == { w \in Nat \X V :
                    /\ w[2].half <=> (w[1] = 0 /\ s.half) \/ (w[1] = n /\ tear)
                    /\ Spoken(w[2].out) = Heard("gemini", m, g(w[1])) }
           t == FoldLeft(GeminiFrame, s, chunk)
<1>1. s \in V /\ s.out \in Seq(Ev) /\ n \in Nat /\ n > 0  BY DEF GeminiState
<1>2. m \in Hearing  BY <1>1, SpokenTyped
<1>3. \A v \in V, d \in FrameSet : GeminiFrame(v, d) \in V  BY GeminiFrameTyped
<1>4. << 0, s >> \in J
  <2>1. SubSeq(chunk, 1, 0) = << >>  BY SubSeqAll
  <2>1a. ~(0 = n /\ tear)  BY <1>1
  <2>2. g(0) = << >>
    <3>1. g(0) = Gather(EveryFrame, SubSeq(chunk, 1, 0))  BY <2>1a
    <3> QED BY <2>1, <3>1, GatherNone
  <2>3. Spoken(s.out) = Heard("gemini", m, << >>)  BY <1>2, HearNone
  <2> HIDE DEF m, V
  <2> QED BY <1>1, <2>2, <2>3
<1>5. \A i \in 1 .. n, v \in V : << i - 1, v >> \in J => << i, GeminiFrame(v, chunk[i]) >> \in J
  <2>1. SUFFICES ASSUME NEW i \in 1 .. n, NEW v \in V, << i - 1, v >> \in J
                 PROVE  << i, GeminiFrame(v, chunk[i]) >> \in J
    OBVIOUS
  <2> DEFINE f == chunk[i]
             y == GeminiFrame(v, f)
             b == g(i - 1)
             last == i = n /\ tear
             w == IF last THEN << >> ELSE f.parts
  <2>2. f \in FrameSet /\ i \in Nat /\ i > 0 /\ f.torn \in BOOLEAN /\ f.parts \in Seq(PartSet)
    BY <1>1 DEF FrameSet
  <2>3. Spoken(v.out) = Heard("gemini", m, b) /\ (v.half <=> i = 1 /\ s.half)
    BY <2>1, <1>1
  <2>4. (f.torn /\ ~v.half) <=> last
    BY <2>2, <2>3 DEF HalfOK
  <2>5. g(i) = b \o w /\ b \in Seq(PartSet) /\ w \in Seq(PartSet)
    <3> DEFINE k == SubSeq(chunk, 1, i - 1)
    <3>1. SubSeq(chunk, 1, i) = Append(k, f) /\ k \in Seq(FrameSet)  BY SubSeqNext
    <3>2. b = Gather(EveryFrame, k)  BY <2>2
    <3>3. g(i) = IF last THEN Gather(EveryFrame, k) ELSE Gather(EveryFrame, Append(k, f))
      BY <3>1
    <3> HIDE DEF k, f, g
    <3>4. Gather(EveryFrame, k) \in Seq(PartSet)  BY <3>1, EveryMakes, EachTyped
    <3>5. Gather(EveryFrame, Append(k, f)) = Gather(EveryFrame, k) \o EveryFrame[f]
      BY <2>2, <3>1, EveryMakes, GatherAppend
    <3>6. EveryFrame[f] = f.parts  BY <2>2 DEF EveryFrame
    <3> HIDE DEF b
    <3>7. b \o << >> = b  BY <3>2, <3>4
    <3> QED BY <2>2, <3>2, <3>3, <3>4, <3>5, <3>6, <3>7
  <2>6. y \in V /\ (y.half <=> last) /\ Spoken(y.out) = Heard("gemini", Spoken(v.out), w)
    <3> DEFINE u == IF f.torn /\ ~v.half THEN << >> ELSE f.parts
    <3>1. u = w  BY <2>4
    <3>2. y \in V /\ (y.half <=> f.torn /\ ~v.half) /\ Spoken(y.out) = Heard("gemini", Spoken(v.out), u)
      BY <2>2, GeminiFrameSpoken
    <3> HIDE DEF y, u, w, f, V, last
    <3> QED BY <2>4, <3>1, <3>2
  <2>7. y.half <=> (i = 0 /\ s.half) \/ (i = n /\ tear)  BY <2>2, <2>6
  <2> HIDE DEF y, m, V, w, b, g, f, last
  <2>8. Spoken(y.out) = Heard("gemini", m, b \o w)  BY <1>2, <2>3, <2>5, <2>6, HeardConcat
  <2>9. << i, y >> \in J  BY <2>2, <2>5, <2>6, <2>7, <2>8
  <2> QED BY <2>9 DEF y, f
<1> HIDE DEF J, V, m
<1>6. t \in V /\ << n, t >> \in J  BY <1>1, <1>3, <1>4, <1>5, GeminiFrames
<1> HIDE DEF t
<1>7. Spoken(t.out) = Heard("gemini", m, g(n))  BY <1>6 DEF J
<1>8. g(n) = Gather(EveryFrame, SubSeq(chunk, 1, IF tear THEN n - 1 ELSE n))  OBVIOUS
<1>9. GeminiChunk(s, chunk) = t  BY DEF GeminiChunk, t
<1> QED BY <1>6, <1>7, <1>8, <1>9 DEF m, V, n

\* Some of the parts of some kinds.
LEMMA KindsOfKinds ==
  ASSUME NEW q \in Seq(PartSet), NEW kinds, NEW s
  PROVE  /\ PartsOfKind(q, kinds) \in Seq(PartSet)
         /\ OfKind(PartsOfKind(q, kinds), s) = OfKind(q, s \cap kinds)
<1> DEFINE g == Those(PartSet, kinds)
           h == Ids(PartSet, s)
           k == Ids(PartSet, s \cap kinds)
           x == PartsOfKind(q, kinds)
<1>1. x \in Seq(PartSet)  BY PartsOfKindTyped
<1>2. Maker(g, PartSet, PartSet)  BY DEF Maker, Those
<1>3. Maker(h, PartSet, PartNo) /\ Maker(k, PartSet, PartNo)  BY SaidMake
<1>4. x = Gather(g, q)  BY OfKindIs
<1>5. ASSUME NEW p \in PartSet PROVE k[p] = Gather(h, g[p])
  <2>1. CASE p.kind \in kinds
    <3>1. g[p] = << p >> /\ k[p] = h[p]  BY <2>1 DEF Those, Ids
    <3> HIDE DEF g, h, k
    <3>2. Gather(h, << p >>) = h[p]  BY <1>3, GatherOne
    <3> QED BY <3>1, <3>2
  <2>2. CASE p.kind \notin kinds
    <3>1. g[p] = << >> /\ k[p] = << >>  BY <2>2 DEF Those, Ids
    <3> QED BY <3>1, GatherNone
  <2> QED BY <2>1, <2>2
<1>6. OfKind(x, s) = Gather(h, x)  BY <1>1, SaidIs
<1>7. OfKind(q, s \cap kinds) = Gather(k, q)  BY SaidIs
<1> HIDE DEF g, h, k, x
<1>8. Gather(h, Gather(g, q)) = Gather(k, q)  BY <1>2, <1>3, <1>5, GatherGather
<1> QED BY <1>1, <1>4, <1>6, <1>7, <1>8 DEF x

\* The thoughts, then the rest: kind by kind the parts as they came.
LEMMA PseudoSpoken ==
  ASSUME NEW s \in GeminiState, NEW f \in FrameSet
  PROVE  LET r == GeminiPseudo(s, f) IN
         r \in GeminiState /\ Spoken(r.out) = Heard("gemini", Spoken(s.out), f.parts)
<1> DEFINE q == f.parts
           a == PartsOfKind(q, {"thought"})
           b == PartsOfKind(q, {"text", "image", "call"})
           e == Frame(<<>>, "none", FALSE)
           v == PassOn(s, a, e)
           r == PassOn(v, b, f)
           m == Spoken(s.out)
<1>1. q \in Seq(PartSet)  BY DEF FrameSet
<1>2. a \in Seq(PartSet) /\ b \in Seq(PartSet)  BY <1>1, KindsOfKinds
<1>3. e \in FrameSet  BY DEF Frame, FrameSet
<1>4. GeminiPseudo(s, f) = r  BY DEF GeminiPseudo
<1>5. \A k \in PartKinds : OfKind(q, Sources("gemini", k)) =
        OfKind(a, Sources("gemini", k)) \o OfKind(b, Sources("gemini", k))
  <2>1. SUFFICES ASSUME NEW k \in PartKinds
                 PROVE  OfKind(q, Sources("gemini", k)) =
                          OfKind(a, Sources("gemini", k)) \o OfKind(b, Sources("gemini", k))
    OBVIOUS
  <2> DEFINE t == Sources("gemini", k)
  <2>2. t = {k}  BY DEF Sources, HeardAs, PartKinds, Kind
  <2>3. /\ OfKind(a, t) = OfKind(q, t \cap {"thought"})
        /\ OfKind(b, t) = OfKind(q, t \cap {"text", "image", "call"})
    BY <1>1, KindsOfKinds
  <2>4. OfKind(q, t) \in Seq(PartNo)  BY <1>1, SaidIs
  <2>5. OfKind(q, {}) = << >>
    <3>1. \A i \in DOMAIN q : q[i] \in PartSet  BY <1>1
    <3>2. \A i \in DOMAIN q : Ids(PartSet, {})[q[i]] = << >>  BY <3>1 DEF Ids
    <3>3. Gather(Ids(PartSet, {}), q) = << >>  BY <1>1, <3>2, GatherNothing
    <3> QED BY <1>1, <3>3, SaidIs
  <2> DEFINE z == OfKind(q, t)
  <2>6. z \o << >> = z /\ << >> \o z = z  BY <2>4
  <2>7. CASE k = "thought"
    <3>1. t \cap {"thought"} = t /\ t \cap {"text", "image", "call"} = {}  BY <2>2, <2>7
    <3> HIDE DEF t
    <3>2. OfKind(a, t) = z /\ OfKind(b, t) = << >>  BY <2>3, <2>5, <3>1
    <3>3. OfKind(q, t) = OfKind(a, t) \o OfKind(b, t)  BY <2>6, <3>2
    <3> QED BY <3>3 DEF t
  <2>8. CASE k # "thought"
    <3>1. t \cap {"thought"} = {} /\ t \cap {"text", "image", "call"} = t  BY <2>2, <2>8 DEF PartKinds
    <3> HIDE DEF t
    <3>2. OfKind(a, t) = << >> /\ OfKind(b, t) = z  BY <2>3, <2>5, <3>1
    <3>3. OfKind(q, t) = OfKind(a, t) \o OfKind(b, t)  BY <2>6, <3>2
    <3> QED BY <3>3 DEF t
  <2> QED BY <2>7, <2>8
<1> HIDE DEF a, b, e, q
<1>6. v \in GeminiState /\ Spoken(v.out) = Heard("gemini", m, a)  BY <1>2, <1>3, PassOnSpoken
<1> HIDE DEF v
<1>7. r \in GeminiState /\ Spoken(r.out) = Heard("gemini", Spoken(v.out), b)
  BY <1>2, <1>6, PassOnSpoken
<1> HIDE DEF r
<1>8. m \in Hearing
  <2>1. s.out \in Seq(Ev)  BY DEF GeminiState
  <2> QED BY <2>1, SpokenTyped
<1> HIDE DEF m
<1>9. Spoken(r.out) = Heard("gemini", m, a \o b)  BY <1>2, <1>6, <1>7, <1>8, HeardConcat
<1>10. Heard("gemini", m, a \o b) = Heard("gemini", m, q)
  <2>1. a \o b \in Seq(PartSet)  BY <1>2
  <2>2. \A k \in PartKinds : OfKind(a \o b, Sources("gemini", k)) = OfKind(q, Sources("gemini", k))
    <3>1. SUFFICES ASSUME NEW k \in PartKinds
                   PROVE  OfKind(a \o b, Sources("gemini", k)) = OfKind(q, Sources("gemini", k))
      OBVIOUS
    <3> DEFINE g == Ids(PartSet, Sources("gemini", k))
               x == a \o b
    <3>2. Gather(g, a \o b) = Gather(g, a) \o Gather(g, b)  BY <1>2, SaidMake, GatherConcat
    <3>3. OfKind(a, Sources("gemini", k)) = Gather(g, a) /\ OfKind(b, Sources("gemini", k)) = Gather(g, b)
      BY <1>2, SaidIs
    <3>4. OfKind(x, Sources("gemini", k)) = Gather(g, x)  BY <2>1, SaidIs
    <3> HIDE DEF g
    <3> QED BY <1>5, <3>2, <3>3, <3>4
  <2> QED BY <2>2, Zenon DEF Heard
<1> QED BY <1>4, <1>7, <1>9, <1>10 DEF m, q

-----------------------------------------------------------------------------
(* What a chunk says, in every format. *)

\* A Messages stream has also filed all it was told.
ClaudeFiles(f, s) == f = "claude" => s \in ClaudeFiling

\* The parts of a chunk that arrive in a format.
Arrived(f, chunk, tear) ==
  IF f = "responses" THEN Gather(WholeParts, chunk)
  ELSE IF f = "gemini"
  THEN Gather(EveryFrame, SubSeq(chunk, 1, IF tear THEN Len(chunk) - 1 ELSE Len(chunk)))
  ELSE ReadOf(chunk)

\* The chat shim hears what a Chat Completions client does.
LEMMA HeardByShim == \A m, q : Heard("shim", m, q) = Heard("openai", m, q)
<1>1. \A k : Sources("shim", k) = Sources("openai", k)  BY DEF Sources, HeardAs
<1> QED BY <1>1, Zenon DEF Heard

\* In every format, a chunk is heard as what arrived of it.
LEMMA TranslateSpoken ==
  ASSUME NEW f \in Formats, NEW s, Good(f, s), ClaudeFiles(f, s), NEW chunk, NEW tear \in BOOLEAN,
         ChunkOK(chunk, tear), f = "gemini" => HalfOK(s, chunk, tear)
  PROVE  LET r == TranslateOf(f, s, chunk) IN
         /\ Spoken(r.out) = Heard(f, Spoken(s.out), Arrived(f, chunk, tear))
         /\ ClaudeFiles(f, r)
<1> DEFINE r == TranslateOf(f, s, chunk)
           x == Arrived(f, chunk, tear)
<1>0. chunk \in Seq(FrameSet) /\ Len(chunk) > 0  BY DEF ChunkOK
<1>1. CASE f = "responses"
  <2>1. s \in ResponsesState  BY <1>1 DEF Good, ResponsesLive, ResponsesOver
  <2>2. r = ResponsesChunk(s, chunk)  BY <1>1 DEF TranslateOf
  <2>3. x = Gather(WholeParts, chunk)  BY <1>1 DEF Arrived
  <2> HIDE DEF r, x
  <2>4. Spoken(r.out) = Heard("responses", Spoken(s.out), x)
    BY <1>0, <2>1, <2>2, <2>3, ResponsesChunkSpoken
  <2> QED BY <2>4, <1>1 DEF r, x, ClaudeFiles
<1>2. CASE f = "claude"
  <2>1. s \in ClaudeFiling  BY <1>2 DEF ClaudeFiles
  <2>2. r = ClaudeChunk(s, chunk)  BY <1>2 DEF TranslateOf
  <2>3. x = ReadOf(chunk)  BY <1>2 DEF Arrived
  <2> HIDE DEF r, x
  <2>4. r \in ClaudeFiling /\ Spoken(r.out) = Heard("claude", Spoken(s.out), x)
    BY <1>0, <2>1, <2>2, <2>3, ClaudeChunkFiled
  <2> QED BY <2>4, <1>2 DEF r, x, ClaudeFiles
<1>3. CASE f = "gemini"
  <2>1. s \in GeminiState  BY <1>3 DEF Good, GeminiSound
  <2>2. r = GeminiChunk(s, chunk)  BY <1>3 DEF TranslateOf
  <2> DEFINE n == IF tear THEN Len(chunk) - 1 ELSE Len(chunk)
  <2>3. x = Gather(EveryFrame, SubSeq(chunk, 1, n))  BY <1>3 DEF Arrived
  <2>4. HalfOK(s, chunk, tear)  BY <1>3
  <2> HIDE DEF r, x
  <2>5. Spoken(r.out) = Heard("gemini", Spoken(s.out), Gather(EveryFrame, SubSeq(chunk, 1, n)))
    BY <1>0, <2>1, <2>2, <2>4, GeminiChunkSpoken
  <2> HIDE DEF n
  <2> QED BY <2>3, <2>5, <1>3 DEF r, x, ClaudeFiles
<1>4. CASE f \in {"openai", "shim"}
  <2>1. s \in OpenAIState  BY <1>4 DEF Good, OpenAISound
  <2>2. r = OpenAIChunk(s, chunk)  BY <1>4 DEF TranslateOf
  <2>3. x = ReadOf(chunk)  BY <1>4 DEF Arrived
  <2> HIDE DEF r, x
  <2>4. Spoken(r.out) = Heard("openai", Spoken(s.out), x)
    BY <1>0, <2>1, <2>2, <2>3, OpenAIChunkSpoken
  <2>5. Heard(f, Spoken(s.out), x) = Heard("openai", Spoken(s.out), x)  BY <1>4, HeardByShim
  <2> QED BY <2>4, <2>5, <1>4 DEF r, x, ClaudeFiles
<1> QED BY <1>1, <1>2, <1>3, <1>4 DEF Formats

\* The parts of a frame, by number, and those of some kinds that are not lost.
Nos(f) == { f.parts[i].id : i \in DOMAIN f.parts }
Taken(kinds, gap) ==
  [p \in PartSet |-> IF p.kind \in kinds /\ p.id \notin gap THEN << p.id >> ELSE << >>]
Heeded(kinds, gap) == [f \in FrameSet |-> Gather(Taken(kinds, gap), f.parts)]

\* They are numbers of parts.
LEMMA TakenMakes ==
  \A kinds, gap : Maker(Taken(kinds, gap), PartSet, PartNo) /\ Maker(Heeded(kinds, gap), FrameSet, PartNo)
<1>1. SUFFICES ASSUME NEW kinds, NEW gap
               PROVE  /\ Maker(Taken(kinds, gap), PartSet, PartNo)
                      /\ Maker(Heeded(kinds, gap), FrameSet, PartNo)
  OBVIOUS
<1> DEFINE g == Taken(kinds, gap)
<1>2. Maker(g, PartSet, PartNo)
  <2>1. \A p \in PartSet : << p.id >> \in Seq(PartNo)  BY DEF PartSet, PartNo
  <2>2. << >> \in Seq(PartNo)  OBVIOUS
  <2>3. \A p \in PartSet :
          (IF p.kind \in kinds /\ p.id \notin gap THEN << p.id >> ELSE << >>) \in Seq(PartNo)
    BY <2>1, <2>2, Zenon
  <2> QED BY <2>3 DEF Maker, Taken
<1> HIDE DEF g
<1>3. \A f \in FrameSet : f.parts \in Seq(PartSet)  BY DEF FrameSet
<1>4. \A f \in FrameSet : Gather(g, f.parts) \in Seq(PartNo)  BY <1>2, <1>3, EachTyped
<1>5. Maker(Heeded(kinds, gap), FrameSet, PartNo)  BY <1>4 DEF Maker, Heeded, g
<1> QED BY <1>2, <1>5 DEF g

\* A frame whose parts are all safe, all lost, or not among those lost since.
LEMMA HeedAll ==
  ASSUME NEW f \in FrameSet, NEW kinds, NEW gap, Nos(f) \cap gap = {}
  PROVE  Heeded(kinds, gap)[f] = OfKind(f.parts, kinds)
<1> DEFINE g == Taken(kinds, gap)
           h == Ids(PartSet, kinds)
           q == f.parts
<1>1. q \in Seq(PartSet)  BY DEF FrameSet
<1>2. ASSUME NEW i \in DOMAIN q PROVE g[q[i]] = h[q[i]]
  <2>1. q[i] \in PartSet  BY <1>1
  <2>2. q[i].id \notin gap  BY DEF Nos
  <2> QED BY <2>1, <2>2 DEF Taken, Ids
<1>3. Heeded(kinds, gap)[f] = Gather(g, q)  BY DEF Heeded
<1> HIDE DEF g, h, q
<1>4. Gather(g, q) = Gather(h, q)  BY <1>2, GatherSame
<1>5. OfKind(q, kinds) = Gather(h, q)  BY <1>1, SaidIs DEF h
<1> QED BY <1>3, <1>4, <1>5 DEF q

\* A frame all of whose parts are lost says nothing.
LEMMA HeedNone ==
  ASSUME NEW f \in FrameSet, NEW kinds, NEW gap, Nos(f) \subseteq gap
  PROVE  Heeded(kinds, gap)[f] = << >>
<1> DEFINE g == Taken(kinds, gap)
           q == f.parts
<1>1. q \in Seq(PartSet)  BY DEF FrameSet
<1>2. ASSUME NEW i \in DOMAIN q PROVE g[q[i]] = << >>
  <2>1. q[i] \in PartSet  BY <1>1
  <2>2. q[i].id \in gap  BY DEF Nos
  <2> QED BY <2>1, <2>2 DEF Taken
<1>3. Heeded(kinds, gap)[f] = Gather(g, q)  BY DEF Heeded
<1> HIDE DEF g, q
<1>4. Gather(g, q) = << >>  BY <1>1, <1>2, GatherNothing
<1> QED BY <1>3, <1>4

\* What is lost later costs nothing of a frame that arrived before.
LEMMA HeedSame ==
  ASSUME NEW f \in FrameSet, NEW kinds, NEW gap, NEW more, Nos(f) \cap more = {}
  PROVE  Heeded(kinds, gap \cup more)[f] = Heeded(kinds, gap)[f]
<1> DEFINE g == Taken(kinds, gap)
           h == Taken(kinds, gap \cup more)
           q == f.parts
<1>1. q \in Seq(PartSet)  BY DEF FrameSet
<1>2. ASSUME NEW i \in DOMAIN q PROVE h[q[i]] = g[q[i]]
  <2>1. q[i] \in PartSet  BY <1>1
  <2>2. q[i].id \notin more  BY DEF Nos
  <2> QED BY <2>1, <2>2 DEF Taken
<1>3. Heeded(kinds, gap)[f] = Gather(g, q) /\ Heeded(kinds, gap \cup more)[f] = Gather(h, q)  BY DEF Heeded
<1> HIDE DEF g, h, q
<1>4. Gather(g, q) = Gather(h, q)  BY <1>2, GatherSame
<1> QED BY <1>3, <1>4

-----------------------------------------------------------------------------
(* What reading a chunk loses. *)

\* The frames of a chunk whose parts are lost, by the framing of the chunk.
Struck(f, c, i) == f # "gemini" /\ (c[i].torn \/ (Len(c) > 1 /\ f # "responses"))
NowLost(f, c, gap) ==
  \A i \in 1 .. Len(c) : IF Struck(f, c, i) THEN Nos(c[i]) \subseteq gap ELSE Nos(c[i]) \cap gap = {}

\* Frames gathered as sequences of numbers, in two ways.
LEMMA FramesGather ==
  ASSUME NEW kinds, NEW g, Maker(g, FrameSet, PartSet), NEW q \in Seq(FrameSet),
         NEW h, \A i \in DOMAIN q : h[q[i]] = OfKind(g[q[i]], kinds)
  PROVE  OfKind(Gather(g, q), kinds) = Gather(h, q) /\ Gather(g, q) \in Seq(PartSet)
<1> DEFINE n == Ids(PartSet, kinds)
           k == [f \in FrameSet |-> Gather(n, g[f])]
<1>1. Maker(n, PartSet, PartNo)  BY SaidMake
<1> HIDE DEF n
<1>2. \A f \in FrameSet : g[f] \in Seq(PartSet)  BY DEF Maker
<1>3. \A f \in FrameSet : Gather(n, g[f]) \in Seq(PartNo)  BY <1>1, <1>2, EachTyped
<1>4. Maker(k, FrameSet, PartNo) /\ \A f \in FrameSet : k[f] = Gather(n, g[f])  BY <1>3 DEF Maker
<1> HIDE DEF k
<1>5. Gather(n, Gather(g, q)) = Gather(k, q)  BY <1>1, <1>4, GatherGather
<1>6. Gather(g, q) \in Seq(PartSet)  BY EachTyped
<1>7. OfKind(Gather(g, q), kinds) = Gather(n, Gather(g, q))  BY <1>6, SaidIs DEF n
<1>8. \A i \in DOMAIN q : k[q[i]] = h[q[i]]
  <2>1. ASSUME NEW i \in DOMAIN q PROVE k[q[i]] = h[q[i]]
    <3>1. q[i] \in FrameSet  OBVIOUS
    <3>2. OfKind(g[q[i]], kinds) = Gather(n, g[q[i]])  BY <3>1, <1>2, SaidIs DEF n
    <3> QED BY <3>1, <3>2, <1>4
  <2> QED BY <2>1
<1>9. Gather(k, q) = Gather(h, q)  BY <1>8, GatherSame
<1> QED BY <1>5, <1>6, <1>7, <1>9

\* What arrives of a chunk is what is not lost of the frames that leave the
\* wire with it: all of them, but the last one if it is torn here.
LEMMA ReadHeeded ==
  ASSUME NEW f \in Formats, NEW left \in Seq(FrameSet), NEW half \in FrameSet, half.torn,
         NEW tear \in BOOLEAN, NEW gap, NEW kinds,
         NowLost(f, IF tear THEN Append(left, half) ELSE left, gap),
         Len(left) > 0 \/ tear
  PROVE  OfKind(Arrived(f, IF tear THEN Append(left, half) ELSE left, tear), kinds)
           = Gather(Heeded(kinds, gap), left)
<1> DEFINE c == IF tear THEN Append(left, half) ELSE left
           n == Len(left)
           h == Heeded(kinds, gap)
<1>1. /\ c \in Seq(FrameSet) /\ Len(c) = IF tear THEN n + 1 ELSE n
      /\ \A i \in 1 .. n : c[i] = left[i]
      /\ tear => c[n + 1] = half
  OBVIOUS
<1>2. n \in Nat /\ DOMAIN left = 1 .. n /\ \A i \in 1 .. n : left[i] \in FrameSet  OBVIOUS
<1>3. \A i \in 1 .. n : IF Struck(f, c, i) THEN Nos(left[i]) \subseteq gap ELSE Nos(left[i]) \cap gap = {}
  BY <1>1, <1>2 DEF NowLost
<1>4. \A i \in 1 .. n : h[left[i]] = IF Struck(f, c, i) THEN << >> ELSE OfKind(left[i].parts, kinds)
  BY <1>2, <1>3, HeedAll, HeedNone
<1>5. OfKind(<< >>, kinds) = << >>
  <2> DEFINE e == << >>
  <2>1. e \in Seq(PartSet)  OBVIOUS
  <2>2. Gather(Ids(PartSet, kinds), e) = << >>  BY GatherNone
  <2> HIDE DEF e
  <2>3. OfKind(e, kinds) = Gather(Ids(PartSet, kinds), e)  BY <2>1, SaidIs
  <2> QED BY <2>2, <2>3 DEF e
<1> HIDE DEF h
<1>6. CASE f = "responses"
  <2> DEFINE g == WholeParts
             v == [x \in FrameSet |-> IF x.torn THEN << >> ELSE OfKind(x.parts, kinds)]
             x == Gather(g, c)
  <2>1. Arrived(f, c, tear) = x  BY <1>6 DEF Arrived
  <2>2. Maker(g, FrameSet, PartSet)  BY WholeMakes
  <2>3. \A y \in FrameSet : v[y] = OfKind(g[y], kinds)  BY <1>5 DEF WholeParts
  <2>3a. half \in FrameSet /\ v[half] = << >>  OBVIOUS
  <2>4. \A i \in 1 .. n : v[left[i]] = h[left[i]]
    <3>1. ASSUME NEW i \in 1 .. n PROVE v[left[i]] = h[left[i]]
      <4>1. Struck(f, c, i) <=> left[i].torn  BY <1>1, <1>6 DEF Struck
      <4> QED BY <4>1, <1>2, <1>4
    <3> QED BY <3>1
  <2>4a. Maker(v, FrameSet, PartNo)
    <3>1. \A y \in FrameSet : y.parts \in Seq(PartSet)  BY DEF FrameSet
    <3>2. \A y \in FrameSet : OfKind(y.parts, kinds) \in Seq(PartNo)  BY <3>1, SaidIs
    <3>3. << >> \in Seq(PartNo)  OBVIOUS
    <3>4. \A y \in FrameSet : (IF y.torn THEN << >> ELSE OfKind(y.parts, kinds)) \in Seq(PartNo)
      BY <3>2, <3>3, Zenon
    <3> QED BY <3>4 DEF Maker
  <2> HIDE DEF g, v, c
  <2>5. OfKind(x, kinds) = Gather(v, c)
    <3>1. \A i \in DOMAIN c : v[c[i]] = OfKind(g[c[i]], kinds)  BY <1>1, <2>3
    <3> QED BY <1>1, <2>2, <3>1, FramesGather
  <2>6. Gather(v, left) = Gather(h, left)  BY <1>2, <2>4, GatherSame
  <2>7. Gather(v, c) = Gather(v, left)
    <3>1. CASE tear
      <4>1. c = Append(left, half)  BY <3>1 DEF c
      <4>2. Gather(v, Append(left, half)) = Gather(v, left) \o v[half]
        <5>1. half \in FrameSet  OBVIOUS
        <5> QED BY <5>1, <2>4a, GatherAppend
      <4>3. Gather(v, left) \in Seq(PartNo)  BY <2>4a, EachTyped
      <4> DEFINE z == Gather(v, left)
      <4>4. z \o << >> = z  BY <4>3
      <4> QED BY <4>1, <4>2, <4>4, <2>3a
    <3>2. CASE ~tear  BY <3>2 DEF c
    <3> QED BY <3>1, <3>2
  <2> QED BY <2>1, <2>5, <2>6, <2>7 DEF c, h
<1>7. CASE f = "gemini"
  <2> DEFINE g == EveryFrame
             x == Gather(g, left)
  <2>1. SubSeq(c, 1, IF tear THEN Len(c) - 1 ELSE Len(c)) = left
    <3> DEFINE y == SubSeq(c, 1, n)
    <3>1. (IF tear THEN Len(c) - 1 ELSE Len(c)) = n  BY <1>1, <1>2
    <3>2. y \in Seq(FrameSet) /\ Len(y) = n /\ \A i \in 1 .. n : y[i] = c[i]
      <4> HIDE DEF c
      <4> QED BY <1>1, <1>2
    <3> HIDE DEF y
    <3>3. y = left  BY <1>1, <1>2, <3>2, SeqEqual
    <3> QED BY <3>1, <3>3 DEF y
  <2>2. Arrived(f, c, tear) = x  BY <1>7, <2>1 DEF Arrived
  <2>3. Maker(g, FrameSet, PartSet)  BY EveryMakes
  <2>4. \A i \in DOMAIN left : h[left[i]] = OfKind(g[left[i]], kinds)
    <3>1. \A i \in 1 .. n : ~Struck(f, c, i)  BY <1>7 DEF Struck
    <3>2. \A i \in 1 .. n : g[left[i]] = left[i].parts  BY <1>2 DEF EveryFrame
    <3> QED BY <1>2, <1>4, <3>1, <3>2
  <2> HIDE DEF g, c
  <2>5. OfKind(x, kinds) = Gather(h, left)  BY <2>3, <2>4, FramesGather
  <2> QED BY <2>2, <2>5 DEF c, h
<1>8. CASE f # "responses" /\ f # "gemini"
  <2>1. Arrived(f, c, tear) = ReadOf(c)  BY <1>8 DEF Arrived
  <2>2. CASE Readable(c)
    <3>1. ~tear /\ n = 1 /\ ~left[1].torn  BY <2>2, <1>1, <1>2 DEF Readable
    <3>1a. c = left  BY <3>1
    <3>1b. Len(c) = 1 /\ ~c[1].torn /\ 1 \in 1 .. n  BY <3>1, <1>1, <1>2
    <3>1c. ~Struck(f, c, 1)
      <4> HIDE DEF c
      <4> QED BY <3>1b DEF Struck
    <3>2. c = left /\ ~Struck(f, c, 1) /\ left[1] \in FrameSet  BY <3>1a, <3>1b, <3>1c, <1>2
    <3>3. h[left[1]] = OfKind(left[1].parts, kinds)  BY <3>1, <3>2, <1>4
    <3>4. left = << left[1] >>  BY <3>1
    <3>5. Gather(h, << left[1] >>) = h[left[1]]
      <4>1. Maker(h, FrameSet, PartNo)  BY TakenMakes DEF h
      <4> QED BY <3>2, <4>1, GatherOne
    <3>6. ReadOf(c) = left[1].parts  BY <2>2, <3>2 DEF ReadOf
    <3> HIDE DEF c
    <3>7. OfKind(Arrived(f, c, tear), kinds) = Gather(h, left)
      BY <2>1, <3>3, <3>4, <3>5, <3>6
    <3> QED BY <3>7 DEF c, h
  <2>3. CASE ~Readable(c)
    <3>1. ReadOf(c) = << >>  BY <2>3 DEF ReadOf
    <3>2. ASSUME NEW i \in 1 .. n PROVE Struck(f, c, i)
      <4>1. CASE Len(c) > 1  BY <4>1, <1>8 DEF Struck
      <4>2. CASE ~(Len(c) > 1)
        <5>1. Len(c) = 1 /\ i = 1  BY <4>2, <1>1, <1>2
        <5>2. c[1].torn  BY <5>1, <2>3 DEF Readable
        <5> QED BY <5>1, <5>2, <1>8 DEF Struck
      <4> QED BY <4>1, <4>2
    <3>3. \A i \in DOMAIN left : h[left[i]] = << >>  BY <1>2, <1>4, <3>2
    <3>4. Gather(h, left) = << >>  BY <3>3, GatherNothing
    <3> HIDE DEF c
    <3>5. OfKind(Arrived(f, c, tear), kinds) = Gather(h, left)  BY <2>1, <3>1, <3>4, <1>5
    <3> QED BY <3>5 DEF c, h
  <2> QED BY <2>2, <2>3
<1> QED BY <1>6, <1>7, <1>8

-----------------------------------------------------------------------------
(* The frames on the wire. *)

\* No part travels twice; of a wire only the other half of a frame is lost.
Apart(w) == \A i, j \in DOMAIN w : i # j => Nos(w[i]) \cap Nos(w[j]) = {}
Safe(f, w, gap) ==
  \A i \in DOMAIN w : IF f # "gemini" /\ w[i].torn THEN Nos(w[i]) \subseteq gap
                      ELSE Nos(w[i]) \cap gap = {}
Breaks(f, c, broken) ==
  /\ \A i \in 1 .. Len(c) : Struck(f, c, i) => Nos(c[i]) \subseteq broken
  /\ \A x \in broken : x = 0 \/ \E i \in 1 .. Len(c) : Struck(f, c, i) /\ x \in Nos(c[i])

\* The numbers of a frame's parts, and of half of one.
LEMMA NosAre ==
  ASSUME NEW f \in FrameSet
  PROVE  /\ 0 \notin Nos(f) /\ Nos(f) \subseteq Nat
         /\ Nos(Half(f)) = Nos(f) /\ Half(f).parts = f.parts /\ Half(f) \in FrameSet /\ Half(f).torn
<1>1. f.parts \in Seq(PartSet)  BY DEF FrameSet
<1>2. \A i \in DOMAIN f.parts : f.parts[i] \in PartSet  BY <1>1
<1>3. \A i \in DOMAIN f.parts : f.parts[i].id \in Nat /\ f.parts[i].id # 0  BY <1>2 DEF PartSet
<1>4. Half(f).parts = f.parts  BY DEF Half, FrameSet
<1> QED BY <1>3, <1>4, HalfIs DEF Nos

\* What the browser leaves of a wire: each frame of it was there before.
LEMMA RestFrames ==
  ASSUME NEW w \in Seq(FrameSet), NEW k \in 1 .. Len(w), NEW tear \in BOOLEAN
  PROVE  LET r == RestOf(w, k, tear)
             c == ChunkOf(w, k, tear)
             d == IF tear THEN k - 1 ELSE k IN
         /\ \A i \in 1 .. k : Nos(c[i]) = Nos(w[i]) /\ (i # k \/ ~tear => c[i] = w[i])
         /\ tear => c[k].torn
         /\ \A j \in DOMAIN r :
              /\ j + d \in k .. Len(w) /\ r[j].parts = w[j + d].parts /\ Nos(r[j]) = Nos(w[j + d])
              /\ j + d # k => r[j] = w[j + d]
              /\ j + d = k => tear /\ r[j].torn
<1> DEFINE r == RestOf(w, k, tear)
           c == ChunkOf(w, k, tear)
           d == IF tear THEN k - 1 ELSE k
           h == Half(w[k])
<1>0. /\ k \in Nat /\ k > 0 /\ k <= Len(w) /\ Len(w) \in Nat /\ d \in Nat
      /\ w[k] \in FrameSet /\ \A i \in 1 .. Len(w) : w[i] \in FrameSet
  OBVIOUS
<1>1. Nos(h) = Nos(w[k]) /\ h.parts = w[k].parts /\ h.torn  BY <1>0, NosAre
<1>2. /\ c \in Seq(FrameSet) /\ Len(c) = k
      /\ \A i \in 1 .. k : i # k => c[i] = w[i]
      /\ c[k] = IF tear THEN h ELSE w[k]
  BY ChunkIs
<1>3. /\ r \in Seq(FrameSet) /\ Len(r) = Len(w) - d
      /\ tear => r[1] = h
      /\ \A i \in 1 .. Len(r) : i + d # k => r[i] = w[i + d] /\ i + d \in k + 1 .. Len(w)
  BY RestIs
<1> HIDE DEF r, c, h
<1>4. \A i \in 1 .. k : Nos(c[i]) = Nos(w[i]) /\ (i # k \/ ~tear => c[i] = w[i])
  BY <1>1, <1>2
<1>5. tear => c[k].torn  BY <1>1, <1>2
<1>6. ASSUME NEW j \in DOMAIN r
      PROVE  /\ j + d \in k .. Len(w) /\ r[j].parts = w[j + d].parts /\ Nos(r[j]) = Nos(w[j + d])
             /\ j + d # k => r[j] = w[j + d]
             /\ j + d = k => tear /\ r[j].torn
  <2>1. j \in 1 .. Len(r)  BY <1>3
  <2>2. CASE j + d # k
    <3>1. r[j] = w[j + d] /\ j + d \in k + 1 .. Len(w)  BY <2>1, <2>2, <1>3
    <3> QED BY <3>1, <2>2, <1>0
  <2>3. CASE j + d = k
    <3>1. tear /\ j = 1  BY <2>1, <2>3, <1>0
    <3>2. r[j] = h  BY <3>1, <1>3
    <3> QED BY <2>3, <3>1, <3>2, <1>0, <1>1
  <2> QED BY <2>2, <2>3
<1> QED BY <1>4, <1>5, <1>6 DEF r, c

\* What a chunk loses, of it and of what is left behind it.
LEMMA RestSafe ==
  ASSUME NEW f \in Formats, NEW w, NEW e, WireOK(w, e), NEW k \in 1 .. Len(w), NEW tear \in BOOLEAN,
         Apart(w), NEW gap, Safe(f, w, gap), NEW broken, Breaks(f, ChunkOf(w, k, tear), broken)
  PROVE  /\ NowLost(f, ChunkOf(w, k, tear), gap \cup broken)
         /\ Apart(RestOf(w, k, tear))
         /\ Safe(f, RestOf(w, k, tear), gap \cup broken)
<1> DEFINE r == RestOf(w, k, tear)
           c == ChunkOf(w, k, tear)
           d == IF tear THEN k - 1 ELSE k
<1>0. /\ w \in Seq(FrameSet) /\ k \in Nat /\ k > 0 /\ k <= Len(w) /\ Len(w) \in Nat /\ d \in Nat
      /\ \A i \in 1 .. Len(w) : w[i].torn => i = 1
      /\ \A i \in 1 .. Len(w) : w[i] \in FrameSet
  BY DEF WireOK
<1>1. /\ \A i \in 1 .. k : Nos(c[i]) = Nos(w[i]) /\ (i # k \/ ~tear => c[i] = w[i])
      /\ tear => c[k].torn
      /\ \A j \in DOMAIN r :
              /\ j + d \in k .. Len(w) /\ r[j].parts = w[j + d].parts /\ Nos(r[j]) = Nos(w[j + d])
              /\ j + d # k => r[j] = w[j + d]
              /\ j + d = k => tear /\ r[j].torn
  BY <1>0, RestFrames
<1>2. Len(c) = k  BY <1>0, ChunkIs
<1>3. r \in Seq(FrameSet)  BY <1>0, RestIs
<1>4. \A i \in 1 .. Len(w) : 0 \notin Nos(w[i])  BY <1>0, NosAre
<1>5. \A i, j \in 1 .. Len(w) : i # j => Nos(w[i]) \cap Nos(w[j]) = {}  BY <1>0 DEF Apart
<1>6. \A i \in 1 .. Len(w) : IF f # "gemini" /\ w[i].torn THEN Nos(w[i]) \subseteq gap
                             ELSE Nos(w[i]) \cap gap = {}
  BY <1>0 DEF Safe
<1> HIDE DEF r, c, d
<1>7. \A i \in 1 .. k : Struck(f, c, i) => Nos(w[i]) \subseteq broken  BY <1>1, <1>2 DEF Breaks, c
<1>8. \A x \in broken : x = 0 \/ \E i \in 1 .. k : Struck(f, c, i) /\ x \in Nos(w[i])
  BY <1>1, <1>2 DEF Breaks, c
<1>9. ASSUME NEW i \in 1 .. Len(w), i \in 1 .. k => ~Struck(f, c, i)
      PROVE  Nos(w[i]) \cap broken = {}
  <2>1. SUFFICES ASSUME NEW x \in broken, x \in Nos(w[i]) PROVE FALSE  OBVIOUS
  <2>2. PICK j \in 1 .. k : Struck(f, c, j) /\ x \in Nos(w[j])  BY <2>1, <1>4, <1>8
  <2>3. j # i /\ j \in 1 .. Len(w)  BY <2>2, <1>9, <1>0
  <2> QED BY <2>1, <2>2, <2>3, <1>5
<1>10. NowLost(f, c, gap \cup broken)
  <2>1. ASSUME NEW i \in 1 .. k
        PROVE  IF Struck(f, c, i) THEN Nos(c[i]) \subseteq gap \cup broken
               ELSE Nos(c[i]) \cap (gap \cup broken) = {}
    <3>1. i \in 1 .. Len(w) /\ Nos(c[i]) = Nos(w[i])  BY <1>0, <1>1
    <3>2. CASE Struck(f, c, i)  BY <3>1, <3>2, <1>7
    <3>3. CASE ~Struck(f, c, i)
      <4>1. Nos(w[i]) \cap broken = {}  BY <3>1, <3>3, <1>9
      <4>2. ~(f # "gemini" /\ c[i].torn)  BY <3>3 DEF Struck
      <4>3. ~(f # "gemini" /\ w[i].torn)  BY <4>2, <1>1
      <4>4. Nos(w[i]) \cap gap = {}  BY <3>1, <4>3, <1>6
      <4> QED BY <3>1, <3>3, <4>1, <4>4
    <3> QED BY <3>2, <3>3
  <2> QED BY <2>1, <1>2 DEF NowLost
<1>11. Apart(r)
  <2>1. ASSUME NEW i \in DOMAIN r, NEW j \in DOMAIN r, i # j PROVE Nos(r[i]) \cap Nos(r[j]) = {}
    <3>1. i \in Nat /\ j \in Nat  BY <1>3
    <3>2. i + d # j + d  BY <2>1, <3>1, <1>0
    <3>3. i + d \in 1 .. Len(w) /\ j + d \in 1 .. Len(w)  BY <1>0, <1>1
    <3> QED BY <3>2, <3>3, <1>1, <1>5
  <2> QED BY <2>1 DEF Apart
<1>12. Safe(f, r, gap \cup broken)
  <2>1. ASSUME NEW j \in DOMAIN r
        PROVE  IF f # "gemini" /\ r[j].torn THEN Nos(r[j]) \subseteq gap \cup broken
               ELSE Nos(r[j]) \cap (gap \cup broken) = {}
    <3> DEFINE i == j + d
    <3>1. i \in k .. Len(w) /\ i \in 1 .. Len(w) /\ Nos(r[j]) = Nos(w[i])  BY <1>0, <1>1
    <3>2. CASE i = k
      <4>1. tear /\ r[j].torn /\ c[k].torn  BY <3>2, <1>1
      <4>2. CASE f # "gemini"
        <5>1. Struck(f, c, k) /\ k \in 1 .. k  BY <4>1, <4>2, <1>0 DEF Struck
        <5> QED BY <3>1, <3>2, <4>1, <4>2, <5>1, <1>7
      <4>3. CASE f = "gemini"
        <5>1. ~Struck(f, c, k)  BY <4>3 DEF Struck
        <5> HIDE DEF i
        <5>2. Nos(w[i]) \cap broken = {}  BY <3>1, <3>2, <5>1, <1>9
        <5> QED BY <3>1, <4>3, <5>2, <1>6
      <4> QED BY <4>2, <4>3
    <3>3. CASE i # k
      <4>1. i \notin 1 .. k /\ i # 1  BY <3>1, <3>3, <1>0
      <4>2. r[j] = w[i]  BY <3>3, <1>1
      <4> HIDE DEF i
      <4>3. Nos(w[i]) \cap broken = {}  BY <3>1, <4>1, <1>9
      <4>4. ~w[i].torn  BY <3>1, <4>1, <1>0
      <4> QED BY <3>1, <4>2, <4>3, <4>4, <1>6
    <3> QED BY <3>2, <3>3
  <2> QED BY <2>1 DEF Safe
<1> QED BY <1>10, <1>11, <1>12 DEF r, c

\* Two sequences, element by element.
LEMMA Joined ==
  ASSUME NEW T, NEW a \in Seq(T), NEW b \in Seq(T)
  PROVE  /\ a \o b \in Seq(T) /\ Len(a \o b) = Len(a) + Len(b)
         /\ \A i \in 1 .. Len(a) + Len(b) :
              (a \o b)[i] = IF i <= Len(a) THEN a[i] ELSE b[i - Len(a)]
OBVIOUS

\* The frames that leave a wire when a chunk of it is read.
LeftOf(w, k, tear) == SubSeq(w, 1, IF tear THEN k - 1 ELSE k)

\* The frames that leave the wire and those left on it have all its parts.
LEMMA WireSplit ==
  ASSUME NEW w \in Seq(FrameSet), NEW k \in 1 .. Len(w), NEW tear \in BOOLEAN
  PROVE  LET l == LeftOf(w, k, tear)
             r == RestOf(w, k, tear) IN
         /\ l \in Seq(FrameSet) /\ r \in Seq(FrameSet)
         /\ \A i \in DOMAIN l : i \in 1 .. k /\ l[i] = w[i] /\ (i = k => ~tear)
         /\ Gather(EveryFrame, w) = Gather(EveryFrame, l) \o Gather(EveryFrame, r)
         /\ ChunkOf(w, k, tear) = (IF tear THEN Append(l, Half(w[k])) ELSE l)
         /\ Len(l) > 0 \/ tear
<1> DEFINE d == IF tear THEN k - 1 ELSE k
           l == LeftOf(w, k, tear)
           r == RestOf(w, k, tear)
           b == SubSeq(w, d + 1, Len(w))
           n == Len(w)
           g == EveryFrame
<1>0. k \in Nat /\ k > 0 /\ k <= n /\ n \in Nat /\ d \in Nat /\ d <= k  OBVIOUS
<1>1. l \in Seq(FrameSet) /\ Len(l) = d /\ \A i \in 1 .. d : l[i] = w[i]
  BY <1>0 DEF LeftOf
<1>2. b \in Seq(FrameSet) /\ Len(b) = n - d /\ \A i \in 1 .. n - d : b[i] = w[i + d]
  <2>1. d \in Nat /\ d <= n  BY <1>0
  <2> HIDE DEF d
  <2>2. b \in Seq(FrameSet) /\ Len(b) = n - d  BY <2>1
  <2>3. \A i \in 1 .. n - d : b[i] = w[i + d]  BY <2>1
  <2> QED BY <2>2, <2>3
<1>3. r \in Seq(FrameSet) /\ Len(r) = n - d  BY RestIs
<1>4. \A j \in DOMAIN r : r[j].parts = w[j + d].parts  BY RestFrames
<1>5. ChunkOf(w, k, tear) = (IF tear THEN Append(l, Half(w[k])) ELSE l)  BY DEF ChunkOf, LeftOf
<1>6. (Len(l) > 0 \/ tear) /\ \A i \in DOMAIN l : i \in 1 .. k /\ l[i] = w[i] /\ (i = k => ~tear)
  BY <1>0, <1>1
<1> DEFINE x == l \o b
<1> HIDE DEF l, r, b, d
<1>7. x = w
  <2>0. /\ x \in Seq(FrameSet) /\ Len(x) = Len(l) + Len(b)
        /\ \A i \in 1 .. Len(l) + Len(b) : x[i] = IF i <= Len(l) THEN l[i] ELSE b[i - Len(l)]
    <3>1. l \in Seq(FrameSet) /\ b \in Seq(FrameSet)  BY <1>1, <1>2
    <3> QED BY <3>1, Joined
  <2>1. /\ x \in Seq(FrameSet) /\ Len(x) = d + (n - d)
        /\ \A i \in 1 .. d + (n - d) : x[i] = IF i <= d THEN l[i] ELSE b[i - d]
    <3> HIDE DEF x
    <3> QED BY <1>1, <1>2, <2>0, Zenon
  <2>2. d + (n - d) = n  BY <1>0
  <2> HIDE DEF x
  <2>3. ASSUME NEW i \in 1 .. n PROVE x[i] = w[i]
    <3>1. CASE i <= d
      <4>1. i \in 1 .. d  BY <3>1, <1>0
      <4> QED BY <4>1, <3>1, <2>1, <2>2, <1>1
    <3>2. CASE ~(i <= d)
      <4>1. i - d \in 1 .. n - d /\ (i - d) + d = i  BY <3>2, <1>0
      <4> QED BY <4>1, <3>2, <2>1, <2>2, <1>2
    <3> QED BY <3>1, <3>2
  <2> QED BY <2>1, <2>2, <2>3, SeqEqual
<1>8. Maker(g, FrameSet, PartSet)  BY EveryMakes
<1>9. Gather(g, l \o b) = Gather(g, l) \o Gather(g, b)  BY <1>1, <1>2, <1>8, GatherConcat
<1>10. Each(g, b) = Each(g, r)
  <2>1. DOMAIN b = 1 .. n - d /\ DOMAIN r = 1 .. n - d  BY <1>2, <1>3
  <2>2. ASSUME NEW i \in 1 .. n - d PROVE g[b[i]] = g[r[i]]
    <3>1. b[i] \in FrameSet /\ r[i] \in FrameSet  BY <1>2, <1>3
    <3>2. b[i].parts = r[i].parts  BY <1>2, <1>4, <2>1
    <3> QED BY <3>1, <3>2 DEF EveryFrame
  <2> HIDE DEF g
  <2> QED BY <2>1, <2>2 DEF Each
<1>11. Gather(g, w) = Gather(g, l) \o Gather(g, r)
  <2> HIDE DEF g
  <2>1. Gather(g, b) = Gather(g, r)  BY <1>10, Zenon DEF Gather
  <2> QED BY <2>1, <1>7, <1>9
<1> QED BY <1>1, <1>3, <1>5, <1>6, <1>11 DEF l, r

-----------------------------------------------------------------------------
(* An answer under way. *)

\* The framing of a chunk breaks the frames the model says.
LEMMA BrokenIs ==
  ASSUME NEW c \in Seq(FrameSet)
  PROVE  Breaks(format, c, Broken(c))
<1> DEFINE S(i) == Struck(format, c, i)
           T == { i \in DOMAIN c : /\ format # "gemini"
                                   /\ c[i].torn \/ (Len(c) > 1 /\ format # "responses") }
           I(i) == { p.id : p \in Range(c[i].parts) }
           Z(i) == IF c[i].finish # "none" \/ c[i].blocked THEN {0} ELSE {}
<1>1. Broken(c) = UNION { I(i) \cup Z(i) : i \in T }  BY DEF Broken
<1>2. ASSUME NEW i \in 1 .. Len(c) PROVE I(i) = Nos(c[i])
  <2>1. Range(c[i].parts) = { c[i].parts[j] : j \in DOMAIN c[i].parts }  BY DEF Range
  <2> QED BY <2>1 DEF Nos
<1>3. T = { i \in 1 .. Len(c) : S(i) }  BY DEF Struck
<1>4. \A i : Z(i) \subseteq {0}  OBVIOUS
<1> HIDE DEF T, I, Z, S
<1>5. \A i \in 1 .. Len(c) : S(i) => Nos(c[i]) \subseteq Broken(c)  BY <1>1, <1>2, <1>3
<1>6. \A x \in Broken(c) : x = 0 \/ \E i \in 1 .. Len(c) : S(i) /\ x \in Nos(c[i])
  <2>1. ASSUME NEW x \in Broken(c) PROVE x = 0 \/ \E i \in 1 .. Len(c) : S(i) /\ x \in Nos(c[i])
    <3>1. PICK i \in T : x \in I(i) \cup Z(i)  BY <1>1
    <3>2. i \in 1 .. Len(c) /\ S(i)  BY <1>3
    <3> QED BY <3>1, <3>2, <1>2, <1>4
  <2> QED BY <2>1
<1> QED BY <1>5, <1>6 DEF Breaks, S

\* An answer under way: the frames that have left the wire ("gone") and those on
\* it hold all that was said, no part twice; each kind of content was told the
\* parts of the former that are not lost; and of the latter none is lost but the
\* rest of a torn frame.
Deliv(f, u, w, q, gap, gone, m) ==
  /\ gone \in Seq(FrameSet)
  /\ q = Gather(EveryFrame, gone) \o Gather(EveryFrame, w)
  /\ \A k \in PartKinds : m[k] = Gather(Heeded(Sources(f, k), gap), gone)
  /\ \A i \in DOMAIN gone, j \in DOMAIN w : Nos(gone[i]) \cap Nos(w[j]) = {}
  /\ Apart(w) /\ Safe(f, w, gap)
  /\ \A i \in DOMAIN gone : Nos(gone[i]) \subseteq 0 .. u
  /\ \A i \in DOMAIN w : Nos(w[i]) \subseteq 0 .. u
  /\ gap \subseteq 0 .. u

\* It begins with nothing said.
LEMMA DelivStart ==
  ASSUME NEW f, NEW u
  PROVE  Deliv(f, u, << >>, << >>, {}, << >>, Spoken(<< >>))
<1>1. \A g : Gather(g, << >>) = << >>  BY GatherNone
<1>2. \A k \in PartKinds : Spoken(<< >>)[k] = Gather(Heeded(Sources(f, k), {}), << >>)
  BY <1>1 DEF Spoken, ToldOf
<1>3. << >> \o << >> = << >> /\ << >> \in Seq(FrameSet) /\ DOMAIN << >> = {}  OBVIOUS
<1>4. Apart(<< >>) /\ Safe(f, << >>, {})  BY <1>3 DEF Apart, Safe
<1>5. << >> = Gather(EveryFrame, << >>) \o Gather(EveryFrame, << >>)  BY <1>1, <1>3
<1> QED BY <1>2, <1>3, <1>4, <1>5 DEF Deliv

\* One more frame is said.
LEMMA DelivSay ==
  ASSUME NEW f, NEW u \in Nat, NEW w \in Seq(FrameSet), NEW q, NEW gap, NEW gone, NEW m,
         Deliv(f, u, w, q, gap, gone, m),
         NEW x \in FrameSet, ~x.torn, NEW n \in Nat, Nos(x) \subseteq u + 1 .. u + n
  PROVE  Deliv(f, u + n, Append(w, x), q \o x.parts, gap, gone, m)
<1> DEFINE v == Append(w, x)
           z == Len(w)
           g == EveryFrame
<1>0. /\ gone \in Seq(FrameSet) /\ q = Gather(g, gone) \o Gather(g, w)
      /\ \A k \in PartKinds : m[k] = Gather(Heeded(Sources(f, k), gap), gone)
      /\ \A i \in DOMAIN gone, j \in DOMAIN w : Nos(gone[i]) \cap Nos(w[j]) = {}
      /\ Apart(w) /\ Safe(f, w, gap)
      /\ \A i \in DOMAIN gone : Nos(gone[i]) \subseteq 0 .. u
      /\ \A i \in DOMAIN w : Nos(w[i]) \subseteq 0 .. u
      /\ gap \subseteq 0 .. u
  BY DEF Deliv
<1>1. /\ v \in Seq(FrameSet) /\ DOMAIN v = 1 .. z + 1 /\ DOMAIN w = 1 .. z /\ v[z + 1] = x
      /\ \A i \in 1 .. z : v[i] = w[i]
      /\ z \in Nat /\ \A i \in 1 .. z + 1 : i = z + 1 \/ i \in 1 .. z
  OBVIOUS
<1>2. (0 .. u) \cap Nos(x) = {} /\ 0 .. u \subseteq 0 .. u + n /\ Nos(x) \subseteq 0 .. u + n
  <2>1. (0 .. u) \cap (u + 1 .. u + n) = {} /\ 0 .. u \subseteq 0 .. u + n
        /\ u + 1 .. u + n \subseteq 0 .. u + n
    OBVIOUS
  <2> QED BY <2>1
<1> HIDE DEF v
<1>3. \A i \in DOMAIN gone, j \in DOMAIN v : Nos(gone[i]) \cap Nos(v[j]) = {}
  <2>1. \A i \in DOMAIN gone : Nos(gone[i]) \cap Nos(x) = {}  BY <1>0, <1>2
  <2> QED BY <2>1, <1>0, <1>1
<1>4. Apart(v)
  <2>1. \A i \in 1 .. z : Nos(w[i]) \cap Nos(x) = {}  BY <1>0, <1>1, <1>2
  <2>2. \A i, j \in 1 .. z : i # j => Nos(w[i]) \cap Nos(w[j]) = {}  BY <1>0, <1>1 DEF Apart
  <2> QED BY <2>1, <2>2, <1>1 DEF Apart
<1>5. Safe(f, v, gap)
  <2>1. Nos(x) \cap gap = {}  BY <1>0, <1>2
  <2> QED BY <2>1, <1>0, <1>1 DEF Safe
<1>6. \A i \in DOMAIN v : Nos(v[i]) \subseteq 0 .. u + n  BY <1>0, <1>1, <1>2
<1>7. q \o x.parts = Gather(g, gone) \o Gather(g, v)
  <2> DEFINE a == Gather(g, gone)
             b == Gather(g, w)
             p == x.parts
  <2>1. a \in Seq(PartSet) /\ b \in Seq(PartSet)  BY <1>0, EveryMakes, EachTyped
  <2>2. Gather(g, Append(w, x)) = b \o g[x]  BY EveryMakes, GatherAppend
  <2>3. g[x] = p /\ p \in Seq(PartSet)  BY DEF EveryFrame, FrameSet
  <2>4. q = a \o b  BY <1>0
  <2> HIDE DEF a, b, p, g
  <2>5. Regroups(a, b, p)  BY <2>1, <2>3, ConcatAssoc
  <2>6. Gather(g, v) = b \o p  BY <2>2, <2>3 DEF v
  <2>7. q \o p = a \o Gather(g, v)  BY <2>4, <2>5, <2>6, Zenon DEF Regroups
  <2> QED BY <2>7 DEF a, p
<1> QED BY <1>0, <1>2, <1>3, <1>4, <1>5, <1>6, <1>7 DEF Deliv, v

\* A chunk is read: its frames leave the wire and are heard, or are lost.
LEMMA DelivRead ==
  ASSUME NEW f \in Formats, NEW u \in Nat, NEW w, NEW e, WireOK(w, e), NEW q, NEW gap, NEW gone,
         NEW m \in Hearing, Deliv(f, u, w, q, gap, gone, m),
         NEW k \in 1 .. Len(w), NEW tear \in BOOLEAN, NEW broken,
         Breaks(f, ChunkOf(w, k, tear), broken)
  PROVE  Deliv(f, u, RestOf(w, k, tear), q, gap \cup broken, gone \o LeftOf(w, k, tear),
               Heard(f, m, Arrived(f, ChunkOf(w, k, tear), tear)))
<1> DEFINE c == ChunkOf(w, k, tear)
           r == RestOf(w, k, tear)
           l == LeftOf(w, k, tear)
           d == IF tear THEN k - 1 ELSE k
           more == gap \cup broken
           h == Half(w[k])
           x == Heard(f, m, Arrived(f, c, tear))
           g == EveryFrame
           past == gone \o l
<1>0. /\ gone \in Seq(FrameSet) /\ q = Gather(g, gone) \o Gather(g, w)
      /\ \A kind \in PartKinds : m[kind] = Gather(Heeded(Sources(f, kind), gap), gone)
      /\ \A i \in DOMAIN gone, j \in DOMAIN w : Nos(gone[i]) \cap Nos(w[j]) = {}
      /\ Apart(w) /\ Safe(f, w, gap)
      /\ \A i \in DOMAIN gone : Nos(gone[i]) \subseteq 0 .. u
      /\ \A i \in DOMAIN w : Nos(w[i]) \subseteq 0 .. u
      /\ gap \subseteq 0 .. u
  BY DEF Deliv
<1>1. /\ w \in Seq(FrameSet) /\ w[k] \in FrameSet /\ DOMAIN w = 1 .. Len(w)
      /\ k \in Nat /\ k > 0 /\ k <= Len(w) /\ Len(w) \in Nat /\ d \in Nat
      /\ \A i \in 1 .. k : i \in DOMAIN w
  BY DEF WireOK
<1>2. /\ l \in Seq(FrameSet) /\ r \in Seq(FrameSet)
      /\ \A i \in DOMAIN l : i \in 1 .. k /\ l[i] = w[i] /\ (i = k => ~tear)
      /\ Gather(g, w) = Gather(g, l) \o Gather(g, r)
      /\ c = (IF tear THEN Append(l, h) ELSE l)
      /\ Len(l) > 0 \/ tear
  BY <1>1, WireSplit
<1>3. /\ \A i \in 1 .. k : Nos(c[i]) = Nos(w[i]) /\ (i # k \/ ~tear => c[i] = w[i])
      /\ \A j \in DOMAIN r :
           /\ j + d \in k .. Len(w) /\ r[j].parts = w[j + d].parts /\ Nos(r[j]) = Nos(w[j + d])
           /\ j + d # k => r[j] = w[j + d]
           /\ j + d = k => tear /\ r[j].torn
  BY <1>1, RestFrames
<1>4. NowLost(f, c, more) /\ Apart(r) /\ Safe(f, r, more)  BY <1>0, RestSafe
<1>5. h \in FrameSet /\ h.torn  BY <1>1, NosAre
<1>6. Len(c) = k  BY <1>1, ChunkIs
<1>7. \A y \in broken : y = 0 \/ \E i \in 1 .. k : y \in Nos(w[i])  BY <1>3, <1>6 DEF Breaks
<1> HIDE DEF c, r, l, h, d
<1>8. /\ past \in Seq(FrameSet)
      /\ \A i \in DOMAIN past : \/ \E j \in DOMAIN gone : past[i] = gone[j]
                                \/ \E j \in DOMAIN l : past[i] = l[j]
  <2>1. /\ past \in Seq(FrameSet) /\ Len(past) = Len(gone) + Len(l)
        /\ \A i \in 1 .. Len(gone) + Len(l) :
             past[i] = IF i <= Len(gone) THEN gone[i] ELSE l[i - Len(gone)]
    BY <1>0, <1>2, Joined
  <2>2. Len(gone) \in Nat /\ Len(l) \in Nat /\ DOMAIN gone = 1 .. Len(gone) /\ DOMAIN l = 1 .. Len(l)
    BY <1>0, <1>2
  <2> HIDE DEF past
  <2>3. ASSUME NEW i \in DOMAIN past
        PROVE  (\E j \in DOMAIN gone : past[i] = gone[j]) \/ (\E j \in DOMAIN l : past[i] = l[j])
    <3>1. i \in 1 .. Len(gone) + Len(l)  BY <2>1
    <3>2. CASE i <= Len(gone)
      <4>1. i \in DOMAIN gone /\ past[i] = gone[i]  BY <3>1, <3>2, <2>1, <2>2
      <4> QED BY <4>1
    <3>3. CASE ~(i <= Len(gone))
      <4>1. i - Len(gone) \in DOMAIN l /\ past[i] = l[i - Len(gone)]  BY <3>1, <3>3, <2>1, <2>2
      <4> QED BY <4>1
    <3> QED BY <3>2, <3>3
  <2> QED BY <2>1, <2>3
<1>9. q = Gather(g, past) \o Gather(g, r)
  <2> DEFINE a == Gather(g, gone)
             b == Gather(g, l)
             y == Gather(g, r)
  <2>1. a \in Seq(PartSet) /\ b \in Seq(PartSet) /\ y \in Seq(PartSet)
    BY <1>0, <1>2, EveryMakes, EachTyped
  <2>2. Gather(g, past) = a \o b  BY <1>0, <1>2, EveryMakes, GatherConcat
  <2>3. q = a \o (b \o y)  BY <1>0, <1>2
  <2> HIDE DEF a, b, y, past, g
  <2>4. Regroups(a, b, y)  BY <2>1, ConcatAssoc
  <2>5. q = Gather(g, past) \o y  BY <2>2, <2>3, <2>4, Zenon DEF Regroups
  <2> QED BY <2>5 DEF y
<1>10. ASSUME NEW kind \in PartKinds PROVE x[kind] = Gather(Heeded(Sources(f, kind), more), past)
  <2> DEFINE s == Sources(f, kind)
             a == Heeded(s, gap)
             b == Heeded(s, more)
             t == Arrived(f, c, tear)
  <2>1. x[kind] = m[kind] \o OfKind(t, s)  BY DEF Heard
  <2>2. m[kind] = Gather(a, gone)  BY <1>0
  <2>3. OfKind(t, s) = Gather(b, l)
    <3>1. NowLost(f, IF tear THEN Append(l, h) ELSE l, more)  BY <1>2, <1>4
    <3> HIDE DEF s, more
    <3>2. OfKind(Arrived(f, IF tear THEN Append(l, h) ELSE l, tear), s) = Gather(Heeded(s, more), l)
      BY <3>1, <1>2, <1>5, ReadHeeded
    <3> QED BY <3>2, <1>2
  <2>4. \A i \in DOMAIN gone : a[gone[i]] = b[gone[i]]
    <3>1. ASSUME NEW i \in DOMAIN gone PROVE a[gone[i]] = b[gone[i]]
      <4>1. gone[i] \in FrameSet  BY <1>0
      <4>2. 0 \notin Nos(gone[i])  BY <4>1, NosAre
      <4>3. \A j \in 1 .. k : Nos(gone[i]) \cap Nos(w[j]) = {}  BY <1>0, <1>1
      <4>4. Nos(gone[i]) \cap broken = {}  BY <4>2, <4>3, <1>7
      <4> DEFINE y == gone[i]
      <4>5. y \in FrameSet /\ Nos(y) \cap broken = {}  BY <4>1, <4>4
      <4> HIDE DEF s, y
      <4>6. Heeded(s, gap \cup broken)[y] = Heeded(s, gap)[y]  BY <4>5, HeedSame
      <4>7. b[y] = a[y]  BY <4>6
      <4> QED BY <4>7 DEF y
    <3> QED BY <3>1
  <2>5. Maker(b, FrameSet, PartNo)  BY TakenMakes
  <2> HIDE DEF a, b, s, t, x
  <2>6. Gather(a, gone) = Gather(b, gone)  BY <2>4, GatherSame
  <2>7. Gather(b, gone \o l) = Gather(b, gone) \o Gather(b, l)  BY <1>0, <1>2, <2>5, GatherConcat
  <2> QED BY <2>1, <2>2, <2>3, <2>6, <2>7 DEF b, s
<1> HIDE DEF past
<1>11. \A j \in DOMAIN r : \E i \in DOMAIN w : Nos(r[j]) = Nos(w[i]) /\ (i = j + d)
  <2>1. ASSUME NEW j \in DOMAIN r PROVE j + d \in DOMAIN w /\ Nos(r[j]) = Nos(w[j + d])
    BY <1>1, <1>3
  <2> QED BY <2>1
<1>12. \A i \in DOMAIN l, j \in DOMAIN r : Nos(l[i]) \cap Nos(r[j]) = {}
  <2>1. ASSUME NEW i \in DOMAIN l, NEW j \in DOMAIN r PROVE Nos(l[i]) \cap Nos(r[j]) = {}
    <3>1. i \in 1 .. k /\ l[i] = w[i] /\ (i = k => ~tear) /\ i \in DOMAIN w  BY <1>1, <1>2
    <3>2. j + d \in k .. Len(w) /\ (j + d = k => tear) /\ j + d \in DOMAIN w
          /\ Nos(r[j]) = Nos(w[j + d])
      BY <1>1, <1>3
    <3> DEFINE z == j + d
    <3> HIDE DEF z
    <3>3. z \in k .. Len(w) /\ (z = k => tear) /\ z \in DOMAIN w /\ Nos(r[j]) = Nos(w[z])
      BY <3>2 DEF z
    <3>4. i # z  BY <3>1, <3>3, <1>1
    <3> QED BY <3>1, <3>3, <3>4, <1>0 DEF Apart
  <2> QED BY <2>1
<1>13. \A i \in DOMAIN past, j \in DOMAIN r : Nos(past[i]) \cap Nos(r[j]) = {}
  <2>1. \A i \in DOMAIN gone, j \in DOMAIN r : Nos(gone[i]) \cap Nos(r[j]) = {}  BY <1>0, <1>11
  <2> QED BY <2>1, <1>8, <1>12
<1>14. \A i \in DOMAIN past : Nos(past[i]) \subseteq 0 .. u
  <2>1. \A i \in DOMAIN l : Nos(l[i]) \subseteq 0 .. u  BY <1>0, <1>1, <1>2
  <2> QED BY <2>1, <1>0, <1>8
<1>15. \A j \in DOMAIN r : Nos(r[j]) \subseteq 0 .. u  BY <1>0, <1>11
<1>16. more \subseteq 0 .. u
  <2>1. 0 \in 0 .. u  OBVIOUS
  <2>2. broken \subseteq 0 .. u  BY <2>1, <1>0, <1>1, <1>7
  <2> QED BY <2>2, <1>0
<1> HIDE DEF x, more
<1>17. Deliv(f, u, r, q, more, past, x)
  BY <1>4, <1>8, <1>9, <1>10, <1>13, <1>14, <1>15, <1>16 DEF Deliv
<1> QED BY <1>17 DEF r, more, past, x, l, c

\* At the end of the answer each kind of content was told all that was said and
\* is not lost.
LEMMA DelivEnd ==
  ASSUME NEW f, NEW u, NEW q, NEW gap, NEW gone, NEW m, Deliv(f, u, << >>, q, gap, gone, m)
  PROVE  q \in Seq(PartSet) /\ \A k \in PartKinds : m[k] = Gather(Taken(Sources(f, k), gap), q)
<1> DEFINE g == EveryFrame
<1>1. /\ gone \in Seq(FrameSet) /\ q = Gather(g, gone) \o Gather(g, << >>)
      /\ \A k \in PartKinds : m[k] = Gather(Heeded(Sources(f, k), gap), gone)
  BY DEF Deliv
<1>2. Gather(g, gone) \in Seq(PartSet)  BY <1>1, EveryMakes, EachTyped
<1> DEFINE z == Gather(g, gone)
<1>3. Gather(g, << >>) = << >> /\ z \o << >> = z  BY <1>2, GatherNone
<1>4. q = z  BY <1>1, <1>3
<1>5. ASSUME NEW k \in PartKinds PROVE m[k] = Gather(Taken(Sources(f, k), gap), q)
  <2> DEFINE s == Sources(f, k)
             t == Taken(s, gap)
             h == Heeded(s, gap)
  <2>1. Maker(t, PartSet, PartNo) /\ Maker(h, FrameSet, PartNo) /\ Maker(g, FrameSet, PartSet)
    BY TakenMakes, EveryMakes
  <2>2. \A y \in FrameSet : h[y] = Gather(t, g[y])  BY DEF Heeded, EveryFrame
  <2>3. m[k] = Gather(h, gone)  BY <1>1
  <2> HIDE DEF t, h, g, s
  <2>4. Gather(t, Gather(g, gone)) = Gather(h, gone)  BY <1>1, <2>1, <2>2, GatherGather
  <2> QED BY <1>4, <2>3, <2>4 DEF t, s
<1> QED BY <1>2, <1>4, <1>5

-----------------------------------------------------------------------------
(* How a Chat Completions stream ends. *)

\* How a frame says that the answer ends, if it does, and the reason a client
\* is told: that of its calls, if a call arrived.
Stops == {"STOP", "MAX_TOKENS"}
How(x) == IF x.blocked THEN "blocked" ELSE x.finish
Why(f, out, reason) ==
  IF f # "gemini" /\ Spoken(out)["call"] # << >> THEN "call" ELSE reason
EndsBy(f, out, e) ==
  /\ Over(out) <=> e \in Stops \/ (e = "blocked" /\ f = "openai")
  /\ e \in Stops /\ f # "responses" => \A i \in Endings(out) : out[i].kind = Why(f, out, e)

\* The translators that count the calls of a stream have counted them all.
CallsCounted(f, s) ==
  /\ f = "openai" => (s.calls > 0 <=> Spoken(s.out)["call"] # << >>)
  /\ f = "claude" => (s.tool <=> Spoken(s.out)["call"] # << >>)

\* A stream is over, for this reason only.
OnlyFor(out, kind) == Over(out) /\ \A i \in Endings(out) : out[i].kind = kind

\* A finish is the only one of a stream that was not over.
LEMMA FinishAppend ==
  ASSUME NEW out \in Seq(Ev), ~Over(out), NEW e \in Ev, e.stage = "finish", NEW r, r = Append(out, e)
  PROVE  /\ r \in Seq(Ev) /\ Over(r) /\ Spoken(r) = Spoken(out)
         /\ OnlyFor(r, e.kind)
<1>1. Endings(Append(out, e)) = {Len(out) + 1}  BY EndingsAppend DEF Over
<1>2. Append(out, e)[Len(out) + 1] = e  OBVIOUS
<1>3. Spoken(Append(out, e)) = Spoken(out)  BY SpokenQuiet
<1>4. Append(out, e) \in Seq(Ev)  OBVIOUS
<1> QED BY <1>1, <1>2, <1>3, <1>4 DEF Over, OnlyFor

\* One part more is one call more, or none.
LEMMA CallHeard ==
  ASSUME NEW m \in Hearing, NEW p \in PartSet, NEW f \in {"openai", "claude"}
  PROVE  /\ p.kind = "call" => Hear(f, m, p)["call"] # << >>
         /\ p.kind # "call" => Hear(f, m, p)["call"] = m["call"]
<1>1. p.kind \in Kind /\ p.id \in PartNo  BY DEF PartSet, PartNo
<1>2. HeardAs(f, p.kind) = "call" <=> p.kind = "call"
  BY <1>1 DEF HeardAs, OpenAIKind, Kind
<1>3. "call" \in PartKinds /\ m["call"] \in Seq(PartNo)  BY DEF PartKinds, Hearing
<1>4. Hear(f, m, p)["call"] = IF HeardAs(f, p.kind) = "call" THEN Append(m["call"], p.id) ELSE m["call"]
  BY <1>3 DEF Hear
<1>5. Append(m["call"], p.id) # << >>  BY <1>1, <1>3
<1> QED BY <1>2, <1>4, <1>5

\* A part of a Chat Completions stream is counted if it is a call.
LEMMA OpenAIPartCounts ==
  ASSUME NEW s \in OpenAILive, NEW p \in PartSet, CallsCounted("openai", s)
  PROVE  OpenAIPart(s, p) \in OpenAILive /\ CallsCounted("openai", OpenAIPart(s, p))
<1> DEFINE r == OpenAIPart(s, p)
           first == Event("start", "none", 0, 0)
           named == IF s.role THEN s ELSE Emit(s, << first >>)
           index == IF p.kind = "call" THEN s.calls ELSE 0
           e == Event("delta", OpenAIKind(p.kind), index, p.id)
           calls == IF p.kind = "call" THEN named.calls + 1 ELSE named.calls
           z == [named EXCEPT !.role = TRUE, !.calls = calls]
<1>1. s \in OpenAIState /\ s.calls \in Nat /\ s.out \in Seq(Ev)
  BY DEF OpenAILive, OpenAISound, OpenAIState
<1>2. Spoken(s.out) \in Hearing  BY <1>1, SpokenTyped
<1>3. Spoken(r.out) = Hear("openai", Spoken(s.out), p) /\ r \in OpenAILive
  BY <1>1, OpenAIPartSpoken, OpenAIPartLive
<1>4. r.calls = IF p.kind = "call" THEN s.calls + 1 ELSE s.calls
  <2>1. r = Emit(z, << e >>)  BY DEF OpenAIPart
  <2>2. DOMAIN named = {"role", "calls", "out"} /\ named.calls = s.calls
    <3>1. DOMAIN s = {"role", "calls", "out"}  BY <1>1 DEF OpenAIState
    <3>2. DOMAIN Emit(s, << first >>) = {"role", "calls", "out"} /\ Emit(s, << first >>).calls = s.calls
      BY <3>1 DEF Emit
    <3> QED BY <3>1, <3>2
  <2> HIDE DEF named, e
  <2>3. DOMAIN z = {"role", "calls", "out"} /\ z.calls = calls  BY <2>2
  <2> HIDE DEF z, r
  <2>4. r.calls = z.calls  BY <2>1, <2>3 DEF Emit
  <2> QED BY <2>2, <2>3, <2>4
<1>5. Spoken(r.out)["call"] # << >> <=> p.kind = "call" \/ Spoken(s.out)["call"] # << >>
  BY <1>2, <1>3, CallHeard
<1>6. s.calls > 0 <=> Spoken(s.out)["call"] # << >>  BY DEF CallsCounted
<1> HIDE DEF r
<1>7. r.calls > 0 <=> Spoken(r.out)["call"] # << >>  BY <1>1, <1>4, <1>5, <1>6
<1> QED BY <1>3, <1>7 DEF CallsCounted, r

\* A frame of a Chat Completions stream finishes it as it says.
LEMMA OpenAIFrameEnds ==
  ASSUME NEW s \in OpenAILive, NEW x \in FrameSet, CallsCounted("openai", s)
  PROVE  LET r == OpenAIFrame(s, x) IN CallsCounted("openai", r) /\ EndsBy("openai", r.out, How(x))
<1> DEFINE told == FoldLeft(OpenAIPart, s, x.parts)
           c == IF told.calls > 0 THEN "call" ELSE x.finish
           d == Event("delta", "notice", 0, 0)
           e == Event("finish", "STOP", 0, 0)
           g == Event("finish", c, 0, 0)
           a == Emit(s, << d >>)
           b == Emit(a, << e >>)
           h == Emit(told, << g >>)
           r == OpenAIFrame(s, x)
<1>1. /\ x.parts \in Seq(PartSet) /\ x.finish \in {"none", "STOP", "MAX_TOKENS"} /\ x.blocked \in BOOLEAN
      /\ x.finish \in EvKind
  BY DEF FrameSet, EvKind
<1>2. r = CASE x.blocked -> Emit(s, << d, e >>)
            [] ~x.blocked /\ x.finish = "none" -> told
            [] OTHER -> h
  BY DEF OpenAIFrame
<1>3. told \in OpenAILive /\ CallsCounted("openai", told)
  <2> DEFINE V == { v \in OpenAILive : CallsCounted("openai", v) }
             J == Nat \X V
  <2>1. \A v \in V, p \in PartSet : OpenAIPart(v, p) \in V
    <3> HIDE DEF J
    <3> SUFFICES ASSUME NEW v \in V, NEW p \in PartSet PROVE OpenAIPart(v, p) \in V  OBVIOUS
    <3>1. OpenAIPart(v, p) \in OpenAILive /\ CallsCounted("openai", OpenAIPart(v, p))  BY OpenAIPartCounts
    <3> QED BY <3>1
  <2>2. s \in V  OBVIOUS
  <2> HIDE DEF V
  <2>3. << 0, s >> \in J  BY <2>2
  <2>4. \A i \in 1 .. Len(x.parts), v \in V : << i - 1, v >> \in J => << i, OpenAIPart(v, x.parts[i]) >> \in J
    BY <1>1, <2>1
  <2> HIDE DEF J
  <2>5. told \in V  BY <1>1, <2>1, <2>2, <2>3, <2>4, OpenAIParts
  <2> HIDE DEF told
  <2> QED BY <2>5 DEF V
<1>4. c \in EvKind  BY <1>1, Words
<1>5. d \in Ev /\ d.stage = "delta" /\ d.part = 0 /\ e \in Ev /\ e.stage = "finish"  BY Words, EventIs
<1>6. g \in Ev /\ g.stage = "finish" /\ g.kind = c
  <2> HIDE DEF c
  <2> QED BY <1>4, Words, EventIs
<1>7. /\ s \in OpenAIState /\ s.out \in Seq(Ev) /\ ~Over(s.out)
      /\ told \in OpenAIState /\ told.out \in Seq(Ev) /\ ~Over(told.out)
  BY <1>3 DEF OpenAILive, OpenAISound, OpenAIState
<1> HIDE DEF told, c, d, e, g, r
<1>8. /\ a \in OpenAIState /\ a.out = Append(s.out, d) /\ b \in OpenAIState /\ b.out = Append(a.out, e)
      /\ a.calls = s.calls /\ b.calls = s.calls
  <2>1. a \in OpenAIState /\ a.out = Append(s.out, d)  BY <1>5, <1>7, OpenAITell
  <2>2. a.calls = s.calls  BY <1>7 DEF Emit, OpenAIState
  <2> HIDE DEF a
  <2>3. b \in OpenAIState /\ b.out = Append(a.out, e)  BY <1>5, <2>1, OpenAITell
  <2>4. b.calls = a.calls  BY <2>1 DEF Emit, OpenAIState
  <2> QED BY <2>1, <2>2, <2>3, <2>4
<1>9. h \in OpenAIState /\ h.out = Append(told.out, g) /\ h.calls = told.calls
  <2>1. h.calls = told.calls  BY <1>7 DEF Emit, OpenAIState
  <2> QED BY <1>6, <1>7, <2>1, OpenAITell
<1>10. Emit(s, << d, e >>) = b
  <2>1. Emit(s, << d, e >>) = Emit(Emit(s, << d >>), << e >>)  BY <1>5, <1>7, OpenAIEmitTwo
  <2> QED BY <2>1 DEF a, b
<1> HIDE DEF a, b, h
<1>11. CASE x.blocked
  <2>1. r = b  BY <1>2, <1>10, <1>11
  <2>2. ~Over(a.out) /\ Spoken(a.out) = Spoken(s.out) /\ a.out \in Seq(Ev)
    <3>1. Spoken(a.out) = Spoken(s.out)  BY <1>5, <1>7, <1>8, SpokenQuiet
    <3>2. ~Over(a.out)  BY <1>5, <1>7, <1>8, EndingsAppend
    <3> QED BY <3>1, <3>2, <1>8 DEF OpenAIState
  <2>3. Over(b.out) /\ Spoken(b.out) = Spoken(s.out)  BY <1>5, <1>8, <2>2, FinishAppend
  <2>4. CallsCounted("openai", b)  BY <1>8, <2>3 DEF CallsCounted
  <2>5. EndsBy("openai", b.out, "blocked")  BY <2>3 DEF EndsBy, Stops
  <2> QED BY <2>1, <2>4, <2>5, <1>11 DEF r, How
<1>12. CASE ~x.blocked /\ x.finish = "none"
  <2>1. r = told  BY <1>2, <1>12
  <2>2. EndsBy("openai", told.out, "none")  BY <1>7 DEF EndsBy, Stops
  <2> QED BY <2>1, <2>2, <1>3, <1>12 DEF r, How
<1>13. CASE ~x.blocked /\ x.finish # "none"
  <2>1. r = h  BY <1>2, <1>13
  <2>2. /\ Over(h.out) /\ Spoken(h.out) = Spoken(told.out)
        /\ \A i \in Endings(h.out) : h.out[i].kind = c
    <3> DEFINE t == told.out
               o == h.out
    <3>1. t \in Seq(Ev) /\ ~Over(t) /\ o = Append(t, g) /\ g \in Ev /\ g.stage = "finish"
      BY <1>6, <1>7, <1>9
    <3> HIDE DEF t, o
    <3>2. OnlyFor(o, g.kind) /\ Spoken(o) = Spoken(t)  BY <3>1, FinishAppend
    <3> QED BY <3>2, <1>6 DEF t, o, OnlyFor
  <2>3. CallsCounted("openai", h)  BY <1>3, <1>9, <2>2 DEF CallsCounted
  <2>4. told.calls > 0 <=> Spoken(h.out)["call"] # << >>  BY <1>3, <2>2 DEF CallsCounted
  <2>5. c = Why("openai", h.out, x.finish)  BY <2>4 DEF c, Why
  <2>6. x.finish \in Stops  BY <1>1, <1>13 DEF Stops
  <2>7. EndsBy("openai", h.out, x.finish)  BY <2>2, <2>5, <2>6 DEF EndsBy
  <2> QED BY <2>1, <2>3, <2>7, <1>13 DEF r, How
<1> QED BY <1>1, <1>11, <1>12, <1>13

-----------------------------------------------------------------------------
(* How a Messages stream ends. *)

\* The mark that a Messages stream had a call.
SameTool(s, r) == DOMAIN r = DOMAIN s /\ r.tool = s.tool

\* Telling and closing leave the mark.
LEMMA ToolSame ==
  ASSUME NEW s, "tool" \in DOMAIN s
  PROVE  /\ \A events : SameTool(s, Emit(s, events))
         /\ SameTool(s, StopThinking(s)) /\ SameTool(s, StopText(s))
<1>1. ASSUME NEW z, "tool" \in DOMAIN z, NEW events PROVE SameTool(z, Emit(z, events))
  BY <1>1 DEF SameTool, Emit
<1>2. SameTool(s, StopThinking(s))
  <2> DEFINE z == [s EXCEPT !.thinkingOpen = FALSE]
  <2>1. SameTool(s, z) /\ SameTool(s, s)  BY DEF SameTool
  <2>2. \A events : SameTool(s, Emit(z, events))  BY <2>1, <1>1 DEF SameTool
  <2> QED BY <2>1, <2>2 DEF StopThinking
<1>3. SameTool(s, StopText(s))
  <2> DEFINE z == [s EXCEPT !.textOpen = FALSE]
  <2>1. SameTool(s, z) /\ SameTool(s, s)  BY DEF SameTool
  <2>2. \A events : SameTool(s, Emit(z, events))  BY <2>1, <1>1 DEF SameTool
  <2> QED BY <2>1, <2>2 DEF StopText
<1> QED BY <1>1, <1>2, <1>3

\* A call sets the mark, and no other part changes it.
LEMMA ClaudeTool ==
  ASSUME NEW s \in ClaudeState, NEW p \in PartSet
  PROVE  LET r == ClaudePart(s, p) IN
         /\ p.kind = "call" => r.tool = TRUE
         /\ p.kind # "call" => r.tool = s.tool
<1> DEFINE r == ClaudePart(s, p)
<1>1. "tool" \in DOMAIN s /\ p.kind \in Kind  BY DEF ClaudeState, PartSet
<1>2. CASE p.kind = "thought"
  <2> DEFINE z == [s EXCEPT !.thinking = s.next, !.thinkingOpen = TRUE, !.next = s.next + 1]
             e == << Event("open", "thought", s.next, 0) >>
             q == IF s.thinking # Absent THEN s ELSE Emit(z, e)
             d == << Event("delta", "thought", q.thinking, p.id) >>
  <2>1. r = Emit(q, d)  BY <1>2 DEF ClaudePart, ClaudeThought
  <2>2. SameTool(s, z) /\ SameTool(s, s)  BY <1>1 DEF SameTool
  <2> HIDE DEF z, e
  <2>3. SameTool(z, Emit(z, e))  BY <1>1, <2>2, ToolSame DEF SameTool
  <2>4. SameTool(s, q)  BY <2>2, <2>3 DEF SameTool
  <2> HIDE DEF q, d
  <2>5. SameTool(q, Emit(q, d))  BY <1>1, <2>4, ToolSame DEF SameTool
  <2> QED BY <1>2, <2>1, <2>4, <2>5 DEF SameTool
<1>3. CASE p.kind \in {"text", "image"}
  <2> DEFINE t == StopThinking(s)
             z == [t EXCEPT !.text = t.next, !.textOpen = TRUE, !.next = t.next + 1]
             e == << Event("open", "text", t.next, 0) >>
             q == IF t.text # Absent THEN t ELSE Emit(z, e)
             d == << Event("delta", "text", q.text, p.id) >>
  <2>1. r = Emit(q, d)  BY <1>3 DEF ClaudePart, ClaudeText
  <2>2. SameTool(s, t)  BY <1>1, ToolSame
  <2> HIDE DEF t
  <2>3. SameTool(t, z)  BY <1>1, <2>2 DEF SameTool
  <2> HIDE DEF z, e
  <2>4. SameTool(z, Emit(z, e))  BY <1>1, <2>2, <2>3, ToolSame DEF SameTool
  <2>5. SameTool(s, q)  BY <2>2, <2>3, <2>4 DEF SameTool
  <2> HIDE DEF q, d
  <2>6. SameTool(q, Emit(q, d))  BY <1>1, <2>5, ToolSame DEF SameTool
  <2> QED BY <1>3, <2>1, <2>5, <2>6 DEF SameTool
<1>4. CASE p.kind = "call"
  <2> DEFINE z == [s EXCEPT !.next = s.next + 1, !.tool = TRUE]
             e == << Event("open", "call", s.next, 0), Event("delta", "call", s.next, p.id),
                     Event("close", "call", s.next, 0) >>
  <2>1. r = Emit(z, e)  BY <1>4 DEF ClaudePart, ClaudeCall
  <2>2. "tool" \in DOMAIN z /\ z.tool = TRUE  BY <1>1
  <2> HIDE DEF z, e
  <2>3. SameTool(z, Emit(z, e))  BY <2>2, ToolSame
  <2> QED BY <1>4, <2>1, <2>2, <2>3 DEF SameTool
<1> QED BY <1>1, <1>2, <1>3, <1>4 DEF Kind

\* A Messages stream under way whose calls are marked.
ClaudeCounted == { s \in ClaudeLive : s \in ClaudeFiling /\ CallsCounted("claude", s) }

\* A part leaves it one.
LEMMA ClaudePartCounts ==
  ASSUME NEW s \in ClaudeCounted, NEW p \in PartSet
  PROVE  ClaudePart(s, p) \in ClaudeCounted
<1> DEFINE r == ClaudePart(s, p)
<1>1. s \in ClaudeLive /\ s \in ClaudeFiling /\ s \in ClaudeState /\ s.out \in Seq(Ev)
  BY DEF ClaudeCounted, ClaudeFiling, ClaudeState
<1>2. Spoken(s.out) \in Hearing  BY <1>1, SpokenTyped
<1>3. r \in ClaudeLive  BY <1>1, ClaudePartLive
<1>4. r \in ClaudeFiling /\ Spoken(r.out) = Hear("claude", Spoken(s.out), p)
  BY <1>1, ClaudePartFiled DEF Files1
<1>5. (p.kind = "call" => r.tool = TRUE) /\ (p.kind # "call" => r.tool = s.tool)
  BY <1>1, ClaudeTool
<1>6. s.tool <=> Spoken(s.out)["call"] # << >>  BY DEF ClaudeCounted, CallsCounted
<1> HIDE DEF r
<1>7. Spoken(r.out)["call"] # << >> <=> p.kind = "call" \/ Spoken(s.out)["call"] # << >>
  BY <1>2, <1>4, CallHeard
<1>8. r.tool <=> Spoken(r.out)["call"] # << >>  BY <1>5, <1>6, <1>7, Zenon
<1>9. CallsCounted("claude", r)  BY <1>8 DEF CallsCounted
<1> QED BY <1>3, <1>4, <1>9 DEF ClaudeCounted, r

\* A frame of a Messages stream finishes it as it says.
LEMMA ClaudeFrameEnds ==
  ASSUME NEW s \in ClaudeCounted, NEW x \in FrameSet
  PROVE  LET r == ClaudeFrame(s, x) IN CallsCounted("claude", r) /\ EndsBy("claude", r.out, How(x))
<1> DEFINE begun == ClaudeBegun(s)
           told == FoldLeft(ClaudePart, begun, x.parts)
           h == ClaudeFinish(told, x)
           r == ClaudeFrame(s, x)
<1>1. /\ x.parts \in Seq(PartSet) /\ x.finish \in {"none", "STOP", "MAX_TOKENS"} /\ x.blocked \in BOOLEAN
      /\ x.blocked => x.finish = "none"
  BY DEF FrameSet
<1>2. r = CASE x.blocked -> s
            [] ~x.blocked /\ x.finish = "none" -> told
            [] OTHER -> h
  BY DEF ClaudeFrame, ClaudeBegun
<1>3. begun \in ClaudeCounted /\ Spoken(begun.out) = Spoken(s.out)
  <2>1. s \in ClaudeLive /\ s \in ClaudeFiling /\ "tool" \in DOMAIN s /\ CallsCounted("claude", s)
    BY DEF ClaudeCounted, ClaudeFiling, ClaudeState
  <2>2. begun \in ClaudeLive  BY <2>1, ClaudeBegunLive
  <2>3. begun \in ClaudeFiling /\ Spoken(begun.out) = Spoken(s.out)  BY <2>1, ClaudeBegunFiled
  <2>4. begun.tool = s.tool
    <3> DEFINE z == [s EXCEPT !.started = TRUE]
               e == << Event("start", "none", 0, 0) >>
    <3>1. SameTool(s, z)  BY <2>1 DEF SameTool
    <3>2. begun = IF s.started THEN s ELSE Emit(z, e)  BY DEF ClaudeBegun
    <3> HIDE DEF z, e, begun
    <3>3. SameTool(z, Emit(z, e))  BY <2>1, <3>1, ToolSame DEF SameTool
    <3> QED BY <3>1, <3>2, <3>3 DEF SameTool
  <2> HIDE DEF begun
  <2>5. CallsCounted("claude", begun)  BY <2>1, <2>3, <2>4 DEF CallsCounted
  <2> QED BY <2>2, <2>3, <2>5 DEF ClaudeCounted
<1>4. told \in ClaudeCounted
  <2> DEFINE V == ClaudeCounted
             J == Nat \X V
  <2>1. \A v \in V, p \in PartSet : ClaudePart(v, p) \in V  BY ClaudePartCounts
  <2> HIDE DEF V, begun
  <2>2. << 0, begun >> \in J  BY <1>3 DEF V
  <2>3. \A i \in 1 .. Len(x.parts), v \in V : << i - 1, v >> \in J => << i, ClaudePart(v, x.parts[i]) >> \in J
    BY <1>1, <2>1
  <2> HIDE DEF J
  <2>4. begun \in V  BY <1>3 DEF V
  <2>5. told \in V  BY <1>1, <2>1, <2>2, <2>3, <2>4, ClaudeParts
  <2> HIDE DEF told
  <2> QED BY <2>5 DEF V
<1> HIDE DEF begun, told, h, r
<1>5. \A v \in ClaudeCounted : ~Over(v.out) /\ CallsCounted("claude", v) /\ v \in ClaudeLive
  BY DEF ClaudeCounted, ClaudeLive, ClaudeFit
<1>6. CASE x.blocked
  <2>1. r = s  BY <1>2, <1>6
  <2>2. EndsBy("claude", s.out, "blocked")  BY <1>5 DEF EndsBy, Stops
  <2> QED BY <2>1, <2>2, <1>5, <1>6 DEF r, How
<1>7. CASE ~x.blocked /\ x.finish = "none"
  <2>1. r = told  BY <1>2, <1>7
  <2>2. EndsBy("claude", told.out, "none")  BY <1>4, <1>5 DEF EndsBy, Stops
  <2> QED BY <2>1, <2>2, <1>4, <1>5, <1>7 DEF r, How
<1>8. CASE ~x.blocked /\ x.finish # "none"
  <2>1. r = h  BY <1>2, <1>8
  <2>2. told \in ClaudeLive /\ told \in ClaudeFiling /\ "tool" \in DOMAIN told
    BY <1>4 DEF ClaudeCounted, ClaudeFiling, ClaudeState
  <2> DEFINE c == IF told.tool THEN "call" ELSE x.finish
  <2>3. h \in ClaudeOver /\ \A i \in Endings(h.out) : h.out[i].kind = c
    BY <2>2, ClaudeFinishSound DEF h
  <2>4. OnlyFor(h.out, c)  BY <2>3 DEF OnlyFor, ClaudeOver
  <2>5. Spoken(h.out) = Spoken(told.out)
    <3>1. s \in ClaudeFiling  BY DEF ClaudeCounted
    <3>2. Spoken(r.out) = Heard("claude", Spoken(s.out), x.parts)  BY <3>1, ClaudeFrameFiled DEF r
    <3> DEFINE t == told
    <3>3. t = FoldLeft(ClaudePart, begun, x.parts) /\ begun \in ClaudeFiling
      BY <1>3 DEF told, ClaudeCounted
    <3> HIDE DEF t
    <3>4. Spoken(t.out) = Heard("claude", Spoken(begun.out), x.parts)
      BY <1>1, <3>3, ClaudePartsFiled
    <3> QED BY <2>1, <3>2, <3>4, <1>3 DEF t
  <2>6. h.tool = told.tool
    <3> DEFINE a == StopText(told)
               b == StopThinking(a)
               e == << Event("stop_reason", c, 0, 0), Event("finish", c, 0, 0) >>
    <3>1. h = Emit(b, e)  BY DEF h, ClaudeFinish
    <3>2. SameTool(told, a)  BY <2>2, ToolSame
    <3> HIDE DEF a
    <3>3. SameTool(a, b)  BY <2>2, <3>2, ToolSame DEF SameTool
    <3> HIDE DEF b, e
    <3>4. SameTool(b, Emit(b, e))  BY <2>2, <3>2, <3>3, ToolSame DEF SameTool
    <3> QED BY <3>1, <3>2, <3>3, <3>4 DEF SameTool
  <2>7. told.tool <=> Spoken(h.out)["call"] # << >>  BY <1>4, <1>5, <2>5 DEF CallsCounted
  <2>8. CallsCounted("claude", h)  BY <2>6, <2>7 DEF CallsCounted
  <2>9. c = Why("claude", h.out, x.finish)  BY <2>7, Zenon DEF c, Why
  <2>10. x.finish \in Stops  BY <1>1, <1>8 DEF Stops
  <2> HIDE DEF c
  <2>11. EndsBy("claude", h.out, x.finish)  BY <2>4, <2>9, <2>10 DEF EndsBy, OnlyFor
  <2> QED BY <2>1, <2>8, <2>11, <1>8 DEF r, How
<1> QED BY <1>1, <1>6, <1>7, <1>8
=============================================================================
