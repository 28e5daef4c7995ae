------------------------- MODULE SchemaTranslation -------------------------
(***************************************************************************)
(* How the Canvas adapter turns a JSON schema into the schema of a Gemini   *)
(* request (FormatConverter.js): of a tool's arguments ("tool") or of the   *)
(* answer ("answer"), and what it strips from the tools of a native request *)
(* ("native").  The order of the keywords in the schema is the order they   *)
(* are read in.                                                             *)
(*                                                                         *)
(* A schema is a sequence of keywords; each has items, with a name and a    *)
(* schema, of which it uses one or both: "type" and "types" (a list) name   *)
(* types, "enum" names values, "anyOf" has schemas, "properties" both;      *)
(* "const" and "$ref" name the values they admit.  A value is one of four   *)
(* atoms (the string "a", the number 1, the string "1" and null), or an     *)
(* object with one property.                                                *)
(***************************************************************************)
EXTENDS Integers, SequencesExt

Item(name, schema) == [name |-> name, schema |-> schema]
Keyword(key, items) == [key |-> key, items |-> items]
Named(key, names) == Keyword(key, [i \in DOMAIN names |-> Item(names[i], <<>>)])
NamesOf(items) == { items[i].name : i \in DOMAIN items }

\* A converted schema: its type names, nullable, and so on; <<>> where absent.
Blank == [type |-> <<>>, nullable |-> FALSE, anyOf |-> <<>>, enum |-> <<>>,
          properties |-> <<>>, const |-> <<>>]

Upper(type) == CASE type = "string" -> "STRING" [] type = "integer" -> "INTEGER"
                 [] type = "object" -> "OBJECT" [] type = "null" -> "NULL"

\* String(value)
Text(value) == CASE value = "one" -> "text_one" [] value = "null" -> "text_null"
                 [] OTHER -> value

IsNull(item) == \E i \in DOMAIN item.schema : item.schema[i] = Named("type", << "null" >>)

\* Object.assign(): what the second schema has replaces what the first has.
Merge(r, c) ==
  [k \in DOMAIN r |-> IF k = "nullable" THEN r.nullable \/ c.nullable
                      ELSE IF c[k] = <<>> THEN r[k] ELSE c[k]]

\* A list of types: null makes the schema nullable, and several types are a
\* union of schemas in an answer, and left a list in a tool.
ConvertTypes(r, types, use) ==
  LET rest == SelectSeq(types, LAMBDA t : t.name # "null")
      s    == [r EXCEPT !.nullable = @ \/ Len(rest) < Len(types)]
      up   == [i \in DOMAIN rest |-> Upper(rest[i].name)]
  IN  CASE rest = <<>> -> [s EXCEPT !.type = << "STRING" >>]
        [] Len(rest) > 1 /\ use = "answer" ->
             [s EXCEPT !.anyOf = [i \in DOMAIN up |-> [Blank EXCEPT !.type = << up[i] >>]]]
        [] OTHER -> [s EXCEPT !.type = up]

\* An enum of an answer is one of strings, whatever type was read before it.
ConvertEnum(r, values, use) ==
  IF use = "answer"
  THEN [r EXCEPT !.enum = [i \in DOMAIN values |-> Text(values[i].name)], !.type = << "STRING" >>]
  ELSE [r EXCEPT !.enum = [i \in DOMAIN values |-> values[i].name]]

RECURSIVE Convert(_, _)

\* A union: null makes it nullable, and a variant left alone is merged.
ConvertAnyOf(r, variants, use) ==
  LET rest == SelectSeq(variants, LAMBDA v : ~IsNull(v))
      s    == [r EXCEPT !.nullable = @ \/ Len(rest) < Len(variants)]
  IN  CASE rest = <<>> -> s
        [] Len(rest) = 1 -> Merge(s, Convert(rest[1].schema, use))
        [] OTHER -> [s EXCEPT !.anyOf = [i \in DOMAIN rest |-> Convert(rest[i].schema, use)]]

\* A bug the properties must catch: names of properties are taken for keywords.
ConvertPropertiesAsKeywords(r, members, use) ==
  LET kept == SelectSeq(members, LAMBDA m : m.name # "ref")
  IN  [r EXCEPT !.properties =
         [i \in DOMAIN kept |-> Item(kept[i].name, Convert(kept[i].schema, use))]]

\* Names of properties are no keywords, whatever they are.
ConvertProperties(r, members, use) ==
  [r EXCEPT !.properties =
     [i \in DOMAIN members |-> Item(members[i].name, Convert(members[i].schema, use))]]

ConvertKeyword(r, w, use) ==
  CASE w.key \in {"const", "$ref"} -> r
    [] w.key = "anyOf" -> ConvertAnyOf(r, w.items, use)
    [] w.key = "type" -> [r EXCEPT !.type = << Upper(w.items[1].name) >>]
    [] w.key = "types" -> ConvertTypes(r, w.items, use)
    [] w.key = "enum" -> ConvertEnum(r, w.items, use)
    [] w.key = "properties" -> ConvertProperties(r, w.items, use)

\* _convertSchemaToGemini()
Convert(schema, use) ==
  FoldLeft(LAMBDA r, w : ConvertKeyword(r, w, use), Blank, schema)

\* sanitizeGeminiTools(): unsupported keys are dropped at every level, names of
\* properties among them, and a type that is one name is put in upper case.
RECURSIVE Sanitize(_)
Sanitize(schema) ==
  LET Names(items) == [i \in DOMAIN items |-> items[i].name]
      Keep(r, w) ==
        CASE w.key = "$ref" -> r
          [] w.key = "type" -> [r EXCEPT !.type = << Upper(w.items[1].name) >>]
          [] w.key = "types" -> [r EXCEPT !.type = Names(w.items)]
          [] w.key = "anyOf" ->
               [r EXCEPT !.anyOf = [i \in DOMAIN w.items |-> Sanitize(w.items[i].schema)]]
          [] w.key = "properties" ->
               LET kept == SelectSeq(w.items, LAMBDA m : m.name # "ref")
               IN  [r EXCEPT !.properties =
                      [i \in DOMAIN kept |-> Item(kept[i].name, Sanitize(kept[i].schema))]]
          [] w.key = "enum" -> [r EXCEPT !.enum = Names(w.items)]
          [] w.key = "const" -> [r EXCEPT !.const = Names(w.items)]
  IN  FoldLeft(Keep, Blank, schema)

Translated(schema, use) == IF use = "native" THEN Sanitize(schema) ELSE Convert(schema, use)

-----------------------------------------------------------------------------
(* What the schemas mean.                                                   *)

Atoms == {"a", "one", "text_one", "null"}
Members == {"p", "ref", "type"}
Values == [atom : Atoms, member : Members \cup {"none"}]
TypeOf(v) == CASE v.member # "none" -> "object" [] v.atom = "one" -> "integer"
               [] v.atom = "null" -> "null" [] OTHER -> "string"
Inside(v) == [v EXCEPT !.member = "none"]

RECURSIVE Admits(_, _)
Admits(schema, v) ==
  \A i \in DOMAIN schema :
    LET w == schema[i]
    IN  CASE w.key \in {"type", "types"} -> TypeOf(v) \in NamesOf(w.items)
          [] w.key \in {"enum", "const", "$ref"} -> v.member = "none" /\ v.atom \in NamesOf(w.items)
          [] w.key = "anyOf" -> \E j \in DOMAIN w.items : Admits(w.items[j].schema, v)
          [] w.key = "properties" ->
               \A j \in DOMAIN w.items :
                 w.items[j].name = v.member => Admits(w.items[j].schema, Inside(v))

\* Gemini's: nullable admits null whatever the rest says; the others all bind.
RECURSIVE GeminiAdmits(_, _)
GeminiAdmits(c, v) ==
  \/ c.nullable /\ TypeOf(v) = "null"
  \/ /\ c.type = <<>> \/ Upper(TypeOf(v)) \in Range(c.type)
     /\ \A names \in {c.enum, c.const} \ {<<>>} : v.member = "none" /\ v.atom \in Range(names)
     /\ c.anyOf = <<>> \/ \E i \in DOMAIN c.anyOf : GeminiAdmits(c.anyOf[i], v)
     /\ \A i \in DOMAIN c.properties :
          c.properties[i].name = v.member => GeminiAdmits(c.properties[i].schema, Inside(v))

\* The schemas a client may send: one or two keywords, whose parts are plain.
Typed == { Named("type", << t >>) : t \in {"string", "integer", "null", "object"} }
Listed == { Named("types", l) : l \in { << "string", "null" >>, << "string", "integer" >>,
                                        << "null" >> } }
Enums == { Named("enum", l) : l \in { << "a" >>, << "one" >>, << "a", "null" >> } }
Dropped == { Named(k, << "a" >>) : k \in {"const", "$ref"} }
Plain == { << w >> : w \in Typed \cup Listed \cup Enums }
Unions == { Keyword("anyOf", [i \in DOMAIN l |-> Item("none", l[i])]) :
              l \in { << s >> : s \in Plain } \cup (Plain \X Plain) }
Objects == { Keyword("properties", << Item(name, s) >>) : name \in Members, s \in Plain }
Keywords == Typed \cup Listed \cup Enums \cup Dropped \cup Unions \cup Objects
Kind(w) == IF w.key = "types" THEN "type" ELSE w.key
Schemas == { << w >> : w \in Keywords }
           \cup { s \in (Keywords \ Unions) \X Keywords : Kind(s[1]) # Kind(s[2]) }
           \cup { s \in Unions \X (Keywords \ Unions) : TRUE }

-----------------------------------------------------------------------------
RECURSIVE KeywordsIn(_)
KeywordsIn(schema) ==
  Range(schema) \cup UNION { KeywordsIn(m.schema) :
                             m \in UNION { Range(w.items) : w \in Range(schema) } }

\* The schemas whose meaning the translation does not keep.  A native request
\* loses references, and properties named as one, and its lists of types are
\* not Gemini's.  In a translated schema:
\*  - "const" and "$ref" are dropped;
\*  - a type or union of null only becomes a nullable string or anything;
\*  - beside other keywords a null becomes the whole schema's, and a union of
\*    one is merged with them, one replacing the other;
\* and in that of an answer
\*  - values other than strings are enumerated as strings;
\*  - an enum of strings replaces a type read before it;
\*  - a list of types replaces a union beside it, or the union replaces it.
Blurred(schema, use) ==
  LET all == KeywordsIn(schema)
      beside == Len(schema) > 1
      top == Range(schema)
  IN  IF use = "native"
      THEN \E w \in all : \/ w.key \in {"types", "$ref"}
                          \/ w.key = "properties" /\ "ref" \in NamesOf(w.items)
      ELSE \/ \E w \in all :
                \/ w.key \in {"const", "$ref"}
                \/ w.key = "types" /\ NamesOf(w.items) = {"null"}
                \/ w.key = "anyOf" /\ \A j \in DOMAIN w.items : IsNull(w.items[j])
                \/ use = "answer" /\ w.key = "enum" /\ NamesOf(w.items) # {"a"}
           \/ /\ beside
              /\ \E w \in top :
                   \/ w.key = "types" /\ "null" \in NamesOf(w.items)
                   \/ /\ w.key = "anyOf"
                      /\ Len(w.items) = 1 \/ \E j \in DOMAIN w.items : IsNull(w.items[j])
           \/ /\ beside /\ use = "answer"
              /\ \/ \E w, u \in top : w.key = "anyOf" /\ u.key = "types"
                 \/ schema[2].key = "enum" /\ Kind(schema[1]) = "type"
                      /\ "string" \notin NamesOf(schema[1].items)

\* Gemini's schema admits exactly the values the client's does.
MeansTheSame(schema, use, translated) ==
  Blurred(schema, use) \/ \A v \in Values : Admits(schema, v) = GeminiAdmits(translated, v)
=============================================================================
