---------------------------- MODULE LexicalTools ----------------------------
(***************************************************************************)
(* cd_mcp/tools: the tools of the MCP server that answer from the lexical  *)
(* graph.  They only read, so they are operators on the graph.  A list of  *)
(* rows is a set: its order is not modelled, nor which rows a LIMIT keeps. *)
(* Of the columns those the modelled graph has are kept (no surface, no    *)
(* parse, no headword; a number of votes is not compared).                 *)
(***************************************************************************)
EXTENDS ContextBundle

CONSTANT ToolLimits   \* what callers give as limit
ASSUME ToolLimitsAssumption == ToolLimits \subseteq Nat \ {0}

Tagnt == "STEPBible-TAGNT"
Lemmas(strong) ==
  Nodes("Lemma", [strong |-> strong]) \cup Nodes("GreekLemma", [strong |-> strong])
HebrewWords(strong) == Nodes("Word", [source |-> OSHB, strong |-> strong])

-----------------------------------------------------------------------------
(* concordance_walk.                                                       *)

\* Mutant: the prior query, which returned osisID.
OsisIdOf(verse)  == Prop(verse, "osisID")
RefOf(verse)     == Prop(verse, "osis")

\* _CONCORDANCE_BY_STRONG
GreekTokens(strong) ==
  {t \in Nodes("TaggedToken", [source |-> Tagnt]) :
     \E l \in To("INSTANCE_OF", t) : l[1] = "GreekLemma" /\ Prop(l, "strong") = strong}
Occurrences(strong) ==
  UNION {{[tok |-> Prop(w, "id"), ref |-> RefOf(v)] : v \in To("IN_VERSE", w)} :
           w \in GreekTokens(strong) \cup HebrewWords(strong)}

\* handle: the books are looked at after the LIMIT, and truncated counts what
\* they left.
InBook(ref, book) == Len(ref) > Len(book) /\ SubSeq(ref, 1, Len(book) + 1) = book \o "."
ConcordanceWalk(strong, books, limit) ==
  LET fetched == Some(Occurrences(strong), limit)
      kept    == {o \in fetched : books = {} \/ \E b \in books : InBook(o.ref, b)}
  IN  [occurrences |-> kept, truncated |-> Cardinality(kept) >= limit]

-----------------------------------------------------------------------------
(* lexical_lookup, by number and by surface.                               *)

\* _OCC_SUBQUERY: the UNION of two equal counts is one row.
OccurrencesInCanon(strong) ==
  LET tagged == Cardinality(CanonTokens(strong))
      words  == Cardinality(HebrewWords(strong))
  IN  IF tagged = words THEN words ELSE tagged + words

\* _PROJECT_L: the headword and the gloss are those of one entry, if any.
Lexeme(strong) ==
  LET entries == Nodes("BriefLexEntry", [base_strong |-> strong])
  IN  [strong |-> strong, lex |-> Some(entries, 1),
       occurrences_in_canon |-> OccurrencesInCanon(strong)]

\* _LOOKUP_BY_STRONG, _LOOKUP_BY_SURFACE: a word of the New Testament has its
\* number from its lemma, one of the Hebrew Bible its own.
LookupByStrong(strong) == IF Lemmas(strong) = {} THEN {} ELSE {Lexeme(strong)}
LookupBySurface(text, limit) ==
  LET Looks(w) == IF Prop(w, "text") # Null THEN Prop(w, "text") ELSE Prop(w, "surface")
      FromLemma(w) == {l \in To("INSTANCE_OF", w) : l[1] \in {"Lemma", "GreekLemma"}}
      Strongs(w) ==
        IF FromLemma(w) = {} THEN {Prop(w, "strong")}
        ELSE {IF Prop(l, "strong") # Null THEN Prop(l, "strong") ELSE Prop(w, "strong") :
                l \in FromLemma(w)}
      found == (UNION {Strongs(w) : w \in {x \in Nodes("Word", <<>>) : Looks(x) = text}}) \ {Null}
  IN  Some({Lexeme(s) : s \in found}, limit)

-----------------------------------------------------------------------------
(* cross_ref and parallel_translation.                                     *)

\* _CROSS_REF_CYPHER: OpenBible is edges between verses, the Treasury nodes of
\* which the first target is shown.
CrossReferences(ref, limit) ==
  LET Row(to, source) == [from |-> ref, to |-> to, source |-> source]
      Votes == UNION {{Row(Prop(t, "osis"), "openbible") : t \in To("OPENBIBLE_CROSS_REF", v)} :
                        v \in Nodes("Verse", [id |-> VerseId(ref)])}
      Treasured == {Row(Prop(c, "to_ref"), "tsk") : c \in Nodes("CrossRef", [from_ref |-> ref])}
  IN  Some(Votes \cup Treasured, limit)

\* parallel_translation.handle: the row of the original, if the verse has a text.
Original(ref) ==
  LET verses == {v \in Nodes("Verse", [id |-> VerseId(ref)]) : Prop(v, "text") \notin {Null, ""}}
      Lang(v) == IF Prop(v, "canon_section") = "OT" THEN "hb" ELSE "gk"
  IN  {[text |-> Prop(v, "text"), lang |-> Lang(v)] : v \in verses}

-----------------------------------------------------------------------------
(* What the files say, and the property.                                   *)

WordStrong(w)   == LET base == OshbStrong(w.strong).base IN IF base = Null THEN "" ELSE base
HasVerse(ref)   == Nodes("Verse", [id |-> VerseId(ref)]) # {}
Counted(strong) == {w \in Range(OshbWords) : WordStrong(w) = strong}

\* After a whole pass the tools say what the files say, although four adapters
\* write the number of a word and three the reference of a verse: each word of
\* the Hebrew Bible leads to its number, to its entry in the brief lexicon and
\* to all its occurrences, each tagged Greek token of a known lemma is among
\* the occurrences of its number, each cross reference of either collection is
\* found from its verse, those whose edge was lost too, and each verse has its
\* text in its own language.  A list may stop at the limit.
ToolsAnswerFromFiles ==
  Settled => \A limit \in ToolLimits :
  LET Shows(rows, row) == row \in rows \/ Cardinality(rows) = limit
      Walk(strong) == ConcordanceWalk(strong, {}, limit)
      Brief == IF "stepbible_tbesh" \in disk THEN {x.base : x \in Range(TbeshEntries)} ELSE {}
      Greek == {Prop(l, "strong") : l \in Nodes("GreekLemma", <<>>)} \ {Null}
      Read(file, rows) == IF file \in disk THEN Range(rows) ELSE {}
      Reference(from, to, source) ==
        Shows(CrossReferences(from, limit), [from |-> from, to |-> to, source |-> source])
  IN
  /\ \A w \in Read("oshb", OshbWords) :
       LET strong == WordStrong(w) IN
       /\ strong # "" => \/ [tok |-> w.id, ref |-> w.ref] \in Walk(strong).occurrences
                         \/ Walk(strong).truncated
       /\ Shows(LookupBySurface(w.text, limit), Lexeme(strong))
       /\ Lexeme(strong).occurrences_in_canon >= Cardinality(Counted(strong))
       /\ strong \in Brief => Lexeme(strong).lex # {}
  /\ \A strong \in Brief : LookupByStrong(strong) # {}
  /\ "morphgnt" \in disk => \A t \in Read("stepbible_tagnt", TagntTokens) :
       t.strong \in Greek /\ t.verse # Null =>
         \/ \E o \in Walk(t.strong).occurrences : o.tok = t.id /\ VerseId(o.ref) = t.verse
         \/ Walk(t.strong).truncated
  /\ \A row \in Read("openbible", OpenBibleRows) :
       HasVerse(row.pat.from_osis) /\ HasVerse(row.pat.to_osis) =>
         Reference(row.pat.from_osis, row.pat.to_osis, "openbible")
  /\ \A x \in {y \in Read("tsk", TskRefs) : ~y.lost} : Reference(x.from, x.targets[1], "tsk")
  /\ \A v \in Read("oshb", OshbRows.verse) :
       v.text # "" => Original(v.osis) = {[text |-> v.text, lang |-> "hb"]}
  /\ \A v \in Read("morphgnt", MorphgntRows.verse) : Original(v.osis) = {[text |-> v.text, lang |-> "gk"]}

-----------------------------------------------------------------------------
(* What FilesAreAnswered (LexicalToolsProofs) asks of the files, beyond    *)
(* BundleSettles and AnchorsSettle.                                        *)

\* A verse is the node of its id, and that is made of its reference; IN_VERSE and
\* the cross references of OpenBible lead to verses; no word of OSHB is an
\* instance of a lemma.
RowOfTools(x) ==
  LET Edge(types) == x.t.kind = "edge" /\ x.t.type \in types
  IN  /\ IsNode(x, "Verse") =>
           /\ x.t.keys = {"id"} /\ x.row.id = VerseId(x.row.osis)
           /\ \A row \in Range(OpenBibleRows) :
                x.row.id = VerseId(row.pat.to_osis) => x.row.osis = row.pat.to_osis
      /\ Edge({"IN_VERSE", "OPENBIBLE_CROSS_REF"}) => x.t.b.label = "Verse"
      /\ Edge({"INSTANCE_OF"}) /\ x.t.a.label = "Word" /\ x.t.b.label \in {"Lemma", "GreekLemma"} =>
           x.t.a.prop = "id" /\ \A w \in Range(OshbWords) : x.row.from # w.id
\* No two words of OSHB have one id, no entry of the brief lexicon is without a
\* number and no verse without a text, and the verses of TAGNT come from the files.
ToolsSettle ==
  /\ \A x \in EveryRow : RowOfTools(x)
  /\ \A w, z \in Range(OshbWords) : w.id = z.id => w = z
  /\ \A x \in Range(TbeshEntries) : x.base # Null
  /\ \A v \in Range(OshbRows.verse) : v.text # Null
  /\ \A v \in Range(MorphgntRows.verse) : v.text \notin {Null, ""}
  /\ \A has \in Disks : {"morphgnt", "stepbible_tagnt"} \subseteq has =>
       \A t \in Range(TagntTokens) : t.verse # Null => VerseComes(has, t.verse)
=============================================================================
