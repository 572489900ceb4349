--------------------------- MODULE HebrewAdapters ---------------------------
(***************************************************************************)
(* ingest/lexical/oshb.py and macula_hebrew.py: the two adapters of the    *)
(* Hebrew Bible that share Word, Verse and Lemma with the others.          *)
(*                                                                         *)
(* A row keeps the properties that another statement matches on, that a    *)
(* constraint covers or that tell who wrote the node; the other columns    *)
(* are left out.                                                           *)
(***************************************************************************)
EXTENDS Strongs

CONSTANTS
  OshbVerses,   \* the <verse> elements of wlc/*.xml, in file order
  LowfatWords,  \* the <w> elements of the MACULA-Hebrew lowfat files
  MaculaBooks   \* the book names MACULA-Hebrew uses, with their OSIS names

OshbChild == [tag : {"w", "seg", "note"}, text : STRING, type : STRING,
              lemma : Seq(RawStrongs), qere : STRING]
ASSUME OshbAssumption   == OshbVerses \in Seq([osisID : STRING, children : Seq(OshbChild)])
ASSUME LowfatAssumption == LowfatWords \in Seq(Range(LowfatWords))

-----------------------------------------------------------------------------
(* OSHB.  A verse is [osisID, children]; a child is a w, a seg or a note:  *)
(*   [tag |-> "w", text, lemma (the raw numbers between slashes), type]    *)
(*   [tag |-> "seg", text, type]      [tag |-> "note", qere (or Null)]     *)

OSHB == "OSHB-morphology"

OshbTemplates ==
  [source   |-> NodeT("Source", "slug"),   verse    |-> NodeT("Verse", "id"),
   strong   |-> NodeT("Strong", "id"),     word     |-> NodeT("Word", "id"),
   morpheme |-> NodeT("Morpheme", "id"),   reading  |-> NodeT("Reading", "reading_id"),
   has_morpheme |-> IdEdgeT("HAS_MORPHEME", "Word", "Morpheme"),
   in_verse     |-> IdEdgeT("IN_VERSE", "Word", "Verse"),
   word_strong  |-> IdEdgeT("INSTANCE_OF", "Word", "Strong"),
   morph_strong |-> IdEdgeT("INSTANCE_OF", "Morpheme", "Strong"),
   is_qere_of   |-> EdgeT("IS_QERE_OF", End("Reading", "reading_id"), End("Word", "id")),
   from_edition |-> EdgeT("FROM_EDITION", End("Word", "id"), End("Source", "slug"))]
OshbOrder ==
  <<"source", "verse", "strong", "word", "morpheme", "reading", "has_morpheme",
    "in_verse", "word_strong", "morph_strong", "is_qere_of", "from_edition">>

\* _canonical_strong: the base, without the sense letter.
OshbStrong(raw) == CanonicalStrongs(raw, "hb")

\* A verse without an osisID is skipped.
OshbRead == Only(OshbVerses, LAMBDA v : v.osisID # Null)

\* Words are joined by blanks; a seg, a maqqef for one, joins its neighbours.
OshbText(verse) ==
  LET Add(acc, c) ==
        IF c.tag = "note" \/ c.text = "" \/ c.type = "x-sof-pasuq" THEN acc
        ELSE [s |-> acc.s \o (IF c.tag = "w" /\ acc.word THEN " " ELSE "") \o c.text,
              word |-> c.tag = "w"]
  IN  FoldLeft(Add, [s |-> "", word |-> FALSE], verse.children).s

\* One word as _emit_word sees it.  base is the first number that resolves.
OshbWord(v, i) ==
  LET ch    == v.children
      known == SelectSeq(ch[i].lemma, LAMBDA r : OshbStrong(r).base # Null)
      at    == v.osisID \o ".w" \o Pad2(Cardinality({j \in 1 .. i : ch[j].tag = "w"}))
  IN  [ref |-> v.osisID, at |-> at, id |-> "oshb:" \o at,
       text |-> ch[i].text, segs |-> ch[i].lemma,
       strong |-> IF known = <<>> THEN NoStrong ELSE known[1],
       \* only the note right after a ketiv is looked at
       qere |-> IF /\ ch[i].type = "x-ketiv" /\ i < Len(ch)
                   /\ ch[i + 1].tag = "note"
                THEN ch[i + 1].qere ELSE Null]
OshbWords ==
  LET WordsOf(v) == EachAll([i \in DOMAIN v.children |-> i],
                            LAMBDA i : When(v.children[i].tag = "w", OshbWord(v, i)))
  IN  EachAll(OshbRead, WordsOf)

\* A lemma without segments still yields one morpheme.
OshbMorphemes ==
  LET Of(w) ==
        LET segs == IF w.segs = <<>> THEN <<NoStrong>> ELSE w.segs
        IN  [i \in DOMAIN segs |->
               [id |-> "oshb-morph:" \o w.at \o ".m" \o Pad2(i), word |-> w.id,
                strong |-> segs[i]]]
  IN  EachAll(OshbWords, Of)

\* Each Strong is sent once, with the sense letter it was first seen with: a
\* word's own number comes before those of its morphemes.
OshbStrongs ==
  LET Row(raw) == LET c == OshbStrong(raw)
                  IN  When(c.base # Null,
                           [id |-> c.base, language |-> "hebrew", disambig_suffix |->
                              IF c.suffix = Null THEN "" ELSE c.suffix])
      Of(w) == Row(w.strong) \o EachAll(w.segs, Row)
  IN  FirstBy("id", EachAll(OshbWords, Of))

OshbReadingId(w) == "oshb-reading:" \o w.at \o ".qere"
OshbRows ==
  LET Base(x)   == OshbStrong(x.strong).base
      Strong(x) == IF Base(x) = Null THEN "" ELSE Base(x)
      StrongOf(x) == When(Base(x) # Null, Link(x.id, Base(x)))
  IN
  [source   |-> SourceRow(OSHB),
   verse    |-> Each(OshbRead, LAMBDA v :
                  [id |-> VerseId(v.osisID), osisID |-> v.osisID, osis |-> v.osisID,
                   canon_section |-> "OT", text |-> OshbText(v)]),
   strong   |-> OshbStrongs,
   word     |-> Each(OshbWords, LAMBDA w :
                  [id |-> w.id, ref |-> w.ref, surface |-> w.text, strong |-> Strong(w),
                   source |-> OSHB]),
   morpheme |-> Each(OshbMorphemes, LAMBDA m :
                  [id |-> m.id, strong |-> Strong(m), source |-> OSHB]),
   reading  |-> EachAll(OshbWords, LAMBDA w : When(w.qere # Null,
                  [reading_id |-> OshbReadingId(w), kind |-> "qere", text |-> w.qere,
                   source |-> OSHB])),
   has_morpheme |-> Each(OshbMorphemes, LAMBDA m : Link(m.word, m.id)),
   in_verse     |-> Each(OshbWords, LAMBDA w : Link(w.id, VerseId(w.ref))),
   word_strong  |-> EachAll(OshbWords, StrongOf),
   morph_strong |-> EachAll(OshbMorphemes, StrongOf),
   is_qere_of   |-> EachAll(OshbWords, LAMBDA w :
                      When(w.qere # Null, Link(OshbReadingId(w), w.id))),
   from_edition |-> Each(OshbWords, LAMBDA w : Link(w.id, OSHB))]

\* ingest_oshb
OshbScript(has) == Script(OshbOrder, OshbTemplates, ReadFrom(has, "oshb", OshbRows))

-----------------------------------------------------------------------------
(* MACULA-Hebrew.  A word is [id, ref, lemma, strong, greek, greekstrong]; *)
(* ref is [book, chapter, verse], or Null when it does not parse.          *)

MaculaHebrew == "MACULA-Hebrew"

MaculaTemplates ==
  [source |-> NodeT("Source", "slug"),  token |-> NodeT("MaculaToken", "id"),
   lemma  |-> NodeT("Lemma", "id"),     greek_lemma |-> NodeT("GreekLemma", "id"),
   \* on the verse alone: join_lemma is a property of the edge, not a condition
   enrichment  |-> EdgeT("HAS_MACULA_ENRICHMENT",
                         EndWhere("Word", "ref", [source |-> "OSHB-morphology"]),
                         End("MaculaToken", "id")),
   instance_of |-> IdEdgeT("INSTANCE_OF", "MaculaToken", "Lemma"),
   bridges     |-> IdEdgeT("BRIDGES_LXX", "Lemma", "GreekLemma")]
MaculaOrder ==
  <<"source", "token", "lemma", "greek_lemma", "enrichment", "instance_of", "bridges">>

\* _osis_ref
MaculaOsis(ref) ==
  IF ref = <<>> \/ ref.book \notin DOMAIN MaculaBooks THEN Null
  ELSE Osis(MaculaBooks[ref.book], ref.chapter, ref.verse)

\* _collect_rows: a word without id is skipped, and a repeated id.
MaculaTokens == FirstBy("id", Only(LowfatWords, LAMBDA w : w.id # Null))

\* _hebrew_lemma_node, _greek_lemma_node: the sense letter stays in both.
HebrewLemma(w) ==
  LET c == CanonicalStrongs(w.strong, "hb")
  IN  [id |-> "macula-hebrew-lemma:" \o c.id, strong |-> c.id, source |-> MaculaHebrew]
BridgedLemma(w) ==
  LET c == CanonicalStrongs(w.greekstrong, "gk")
  IN  [id |-> "macula-hebrew-greek-lemma:" \o
                (IF c.id = Null THEN "unknown" ELSE c.id),
       strong |-> c.id, lemma |-> w.greek, source |-> MaculaHebrew]

\* _build.  A number without a Hebrew form has no lemma, and then no bridge.
MaculaRows ==
  LET Known  == Only(MaculaTokens, LAMBDA w :
                  CanonicalStrongs(w.strong, "hb").id # Null)
      Bridge == Only(Known, LAMBDA w : w.greek # Null)
      Placed == Only(MaculaTokens, LAMBDA w :
                  MaculaOsis(w.ref) # Null /\ w.lemma # Null)
      Pair(w) == [pair |-> <<HebrewLemma(w).id, BridgedLemma(w).id>>, greek |-> w.greek]
  IN
  [source |-> SourceRow(MaculaHebrew),
   token  |-> Each(MaculaTokens, LAMBDA w : [id |-> w.id, source |-> MaculaHebrew]),
   lemma       |-> LastBy("id", Each(Known, HebrewLemma)),
   greek_lemma |-> LastBy("id", Each(Bridge, BridgedLemma)),
   enrichment  |-> Each(Placed, LAMBDA w :
                     LinkAs(MaculaOsis(w.ref), w.id, [join_lemma |-> w.lemma])),
   instance_of |-> Each(Known, LAMBDA w : Link(w.id, HebrewLemma(w).id)),
   bridges     |-> Each(FirstBy("pair", Each(Bridge, Pair)), LAMBDA p :
                     LinkSet(p.pair[1], p.pair[2], [source |-> MaculaHebrew],
                             [greek_surface |-> p.greek]))]

\* ingest_macula_hebrew
MaculaScript(has) ==
  Script(MaculaOrder, MaculaTemplates, ReadFrom(has, "macula_hebrew", MaculaRows))
=============================================================================
