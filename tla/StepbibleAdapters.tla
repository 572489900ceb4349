-------------------------- MODULE StepbibleAdapters --------------------------
(***************************************************************************)
(* ingest/lexical/stepbible_*.py: the lexicons, tagged texts, names and    *)
(* versification rules of STEPBible.                                       *)
(*                                                                         *)
(* Every adapter takes `has`, the names of the datasets whose files are on *)
(* the disk.  A file that is not there is read as an empty one, and only   *)
(* the Source is written.                                                  *)
(***************************************************************************)
EXTENDS Strongs

CONSTANTS
  MorphFiles,      \* two files [brief, full] of lines [code, expansion]
  TtesvLines,      \* [book, chapter, verse, tags]
  TtesvOtBooks,    \* the books TTESV takes for Hebrew
  BriefHebrew,     \* TBESH lines [e, d]: the extended and the disambiguated number
  BriefGreek,      \* TBESG lines [e, d]
  LsjFiles,        \* two files of lines [strong, lemma, filled]
  TahotLines,      \* [book, chapter, verse, pos, edition, root, root_col, filled]
  TagntLines,      \* [book, chapter, verse, pos, strong]
  NameRecords,     \* TIPNR records [pos, lines]
  TvtmsLines,      \* [id, axes]
  StepBooks        \* STEPBible's book names with their OSIS names

ASSUME LexiconAssumption == BriefHebrew \in Seq(Range(BriefHebrew))
ASSUME TaggedAssumption ==
  TahotLines \in Seq(Range(TahotLines)) /\ TagntLines \in Seq(Range(TagntLines))

Present(has, name, lines) == IF name \in has THEN lines ELSE <<>>
Text(raw)   == raw.prefix \o raw.digits \o raw.suffix
StepVerse(l) ==
  IF l.book \notin DOMAIN StepBooks THEN Null
  ELSE VerseId(Osis(StepBooks[l.book], l.chapter, l.verse))
SourceT == NodeT("Source", "slug")

-----------------------------------------------------------------------------
(* The morphology codes.                                                   *)

MorphCodesTemplates == [source |-> SourceT, code |-> NodeT("MorphCode", "code")]

\* _parse_brief, _parse_full and _load_rows.  A brief line needs an expansion,
\* a full block without one is its own code.
MorphCodes ==
  LET Row(l)  == [code |-> l.code, expansion |-> l.expansion]
      Brief(f) == EachAll(f.brief, LAMBDA l : When(l.code # "" /\ l.expansion # "", Row(l)))
      Full(f)  == EachAll(f.full, LAMBDA l :
                    When(l.code # "",
                         Row([l EXCEPT !.expansion = IF @ = "" THEN l.code ELSE @])))
  IN  FirstBy("code", EachAll(MorphFiles, LAMBDA f : Brief(f) \o Full(f)))

\* ingest_stepbible_morph_codes
MorphCodesScript(has) ==
  Script(<<"source", "code">>, MorphCodesTemplates,
         [source |-> SourceRow("STEPBible-morph-codes"),
          code   |-> Present(has, "stepbible_morph_codes", MorphCodes)])

-----------------------------------------------------------------------------
(* TTESV: the first tag of each verse of the English Standard Version.     *)
(* A tag is [positions, strongs], or <<>> where it does not parse.         *)

Ttesv == "STEPBible-TTESV"

TtesvTemplates ==
  [source       |-> SourceT,
   lemma        |-> NodeT("Lemma", "id"),
   greek_lemma  |-> NodeT("GreekLemma", "id"),
   token        |-> NodeT("TaggedToken", "id"),
   from_edition |-> EdgeT("FROM_EDITION", End("TaggedToken", "id"), End("Source", "slug")),
   hebrew       |-> IdEdgeT("INSTANCE_OF", "TaggedToken", "Lemma"),
   greek        |-> IdEdgeT("INSTANCE_OF", "TaggedToken", "GreekLemma")]
TtesvOrder ==
  <<"source", "lemma", "greek_lemma", "token", "from_edition", "hebrew", "greek">>

\* _primary_canonical
TtesvStrong(book, raws) ==
  LET lang  == IF book \in TtesvOtBooks THEN "hb" ELSE "gk"
      known == SelectSeq(raws, LAMBDA r : CanonicalStrongs(r, lang).id # Null)
  IN  IF known = <<>> THEN "" ELSE CanonicalStrongs(known[1], lang).id

\* _parse_all_rows: a verse without a tag that parses is left out.  The
\* reference keeps TTESV's own book name.
TtesvTokens ==
  LET Of(l) ==
        LET good == SelectSeq(l.tags, LAMBDA t : t # <<>> /\ t.positions # <<>>)
        IN  IF good = <<>> THEN <<>>
            ELSE <<[id |-> "stepbible-ttesv:" \o Osis(l.book, l.chapter, l.verse)
                             \o ".w" \o Head(good[1].positions),
                    strong |-> TtesvStrong(l.book, good[1].strongs)]>>
  IN  FirstBy("id", EachAll(TtesvLines, Of))

\* _split_lemmas, _instance_of_payloads
TtesvRows(has) ==
  LET tokens == Present(has, "stepbible_ttesv", TtesvTokens)
      Lettered(h) == SelectSeq(tokens, LAMBDA t : t.strong # "" /\ SubSeq(t.strong, 1, 1) = h)
      Lemmas(h)   == FirstBy("id", Each(Lettered(h), LAMBDA t :
                       [id |-> t.strong, strong |-> t.strong, source |-> Ttesv]))
      Edges(h)    == Each(Lettered(h), LAMBDA t : Link(t.id, t.strong))
  IN
  [source |-> SourceRow(Ttesv),
   lemma  |-> Lemmas("H"),   greek_lemma |-> Lemmas("G"),
   token  |-> Each(tokens, LAMBDA t : [id |-> t.id, strong |-> t.strong, source |-> Ttesv]),
   from_edition |-> Each(tokens, LAMBDA t : Link(t.id, Ttesv)),
   hebrew |-> Edges("H"),    greek |-> Edges("G")]

\* ingest_stepbible_ttesv
TtesvScript(has) == Script(TtesvOrder, TtesvTemplates, TtesvRows(has))

-----------------------------------------------------------------------------
(* TBESH and TBESG, the brief lexicons, and TFLSJ.                         *)

BriefT == NodeT("BriefLexEntry", "strong_disambig")
TbeshTemplates ==
  [source  |-> SourceT, brief |-> BriefT,
   \* the lexicon adds the lemmas its entries need
   lemma   |-> NodeT("Lemma", "strong"),
   lex_for |-> EdgeT("LEX_FOR", End("BriefLexEntry", "strong_disambig"), End("Lemma", "strong")),
   from_edition |-> EdgeT("FROM_EDITION", End("BriefLexEntry", "strong_disambig"),
                          End("Source", "slug"))]

\* _extract_disambig, _strip_sense_suffix and _canonical_base_strong
Disambig(l) == IF l.d = NoStrong THEN l.e ELSE l.d

BaseStrong(l) ==
  LET raw == IF Disambig(l).prefix \in {"H", "G"} THEN [Disambig(l) EXCEPT !.suffix = ""]
             ELSE l.e
  IN  CanonicalStrongs(raw, "hb").id
\* _parse_row and _load_rows
TbeshEntries ==
  LET Entry(l) == [key |-> Text(Disambig(l)), base |-> BaseStrong(l)]
  IN  FirstBy("key", Each(Only(BriefHebrew, LAMBDA l : l.e.prefix \in {"H", "G"}), Entry))

\* ingest_stepbible_tbesh: lemmas and edges go batch by batch.
TbeshScript(has) ==
  LET slug    == "STEPBible-TBESH"
      entries == Present(has, "stepbible_tbesh", TbeshEntries)
      Lex(chunk) ==
        <<[t |-> TbeshTemplates.lemma,
           rows |-> Each(chunk, LAMBDA x : [strong |-> x.base])],
          [t |-> TbeshTemplates.lex_for,
           rows |-> Each(chunk, LAMBDA x : Link(x.key, x.base))]>>
  IN  Script(<<"source", "brief">>, TbeshTemplates,
             [source |-> SourceRow(slug),
              brief  |-> Each(entries, LAMBDA x :
                           [strong_disambig |-> x.key, base_strong |-> x.base,
                            source |-> slug])])
      \o EachAll(Chunks(entries), Lex)
      \o Batched(TbeshTemplates.from_edition, Each(entries, LAMBDA x : Link(x.key, slug)))

TbesgTemplates ==
  [source  |-> SourceT, brief |-> BriefT,
   lex_for |-> EdgeT("LEX_FOR", End("BriefLexEntry", "strong_disambig"),
                     End("GreekLemma", "strong"))]

\* _row_to_node and _parse_lines
TbesgEntries ==
  LET Entry(l) == [key |-> Text(IF l.d.prefix = "G" THEN l.d ELSE l.e), e |-> l.e]
  IN  FirstBy("key", Each(SelectSeq(BriefGreek, LAMBDA l :
                            l.e.prefix = "G" /\ l.e.digits # ""), Entry))

\* _merge_lex_for and ingest_stepbible_tbesg
TbesgScript(has) ==
  LET slug    == "STEPBible-TBESG"
      entries == Present(has, "stepbible_tbesg", TbesgEntries)
  IN  Script(<<"source", "brief", "lex_for">>, TbesgTemplates,
        [source  |-> SourceRow(slug),
         brief   |-> Each(entries, LAMBDA x :
                       [strong_disambig |-> x.key, base_strong |-> Text(x.e), source |-> slug]),
         lex_for |-> EachAll(entries, LAMBDA x :
                       LET g == CanonicalStrongs(x.e, "gk").id
                       IN  When(g # Null, Link(x.key, g)))])

TflsjTemplates ==
  [source  |-> SourceT, lsj |-> NodeT("LsjEntry", "id"),
   lex_for |-> EdgeT("LEX_FOR", End("LsjEntry", "id"), End("GreekLemma", "strong"))]

\* _parse_row, _parse_file and _load_rows.  filled: the lemma, its
\* transliteration and its part of speech are all there.
LsjEntries ==
  LET Entry(l) == [key |-> "tflsj:" \o Text(l.strong) \o ":" \o l.lemma, strong |-> l.strong]
      Good(l)  == l.filled /\ l.strong.prefix \in {"G", "H"}
  IN  FirstBy("key", EachAll(LsjFiles, LAMBDA f : Each(SelectSeq(f, Good), Entry)))

\* _merge_lex_for_edges drops the entries without a number from each batch and
\* sends what is left of it.
TflsjScript(has) ==
  LET slug    == "STEPBible-TFLSJ"
      entries == Present(has, "stepbible_tflsj", LsjEntries)
      Canon(x) == CanonicalStrongs(x.strong, "gk").id
      Lex(chunk) ==
        LET known == SelectSeq(chunk, LAMBDA x : Canon(x) # Null)
        IN  When(known # <<>>, [t |-> TflsjTemplates.lex_for,
                                rows |-> Each(known, LAMBDA x : Link(x.key, Canon(x)))])
  IN  Script(<<"source", "lsj">>, TflsjTemplates,
             [source |-> SourceRow(slug),
              lsj    |-> Each(entries, LAMBDA x : [id |-> x.key, source |-> slug])])
      \o EachAll(Chunks(entries), Lex)

-----------------------------------------------------------------------------
(* TAHOT and TAGNT, the tagged texts.                                      *)

Tahot == "STEPBible-TAHOT"
TaggedTemplates(lemma) ==
  [source      |-> SourceT, token |-> NodeT("TaggedToken", "id"),
   instance_of |-> EdgeT("INSTANCE_OF", End("TaggedToken", "id"), End(lemma, "strong")),
   in_verse    |-> IdEdgeT("IN_VERSE", "TaggedToken", "Verse")]

\* LXX_VARIANT_BY_STRONG
LxxVariantByStrong == "H430" :> "G2316" @@ "H3068" :> "G2962" @@ "H5959" :> "G3933"

\* _normalize_strong and _root_strong; a number that does not resolve is "".
Normalized(raw) ==
  LET c == CanonicalStrongs(raw, "hb").id IN IF c = Null THEN "" ELSE c
RootStrong(l) == IF Normalized(l.root) # "" THEN Normalized(l.root) ELSE Normalized(l.root_col)

\* _is_leningrad_base and _token_stable_id
IsLeningradBase(edition) == edition = "" \/ SubSeq(edition, 1, 1) \in {"L", "l"}
TokenStableId(l) ==
  "stepbible-tahot:" \o Osis(l.book, l.chapter, l.verse) \o ".w" \o ToString(l.pos)
    \o (IF IsLeningradBase(l.edition) THEN "" ELSE "~" \o l.edition)

\* _row_to_token and _iter_tokens.  filled: the row has a ketiv and a morphology.
TahotTokens ==
  LET Token(l) ==
        [id |-> TokenStableId(l), verse |-> StepVerse(l), strong |-> RootStrong(l),
         lxx |-> IF RootStrong(l) \in DOMAIN LxxVariantByStrong
                 THEN LxxVariantByStrong[RootStrong(l)] ELSE Null]
  IN  FirstBy("id", Each(Only(TahotLines, LAMBDA l : l.filled /\ RootStrong(l) # ""), Token))

\* _merge_batch and ingest_stepbible_tahot
TahotScript(has) ==
  LET T == TaggedTemplates("Lemma")
      Send(chunk) ==
        <<[t |-> T.token, rows |-> Each(chunk, LAMBDA x :
             [id |-> x.id, source |-> Tahot, strong |-> x.strong, lxx_lemma |-> x.lxx])],
          [t |-> T.instance_of, rows |-> Each(chunk, LAMBDA x : Link(x.id, x.strong))],
          [t |-> T.in_verse, rows |-> EachAll(chunk, LAMBDA x :
             When(x.verse # Null, Link(x.id, x.verse)))]>>
  IN  Batched(T.source, SourceRow(Tahot))
      \o EachAll(Chunks(Present(has, "stepbible_tahot", TahotTokens)), Send)

\* _row_to_token and _iter_tokens: the first edition of a position wins.
TagntTokens ==
  LET Token(l) ==
        [id |-> "stepbible-tagnt:" \o Osis(l.book, l.chapter, l.verse) \o ".w" \o Zfill(2, l.pos),
         verse |-> StepVerse(l), strong |-> CanonicalStrongs(l.strong, "gk").id]
  IN  FirstBy("id", Each(Only(TagntLines, LAMBDA l : l.pos # ""), Token))

\* _merge_instance_edges, _merge_in_verse_edges and ingest_stepbible_tagnt
TagntScript(has) ==
  LET slug   == "STEPBible-TAGNT"
      tokens == Present(has, "stepbible_tagnt", TagntTokens)
  IN  Script(<<"source", "token", "instance_of", "in_verse">>, TaggedTemplates("GreekLemma"),
        [source |-> SourceRow(slug),
         token  |-> Each(tokens, LAMBDA x : [id |-> x.id, source |-> slug]),
         instance_of |-> EachAll(tokens, LAMBDA x :
                           When(x.strong # Null, Link(x.id, x.strong))),
         in_verse    |-> EachAll(tokens, LAMBDA x :
                           When(x.verse # Null, Link(x.id, x.verse)))])

-----------------------------------------------------------------------------
(* TIPNR, the proper names.  A record starts at a section header (pos is   *)
(* Null for one that does not); a line is [detail, significance, name,     *)
(* strong, refs], refs its OSIS references.                                *)

NameTemplates ==
  [source   |-> SourceT, name |-> NodeT("ProperNoun", "proper_name_entry"),
   named_at |-> EdgeT("NAMED_AT", End("ProperNoun", "proper_name_entry"), End("Verse", "id"))]

DetailSignificances ==
  {"Named", "Greek", "Spelled", "Aramaic", "Aramaic combined", "Spelled combined",
   "Name combined", "Group", "Mentioned", "LXX addition", "(same form as previous)",
   "(same ref[s] as previous)", "Form (verb)", "Form (adjective)",
   "Form (verb) OR (adjective)"}

\* _detail_row_to_node, _record_to_nodes and _load_upstream_rows
ProperNouns ==
  LET Good(l) == /\ l.detail /\ l.significance \in DetailSignificances
                 /\ l.name # "" /\ l.strong.prefix \in {"H", "G"}
      Node(l) == [entry |-> l.name \o "=" \o Text(l.strong),
                  strong |-> Text(l.strong),
                  at |-> IF l.refs = <<>> THEN Null ELSE StepVerse(l.refs[1])]
      Of(r)   == IF r.pos = Null THEN <<>> ELSE Each(SelectSeq(r.lines, Good), Node)
  IN  FirstBy("entry", EachAll(NameRecords, Of))

\* _named_at_rows and ingest_stepbible_proper_nouns
ProperNounsScript(has) ==
  LET slug  == "STEPBible-proper-nouns"
      names == Present(has, "stepbible_proper_nouns", ProperNouns)
  IN  Script(<<"source", "name", "named_at">>, NameTemplates,
        [source   |-> SourceRow(slug),
         name     |-> Each(names, LAMBDA x : [proper_name_entry |-> x.entry,
                                              strong |-> x.strong, source |-> slug]),
         named_at |-> EachAll(names, LAMBDA x : When(x.at # Null, Link(x.entry, x.at)))])

-----------------------------------------------------------------------------
(* TVTMS, the versification rules.                                         *)

TvtmsTemplates == [source |-> SourceT, rule |-> NodeT("VersificationRule", "id")]

\* _normalize_row, _disambiguate_id and _load_rows: a rule needs its five axes;
\* the second rule of an id is numbered #1, whatever it says.
TvtmsRules ==
  LET good == SelectSeq(TvtmsLines, LAMBDA l : \A i \in 1 .. 5 : l.axes[i] # "")
      Base(l) == IF l.id # "" THEN l.id
                 ELSE "tvtms:" \o l.axes[1] \o ":" \o l.axes[2] \o ":" \o l.axes[3]
                        \o ":" \o l.axes[4] \o ":" \o l.axes[5]
      Before(i) == Cardinality({j \in 1 .. i - 1 : Base(good[j]) = Base(good[i])})
  IN  [i \in DOMAIN good |->
         [id |-> Base(good[i]) \o (IF Before(i) = 0 THEN "" ELSE "#" \o ToString(Before(i))),
          ref_a |-> good[i].axes[2], ref_b |-> good[i].axes[4]]]

\* ingest_stepbible_tvtms
TvtmsScript(has) ==
  Script(<<"source", "rule">>, TvtmsTemplates,
         [source |-> SourceRow("STEPBible-TVTMS"),
          rule   |-> Present(has, "stepbible_tvtms", TvtmsRules)])
=============================================================================
