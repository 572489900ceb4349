---------------------------- MODULE ContextBundle ----------------------------
(***************************************************************************)
(* pipeline2/context_builder.py: what a verdict subagent is shown of the   *)
(* graph the lexical ingest wrote, and tools/verify_f1_invariants.py, the  *)
(* gate that asks the graph the same questions by queries of its own.      *)
(* Both only read, so they are operators on the graph.                     *)
(*                                                                         *)
(* An anchor of a question is [book, chapter, lo, hi], or Unparsed where   *)
(* its text is not "Book c:v" or "Book c:v-w".  A list of rows is a set:   *)
(* its order is not modelled, nor which of two equals a LIMIT keeps.       *)
(***************************************************************************)
EXTENDS LexicalIngest, Integers

CONSTANTS
  Questions,    \* questions.json: the anchors of each question
  BookNames,    \* _OSIS_BOOKS
  ANCHOR_LEMMA_LIMIT, CROSS_REF_LIMIT, SEMANTIC_NEIGHBOR_LIMIT, VARIANT_LIMIT,
  SYNTACTIC_LIMIT

ASSUME LimitsAssumption ==
  {ANCHOR_LEMMA_LIMIT, CROSS_REF_LIMIT, SEMANTIC_NEIGHBOR_LIMIT, VARIANT_LIMIT,
   SYNTACTIC_LIMIT} \subseteq Nat \ {0}

Unparsed == <<>>
Parsed   == [book : STRING, chapter : Nat, lo : Nat, hi : Nat]
ASSUME QuestionsAssumption == Questions \subseteq Seq({Unparsed} \cup Parsed)

-----------------------------------------------------------------------------
(* MATCH.  A node is <<label, key>>.                                       *)

Prop(n, p)     == LET props == graph.nodes[n[1]][n[2]]
                  IN  IF p \in DOMAIN props THEN props[p] ELSE Null
Nodes(label, wanted) == {<<label, k>> : k \in Find(graph, label, wanted)}
From(type, label, b) ==
  {e.a : e \in {d \in DOMAIN graph.edges : d.type = type /\ d.b = b /\ d.a[1] = label}}
To(type, a) == {e.b : e \in {d \in DOMAIN graph.edges : d.type = type /\ d.a = a}}

\* LIMIT n after ORDER BY weight DESC.
Top(S, n, weight) ==
  CHOOSE T \in kSubset(MinOf(n, Cardinality(S)), S) :
    \A x \in T, y \in S \ T : weight[x] >= weight[y]
Some(S, n) == Top(S, n, [x \in S |-> 0])

-----------------------------------------------------------------------------
(* The references of a question.                                           *)

\* to_osis
ToOsis(a) ==
  IF a = Unparsed \/ a.book \notin DOMAIN BookNames THEN <<>>
  ELSE [i \in 1 .. a.hi - a.lo + 1 |-> Osis(BookNames[a.book], a.chapter, a.lo + i - 1)]
\* _anchor_refs
AnchorRefs(q) == EachAll(q, ToOsis)

\* _in_ecm_scope
InEcmScope(refs) == \E v \in 1 .. 15 : Osis("3John", 1, v) \in Range(refs)

-----------------------------------------------------------------------------
(* The sections of the bundle.                                             *)

\* Mutant: by osisID, which no verse of the New Testament has.
VersesByOsisID(refs) == UNION {Nodes("Verse", [osisID |-> r]) : r \in Range(refs)}
VersesAt(refs)       == UNION {Nodes("Verse", [id |-> VerseId(r)]) : r \in Range(refs)}

\* _query_anchor_lemmas
Lexemes(token) == {l \in To("INSTANCE_OF", token) : Prop(l, "strong") # Null}
CanonTokens(strong) ==
  {t \in Nodes("TaggedToken", <<>>) :
     \E l \in Lexemes(t) : l[1] \in {"Lemma", "GreekLemma"} /\ Prop(l, "strong") = strong}
AnchorLemmas(refs) ==
  LET tokens  == UNION {From("IN_VERSE", "TaggedToken", v) : v \in VersesAt(refs)}
      Strongs(t) == {Prop(l, "strong") : l \in Lexemes(t)}
      strongs == UNION {Strongs(t) : t \in tokens}
      local   == [s \in strongs |-> Cardinality({t \in tokens : s \in Strongs(t)})]
  IN  {[strong |-> s, occurrences_in_canon |-> Cardinality(CanonTokens(s))] :
         s \in Top(strongs, ANCHOR_LEMMA_LIMIT, local)}

\* _query_anchor_verses: words that look alike are one.
AnchorVerses(refs) ==
  LET Morphology(w) == {Prop(m, "strong") : m \in To("HAS_MORPHEME", w)}
      Surface(w) == IF Prop(w, "surface") # Null THEN Prop(w, "surface") ELSE Prop(w, "text")
      Word(w) == [surface |-> Surface(w), strong |-> Prop(w, "strong"),
                  morphology |-> Morphology(w)]
  IN  {[ref |-> Prop(v, "osis"), words |-> {Word(w) : w \in From("IN_VERSE", "Word", v)}] :
         v \in VersesAt(refs)}

\* _query_cross_refs: what refers from an anchor to a verse that is there.
CrossRefsFrom(ref) ==
  {c \in Nodes("CrossRef", [from_ref |-> ref]) : To("CROSS_REF", c) # {}}
CrossRefs(refs) ==
  LET all == UNION {CrossRefsFrom(r) : r \in Range(refs)}
  IN  {[id |-> Prop(c, "id"), from |-> Prop(c, "from_ref"), to |-> Prop(c, "to_ref")] :
         c \in Some(all, CROSS_REF_LIMIT)}

\* _query_semantic_neighbors
SemanticNeighbours(strongs) ==
  LET Strongs(w) == {Prop(l, "strong") : l \in To("INSTANCE_OF", w)} \ {Null}
      words == Nodes("Word", [source |-> Sblgnt])
      codes == UNION {To("IN_DOMAIN", w) : w \in {x \in words : Strongs(x) \cap strongs # {}}}
      Near(d) == {[strong |-> s, louw_nida |-> Prop(d, "id")] :
                    s \in UNION {Strongs(w) : w \in {x \in words : d \in To("IN_DOMAIN", x)}}
                          \ strongs}
  IN  Some(UNION {Near(d) : d \in codes}, SEMANTIC_NEIGHBOR_LIMIT)

\* _query_variant_units
VariantUnits(refs) ==
  LET all == UNION {Nodes("VariantUnit", [verse |-> r]) : r \in Range(refs)}
  IN  {[ref |-> Prop(u, "verse"), variant_id |-> Prop(u, "variant_unit_id"),
        readings |-> From("ATTESTED_BY", "Reading", u)] : u \in Some(all, VARIANT_LIMIT)}

\* _query_syntactic_context: a row for every word of a tree, for every time the
\* reference is given, and an empty row for a verse without a tree.  A tree is
\* <<word, clause, phrase>>; "match" tells apart rows that look alike.
Coalesce(n, p) == IF n = <<>> \/ Prop(n, p) = Null THEN "" ELSE Prop(n, p)
\* Mutant: the phrase is asked for its text where its function is meant.
SyntaxRowByText(i, v, t) ==
  [match |-> <<i, v, t>>, ref |-> Prop(v, "osis"), clause |-> Coalesce(t[2], "txt"),
   phrase |-> Coalesce(t[3], "txt"), etcbc_function |-> Coalesce(t[3], "txt")]
SyntaxRow(i, v, t) ==
  [match |-> <<i, v, t>>, ref |-> Prop(v, "osis"), clause |-> Coalesce(t[2], "txt"),
   phrase |-> Coalesce(t[3], "txt"), etcbc_function |-> Coalesce(t[3], "function")]
NoTree == <<<<>>, <<>>, <<>>>>
SyntacticContext(refs) ==
  LET Trees(v) == {t \in From("IN_VERSE", "BhsaWord", v)
                     \X Nodes("BhsaClause", <<>>) \X Nodes("BhsaPhrase", <<>>) :
                     t[3] \in From("CONTAINS_WORD", "BhsaPhrase", t[1])
                       /\ t[2] \in From("CONTAINS_PHRASE", "BhsaClause", t[3])}
      Of(i, v) == {SyntaxRow(i, v, t) : t \in IF Trees(v) = {} THEN {NoTree} ELSE Trees(v)}
  IN  Some(UNION {UNION {Of(i, v) : v \in VersesAt(<<refs[i]>>)} : i \in DOMAIN refs},
           SYNTACTIC_LIMIT)

\* build_lexical_context_bundle
Bundle(refs) ==
  LET lemmas == AnchorLemmas(refs)
  IN  [anchor_lemmas |-> lemmas, anchor_verses |-> AnchorVerses(refs),
       cross_refs    |-> CrossRefs(refs),
       semantic_domain_neighbors |-> SemanticNeighbours({l.strong : l \in lemmas}),
       variant_units |-> VariantUnits(refs), not_in_ecm_scope |-> ~InEcmScope(refs),
       syntactic_context |-> SyntacticContext(refs)]

-----------------------------------------------------------------------------
(* The gate.                                                               *)

ThreeJohnVerses == {Osis("3John", 1, n) : n \in 1 .. 15}

\* Q_WORDS, Q_STRONGS, Q_LEMMA, Q_XREF_COUNT, Q_VARIANTS and Q_SYNTAX.
GateVerses(ref)  == Nodes("Verse", [id |-> VerseId(ref)])
GateWords(ref)   == UNION {From("IN_VERSE", "Word", v) : v \in GateVerses(ref)}
GateTokens(ref)  == UNION {From("IN_VERSE", "TaggedToken", v) : v \in GateVerses(ref)}
GateStrongs(ref) ==
  {Prop(l, "strong") : l \in UNION {To("INSTANCE_OF", t) : t \in GateTokens(ref)}} \ {Null}
GateLemmas(strong) ==
  Nodes("Lemma", [strong |-> strong]) \cup Nodes("GreekLemma", [strong |-> strong])
GateCrossRefs(ref) ==
  {c \in Nodes("CrossRef", [from_ref |-> ref]) : To("CROSS_REF", c) # {}}
GateVariants(ref) == {Prop(u, "variant_unit_id") : u \in Nodes("VariantUnit", [verse |-> ref])}
GateSyntax(ref) ==
  {t \in Nodes("BhsaClause", <<>>) \X Nodes("BhsaPhrase", <<>>) :
     /\ t[2] \in To("CONTAINS_PHRASE", t[1])
     /\ \E w \in UNION {From("IN_VERSE", "BhsaWord", v) : v \in GateVerses(ref)} :
          w \in To("CONTAINS_WORD", t[2])}

\* build_bundle, the projection the invariants are asked of.
Projection(refs) ==
  LET anchors == Range(refs)
  IN  [words       |-> [r \in anchors |-> GateWords(r)],
       strongs     |-> [r \in anchors |-> GateStrongs(r)],
       cross_refs  |-> [r \in anchors |-> Cardinality(GateCrossRefs(r))],
       variants    |-> [r \in anchors |-> GateVariants(r)],
       syntax      |-> [r \in anchors |-> GateSyntax(r)],
       not_in_ecm_scope |-> anchors \cap ThreeJohnVerses = {}]

\* _inv2_lemma_completeness, _inv4_variant_completeness and
\* _check_three_john_flag; the other three, and F.2, compare a query with the
\* same query asked again.
LemmaComplete(ref, b)   == \A s \in b.strongs[ref] : GateLemmas(s) # {}
VariantComplete(ref, b) ==
  IF ref \in ThreeJohnVerses THEN GateVariants(ref) \subseteq b.variants[ref]
  ELSE b.variants[ref] = {}
ThreeJohnFlag(b) == b.not_in_ecm_scope <=> ThreeJohnVerses \cap DOMAIN b.words = {}
\* run_invariants
GateAccepts(refs, b) ==
  /\ ThreeJohnFlag(b)
  /\ \A r \in Range(refs) : LemmaComplete(r, b) /\ VariantComplete(r, b)

-----------------------------------------------------------------------------
(* Properties.                                                             *)

Settled == passed /\ result # "running"

\* The numbers of the lemmas MACULA-Greek brings.
GreekNumbers == {r.strong : r \in Range(GreekAfter(Len(GreekChunks)).lemma)}

\* What the files on the disk say of an anchor is shown: every word of the Hebrew
\* Bible and of the New Testament under its own reference, and, with these texts,
\* the lemma of every tagged token that MACULA brings, unless the limit is reached.
BundleReachesAnchors ==
  Settled => \A q \in Questions :
    LET refs == AnchorRefs(q)
        b    == Bundle(refs)
        Shows(ref, text) ==
          \E row \in b.anchor_verses :
            row.ref = ref /\ \E w \in row.words : w.surface = text
        ShowsLemma(strong) ==
          \/ Cardinality(b.anchor_lemmas) = ANCHOR_LEMMA_LIMIT
          \/ \E l \in b.anchor_lemmas : l.strong = strong
        At(token) == \E r \in Range(refs) : token.verse = VerseId(r)
    IN  /\ "oshb" \in disk =>
             \A w \in Range(OshbWords) : w.ref \in Range(refs) => Shows(w.ref, w.text)
        /\ "morphgnt" \in disk =>
             \A line \in UNION {Range(book) : book \in Range(MorphgntBooks)} :
               MorphgntOsis(line.bcv) \in Range(refs) => Shows(MorphgntOsis(line.bcv), line.text)
        /\ {"oshb", "macula_hebrew", "stepbible_tahot"} \subseteq disk =>
             \A t \in Range(TahotTokens) : At(t) /\ t.strong \in HebrewNumbers => ShowsLemma(t.strong)
        /\ {"morphgnt", "macula_greek", "stepbible_tagnt"} \subseteq disk =>
             \A t \in Range(TagntTokens) : At(t) /\ t.strong \in GreekNumbers => ShowsLemma(t.strong)

\* Of a limited list: none of its rows is made up, and it is short only of all there is.
Complete(rows, all, limit) ==
  Cardinality(rows) = MinOf(limit, Cardinality(all)) /\ rows \subseteq all

\* What the gate reads at the anchors and what the bundle shows of them agree.
Vouches(refs) ==
  LET gate == Projection(refs)
      b    == Bundle(refs)
      All(section) == UNION {section[r] : r \in DOMAIN section}
      Looks(w) == {Prop(w, "surface"), Prop(w, "text")} \ {Null}
  IN  /\ GateAccepts(refs, gate)
      /\ \A r \in Range(refs), w \in All(gate.words) : w \in gate.words[r] =>
           \E row \in b.anchor_verses :
             row.ref = r /\ \E x \in row.words : x.surface \in Looks(w)
      /\ Complete({l.strong : l \in b.anchor_lemmas}, All(gate.strongs), ANCHOR_LEMMA_LIMIT)
      /\ Cardinality(b.cross_refs) =
           MinOf(CROSS_REF_LIMIT, Cardinality(All([r \in Range(refs) |->
                                                    {r} \X (1 .. gate.cross_refs[r])])))
      /\ Complete({u.variant_id : u \in b.variant_units}, All(gate.variants), VARIANT_LIMIT)
      /\ \/ Cardinality(b.syntactic_context) = SYNTACTIC_LIMIT
         \/ \A r \in Range(refs) : \A t \in gate.syntax[r] :
              \E row \in b.syntactic_context :
                /\ row.ref = r /\ row.clause = Prop(t[1], "txt")
                /\ row.etcbc_function = Prop(t[2], "function")
      /\ b.not_in_ecm_scope = gate.not_in_ecm_scope
      /\ b.not_in_ecm_scope => b.variant_units = {}

\* The gate accepts the graph of a whole pass, and what it accepts is what the
\* bundle shows, although the two ask by queries of their own: every word, and
\* every lemma, cross reference and variation unit up to the limits; of every
\* phrase, up to the limit, the txt of its clause and its function (the text of
\* a phrase, which the bundle has a column for, is in no file); a bundle out of
\* the scope of the collation shows no variation unit.  Of a question without
\* any reference the gate refuses to speak.
GateVouchesForBundle ==
  Settled => \A q \in Questions : AnchorRefs(q) # <<>> => Vouches(AnchorRefs(q))

-----------------------------------------------------------------------------
(* What GateVouches (LexicalIngestProofs) asks of the files: conditions on *)
(* the rows that make the nodes both ask for.                              *)

\* A verse is named by its id, a word in a verse has a text, a variation unit
\* lies in the third letter of John, a tagged token is an instance of a lemma, a
\* clause has a txt and a phrase a function.
EveryRow         == UNION {AllRowed(has) : has \in Disks}
IsNode(x, label) == x.t.kind = "node" /\ x.t.label = label
Given(x, f)      == f \in DOMAIN x.row /\ x.row[f] # Null
RowOfBundle(x) ==
  LET Edge(type, label) == x.t.kind = "edge" /\ x.t.type = type /\ x.t.a.label = label
  IN  /\ IsNode(x, "Verse") =>
           /\ Given(x, "id") /\ Given(x, "osis")
           /\ \A q \in Questions : \A r \in Range(AnchorRefs(q)) :
                x.row.id = VerseId(r) => x.row.osis = r
      /\ IsNode(x, "Word") => Given(x, "id")
      /\ Edge("IN_VERSE", "Word") =>
           /\ x.t.a.prop = "id"
           /\ \A y \in EveryRow : IsNode(y, "Word") /\ y.row.id = x.row.from =>
                Given(y, "surface") \/ Given(y, "text")
      /\ IsNode(x, "VariantUnit") =>
           /\ x.t.keys = {"variant_unit_id"} /\ Given(x, "variant_unit_id")
           /\ Given(x, "verse") /\ x.row.verse \in ThreeJohnVerses
      /\ IsNode(x, "BhsaClause") => Given(x, "txt")
      /\ IsNode(x, "BhsaPhrase") => Given(x, "function")
      /\ IsNode(x, "CrossRef") => x.t.keys = {"id"} /\ Given(x, "id")
      /\ Edge("INSTANCE_OF", "TaggedToken") => x.t.b.label \in {"Lemma", "GreekLemma"}
BundleLabels ==
  {"Verse", "Word", "TaggedToken", "Lemma", "GreekLemma", "CrossRef", "VariantUnit",
   "BhsaWord", "BhsaPhrase", "BhsaClause"}
BundleSettles ==
  BundleLabels \subseteq Labels /\ \A x \in EveryRow : RowOfBundle(x)

\* And AnchorsAreReached: no anchor is nameless, every tagged token has an id and,
\* at an anchor, a verse that the files bring, and no word has both kinds of text.
VerseComes(has, id) ==
  \E y \in AllRowed(has) : IsNode(y, "Verse") /\ Given(y, "id") /\ y.row.id = id
TokensSettle(has, tokens) ==
  \A q \in Questions : \A r \in Range(AnchorRefs(q)), t \in Range(tokens) :
    t.verse = VerseId(r) => VerseComes(has, t.verse)
AnchorsSettle(most) ==
  /\ \A q \in Questions : Null \notin Range(AnchorRefs(q))
  /\ \A x \in EveryRow : IsNode(x, "TaggedToken") => Given(x, "id")
  /\ \A has \in Disks :
       /\ \A k \in DOMAIN most[has].nodes["Word"] :
            ~({"surface", "text"} \subseteq DOMAIN most[has].nodes["Word"][k])
       /\ {"oshb", "stepbible_tahot"} \subseteq has => TokensSettle(has, TahotTokens)
       /\ {"morphgnt", "stepbible_tagnt"} \subseteq has => TokensSettle(has, TagntTokens)
=============================================================================
