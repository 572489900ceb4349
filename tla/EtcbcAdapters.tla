---------------------------- MODULE EtcbcAdapters ----------------------------
(***************************************************************************)
(* ingest/lexical/bhsa.py, etcbc_phono.py and etcbc_parallels.py: what the *)
(* adapters read from Text-Fabric features, and the sample data they fall  *)
(* back on where a feature is missing.                                     *)
(*                                                                         *)
(* A feature file is the sequence of its lines after the first blank one.  *)
(* A line is [spec, value]: spec is <<lo, hi>> where the line names its    *)
(* nodes and <<>> where it goes on with the next node; an empty line is    *)
(* EmptyLine.  Missing stands for a file that is not there.                *)
(***************************************************************************)
EXTENDS PropertyGraph

CONSTANTS
  BhsaFiles,       \* [otype, oslots, book, chapter, verse, function, txt]
  PhonoFile,       \* the lines of phono.tf
  CrossrefFile,    \* the lines of crossref.tf
  EtcbcBooks,      \* ETCBC's Latin book names with their OSIS names
  WORD_NODE_MAX    \* the words of the corpus are the nodes 1 .. WORD_NODE_MAX

Missing   == <<>>
EmptyLine == [spec |-> <<>>, value |-> Null]
Get(f, k, default) == IF k \in DOMAIN f THEN f[k] ELSE default

\* _parse_node_feature, _parse_oslots and _parse_phono_feature; a node named
\* twice keeps the later value.
Feature(lines, first) ==
  LET Read(acc, l) ==
        CASE l = EmptyLine -> [acc EXCEPT !.next = @ + 1]
          [] l.spec # <<>> -> [values |-> [n \in l.spec[1] .. l.spec[2] |-> l.value] @@ acc.values,
                               next   |-> l.spec[2] + 1]
          [] OTHER         -> [values |-> (acc.next :> l.value) @@ acc.values,
                               next   |-> acc.next + 1]
  IN  FoldLeft(Read, [values |-> <<>>, next |-> first], lines).values
-----------------------------------------------------------------------------
(* BHSA.                                                                   *)

BHSA == "ETCBC-BHSA"
Sid(n) == "bhsa:tf:" \o ToString(n)

BhsaTemplates ==
  [source |-> NodeT("Source", "slug"),       word   |-> NodeT("BhsaWord", "id"),
   phrase |-> NodeT("BhsaPhrase", "id"),     clause |-> NodeT("BhsaClause", "id"),
   tfnode |-> NodeByT("TFNode", {"corpus", "node_id"}),
   contains_phrase |-> IdEdgeT("CONTAINS_PHRASE", "BhsaClause", "BhsaPhrase"),
   contains_word   |-> IdEdgeT("CONTAINS_WORD", "BhsaPhrase", "BhsaWord"),
   in_verse        |-> IdEdgeT("IN_VERSE", "BhsaWord", "Verse")]
BhsaOrder ==
  <<"source", "word", "phrase", "clause", "tfnode",
    "contains_phrase", "contains_word", "in_verse">>

\* _WORD_ROWS, _PHRASE_ROWS and _CLAUSE_ROWS.  A clause has a txt, which is the
\* kind of its text and not its words; a phrase has a function and no txt.
BhsaSample ==
  [words   |-> <<[n |-> 1, ref |-> "Gen.1.1"], [n |-> 2, ref |-> "Gen.1.1"],
                 [n |-> 3, ref |-> "Gen.1.1"], [n |-> 480123, ref |-> "Prov.1.1"],
                 [n |-> 510987, ref |-> "Isa.1.1"]>>,
   phrases |-> <<[n |-> 651573, function |-> "Time", parts |-> <<1, 2>>],
                 [n |-> 651574, function |-> "Pred", parts |-> <<3>>],
                 [n |-> 720001, function |-> "Subj", parts |-> <<480123>>],
                 [n |-> 730001, function |-> "Subj", parts |-> <<510987>>]>>,
   clauses |-> <<[n |-> 427559, txt |-> "N", parts |-> <<651573, 651574>>],
                 [n |-> 460001, txt |-> "N", parts |-> <<720001>>],
                 [n |-> 470001, txt |-> "N", parts |-> <<730001>>]>>]

\* _parse_otype_runs: the last run of a type.
Runs == [o \in {BhsaFiles.otype[i].type : i \in DOMAIN BhsaFiles.otype} |->
           LET is == {i \in DOMAIN BhsaFiles.otype : BhsaFiles.otype[i].type = o}
               r  == BhsaFiles.otype[Max(is)]
           IN  r.lo .. r.hi]
AsSequence(S) == SetToSortSeq(S, LAMBDA x, y : x < y)

\* _parse_oslots and _slot_owner_map; the later of two owners is kept.
Spans == Feature(BhsaFiles.oslots, Max(Runs["word"]) + 1)
Slots(n) == Get(Spans, n, <<>>)
OwnerOf(type) ==
  LET Owners(s) == {n \in Runs[type] : s \in Range(Slots(n))}
  IN  [s \in UNION {Range(Slots(n)) : n \in Runs[type]} |-> Max(Owners(s))]

\* _osis_ref: a name that is not in the table is kept, a number that is none
\* becomes 0.
BhsaOsis(slot) ==
  LET Of(type, lines) ==
        Get(Feature(lines, 1), Get(OwnerOf(type), slot, 0), "")
      book == Of("book", BhsaFiles.book)
      Number(s) == IF s = "" THEN "0" ELSE s
  IN  Get(EtcbcBooks, book, book) \o "." \o Number(Of("chapter", BhsaFiles.chapter))
        \o "." \o Number(Of("verse", BhsaFiles.verse))

\* _build_words, _build_phrases and _build_clauses.
BhsaData ==
  LET Phrase(s) == Get(OwnerOf("phrase"), s, 0)
      InPhrase(n) == SelectSeq(Slots(n), LAMBDA s : Phrase(s) # 0)
      Phrases(n)  == LET ps == FirstBy("n", Each(InPhrase(n), LAMBDA s : [n |-> Phrase(s)]))
                     IN  Each(ps, LAMBDA p : p.n)
      function == Feature(BhsaFiles.function, 1)
      txt      == Feature(BhsaFiles.txt, 1)
  IN
  [words   |-> Each(AsSequence(Runs["word"]), LAMBDA n : [n |-> n, ref |-> BhsaOsis(n)]),
   phrases |-> Each(AsSequence(Runs["phrase"]), LAMBDA n :
                 [n |-> n, function |-> Get(function, n, "NA"), parts |-> Slots(n)]),
   clauses |-> Each(AsSequence(Runs["clause"]), LAMBDA n :
                 [n |-> n, txt |-> Get(txt, n, "NA"), parts |-> Phrases(n)])]

\* _load_dataset
BhsaLoad(has) ==
  IF "bhsa" \notin has THEN BhsaSample
  ELSE IF \E type \in {"word", "phrase", "clause", "verse", "book", "chapter"} :
            type \notin DOMAIN Runs THEN BhsaSample
  ELSE BhsaData

\* _word_row, _phrase_row, _clause_row and _tfnode_rows.
BhsaRows(data) ==
  LET Node(x)  == [id |-> Sid(x.n), source |-> BHSA]
      Parts(x) == Each(x.parts, LAMBDA p : Link(Sid(x.n), Sid(p)))
      TFNode(x) == [corpus |-> "bhsa", node_id |-> ToString(x.n)]
  IN
  [source |-> SourceRow(BHSA),
   word   |-> Each(data.words, Node),
   phrase |-> Each(data.phrases, LAMBDA p : Node(p) @@ [function |-> p.function]),
   clause |-> Each(data.clauses, LAMBDA c : Node(c) @@ [txt |-> c.txt]),
   tfnode |-> FirstBy("node_id",
                Each(data.words, TFNode) \o Each(data.phrases, TFNode)
                \o Each(data.clauses, TFNode)),
   contains_phrase |-> EachAll(data.clauses, Parts),
   contains_word   |-> EachAll(data.phrases, Parts),
   in_verse        |-> Each(data.words, LAMBDA w : Link(Sid(w.n), VerseId(w.ref)))]

\* ingest_bhsa
BhsaScript(has) == Script(BhsaOrder, BhsaTemplates, BhsaRows(BhsaLoad(has)))

-----------------------------------------------------------------------------
(* The transliterations, attached to the words BHSA wrote.                 *)

Phono == "ETCBC-phono"

PhonoTemplates == [source |-> NodeT("Source", "slug"), phono |-> AttachT("BhsaWord", "id")]
PhonoOrder == <<"source", "phono">>

\* _load_phono_rows: a row for every word of the corpus; a blank value is null
\* and takes an earlier transliteration away.
PhonoRows(has) ==
  LET values == Feature(PhonoFile, 1)
      Row(n) == [id |-> Sid(n), phono |-> Get(values, n, Null)]
  IN  [source |-> SourceRow(Phono),
       phono  |-> IF "etcbc_phono" \in has
                  THEN [n \in 1 .. WORD_NODE_MAX |-> Row(n)] ELSE <<>>]

\* ingest_etcbc_phono
PhonoScript(has) == Script(PhonoOrder, PhonoTemplates, PhonoRows(has))

-----------------------------------------------------------------------------
(* Parallel passages.  A line of crossref.tf is [from, to, value], with    *)
(* from = 0 where the line has two fields only, or <<>> where it has       *)
(* another number of fields.  A value is [kind, text]: "int" (hundredths), *)
(* "float" (finite), or "bad".                                             *)

Parallels == "ETCBC-parallels"

\* No Source node is written.
ParallelsTemplates == [parallel |-> IdEdgeT("PARALLEL_OF", "Verse", "Verse")]

\* _EMBEDDED_ROWS and _EMBEDDED_VERSE_MAP.
ParallelsSample ==
  LET Row(from, to, similarity) ==
        [from |-> from, to |-> to, kind |-> "float", text |-> similarity]
  IN  <<Row(1414401, 1414407, "0.84"), Row(1414401, 1414411, "0.89"),
        Row(1414403, 1414405, "0.77")>>
SampleVerses ==
  1414401 :> "Gen.1.13" @@ 1414407 :> "Gen.1.19" @@ 1414411 :> "Gen.1.23" @@
  1414403 :> "Gen.1.15" @@ 1414405 :> "Gen.1.17"

\* _normalize_lines: a line of two fields goes on with the verse before it,
\* and is dropped where there is none.
ParallelLines ==
  LET Read(acc, l) ==
        LET from == IF l.from # 0 THEN l.from ELSE acc.from
            text == IF l.value.kind = "int" THEN l.value.text \o "/100" ELSE l.value.text
        IN  IF from = 0 THEN acc
            ELSE [from |-> from,
                  rows |-> Append(acc.rows, [from |-> from, to |-> l.to,
                                             kind |-> l.value.kind, text |-> text])]
      lines == SelectSeq(CrossrefFile, LAMBDA l : l # <<>>)
  IN  FoldLeft(Read, [from |-> 0, rows |-> <<>>], lines).rows

\* _load_rows
ParallelsLoad(has) ==
  IF "etcbc_parallels" \notin has \/ ParallelLines = <<>> THEN ParallelsSample
  ELSE ParallelLines

\* _build_verse_map over the verse nodes of BHSA; a book that is not in the
\* table or a missing number leaves the node out.
LiveVerses ==
  IF "verse" \notin DOMAIN Runs THEN <<>>
  ELSE LET Of(lines, n) == Get(Feature(lines, 1), n, "")
           Known == {n \in Runs["verse"] :
                       /\ Of(BhsaFiles.book, n) \in DOMAIN EtcbcBooks
                       /\ Of(BhsaFiles.chapter, n) # "" /\ Of(BhsaFiles.verse, n) # ""}
       IN  [n \in Known |->
              EtcbcBooks[Of(BhsaFiles.book, n)] \o "." \o Of(BhsaFiles.chapter, n)
                \o "." \o Of(BhsaFiles.verse, n)]
\* _resolve_verse_map
VerseMap(has) ==
  IF "bhsa" \in has /\ LiveVerses # <<>> THEN LiveVerses ELSE SampleVerses

\* _split_target_and_value and _build_edge_rows: what does not resolve is
\* counted as quarantined and dropped.
ParallelsRows(has) ==
  LET verses == VerseMap(has)
      Good(r) == r.kind # "bad" /\ r.from \in DOMAIN verses /\ r.to \in DOMAIN verses
      Row(r)  == LinkSet(VerseId(verses[r.from]), VerseId(verses[r.to]), <<>>,
                         [similarity |-> r.text, source |-> Parallels])
  IN  [parallel |-> Each(SelectSeq(ParallelsLoad(has), Good), Row)]

\* ingest_etcbc_parallels
ParallelsScript(has) == Script(<<"parallel">>, ParallelsTemplates, ParallelsRows(has))
=============================================================================
