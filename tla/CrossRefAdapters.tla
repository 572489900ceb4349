-------------------------- MODULE CrossRefAdapters --------------------------
(***************************************************************************)
(* ingest/lexical/openbible.py, tsk.py and theographic.py: what refers to  *)
(* a Verse by its reference in the English numbering.                      *)
(***************************************************************************)
EXTENDS PropertyGraph, Integers

CONSTANTS
  EnglishRules,    \* the English rules of tvtms.parsed.json: ref_a -> ref_b
  OpenBibleLines,  \* [from, to, votes]; a range has its first verse here
  TskLines,        \* [key, anchor, targets]: an anchor and the verses of the string
  TskBooks,        \* the book numbers TSK knows, with their OSIS names
  ChapterVerses,   \* the last verse of each chapter, for the books that are checked
  TheoVerses,      \* verses.json: record id -> osisRef
  TheoRecords,     \* the other files: label -> records [id, slug, verses, date]; date is <<>> or <<year>>
  LabelOrder       \* _FROM_LABELS

ASSUME OpenBibleAssumption == OpenBibleLines \in Seq(Range(OpenBibleLines))
ASSUME TskAssumption ==
  /\ TskLines \in Seq(Range(TskLines))
  /\ \A l \in Range(TskLines) : l.targets \in Seq(Range(l.targets))

SourceNode == NodeT("Source", "slug")

-----------------------------------------------------------------------------
(* OpenBible.                                                              *)

OpenBible == "OpenBible-cross-refs"
OpenBibleTemplates ==
  [source |-> SourceNode, edge |-> IdEdgeT("OPENBIBLE_CROSS_REF", "Verse", "Verse")]

\* _project_to_osis: what no rule names keeps its reference.
Projected(ref) == IF ref \in DOMAIN EnglishRules THEN EnglishRules[ref] ELSE ref

\* _parse_rows: a line without a reference or a number of votes is counted.
OpenBibleRows ==
  LET Good(l) == l.from # "" /\ l.to # "" /\ l.votes # Null
      Row(l)  == LET from == Projected(l.from) to == Projected(l.to)
                 IN  LinkSet(VerseId(from), VerseId(to),
                             [from_osis |-> from, to_osis |-> to, source |-> OpenBible],
                             [votes |-> l.votes])
  IN  Each(Only(OpenBibleLines, Good), Row)

\* ingest_openbible
OpenBibleScript(has) ==
  Script(<<"source", "edge">>, OpenBibleTemplates,
    [source |-> SourceRow(OpenBible),
     edge   |-> IF "openbible" \in has THEN OpenBibleRows ELSE <<>>])

-----------------------------------------------------------------------------
(* The Treasury of Scripture Knowledge.  A verse is [book, chapter, verse].*)

TSK == "TSK"

\* The cross reference finds its verse by osisID, not by id.
TskTemplates ==
  [source |-> SourceNode, node |-> NodeT("CrossRef", "id"),
   edge   |-> EdgeT("CROSS_REF", End("CrossRef", "id"), End("Verse", "osisID"))]

\* _in_bounds and _project: a rule comes before the bounds.
TskInBounds(v) ==
  /\ v.chapter >= 1 /\ v.verse >= 1
  /\ v.book \in DOMAIN ChapterVerses =>
       /\ v.chapter <= Len(ChapterVerses[v.book])
       /\ v.verse <= ChapterVerses[v.book][v.chapter]
TskProject(v) ==
  LET ref == Osis(v.book, v.chapter, v.verse)
  IN  IF ref \in DOMAIN EnglishRules THEN EnglishRules[ref]
      ELSE IF TskInBounds(v) THEN ref ELSE Null

\* _build.  The verses of the reference string are those _expand_token makes
\* of it; an anchor whose book number is unknown is Null.
TskRefs ==
  LET Anchor(l) == IF l.anchor.book \notin DOMAIN TskBooks THEN Null
                   ELSE TskProject([l.anchor EXCEPT !.book = TskBooks[@]])
      Targets(l) == Only(Each(l.targets, TskProject), LAMBDA r : r # Null)
      Row(l) == [id |-> "tsk:" \o l.key, from |-> Anchor(l), targets |-> Targets(l),
                 lost |-> Anchor(l) = Null \/ Targets(l) = <<>>]
  IN  FirstBy("id", Each(TskLines, Row))

\* A row that leads nowhere is kept, marked and without edges.
TskRows(has) ==
  LET refs == IF "tsk" \in has THEN TskRefs ELSE <<>>
  IN
  [source |-> SourceRow(TSK),
   node   |-> Each(refs, LAMBDA r :
                [id |-> r.id, source |-> TSK,
                 from_ref |-> IF r.from = Null THEN "" ELSE r.from,
                 to_ref |-> IF r.targets = <<>> THEN "" ELSE r.targets[1],
                 tvtms_quarantine |-> IF r.lost THEN "true" ELSE Null]),
   edge   |-> EachAll(Only(refs, LAMBDA r : ~r.lost), LAMBDA r :
                Each(r.targets, LAMBDA to :
                  LinkAs(r.id, to, [source |-> TSK, osis_target |-> to])))]

\* ingest_tsk
TskScript(has) == Script(<<"source", "node", "edge">>, TskTemplates, TskRows(has))

-----------------------------------------------------------------------------
(* Theographic.                                                            *)

Theographic == "Theographic-Bible-Metadata"
TheoNodeT(label) == NodeT(label, "entity_id")
MentionsT(label) == EdgeT("MENTIONS", End(label, "entity_id"), End("Verse", "id"))
TheoEditionT(label) == EdgeT("FROM_EDITION", End(label, "entity_id"), End("Source", "slug"))

\* _slug: people and places go by their slug, the rest by the record's id.
EntityId(label, rec) ==
  IF label \in {"Person", "Place"} /\ rec.slug # "" THEN rec.slug ELSE rec.id
\* _resolve_verses
TheoVersesOf(rec) ==
  LET known == SelectSeq(rec.verses, LAMBDA r : r \in DOMAIN TheoVerses)
  IN  Each(FirstBy("ref", Each(known, LAMBDA r : [ref |-> TheoVerses[r]])), LAMBDA x : x.ref)

\* _period_nodes: one period for each century an event of a known date is in,
\* with the verses of all its events.
PeriodId(century) ==
  LET start == century * 100
      Abs(n) == ToString(IF n < 0 THEN -n ELSE n)
  IN  (IF start < 0 THEN "period-bce-" ELSE "period-ce-") \o Abs(start) \o "-" \o Abs(start + 99)
TheoPeriods ==
  LET dated == SelectSeq(TheoRecords["Event"], LAMBDA e : e.date # <<>>)
      Century(e) == e.date[1] \div 100
      Of(c) == [id |-> PeriodId(c),
                verses |-> EachAll(SelectSeq(dated, LAMBDA e : Century(e) = c), TheoVersesOf)]
  IN  Each(SetToSortSeq({Century(dated[i]) : i \in DOMAIN dated}, LAMBDA x, y : x < y), Of)

\* The entities of a label, as [id, verses]; one without any id is left out.
TheoEntities(label) ==
  LET Node(rec) == [id |-> EntityId(label, rec),
                    verses |-> IF label \in {"Group", "Tribe"} THEN <<>> ELSE TheoVersesOf(rec)]
  IN  IF label = "Period" THEN TheoPeriods
      ELSE SelectSeq(Each(TheoRecords[label], Node), LAMBDA n : n.id # "")

\* ingest_theographic: the nodes of every label, then their MENTIONS, then
\* their FROM_EDITION, label by label.  Without its files it raises.
TheoScript ==
  LET Nodes(label) ==
        Batched(TheoNodeT(label), Each(TheoEntities(label), LAMBDA n :
                  [entity_id |-> n.id, source |-> Theographic]))
      Mentions(label) ==
        Batched(MentionsT(label), EachAll(TheoEntities(label), LAMBDA n :
                  Each(n.verses, LAMBDA v : Link(n.id, VerseId(v)))))
      Editions(label) ==
        Batched(TheoEditionT(label), Each(TheoEntities(label), LAMBDA n :
                  Link(n.id, Theographic)))
  IN  Batched(SourceNode, SourceRow(Theographic))
      \o EachAll(<<"Person", "Place", "Event", "Group", "Tribe", "Period">>, Nodes)
      \o EachAll(LabelOrder, Mentions) \o EachAll(LabelOrder, Editions)
=============================================================================
