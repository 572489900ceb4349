---------------------------- MODULE GreekAdapters ----------------------------
(***************************************************************************)
(* ingest/lexical/macula_greek.py and morphgnt.py: the words, lemmas and   *)
(* verses of the Greek New Testament.                                      *)
(***************************************************************************)
EXTENDS Strongs

CONSTANTS
  NestleWords, SblgntWords, \* the rows of the two MACULA-Greek .tsv files
  MorphgntBooks,            \* the lines of each MorphGNT book file
  GreekBooks,               \* MACULA-Greek's book names with their OSIS names
  OSIS_BOOKS                \* the books of the New Testament in order

ASSUME GreekAssumption ==
  NestleWords \in Seq(Range(NestleWords)) /\ SblgntWords \in Seq(Range(SblgntWords))
ASSUME MorphgntAssumption ==
  MorphgntBooks \in Seq(Seq([bcv : Seq(Nat), text : STRING]))

-----------------------------------------------------------------------------
(* MACULA-Greek.  A row is [id, ref, lemma, strong, ln]: ref is            *)
(* [book, chapter, verse, pos] or <<>>, strong a number (0: none) and ln   *)
(* the Louw-Nida pairs <<domain, subdomain>> (<<>> where one does not      *)
(* parse).                                                                 *)

Nestle == "MACULA-Greek-Nestle1904"
Sblgnt == "MACULA-Greek-SBLGNT"

GreekTemplates ==
  [source |-> NodeT("Source", "slug"),  word   |-> NodeT("Word", "id"),
   lemma  |-> NodeT("GreekLemma", "id"), domain |-> NodeT("LouwNidaDomain", "id"),
   instance_of  |-> IdEdgeT("INSTANCE_OF", "Word", "GreekLemma"),
   in_domain    |-> IdEdgeT("IN_DOMAIN", "Word", "LouwNidaDomain"),
   from_edition |-> EdgeT("FROM_EDITION", End("Word", "id"), End("Source", "slug"))]
GreekOrder ==
  <<"word", "lemma", "domain", "instance_of", "in_domain", "from_edition">>

\* _osis_wpos: the verse and the position in it.
OsisWpos(ref) ==
  IF ref = <<>> \/ ref.book \notin DOMAIN GreekBooks THEN Null
  ELSE Osis(GreekBooks[ref.book], ref.chapter, ref.verse) \o ".w" \o Pad2(ref.pos)

\* _canonical_strong_or_none: a compound cell (1537 4053) gives one number of
\* more than five digits, which is no Strong's number.
GreekStrong(n) ==
  IF n = 0 \/ n > 99999 THEN Null ELSE CanonicalStrongs(Raw("", ToString(n), ""), "gk").id

\* _row_word_payload and _row_lemma_payload.  Only SBLGNT words get a position.
GreekWord(source, w) ==
  [id |-> source \o ":" \o w.id, source |-> source,
   osis_wpos |-> IF source = Sblgnt THEN OsisWpos(w.ref) ELSE Null]
GreekLemmaOf(source, w) ==
  [id |-> source \o ":strong-" \o Zfill(5, ToString(w.strong)),
   strong |-> GreekStrong(w.strong), source |-> source]

\* _process_edition, after the words ws, each with its edition.
GreekRows(ws) ==
  LET Lemmaed == Only(ws, LAMBDA x : x.w.lemma # Null /\ GreekStrong(x.w.strong) # Null)
      Id(x)   == GreekWord(x.source, x.w).id
      Pairs(x) == IF x.w.strong = 0 THEN <<>>
                  ELSE Each(SelectSeq(x.w.ln, LAMBDA p : p # <<>>), LAMBDA p :
                         [key |-> <<Id(x), ToString(p[1]), ToString(p[2])>>,
                          source |-> x.source])
      Domains == FirstBy("key", EachAll(ws, Pairs))
  IN
  [word   |-> Each(ws, LAMBDA x : GreekWord(x.source, x.w)),
   lemma  |-> FirstBy("id", Each(Lemmaed, LAMBDA x : GreekLemmaOf(x.source, x.w))),
   domain |-> FirstBy("id", Each(Domains, LAMBDA d : [id |-> d.key[2]])),
   instance_of |-> Each(Lemmaed, LAMBDA x : Link(Id(x), GreekLemmaOf(x.source, x.w).id)),
   in_domain   |-> Each(Domains, LAMBDA d :
                     LinkAs(d.key[1], d.key[2],
                            [subdomain_code |-> d.key[3], source |-> d.source])),
   from_edition |-> Each(ws, LAMBDA x : Link(Id(x), x.source))]

\* ingest_macula_greek: Nestle first; the seen-sets span both editions, which are
\* on the disk together or not at all.
EditionChunks(source, rows) ==
  Chunks(Each(Only(rows, LAMBDA w : w.id # Null), LAMBDA w : [source |-> source, w |-> w]))
GreekChunks == EditionChunks(Nestle, NestleWords) \o EditionChunks(Sblgnt, SblgntWords)
\* What has been collected after i chunks.
GreekAfter(i) == GreekRows(FlattenSeq(SubSeq(GreekChunks, 1, i)))
MaculaGreekScript(has) ==
  Script(<<"source">>, GreekTemplates, [source |-> SourceRow(Nestle) \o SourceRow(Sblgnt)])
    \o IF "macula_greek" \in has
       THEN Flushed(GreekOrder, GreekTemplates, Len(GreekChunks), GreekAfter) ELSE <<>>

-----------------------------------------------------------------------------
(* MorphGNT.  A line is [bcv, text]; bcv is <<book number, chapter, verse>>*)
(* or <<>> when the line does not parse.                                   *)

MorphGNT == "MorphGNT-SBLGNT"

MorphgntTemplates ==
  [source   |-> NodeT("Source", "slug"), word |-> NodeT("Word", "id"),
   verse    |-> NodeT("Verse", "id"),
   in_verse |-> IdEdgeT("IN_VERSE", "Word", "Verse"),
   parse_of |-> EdgeT("PARSE_OF", End("Word", "id"),
                      EndWhere("Word", "osis_wpos", [source |-> "MACULA-Greek-SBLGNT"]))]
MorphgntOrder == <<"source", "word", "verse", "in_verse", "parse_of">>

\* _osis_ref
MorphgntOsis(bcv) ==
  IF bcv = <<>> \/ bcv[1] \notin DOMAIN OSIS_BOOKS THEN Null
  ELSE Osis(OSIS_BOOKS[bcv[1]], bcv[2], bcv[3])

\* _build_verse_groups: runs of lines of one verse.  A verse that comes back
\* later in the book is a group of its own.
AddLine(groups, line) ==
  LET ref == MorphgntOsis(line.bcv)
      n   == Len(groups)
  IN  IF ref = Null THEN groups
      ELSE IF n > 0 /\ groups[n].ref = ref
      THEN [groups EXCEPT ![n] = [ref |-> ref, text |-> @.text \o " " \o line.text,
                                  words |-> Append(@.words, line.text)]]
      ELSE Append(groups, [ref |-> ref, text |-> line.text, words |-> <<line.text>>])
VerseGroups(lines) == After(<<>>, lines, AddLine)

\* _build_rows: the first group of a verse gives its text, every group starts
\* its words at position 1.  A Verse has no osisID here.
MorphgntGroups   == EachAll(MorphgntBooks, VerseGroups)
MorphgntAt(g, i) == g.ref \o ".w" \o Pad2(i)
MorphgntId(g, i) == "morphgnt-sblgnt:" \o MorphgntAt(g, i)
MorphgntRows ==
  LET Words(Row(_, _)) == EachAll(MorphgntGroups, LAMBDA g : [i \in DOMAIN g.words |-> Row(g, i)])
  IN
  [source   |-> SourceRow(MorphGNT),
   word     |-> Words(LAMBDA g, i : [id |-> MorphgntId(g, i), text |-> g.words[i],
                                     source |-> MorphGNT]),
   verse    |-> Each(FirstBy("ref", MorphgntGroups), LAMBDA g :
                  [id |-> VerseId(g.ref), osis |-> g.ref, text |-> g.text,
                   canon_section |-> "NT", source |-> MorphGNT]),
   in_verse |-> Words(LAMBDA g, i : Link(MorphgntId(g, i), VerseId(g.ref))),
   parse_of |-> Words(LAMBDA g, i : Link(MorphgntId(g, i), MorphgntAt(g, i)))]

\* ingest_morphgnt
MorphgntScript(has) ==
  Script(MorphgntOrder, MorphgntTemplates, ReadFrom(has, "morphgnt", MorphgntRows))
=============================================================================
