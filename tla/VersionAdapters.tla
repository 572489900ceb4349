--------------------------- MODULE VersionAdapters ---------------------------
(***************************************************************************)
(* ingest/lexical/peshitta.py, coptic_scriptorium.py, vulgate_clementine.py*)
(* and open_cbgm_3_john.py: the ancient versions and the collation of      *)
(* 3 John.  The three versions write sample rows where they find no data.  *)
(***************************************************************************)
EXTENDS PropertyGraph

CONSTANTS
  PeshittaFiles,   \* the .tsv files, sequences of records [ref, pos, filled]
  CopticFiles,     \* the .tt files, [corpus, doc, lines]; a line is [ok, ref]
  CopticCorpora,   \* the corpora whose dialect is known
  VulgateVerses,   \* the <verse> elements, [osis, filled]
  CbgmApps,        \* the <app> elements, [chapter, verse, segment, readings]
  CbgmDbWitnesses  \* the tokens of the WITNESSES table

SourceOf == NodeT("Source", "slug")
VersionTemplates(label) ==
  [source |-> SourceOf, word |-> NodeT(label, "id"), in_verse |-> IdEdgeT("IN_VERSE", label, "Verse")]
\* Words [id, ref]: the rows of a version; a word without a reference has no edge.
VersionScript(slug, label, words) ==
  Script(<<"source", "word", "in_verse">>, VersionTemplates(label),
    [source   |-> SourceRow(slug),
     word     |-> Each(words, LAMBDA w : [id |-> w.id, source |-> slug]),
     in_verse |-> EachAll(words, LAMBDA w : When(w.ref # Null, Link(w.id, VerseId(w.ref))))])

-----------------------------------------------------------------------------
(* The Peshitta.                                                           *)

Peshitta == "peshitta"
PeshittaId(ref, pos) == Peshitta \o ":" \o ref \o ":" \o ToString(pos)

\* _PLACEHOLDER_ROWS
PeshittaPlaceholders ==
  Each(<<"Matt.6.9", "John.1.1", "Rom.1.1">>, LAMBDA ref : [id |-> PeshittaId(ref, 1), ref |-> ref])

\* _row_from_tsv, _parse_tsv and _dedupe_rows: a record without a position
\* (0) takes its number in the file, whatever was skipped before it.
PeshittaWords ==
  LET Of(file) ==
        EachAll([i \in DOMAIN file |-> i], LAMBDA i :
          LET r == file[i]
              pos == IF r.pos = 0 THEN i ELSE r.pos
          IN  When(r.ref # "" /\ r.filled, [id |-> PeshittaId(r.ref, pos), ref |-> r.ref]))
  IN  FirstBy("id", EachAll(PeshittaFiles, Of))

\* _load_rows and ingest_peshitta
PeshittaLoad(has) ==
  IF "peshitta" \in has /\ PeshittaWords # <<>> THEN PeshittaWords ELSE PeshittaPlaceholders
PeshittaScript(has) == VersionScript(Peshitta, "SyriacWord", PeshittaLoad(has))

-----------------------------------------------------------------------------
(* Coptic Scriptorium.                                                     *)

Coptic == "coptic-scriptorium"
CopticId(corpus, doc, pos) ==
  Coptic \o ":" \o corpus \o ":" \o doc \o ":" \o ToString(pos)

\* _BASELINE_TOKENS
CopticBaseline ==
  <<[id |-> CopticId("sahidica.nt", "B01KA01", 0), ref |-> "Rom.1.1"],
    [id |-> CopticId("bohairic.gospels", "B01KA01", 0), ref |-> "Rom.1.1"],
    [id |-> CopticId("sahidica.nt", "B01KA01", 1), ref |-> "Rom.1.1"],
    [id |-> CopticId("sahidica.nt", "B01KA02", 0), ref |-> Null]>>

\* _parse_tt_line and _rows_from_path: only lines that parse are counted.  A
\* document is known by the last part of its path.
CopticWords ==
  LET Of(file) ==
        LET good == SelectSeq(file.lines, LAMBDA l : l.ok /\ file.corpus \in CopticCorpora)
        IN  [i \in DOMAIN good |-> [id |-> CopticId(file.corpus, file.doc, i - 1),
                                    ref |-> good[i].ref]]
  IN  FirstBy("id", EachAll(CopticFiles, Of))

\* _load_rows and ingest_coptic_scriptorium
CopticLoad(has) ==
  IF "coptic_scriptorium" \in has /\ CopticWords # <<>> THEN CopticWords ELSE CopticBaseline
CopticScript(has) == VersionScript(Coptic, "CopticWord", CopticLoad(has))

-----------------------------------------------------------------------------
(* The Clementine Vulgate, verses of its own numbering.                    *)

Vulgate == "vulgate-clementine"
VulgateTemplates == [source |-> SourceOf, verse |-> NodeT("VulgateVerse", "osis")]

\* _PLACEHOLDER_ROWS
VulgatePlaceholders == Each(<<"Ps.9.1", "Tob.1.1", "Gen.1.1">>, LAMBDA osis : [osis |-> osis])
\* _row_from_osis and _parse_bundle
VulgateRows ==
  FirstBy("osis", EachAll(VulgateVerses, LAMBDA v :
                    When(v.osis # "" /\ v.filled, [osis |-> v.osis])))

\* _load_rows and ingest_vulgate_clementine
VulgateLoad(has) ==
  IF "vulgate_clementine" \in has /\ VulgateRows # <<>> THEN VulgateRows ELSE VulgatePlaceholders
VulgateScript(has) ==
  Script(<<"source", "verse">>, VulgateTemplates,
    [source |-> SourceRow(Vulgate),
     verse  |-> Each(VulgateLoad(has), LAMBDA v : [osis |-> v.osis, source |-> Vulgate])])

-----------------------------------------------------------------------------
(* The collation of 3 John.  A reading is [name, witnesses]; a witness     *)
(* token is [base, hand], hand "C" for a corrector and "" for the rest;    *)
(* no base ends in a "C", which the code would take for a hand.            *)

Cbgm == "open-cbgm-3-john"
CbgmToken == [base : STRING, hand : STRING]
CbgmApp   == [chapter : Nat, verse : Nat, segment : STRING,
              readings : Seq([name : STRING, witnesses : Seq(CbgmToken)])]
ASSUME CollationAssumption == CbgmApps \in Seq(CbgmApp) /\ CbgmDbWitnesses \in Seq(CbgmToken)

CbgmTemplates ==
  [source  |-> SourceOf,                   witness |-> NodeT("Witness", "siglum"),
   unit    |-> NodeT("VariantUnit", "variant_unit_id"),
   reading |-> NodeT("Reading", "reading_id"),
   reads_at    |-> EdgeT("READS_AT", End("Witness", "siglum"), End("Reading", "reading_id")),
   attested_by |-> EdgeT("ATTESTED_BY", End("Reading", "reading_id"),
                         End("VariantUnit", "variant_unit_id")),
   corrector   |-> EdgeT("CORRECTOR_OF", End("Witness", "siglum"), End("Witness", "siglum"))]
CbgmOrder ==
  <<"source", "witness", "unit", "reading", "reads_at", "attested_by", "corrector">>

\* _parse_app: the units of chapter 1 between its first and its last verse.
CHAPTER   == 1
VERSE_MIN == 1
VERSE_MAX == 15
UnitVerse(a) == Osis("3John", a.chapter, a.verse)
UnitOf(a) == [id |-> UnitVerse(a) \o "/" \o a.segment, verse |-> UnitVerse(a),
              readings |-> a.readings]
CbgmUnits ==
  EachAll(CbgmApps, LAMBDA a :
    When(/\ a.chapter = CHAPTER /\ a.verse \in VERSE_MIN .. VERSE_MAX
         /\ a.readings # <<>>, UnitOf(a)))

Siglum(token) == token.base \o token.hand
Hands(tokens) == {x \in tokens : x.hand # ""}
CbgmTokens ==
  UNION {Range(r.witnesses) : r \in UNION {Range(u.readings) : u \in Range(CbgmUnits)}}

\* _build_payloads, the witnesses: every hand of the collation and of the
\* database, with its base; and the first hand of a corrected witness, found
\* while the units are read, which no lacuna is ever recorded for.
CbgmInScope ==
  LET tokens == CbgmTokens \cup Range(CbgmDbWitnesses)
  IN  {Siglum(x) : x \in tokens} \cup {x.base : x \in Hands(tokens)}
CbgmHands ==
  LET tokens == CbgmTokens \cup Range(CbgmDbWitnesses)
  IN  {Siglum(x) : x \in Hands(tokens)} \cup {x.base \o "*" : x \in Hands(CbgmTokens)}
CbgmWitnesses == CbgmInScope \cup CbgmHands

\* _build_payloads, one unit: the witnesses that read nothing here get its
\* lacuna, a reading that exists only if there are any.
\* Mutant: a corrector's reading stands for its base too.
CbgmMissingNoBase(u) ==
  LET here == UNION {Range(r.witnesses) : r \in Range(u.readings)}
  IN  CbgmInScope \ ({Siglum(x) : x \in here} \cup {x.base : x \in here})
CbgmMissing(u) ==
  CbgmInScope \ {Siglum(x) : x \in UNION {Range(r.witnesses) : r \in Range(u.readings)}}
ReadingId(u, name) == u.id \o "-" \o name
CbgmReadings(u) ==
  Each(u.readings, LAMBDA r : [id |-> ReadingId(u, r.name), lacuna |-> FALSE,
                               sigla |-> Each(r.witnesses, Siglum)])
  \o When(CbgmMissing(u) # {}, [id |-> ReadingId(u, "lac"), lacuna |-> TRUE,
                                sigla |-> SetToSeq(CbgmMissing(u))])

CbgmRows ==
  LET set   == [source |-> Cbgm]
      Both(t) == <<LinkSet(Siglum(t), t.base, <<>>, set),
                   LinkSet(t.base \o "*", t.base, <<>>, set)>>
  IN
  [source  |-> SourceRow(Cbgm),
   witness |-> Each(SetToSeq(CbgmWitnesses), LAMBDA s :
                 [siglum |-> s, ga_number |-> IF s \in CbgmHands THEN Null ELSE s]),
   unit    |-> Each(CbgmUnits, LAMBDA u : [variant_unit_id |-> u.id, verse |-> u.verse]),
   reading |-> EachAll(CbgmUnits, LAMBDA u : Each(CbgmReadings(u), LAMBDA r :
                 [reading_id |-> r.id, variant_unit_id |-> u.id,
                  is_lacuna |-> IF r.lacuna THEN "true" ELSE "false"])),
   reads_at    |-> EachAll(CbgmUnits, LAMBDA u : EachAll(CbgmReadings(u), LAMBDA r :
                     Each(r.sigla, LAMBDA s :
                       LinkSet(s, r.id, [variant_unit_id |-> u.id], set)))),
   attested_by |-> EachAll(CbgmUnits, LAMBDA u : Each(CbgmReadings(u), LAMBDA r :
                     LinkSet(r.id, u.id, <<>>, set))),
   corrector   |-> EachAll(SetToSeq(Hands(CbgmTokens)), Both)]

\* ingest_open_cbgm_3_john; without the collation it raises.
CbgmScript == Script(CbgmOrder, CbgmTemplates, CbgmRows)
=============================================================================
