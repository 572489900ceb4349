------------------------- MODULE HistoricalAdapters -------------------------
(***************************************************************************)
(* ingest/historical: the seven adapters that turn the staged editions of  *)
(* ancient witnesses into chunks.  An adapter is the sequence of rows its  *)
(* parse() yields from the files that are there; a parse that raises       *)
(* yields nothing, because its caller lists it first.                      *)
(*                                                                         *)
(* Editions are constants: trees of books, sections and lines.  A passage  *)
(* is a sequence of pieces, the text of a chunk their concatenation.       *)
(***************************************************************************)
EXTENDS PropertyGraph, LicenseGuard

CONSTANTS
  JosephusFiles,  \* work -> its books [n, sections]; a section is [n, chapter, sect, pieces]
  PhiloFiles,     \* <<[book, marks, blocks]>>; a mark is [prefix, num, pieces]
  EnochFiles,     \* <<[file, lead, verses]>>; a verse is [num, pieces]
  JubileesFiles,  \* <<[chapter, items]>>
  Test12Blocks,   \* the testaments of the one file: [name, chapters]; a chapter is [n, pieces]
  SiborBooks,     \* <<[chapter, lines]>>
  LatinFiles,     \* tacitus.annals, suetonius.claudius, ... -> citation -> text
  MelmothLetters, \* the marked letters of the file, in order: [book, letter, text]
  MishnahFiles,   \* <<[tractate, chapters]>>; a chapter is a sequence of leaves
  DssLines,       \* the line nodes: [first, last, scroll, fragment, line,
                  \* biblical]; a fragment's label is spelt out
  DssWords,       \* the word nodes: [sign, text, lang]
  STROPHE_SIZE    \* _SIBOR_STROPHE_SIZE

ASSUME StropheAssumption == STROPHE_SIZE \in Nat \ {0}

NoText == ""
Prose(pieces) == FoldLeft(LAMBDA s, p : IF s = NoText THEN p ELSE s \o " " \o p, NoText, pieces)
Without(pieces, drop) == SelectSeq(pieces, LAMBDA p : p \notin drop)
Indices(xs) == [i \in DOMAIN xs |-> i]

\* A chunk, before what differs from it is filled in.
Chunk(slug, stype, work, lang, license) ==
  [id |-> Null, slug |-> slug, stype |-> stype, work |-> work, title |-> work,
   lang |-> lang, orig |-> lang, loss |-> "complete", alt |-> Null, text |-> NoText,
   embed |-> NoText, contested |-> "none", redact |-> FALSE, license |-> license,
   redistribute |-> TRUE]
Filled(chunk, id, text) == [chunk EXCEPT !.id = id, !.text = text, !.embed = text]
\* A passage an adapter insists on and does not find.
Absent == [id |-> Null]

\* HistoricalChunk: what the model demands of a chunk, beyond the form of its anchor.
Valid(c) ==
  /\ c.id # Null /\ c.text # NoText /\ c.embed # NoText
  /\ c.license \in DOMAIN LicenseRegistry /\ c.redistribute = LicenseRegistry[c.license]
  /\ c.redact => c.embed # c.text

-----------------------------------------------------------------------------
(* Josephus.                                                               *)

JosephusWorks ==
  <<[work |-> "ant", label |-> "Ant", books |-> TRUE], [work |-> "vita", label |-> "Vita", books |-> FALSE],
    [work |-> "apion", label |-> "Apion", books |-> TRUE], [work |-> "wars", label |-> "Wars", books |-> TRUE]>>
TfAnchor == "josephus.ant.18.63"
TfClause == "He was [the] Christ."

\* _section_milestones: a Whiston chapter holds until the next one is named.
\* A section without a number is passed over before its milestones are read.
\* Mutant: a chapter holds for its own section only.
WhistonChapterHere(sections, i) == sections[i].chapter
WhistonChapter(sections, i) ==
  LET named == {j \in 1 .. i : sections[j].n # Null /\ sections[j].chapter # Null}
  IN  IF named = {} THEN Null ELSE sections[Max(named)].chapter
\* _whiston_citation
Citation(w, book, chapter, sect) ==
  LET tail == Without(<<chapter, sect>>, {Null})
      whole == (IF w.books THEN <<book>> ELSE <<>>) \o tail
  IN  IF tail = <<>> THEN Null
      ELSE w.label \o " " \o FoldLeft(LAMBDA s, p : IF s = "" THEN p ELSE s \o "." \o p, "", whole)

\* A section of _parse_work.  The Testimonium is embedded without its clause,
\* and an edition that lacks the clause is refused.
JosephusSection(w, book, sections, i) ==
  LET s      == sections[i]
      anchor == "josephus." \o w.work \o "." \o book \o "." \o s.n
      plain  == [Filled(Chunk("josephus", "jewish-historian", "josephus." \o w.work, "en", "CC-BY-SA-4.0"),
                        anchor, Prose(s.pieces))
                 EXCEPT !.orig = "el", !.alt = Citation(w, book, WhistonChapter(sections, i), s.sect)]
  IN  IF s.n = Null \/ Prose(s.pieces) = NoText THEN <<>>
      ELSE IF anchor # TfAnchor THEN <<plain>>
      ELSE IF TfClause \notin Range(s.pieces) THEN <<Absent>>
      ELSE <<[plain EXCEPT !.embed = Prose(Without(s.pieces, {TfClause})),
                           !.contested = "partial-interpolation", !.redact = TRUE]>>

\* _parse_work and parse; a work without books is one book, "1".
JosephusRows ==
  LET Work(w) == IF w.work \notin DOMAIN JosephusFiles THEN <<>>
                 ELSE EachAll(JosephusFiles[w.work], LAMBDA b :
                        EachAll(Indices(b.sections), LAMBDA i : JosephusSection(w, b.n, b.sections, i)))
  IN  EachAll(JosephusWorks, Work)

-----------------------------------------------------------------------------
(* Philo.                                                                  *)

PhiloArmenian == {38, 39, 41, 42, 43}
PhiloFragmentary == {37, 38, 39, 41, 42, 43, 44, 45}
\* BOOK_TO_TREATISE, of which the books with dotted numbers matter here.
Treatise(book) ==
  CASE book = 21 -> "de-somniis" [] book = 37 -> "hypothetica"
    [] OTHER -> "treatise-" \o ToString(book)
\* _DOTTED_BOOKS and the Hypothetica.
PhiloDotted(book) == book \in {21, 37}
PhiloSuffix(book, prefix) ==
  CASE ~PhiloDotted(book) -> ""
    [] book = 21 /\ prefix = 1 -> "-i" [] book = 21 /\ prefix = 2 -> "-ii"
    [] OTHER -> "-" \o ToString(prefix)

\* Mutant: every number that stands in the text begins a paragraph.
AcceptedAll(marks, dotted) ==
  SelectSeq(Indices(marks), LAMBDA i : (marks[i].prefix # 0) = dotted)
\* _iter_paragraphs and _iter_dotted: a number is a paragraph's only when it is
\* the next of its prefix; the rest are citations inside the text.
Accepted(marks, dotted) ==
  LET Of(acc, p) == Len(SelectSeq(acc, LAMBDA j : marks[j].prefix = p))
      Take(acc, i) ==
        IF /\ (marks[i].prefix # 0) = dotted
           /\ marks[i].num = Of(acc, marks[i].prefix) + 1
        THEN Append(acc, i) ELSE acc
  IN  FoldLeft(Take, <<>>, Indices(marks))
\* A paragraph runs to the next accepted number.
Paragraphs(marks, taken) ==
  [k \in DOMAIN taken |->
     LET last == IF k = Len(taken) THEN Len(marks) ELSE taken[k + 1] - 1
     IN  [prefix |-> marks[taken[k]].prefix, num |-> marks[taken[k]].num,
          text |-> Prose(EachAll(SubSeq(marks, taken[k], last), LAMBDA m : m.pieces))]]
\* _fragment_paragraphs: the blocks that are long enough and no page header.
Fragments(blocks) ==
  LET good == SelectSeq(blocks, LAMBDA b : b.long /\ ~b.header)
  IN  [i \in DOMAIN good |-> [prefix |-> 0, num |-> i, text |-> good[i].text]]

\* _make_chunk
PhiloChunk(book, p) ==
  LET work == "philo." \o Treatise(book) \o PhiloSuffix(book, p.prefix)
  IN  [Filled(Chunk("philo", "jewish-philosopher", work, "en", "PD"),
              work \o "." \o ToString(p.num), p.text)
       EXCEPT !.orig = "el", !.title = Treatise(book),
              !.loss = IF book \in PhiloFragmentary THEN "fragmentary" ELSE "complete"]
\* parse_book: a book without numbers is read by its blocks.
PhiloBook(f) ==
  LET numbered == SelectSeq(Paragraphs(f.marks, Accepted(f.marks, PhiloDotted(f.book))),
                            LAMBDA p : p.text # NoText)
      Rows(ps) == Each(IF ps = <<>> THEN Fragments(f.blocks) ELSE ps,
                       LAMBDA p : PhiloChunk(f.book, p))
  IN  Rows(numbered)
PhiloRows == EachAll(PhiloFiles, PhiloBook)

-----------------------------------------------------------------------------
(* The pseudepigrapha.                                                     *)

CeilingMarks == {"[^", "^]"}
Letters == <<"b", "c", "d">>
\* chr(ord('a') + seen[num]): the second of a number is "b".
Again(n) == IF n = 0 THEN "" ELSE Letters[n]
\* _make_chunk: editorial marks are left out of the text that is embedded,
\* unless nothing else would remain.
PseudChunk(work, tail, pieces) ==
  LET plain == Prose(Without(pieces, CeilingMarks))
  IN  [Filled(Chunk(work, "second-temple-literature", work, "en", "PD"),
              work \o "." \o tail, Prose(pieces))
       EXCEPT !.embed = IF plain = NoText THEN Prose(pieces) ELSE plain,
              !.orig = CASE work = "1enoch" -> "arc" [] work = "jubilees" -> "he" [] OTHER -> "el",
              !.loss = CASE work = "test12" -> "partial" [] work = "sibor" -> "complete"
                         [] OTHER -> "complete-in-ethiopic"]

\* _split_enoch_verses: a number that stands twice in a chapter gets a letter.
EnochLabel(verses, i) ==
  ToString(verses[i].num)
    \o Again(Cardinality({j \in 1 .. i - 1 : verses[j].num = verses[i].num}))
\* The text before the first number belongs to the first verse.
EnochVerses(f) ==
  LET led == [i \in DOMAIN f.verses |->
                [f.verses[i] EXCEPT !.pieces = IF i = 1 THEN f.lead \o @ ELSE @]]
  IN  IF f.verses = <<>> THEN <<[num |-> 1, pieces |-> f.lead]>>
      ELSE SelectSeq(led, LAMBDA v : v.pieces # <<>>)
\* _parse_enoch: the files boe004.htm and later are the chapters.
EnochRows ==
  EachAll(EnochFiles, LAMBDA f :
    IF f.file < 4 \/ (f.verses = <<>> /\ f.lead = <<>>) THEN <<>>
    ELSE LET Rows(vs) == Each(Indices(vs), LAMBDA i :
               PseudChunk("1enoch", ToString(f.file - 3) \o "." \o EnochLabel(vs, i), vs[i].pieces))
         IN  Rows(EnochVerses(f)))

\* _parse_jubilees: a chapter is one chunk, its verses numbered anew.
JubileesRows ==
  EachAll(JubileesFiles, LAMBDA f :
    LET Numbered(vs) == EachAll(Indices(vs), LAMBDA i : <<ToString(i) \o ".", vs[i]>>)
        filled == SelectSeq(f.items, LAMBDA t : t # NoText)
    IN  When(f.chapter # 0 /\ filled # <<>>,
             PseudChunk("jubilees", ToString(f.chapter) \o ".1", Numbered(filled))))

Patriarchs == {"reuben", "simeon", "levi", "judah", "issachar", "zebulun", "dan",
               "naphtali", "gad", "asher", "joseph", "benjamin"}
\* _T12_REDACT_RE: the bracketed clauses that name the Saviour.
Namings == {"[the Saviour of the world]", "[Christ]"}
\* _parse_test12: a chapter number that stands twice in a testament gets a
\* letter; the naming clauses are left out of the text that is embedded, unless
\* nothing else would remain.
Test12Chapter(name, chapters, i) ==
  LET c     == chapters[i]
      same  == {j \in 1 .. i - 1 : chapters[j].n = c.n /\ chapters[j].pieces # <<>>}
      plain == PseudChunk("test12",
                 name \o "." \o ToString(c.n) \o ".1" \o Again(Cardinality(same)), c.pieces)
      kept  == Without(c.pieces, Namings)
      layer == [plain EXCEPT !.contested = "recension-layer"]
  IN  IF c.pieces = <<>> THEN <<>>
      ELSE IF kept = <<>> \/ kept = c.pieces THEN <<layer>>
      ELSE <<[layer EXCEPT !.embed = Prose(kept), !.redact = TRUE]>>
Test12Rows ==
  EachAll(SelectSeq(Test12Blocks, LAMBDA b : b.name \in Patriarchs), LAMBDA b :
    EachAll(Indices(b.chapters), LAMBDA i : Test12Chapter(b.name, b.chapters, i)))

\* _parse_sibor: strophes of STROPHE_SIZE lines, named by their first line.
SiborRows ==
  EachAll(SiborBooks, LAMBDA b :
    LET filled == SelectSeq(b.lines, LAMBDA t : t # NoText)
        Start(k) == (k - 1) * STROPHE_SIZE + 1
        count == (Len(filled) + STROPHE_SIZE - 1) \div STROPHE_SIZE
    IN  [k \in 1 .. count |->
           PseudChunk("sibor", ToString(b.chapter) \o "." \o ToString(Start(k)),
             SubSeq(filled, Start(k), MinOf(Len(filled), Start(k) + STROPHE_SIZE - 1)))])

\* parse, in the order of SOURCE_SLUGS; three of its works have no parser.
PseudepigraphaRows == EnochRows \o JubileesRows \o Test12Rows \o SiborRows

-----------------------------------------------------------------------------
(* The Roman historians and Melmoth's Pliny.                               *)

\* The passages the adapter insists on, in its order.
RomanPassages ==
  <<[work |-> "tacitus.annals", cites |-> <<"15.43", "15.44", "15.45">>],
    [work |-> "suetonius.claudius", cites |-> <<"25.3", "25.4", "25.5">>],
    [work |-> "suetonius.nero", cites |-> <<"16.1", "16.2">>],
    [work |-> "pliny.ep", cites |-> <<"10.95", "10.96", "10.97">>]>>
\* _parse_tacitus, _parse_suetonius, _parse_pliny
RomanRows(staged) ==
  LET Passage(work, cite) ==
        IF work \notin staged \/ cite \notin DOMAIN LatinFiles[work] THEN Absent
        ELSE [Filled(Chunk("roman_historians", "roman-historian", work, "la", "CC-BY-SA-4.0"),
                     "roman_historians." \o work \o "." \o cite \o ".la", LatinFiles[work][cite])
              EXCEPT !.loss = IF work = "tacitus.annals" THEN "partial" ELSE "complete",
                     !.contested = IF cite = "15.44" THEN "text-critical-variant" ELSE "none"]
  IN  EachAll(RomanPassages, LAMBDA p : Each(p.cites, LAMBDA c : Passage(p.work, c)))

\* Mutant: the id of Melmoth's letter is the id of Pliny's.
MelmothIdBare(l) == "roman_historians.pliny.ep.10." \o ToString(l) \o ".la"
MelmothId(l)     == "pliny_melmoth.pliny.ep.10." \o ToString(l) \o ".en"
\* _read_letters and parse: of the marks that name one letter the last counts.
MelmothRows ==
  LET Marks(l) == {i \in DOMAIN MelmothLetters :
                     MelmothLetters[i].book = 10 /\ MelmothLetters[i].letter = l}
      Letter(l) ==
        IF Marks(l) = {} THEN Absent
        ELSE [Filled(Chunk("pliny", "roman-historian", "pliny.ep", "en", "PD"),
                     MelmothId(l), MelmothLetters[Max(Marks(l))].text)
              EXCEPT !.orig = "la"]
  IN  Each(<<96, 97>>, Letter)

-----------------------------------------------------------------------------
(* The Mishnah and the Dead Sea scrolls.                                   *)

\* _parse_tractate: a leaf that is empty or no string keeps its number.
MishnahRows ==
  LET Leaf(t, c, m, text) ==
        When(text # NoText,
             [Filled(Chunk("mishnah", "jewish-rabbinic", "mishnah." \o t, "he", "PD"),
                     "mishnah." \o t \o "." \o ToString(c) \o "." \o ToString(m), text)
              EXCEPT !.orig = "he"])
  IN  EachAll(MishnahFiles, LAMBDA f :
        EachAll(Indices(f.chapters), LAMBDA c :
          EachAll(Indices(f.chapters[c]), LAMBDA m : Leaf(f.tractate, c, m, f.chapters[c][m]))))

Digits == {"0", "1", "2", "3", "4", "5", "6", "7", "8", "9"}
IsDigit(label) == label # <<>> /\ Range(label) \subseteq Digits
\* _FRAG_SEP_MAP; what is neither mapped nor alphanumeric is dropped.
FragSepMap == ("_" :> "u") @@ ("+" :> "p") @@ ("(" :> "o") @@ (")" :> "c") @@ ("|" :> "b") @@ ("?" :> "q")
FragDropped == {"*", "-", " "}
Spelt(label) == FoldLeft(LAMBDA s, c : s \o c, "", label)
\* Mutant: separators are dropped instead of mapped.
FragmentBodyPlain(label) == Spelt(SelectSeq(label, LAMBDA c : c \notin FragDropped \cup DOMAIN FragSepMap))
FragmentBody(label) ==
  LET tail == IF label # <<>> /\ Head(label) \in {"f", "F"} THEN Tail(label) ELSE label
      Mapped(c) == IF c \in DOMAIN FragSepMap THEN FragSepMap[c] ELSE c
  IN  Spelt(SelectSeq(Each(tail, Mapped), LAMBDA c : c \notin FragDropped))
ColumnLabel(label) == IF Len(label) = 1 THEN "0" \o Spelt(label) ELSE Spelt(label)
\* _build_anchor; a line label without a number yields no anchor.
DssAnchor(l) ==
  CASE l.line = 0 -> Null
    [] IsDigit(l.fragment) -> l.scroll \o ".col" \o ColumnLabel(l.fragment) \o ".line" \o Pad2(l.line)
    [] OTHER -> IF FragmentBody(l.fragment) = "" THEN Null
                ELSE l.scroll \o ".f" \o FragmentBody(l.fragment) \o ".line" \o Pad2(l.line)

\* line_of_sign: of the lines that begin at the sign or before, the last.
LineOfSign(sign) ==
  LET begun == {i \in DOMAIN DssLines : DssLines[i].first <= sign}
      last  == CHOOSE i \in begun : \A j \in begun : DssLines[j].first <= DssLines[i].first
  IN  IF begun = {} \/ sign > DssLines[last].last THEN 0 ELSE last
\* _line_language: the language most words have, "hbo" unless it is one of two.
DssLanguage(words) ==
  LET Count(x) == Cardinality({i \in DOMAIN words : words[i].lang = x})
      top == {x \in {w.lang : w \in Range(words)} \ {Null} :
                \A w \in Range(words) : w.lang # Null => Count(w.lang) <= Count(x)}
  IN  CASE top = {"Aramaic"} -> "arc"
        [] "Greek" \in top /\ "Hebrew" \notin top -> "grc"
        [] OTHER -> "hbo"

\* _parse_tf_dir.  Two labels that lead to one anchor are refused.
DssRows ==
  LET Words(i) == SelectSeq(DssWords, LAMBDA w : LineOfSign(w.sign) = i)
      Text(i) == Prose(Each(Words(i), LAMBDA w : w.text))
      kept == SelectSeq(Indices(DssLines), LAMBDA i :
                DssLines[i].scroll # Null /\ DssAnchor(DssLines[i]) # Null /\ Text(i) # NoText)
      Line(i) ==
        LET l == DssLines[i] IN
        [Filled(Chunk(l.scroll, IF l.biblical THEN "qumran-biblical" ELSE "qumran-sectarian",
                      l.scroll, DssLanguage(Words(i)), "CC-BY-NC-4.0"),
                DssAnchor(l), Text(i))
         EXCEPT !.redistribute = FALSE,
                !.loss = IF IsDigit(l.fragment) THEN "partial" ELSE "fragmentary",
                !.alt = IF IsDigit(l.fragment) THEN Null
                        ELSE l.scroll \o " frag " \o Spelt(l.fragment) \o " line " \o ToString(l.line)]
      Once(k) == \A j \in 1 .. k - 1 : DssAnchor(DssLines[kept[j]]) # DssAnchor(DssLines[kept[k]])
  IN  [k \in DOMAIN kept |-> IF Once(k) THEN Line(kept[k]) ELSE Absent]

-----------------------------------------------------------------------------
(* run.py.                                                                 *)

\* ADAPTER_MODULES
HistoricalSlugs == <<"josephus", "philo", "pseudepigrapha", "roman_historians",
                     "pliny_melmoth", "sefaria_mishnah", "etcbc_dss">>
\* These yield nothing when their files are not there; the others raise.
Lenient == {"josephus", "philo", "pseudepigrapha", "sefaria_mishnah"}

AdapterRows(slug, staged) ==
  CASE slug = "josephus" -> JosephusRows
    [] slug = "philo" -> PhiloRows
    [] slug = "pseudepigrapha" -> PseudepigraphaRows
    [] slug = "roman_historians" -> RomanRows(staged)
    [] slug = "pliny_melmoth" -> MelmothRows
    [] slug = "sefaria_mishnah" -> MishnahRows
    [] slug = "etcbc_dss" -> DssRows

\* What list(parse_source(slug)) is; staged are the adapters whose files are
\* there and, of the Romans, the works.
Raised == [raised |-> TRUE, rows |-> <<>>]
Returned(rows) == [raised |-> FALSE, rows |-> rows]
\* Mutant: what came before the row that raises is kept.
ListedSoFar(rows) == Returned(SelectSeq(rows, LAMBDA r : Valid(r)))
Listed(rows) == IF \A i \in DOMAIN rows : Valid(rows[i]) THEN Returned(rows) ELSE Raised
HistoricalParse(slug, staged) ==
  IF slug \in staged THEN Listed(AdapterRows(slug, staged))
  ELSE IF slug \in Lenient THEN Returned(<<>>) ELSE Raised

=============================================================================
