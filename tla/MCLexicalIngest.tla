--------------------------- MODULE MCLexicalIngest ---------------------------
(***************************************************************************)
(* A corpus of three verses of Genesis and two of the New Testament, with  *)
(* the irregular lines each adapter provides for.                          *)
(***************************************************************************)
EXTENDS LexicalIngest, Integers

H(digits) == Raw("H", digits, "")
G(digits) == Raw("G", digits, "")

W(text, lemma) == [tag |-> "w", text |-> text, lemma |-> lemma, type |-> "", qere |-> Null]
MCOshbVerses ==
  <<[osisID |-> "Gen.1.1", children |->
       <<W("bereshit", <<NoStrong, Raw("", "7225", "")>>),
         [tag |-> "seg", text |-> "-", type |-> "x-maqqef", lemma |-> <<>>, qere |-> Null],
         W("bara", <<Raw("", "1254", "A")>>)>>],
    [osisID |-> Null, children |-> <<>>],
    [osisID |-> "Gen.1.15", children |->
       <<[W("ketiv", <<Raw("", "430", "")>>) EXCEPT !.type = "x-ketiv"],
         [tag |-> "note", text |-> "", type |-> "variant", lemma |-> <<>>, qere |-> "qere"]>>],
    [osisID |-> "Gen.1.17", children |-> <<W("raqia", <<>>)>>]>>

Mac(id, ref, lemma, strong, greek, greekstrong) ==
  [id |-> id, ref |-> ref, lemma |-> lemma, strong |-> strong, greek |-> greek,
   greekstrong |-> greekstrong]
MacRef(v) == [book |-> "GEN", chapter |-> 1, verse |-> v]
MCLowfatWords ==
  <<Mac("o1", MacRef(1), "reshit", Raw("", "7225", ""), "arche", Raw("", "746", "")),
    Mac("o2", MacRef(1), "bara", Raw("", "1254", "A"), Null, NoStrong),
    Mac("o3", <<>>, "b", NoStrong, Null, NoStrong),
    Mac("o1", MacRef(1), "reshit", Raw("", "7225", ""), Null, NoStrong),
    Mac("o4", MacRef(15), "elohim", Raw("", "430", ""), "theos", NoStrong)>>
MCMaculaBooks == "GEN" :> "Gen"

Nt(id, ref, lemma, strong, ln) ==
  [id |-> id, ref |-> ref, lemma |-> lemma, strong |-> strong, ln |-> ln]
JnRef(pos) == [book |-> "JHN", chapter |-> 1, verse |-> 1, pos |-> pos]
MCNestleWords == <<Nt("n1", JnRef(1), "logos", 3056, << <<33, 98>> >>)>>
MCSblgntWords ==
  <<Nt("s1", JnRef(1), "logos", 3056, << <<33, 98>>, <<>> >>),
    Nt("s2", JnRef(2), "compound", 15374053, <<>>), Nt("s3", <<>>, Null, 0, <<>>),
    Nt("s4", JnRef(3), "rhema", 4487, << <<33, 98>> >>)>>
MCGreekBooks == "JHN" :> "John"
MCOsisBooks == <<"Matt", "Mark", "Luke", "John">>
Line(bcv, text) == [bcv |-> bcv, text |-> text]
MCMorphgntBooks ==
  << <<Line(<<4, 1, 1>>, "en"), Line(<<4, 1, 1>>, "logos"), Line(<<>>, "bad")>>,
     <<Line(<<1, 6, 9>>, "pater")>> >>

All(value, lo, hi) == [spec |-> <<lo, hi>>, value |-> value]
MCBhsaFiles ==
  [otype |-> <<[type |-> "word", lo |-> 1, hi |-> 3], [type |-> "book", lo |-> 4, hi |-> 4],
               [type |-> "chapter", lo |-> 5, hi |-> 5], [type |-> "clause", lo |-> 6, hi |-> 6],
               [type |-> "phrase", lo |-> 7, hi |-> 8], [type |-> "verse", lo |-> 9, hi |-> 10]>>,
   oslots |-> <<All(<<1, 2, 3>>, 4, 4), All(<<1, 2, 3>>, 5, 5), All(<<1, 2, 3>>, 6, 6),
                All(<<1, 2>>, 7, 7), All(<<3>>, 8, 8), All(<<1, 2>>, 9, 9), All(<<3>>, 10, 10)>>,
   book    |-> <<All("Genesis", 4, 4), All("Genesis", 9, 10)>>,
   chapter |-> <<All("1", 5, 5), All("1", 9, 10)>>,
   verse   |-> <<All("1", 9, 9), [spec |-> <<>>, value |-> "15"]>>,
   function |-> <<All("Pred", 7, 7)>>, txt |-> <<All("D", 6, 6)>>]
MCPhonoFile == <<[spec |-> <<>>, value |-> "bereshit"], EmptyLine, [spec |-> <<>>, value |-> "bara"]>>
MCCrossrefFile ==
  <<[from |-> 0, to |-> 9, value |-> [kind |-> "int", text |-> "75"]],
    [from |-> 9, to |-> 10, value |-> [kind |-> "int", text |-> "80"]],
    [from |-> 0, to |-> 99, value |-> [kind |-> "float", text |-> "0.9"]]>>
MCEtcbcBooks == "Genesis" :> "Gen"

Code(c, e) == [code |-> c, expansion |-> e]
MCMorphFiles ==
  <<[brief |-> <<Code("N", "noun"), Code("V", "")>>, full |-> <<Code("N", "name"), Code("V", "")>>],
    [brief |-> <<>>, full |-> <<Code("N-A", "noun accusative")>>]>>
Tag(positions, strongs) == [positions |-> positions, strongs |-> strongs]
MCTtesvLines ==
  <<[book |-> "Gen", chapter |-> 1, verse |-> 1, tags |->
       <<<<>>, Tag(<<"03">>, <<Raw("", "07225", "")>>)>>],
    [book |-> "Jhn", chapter |-> 1, verse |-> 1, tags |->
       <<Tag(<<"05">>, <<NoStrong, Raw("", "03056", "")>>)>>],
    [book |-> "Gen", chapter |-> 1, verse |-> 15, tags |-> <<Tag(<<"01">>, <<NoStrong>>)>>]>>
MCTtesvOtBooks == {"Gen"}
Ed(e, d) == [e |-> e, d |-> d]
MCBriefHebrew ==
  <<Ed(H("0430"), Raw("H", "0430", "G")), Ed(H("430"), Raw("H", "0430", "H")),
    Ed(H("7225"), NoStrong), Ed(H("0002"), NoStrong), Ed(NoStrong, H("0001"))>>
MCBriefGreek == <<Ed(G("3056"), Raw("G", "3056", "G")), Ed(G(""), G("0001"))>>
Lsj(strong, lemma) == [strong |-> strong, lemma |-> lemma, filled |-> TRUE]
MCLsjFiles ==
  <<<<Lsj(G("3056"), "logos"), Lsj(G("746"), "arche")>>,
    <<Lsj(G("3056"), "logos"), [Lsj(G("1"), "alpha") EXCEPT !.filled = FALSE]>>>>

Th(v, pos, edition, root, col) ==
  [book |-> "Gen", chapter |-> 1, verse |-> v, pos |-> pos, edition |-> edition,
   root |-> root, root_col |-> col, filled |-> TRUE]
MCTahotLines ==
  <<Th(1, 1, "L", H("7225"), NoStrong), Th(1, 2, "L", Raw("H", "1254", "A"), NoStrong),
    Th(15, 1, "", NoStrong, H("0430")), Th(15, 1, "Q(K)", NoStrong, H("0430")),
    [Th(17, 1, "L", H("7549"), NoStrong) EXCEPT !.book = "Zzz"]>>
MCTagntLines ==
  <<[book |-> "Jhn", chapter |-> 1, verse |-> 1, pos |-> "1", strong |-> G("3056")],
    [book |-> "Jhn", chapter |-> 1, verse |-> 1, pos |-> "01", strong |-> NoStrong],
    [book |-> "Mat", chapter |-> 6, verse |-> 9, pos |-> "2", strong |-> NoStrong]>>
Ref(book, c, v) == [book |-> book, chapter |-> c, verse |-> v]
Name(sig, name, strong, refs) ==
  [detail |-> TRUE, significance |-> sig, name |-> name, strong |-> strong, refs |-> refs]
MCNameRecords ==
  <<[pos |-> Null, lines |-> <<Name("Named", "Preface", H("1"), <<>>)>>],
    [pos |-> "person", lines |->
       <<Name("Named", "God", H("0430"), <<Ref("Gen", 1, 1)>>),
         Name("Total", "God", H("0430"), <<>>), Name("Greek", "Word", G("3056"), <<>>)>>]>>
MCTvtmsLines ==
  <<[id |-> "", axes |-> <<"english", "Gen.1.16", "hebrew", "Gen.1.15", "one">>],
    [id |-> "", axes |-> <<"english", "Gen.1.16", "hebrew", "Gen.1.15", "one">>],
    [id |-> "r", axes |-> <<"english", "", "hebrew", "Gen.1.15", "one">>]>>
MCStepBooks == "Gen" :> "Gen" @@ "Jhn" :> "John" @@ "Mat" :> "Matt"

Syr(ref, pos) == [ref |-> ref, pos |-> pos, filled |-> TRUE]
MCPeshittaFiles == <<<<Syr("", 0), Syr("John.1.1", 0), Syr("John.1.1", 2), Syr("Gen.50.1", 1)>>>>
MCCopticFiles ==
  <<[corpus |-> "sahidica.nt", doc |-> "43", lines |->
       <<[ok |-> FALSE, ref |-> Null], [ok |-> TRUE, ref |-> "John.1.1"],
         [ok |-> TRUE, ref |-> Null]>>],
    [corpus |-> "fayyumic", doc |-> "43", lines |-> <<[ok |-> TRUE, ref |-> "John.1.1"]>>]>>
MCCopticCorpora == {"sahidica.nt", "bohairic.gospels"}
MCVulgateVerses ==
  <<[osis |-> "Gen.1.1", filled |-> TRUE], [osis |-> "Gen.1.1", filled |-> TRUE],
    [osis |-> "Gen.1.2", filled |-> FALSE]>>
Tok(base, hand) == [base |-> base, hand |-> hand]
MCCbgmApps ==
  <<[chapter |-> 1, verse |-> 1, segment |-> "U2-4", readings |->
       <<[name |-> "a", witnesses |-> <<Tok("01", ""), Tok("01", "C"), Tok("1739", "")>>],
         [name |-> "b", witnesses |-> <<Tok("P74", "")>>]>>],
    [chapter |-> 1, verse |-> 2, segment |-> "U6", readings |->
       <<[name |-> "a", witnesses |-> <<Tok("01", "C"), Tok("1739", "")>>]>>],
    [chapter |-> 1, verse |-> 3, segment |-> "U8", readings |-> <<>>],
    [chapter |-> 1, verse |-> 16, segment |-> "U2", readings |->
       <<[name |-> "a", witnesses |-> <<Tok("P74", "")>>]>>]>>
MCCbgmDbWitnesses == <<Tok("01", ""), Tok("33", "")>>

MCEnglishRules == "Gen.1.16" :> "Gen.1.15"
Cross(from, to, votes) == [from |-> from, to |-> to, votes |-> votes]
MCOpenBibleLines ==
  <<Cross("Gen.1.1", "John.1.1", "9"), Cross("Gen.1.1", "Gen.1.16", "2"),
    Cross("Gen.1.1", "Gen.50.1", "1"), Cross("Gen.1.1", "", "1")>>
Treasury(key, book, c, v, targets) ==
  [key |-> key, anchor |-> Ref(book, c, v), targets |-> targets]
MCTskLines ==
  <<Treasury("1.1.1.1", 1, 1, 1, <<Ref("Gen", 1, 16), Ref("John", 1, 1), Ref("John", 1, 99)>>),
    Treasury("1.1.1.1", 1, 1, 1, <<>>), Treasury("99.1.1.1", 99, 1, 1, <<Ref("Gen", 1, 1)>>)>>
MCTskBooks == 1 :> "Gen"
MCChapterVerses == "John" :> <<51>>
MCTheoVerses == "v1" :> "Gen.1.1" @@ "v2" :> "John.1.1"
Rec(id, slug, verses, date) == [id |-> id, slug |-> slug, verses |-> verses, date |-> date]
MCTheoRecords ==
  [Person |-> <<Rec("r1", "adam_78", <<"v1", "v1", "v9">>, <<>>), Rec("", "", <<"v1">>, <<>>)>>,
   Place  |-> <<Rec("r2", "", <<"v2">>, <<>>)>>,
   Event  |-> <<Rec("r3", "", <<"v1">>, <<-4003>>), Rec("r4", "", <<"v2">>, <<30>>),
                Rec("r5", "", <<>>, <<-4001>>)>>,
   Group  |-> <<Rec("r6", "", <<>>, <<>>)>>, Tribe |-> <<Rec("r7", "", <<>>, <<>>)>>]
MCLabelOrder == <<"Person", "Place", "Period", "Event", "Group", "Tribe">>

MCLabels ==
  {"Source", "Verse", "Strong", "Word", "Morpheme", "Reading", "MaculaToken", "Lemma",
   "GreekLemma", "BhsaWord", "BhsaPhrase", "BhsaClause", "TFNode", "LouwNidaDomain",
   "MorphCode", "TaggedToken", "BriefLexEntry", "LsjEntry", "ProperNoun",
   "VersificationRule", "SyriacWord", "CopticWord", "VulgateVerse", "Witness",
   "VariantUnit", "CrossRef", "Person", "Place", "Period", "Event", "Group", "Tribe"}
\* The constraints that are not on the key an adapter merges by.
MCUnique ==
  {<<"Lemma", "id">>, <<"Lemma", "strong">>, <<"GreekLemma", "id">>, <<"Verse", "id">>,
   <<"Verse", "osisID">>, <<"Witness", "siglum">>, <<"Witness", "ga_number">>,
   <<"Reading", "reading_id">>, <<"BriefLexEntry", "strong_disambig">>}

Everything == Range(Datasets)
Meagre == Everything \ {"bhsa", "etcbc_phono", "etcbc_parallels", "peshitta",
                        "coptic_scriptorium", "vulgate_clementine", "stepbible_tahot", "tsk"}
Floor == Meagre \ {"theographic"}
\* Without the text floor of the New Testament and the words of the Hebrew Bible,
\* and without MACULA-Hebrew.
Textless == Floor \ {"oshb", "morphgnt", "macula_greek"}
Lemmaless == Everything \ {"macula_hebrew"}
MCDisks == {Everything, Meagre, Floor, Textless, Lemmaless}
MCSubsets == {<<"tsk", "stepbible_tahot">>, <<"stepbible_tbesg", "nosuch", "oshb">>,
              <<"stepbible_tbesh">>}

\* A ceiling of this corpus: what three passes over each disk and the ones before
\* it leave; that of all files is also that of the disk without MACULA-Hebrew,
\* for what is written there while no lemma is early.  What the theorems of
\* LexicalIngestProofs and LexicalToolsProofs ask of the files, which is
\* FilesSettle(MCMost), CollationSettles(MCMost), BundleSettles,
\* AnchorsSettle(MCMost) and ToolsSettle, is true.  No ASSUME says so: files or an
\* order of DATASETS of which it is false are to break the properties.
MCMost ==
  LET Before(has) == SelectSeq(<<Textless, Floor, Meagre, Everything>>,
                               LAMBDA d : has = Lemmaless \/ d \subseteq has)
  IN  [has \in Disks |->
         After(EmptyGraph(Labels), Before(has) \o Before(has) \o Before(has),
               LAMBDA g, d : The({PassOver(x, d) : x \in {g}}))]
=============================================================================
