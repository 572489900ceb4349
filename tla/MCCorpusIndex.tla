---------------------------- MODULE MCCorpusIndex ----------------------------
(***************************************************************************)
(* Small editions of every source, with the irregular passages each        *)
(* adapter provides for, and the agendas of the operators.                 *)
(***************************************************************************)
EXTENDS CorpusIndex
LOCAL INSTANCE SequencesExt

-----------------------------------------------------------------------------
(* The ancient witnesses.                                                  *)

Sec(n, chapter, sect, pieces) == [n |-> n, chapter |-> chapter, sect |-> sect, pieces |-> pieces]
MCJosephusFiles ==
  ("ant" :> <<[n |-> "18", sections |->
       <<Sec("62", "3", "2", <<"Pilate">>), Sec(Null, "4", Null, <<"lost">>),
         Sec("63", Null, "3", <<"Jesus.", TfClause, "The tribe remains.">>),
         Sec("64", "4", Null, <<"sad">>), Sec("65", Null, "1", <<>>)>>]>>)
  @@ ("vita" :> <<[n |-> "1", sections |-> <<Sec("1", Null, "1", <<"life">>)>>]>>)

Mark(prefix, num, text) == [prefix |-> prefix, num |-> num, pieces |-> <<text>>]
Blk(text, long, header) == [text |-> text, long |-> long, header |-> header]
MCPhiloFiles ==
  <<[book |-> 1, marks |-> <<Mark(0, 1, "began"), Mark(0, 7, "see 7"), Mark(0, 2, "ended"),
                             Mark(0, 2, "again")>>, blocks |-> <<>>],
    [book |-> 21, marks |-> <<Mark(1, 1, "dream"), Mark(2, 1, "night"), Mark(0, 1, "x")>>,
     blocks |-> <<>>],
    [book |-> 43, marks |-> <<>>,
     blocks |-> <<Blk("block", TRUE, FALSE), Blk("page", TRUE, TRUE), Blk("b", FALSE, FALSE)>>]>>

MCEnochFiles ==
  <<[file |-> 3, lead |-> <<"title">>, verses |-> <<>>],
    [file |-> 4, lead |-> <<"word">>, verses |->
       <<[num |-> 1, pieces |-> <<"[^", "bless">>], [num |-> 2, pieces |-> <<"two">>],
         [num |-> 2, pieces |-> <<"two more">>], [num |-> 3, pieces |-> <<>>]>>],
    [file |-> 5, lead |-> <<"alone">>, verses |-> <<>>]>>
MCJubileesFiles == <<[chapter |-> 0, items |-> <<"x">>], [chapter |-> 1, items |-> <<"a", "", "b">>]>>
Ch(n, pieces) == [n |-> n, pieces |-> pieces]
MCTest12Blocks ==
  <<[name |-> "levi", chapters |->
       <<Ch(1, <<"hear">>), Ch(1, <<"son", "[the Saviour of the world]">>), Ch(2, <<"[Christ]">>)>>],
    [name |-> "preface", chapters |-> <<Ch(1, <<"x">>)>>]>>
MCSiborBooks == <<[chapter |-> 3, lines |-> <<"o", "", "p", "q">>]>>

MCLatinFiles ==
  ("tacitus.annals" :> [c \in {"15.43", "15.44", "15.45"} |-> "annals " \o c])
  @@ ("suetonius.claudius" :> [c \in {"25.3", "25.4", "25.5"} |-> "claudius"])
  @@ ("suetonius.nero" :> [c \in {"16.1", "16.2"} |-> "nero"])
  @@ ("pliny.ep" :> [c \in {"10.95", "10.96", "10.97"} |-> "pliny"])
MCMelmothLetters ==
  <<[book |-> 9, letter |-> 96, text |-> "x"], [book |-> 10, letter |-> 96, text |-> "note"],
    [book |-> 10, letter |-> 97, text |-> "trajan"], [book |-> 10, letter |-> 96, text |-> "sir"]>>

MCMishnahFiles == <<[tractate |-> "berakhot", chapters |-> << <<"me", "", "ei">>, <<"hayah">> >>]>>
DssLine(first, last, scroll, fragment, line) ==
  [first |-> first, last |-> last, scroll |-> scroll, fragment |-> fragment, line |-> line,
   biblical |-> scroll = "1Qisaa"]
Wd(sign, lang) == [sign |-> sign, text |-> "w" \o ToString(sign), lang |-> lang]
MCDssLines ==
  <<DssLine(1, 2, "1Qisaa", <<"1">>, 1), DssLine(3, 4, "4Q1", <<"f", "1", "_", "2">>, 1),
    DssLine(5, 5, "4Q1", <<"f", "1", "2">>, 1), DssLine(6, 6, "4Q1", <<"f", "1">>, 0),
    DssLine(8, 8, Null, <<"1">>, 1), DssLine(9, 9, "4Q1", <<"*">>, 2), DssLine(10, 10, "4Q2", <<"1", "2">>, 9)>>
MCDssWords == <<Wd(1, "Hebrew"), Wd(2, Null), Wd(3, "Aramaic"), Wd(5, "Greek"), Wd(6, Null), Wd(7, Null),
                Wd(8, Null), Wd(9, Null)>>

\* In the first edition one work of the Romans is missing and the scrolls are
\* not there.
MCStagedIn ==
  <<{"josephus", "philo", "roman_historians", "pliny_melmoth", "sefaria_mishnah",
     "tacitus.annals", "suetonius.claudius", "pliny.ep"},
    Range(HistoricalSlugs) \cup {p.work : p \in Range(RomanPassages)}>>

-----------------------------------------------------------------------------
(* The confessions.                                                        *)

Para(kind, text) == [kind |-> kind, text |-> text]
Art(num, title, paras) == [num |-> num, title |-> title, paras |-> paras]
Qa(num, q, a) == [num |-> num, question |-> q, answer |-> a]
El(tag, num, text) == [tag |-> tag, num |-> num, text |-> text]
Np(num, text, long) == [num |-> num, text |-> text, long |-> long]
Lp(text, long) == [text |-> text, long |-> long]
Run(text, words) == [text |-> text, words |-> words, long |-> words > 1, navigation |-> FALSE]
To(href, wanted) == [href |-> href, name |-> href, wanted |-> wanted]
OcaPage(name, text, links) ==
  [name |-> name, title |-> name, text |-> text, long |-> text # NoBody, links |-> links]
Below(href, below) == [href |-> href, below |-> below]
Creed(text, phrase) == [text |-> text, long |-> TRUE, disambiguation |-> FALSE, phrase |-> phrase]

MCAugsburgPages == <<[num |-> 1, title |-> "God", url |-> "augsburg/1"],
                     [num |-> 2, title |-> "Sin", url |-> "augsburg/2"]>>
MCBcpPages == <<[slug |-> "catechism", title |-> "Catechism", url |-> "bcp/catechism"],
                [slug |-> "litany", title |-> "Litany", url |-> "bcp/litany"]>>
MCLbcPages == <<"lbc/1", "lbc/2">>
MCVolumes == ("ccel-anf" :> <<[vol |-> 1, toc |-> "anf1"], [vol |-> 2, toc |-> "anf2"]>>)
             @@ ("ccel-npnf1" :> <<[vol |-> 1, toc |-> "npnf1"]>>)
             @@ ("ccel-npnf2" :> <<[vol |-> 1, toc |-> "npnf2"]>>)
MCAuthorIndexes == <<[name |-> "darby", index |-> "stem/darby"], [name |-> "kelly", index |-> "stem/kelly"]>>
MCCreeds == <<[work |-> "nicene", anchor |-> "Nicene", urls |-> <<"creed/1", "creed/2">>],
              [work |-> "apostles", anchor |-> "Apostles", urls |-> <<"creed/3">>]>>
MCParsedDocs == <<[slug |-> "sermon", readable |-> TRUE, chunks |-> <<"s1", "", "s3">>],
                  [slug |-> "torn", readable |-> FALSE, chunks |-> <<>>]>>

Pages ==
  ("schleitheim/mirror" :> <<Np(1, "baptism", TRUE), Np(1, "again", FALSE), Np(2, "ban", FALSE)>>)
  @@ ("augsburg/1" :> <<Lp("of God", TRUE), Lp("note", FALSE)>>)
  @@ ("heidelberg" :> <<[num |-> 1, paras |-> <<Para("q", "comfort?"), Para("reference", "Rom. 14"),
                                                Para("a", "that I"), Para("plain", "belong")>>],
                        [num |-> 2, paras |-> <<Para("q", "how many?")>>]>>)
  @@ ("belgic" :> <<Art(1, "One God", <<Para("plain", "we believe")>>), Art(1, "Article one", <<Para("plain", "see above")>>),
                    Art(38, "", <<Para("plain", "x")>>)>>)
  @@ ("dort" :> <<[word |-> "first", articles |-> <<Art(1, "Election", <<Para("plain", "all men")>>),
                                                    Art(2, "", <<Para("reference", "John 3")>>)>>],
                  [word |-> "third", articles |-> <<Art(1, "", <<Para("plain", "man was")>>)>>]>>)
  @@ ("wcf" :> <<El("h3", 1, "Scripture"), El("p", 1, "although"), El("p", 0, "the light"),
                 El("p", 2, "under"), El("h3", 1, "Scripture"), El("p", 3, "books")>>)
  @@ ("wlc" :> <<Qa(1, "end?", "glorify"), Qa(2, "God?", "")>>) @@ ("wsc/mirror" :> <<Qa(1, "end?", "enjoy")>>)
  @@ ("lbc/1" :> [title |-> "Scripture", paras |-> <<Np(1, "holy", TRUE), Np(0, "note", TRUE), Np(1, "again", TRUE)>>])
  @@ ("lbc/2" :> [title |-> "", paras |-> <<Np(1, "God", TRUE)>>])
  @@ ("articles" :> <<El("p", 0, "preface"), El("center", 1, "Trinity"), El("p", 0, "there is"),
                      El("center", 2, "Word")>>)
  @@ ("umc" :> <<[num |-> 1, title |-> "Trinity", text |-> "there is"], [num |-> 26, title |-> "", text |-> "x"]>>)
  @@ ("ag" :> <<[num |-> 2, title |-> "God", text |-> "one true"], [num |-> 1, title |-> "Word", text |-> "inspired"],
                [num |-> 2, title |-> "", text |-> "menu"]>>)
  @@ ("oca" :> OcaPage("root", "root", <<Below("oca/a", TRUE), Below("oca/x", FALSE), Below("oca/gone", TRUE)>>))
  @@ ("oca/a" :> OcaPage("a", "about", <<Below("oca/b", TRUE), Below("oca", TRUE)>>))
  @@ ("oca/b" :> OcaPage("b", "prayer", <<>>))
  @@ ("ccc" :> [links |-> <<To("ccc/1", TRUE), To("ccc/2", TRUE), To("ccc/1", TRUE), To("menu", FALSE)>>])
  @@ ("ccc/1" :> <<Np(1, "short", FALSE), Np(2, "God", TRUE), Np(1, "life", TRUE)>>)
  @@ ("ccc/2" :> <<Np(2, "in brief", TRUE)>>)
  @@ ("dv" :> <<Np(1, "hearing", TRUE), Np(31, "note", TRUE)>>)
  @@ ("anf1" :> [links |-> <<To("anf/i", TRUE), To("anf/ii", TRUE)>>])
  @@ ("anf/i" :> [paras |-> <<Run("clement", 3), Run("to", 1), Run("corinth", 4), Run("peace", 2)>>])
  @@ ("anf/ii" :> [paras |-> <<Run("ignatius", 5)>>])
  @@ ("npnf1" :> [links |-> <<To("aug", TRUE)>>]) @@ ("aug" :> [paras |-> <<Run("great", 2)>>])
  @@ ("npnf2" :> [links |-> <<To("missing", TRUE)>>])
  @@ ("creed/1" :> Creed("may refer to", FALSE)) @@ ("creed/2" :> Creed("we believe", TRUE))
  @@ ("creed/3" :> Creed("I believe", TRUE))
  @@ ("stem/darby" :> [links |-> <<To("w1", TRUE), [To("w2", TRUE) EXCEPT !.name = "w1"]>>])
  @@ ("stem/kelly" :> [links |-> <<To("w3", TRUE)>>])
  @@ ("w1" :> [paras |-> <<Run("hope", 2)>>]) @@ ("w2" :> [paras |-> <<Run("church", 2)>>])
  @@ ("bcp/catechism" :> <<[kind |-> "question", question |-> "name?", answer |-> ""],
                           [kind |-> "answer", question |-> "", answer |-> "N. or M."],
                           [kind |-> "both", question |-> "who?", answer |-> "my godfathers"],
                           [kind |-> "answer", question |-> "", answer |-> "x"]>>)
  @@ ("bcp/litany" :> <<Lp("good Lord", TRUE), Lp("amen", FALSE)>>)
\* Later two sites are down and two have changed.
Without2(web, urls) == [u \in DOMAIN web \ urls |-> web[u]]
MCWebIn ==
  <<Pages,
    ("dort" :> <<[word |-> "third", articles |-> <<Art(1, "", <<Para("plain", "man, created")>>)>>]>>)
    @@ ("ag" :> <<[num |-> 1, title |-> "Word", text |-> "inspired of God"],
                  [num |-> 3, title |-> "", text |-> "deity"], [num |-> 4, title |-> "", text |-> "fall"]>>)
    @@ Without2(Pages, {"wcf", "creed/2", "dort", "ag"})>>

T(name, confidence) == [name |-> name, confidence |-> confidence, valid |-> name # "bad"]
MCTaggedFiles ==
  <<[id |-> "dort.Dort.1.A01", tags |-> <<T("grace", 70), T("bad", 90), T("sin", 50)>>],
    [id |-> "ag.AG.A02", tags |-> <<T("trinity", 95)>>],
    [id |-> "dort.Dort.1.A01", tags |-> <<T("election", 80), T("faith", 65)>>],
    [id |-> "gone.1", tags |-> <<T("faith", 75)>>],
    [id |-> "ag.AG.A01", tags |-> <<T("sin", 30)>>], [id |-> "ag.AG.A01", tags |-> <<T("word", 60)>>],
    [id |-> "dort.Dort.3.A01", tags |-> <<T("sin", 99)>>]>>
MCClauses == {TfClause} \cup Namings

-----------------------------------------------------------------------------
(* The agendas.                                                            *)

\* The files of a directory are read by name.
HistoricalFiles == <<"etcbc_dss", "josephus", "philo", "pliny_melmoth", "pseudepigrapha",
                     "roman_historians", "sefaria_mishnah">>
CulturalFiles ==
  <<"ag", "articles_39", "augsburg", "bcp_1662", "belgic", "brethren_parsed", "ccel_anf", "ccel_npnf1",
    "ccel_npnf2", "conciliar", "dort", "heidelberg", "lbc_1689", "oca_hopko", "schleitheim",
    "stem_publishing", "umc", "vatican_ccc", "vatican_dv", "wcf", "wlc_catechism", "wsc">>
J(corpus_, kind, names, load, e) ==
  [corpus |-> corpus_, kind |-> kind, names |-> names, load |-> load, edition |-> e]
History(kind, names, load, e) == J("historical", kind, names, load, e)
Confessions(kind, names, e)   == J("cultural", kind, names, TRUE, e)

Romans == <<"roman_historians">>
SomeHistory ==
  {History("ingest", <<"josephus", "pliny_melmoth">>, TRUE, 2), History("ingest", Romans, FALSE, 1),
   History("ingest", Romans, FALSE, 2), History("from-jsonl", HistoricalSlugs, TRUE, 1),
   History("rebuild", HistoricalFiles, FALSE, 1)}
Two == <<"dort", "ag">>
SomeConfessions ==
  {Confessions("reseed", Two, 1), Confessions("reseed", <<"ag", "conciliar">>, 2),
   Confessions("run", Two, 2), Confessions("from-jsonl", Two, 1),
   Confessions("rebuild", CulturalFiles, 1), Confessions("persist", <<>>, 1)}
MCAgendas ==
  { <<History("ingest", HistoricalSlugs, TRUE, 2), History("rebuild", HistoricalFiles, FALSE, 2)>>,
    <<History("ingest", HistoricalSlugs, TRUE, 1), History("rebuild", HistoricalFiles, FALSE, 2)>>,
    <<Confessions("reseed", CulturalAdapterNames, 1), Confessions("rebuild", CulturalFiles, 1)>>,
    <<Confessions("reseed", CulturalAdapterNames, 2), Confessions("from-jsonl", CulturalAdapterNames, 2)>>,
    <<Confessions("reseed", Two, 1), Confessions("rebuild", CulturalFiles, 1),
      Confessions("reseed", <<"ag", "conciliar">>, 2), Confessions("rebuild", CulturalFiles, 1),
      Confessions("persist", <<>>, 1)>> }
  \cup [1 .. 3 -> SomeHistory] \cup [1 .. 3 -> SomeConfessions]

\* What ClausesHold (CorpusIndexProofs) asks of the adapters, they do here.
ASSUME RowsRedacted
=============================================================================
