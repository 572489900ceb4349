-------------------------- MODULE CulturalAdapters --------------------------
(***************************************************************************)
(* ingest/cultural: the scrapers of the confessional corpus.  web maps the *)
(* URLs that answer to their pages; scrape() of an adapter is the rows it  *)
(* returns, or a fault it raises.                                          *)
(*                                                                         *)
(* A page is the sequence of the elements its extractor in _html.py looks  *)
(* at, each reduced to what the extractor tells it by; num is the number   *)
(* an element begins with, 0 for none, and long says that its text passes  *)
(* the extractor's minimal length.                                         *)
(***************************************************************************)
EXTENDS PropertyGraph

CONSTANTS
  TARGET_WORDS, MIN_WORDS,   \* of chunk_paragraphs
  MAX_LEAVES, MAX_DEPTH,     \* of oca_hopko
  MAX_CHILDREN,              \* child_links[:30]
  MAX_WORKS_PER_AUTHOR,      \* of stem_publishing
  MAX_CHUNKS,                \* of the ccel and stem adapters
  AugsburgPages, BcpPages,   \* the pages the adapters name: [n or slug, title, url]
  LbcPages, Volumes, AuthorIndexes, Creeds,
  ParsedDocs                 \* the files of parsed/, in order

NoBody == ""
Spaced(texts) ==
  FoldLeft(LAMBDA s, t : IF t = NoBody THEN s ELSE IF s = NoBody THEN t ELSE s \o " " \o t,
           NoBody, texts)
TextsOf(blocks) == Spaced(Each(blocks, LAMBDA b : b.text))
Places(xs) == [i \in DOMAIN xs |-> i]
Titled(title, body) == title \o ". " \o body

Fault       == [fault |-> TRUE, rows |-> <<>>]
Found(rows) == [fault |-> FALSE, rows |-> rows]

\* CulturalChunk; work, title and tradition are those of the adapter.
Row(source, anchor, text, embed) ==
  [id |-> source.slug \o "." \o anchor, work |-> source.work, title |-> source.title,
   tradition |-> source.tradition, license |-> source.license,
   redistribute |-> source.redistribute, text |-> text, embed |-> embed, tags |-> <<>>]
Source(slug, work, tradition, license, redistribute) ==
  [slug |-> slug, work |-> work, title |-> work, tradition |-> tradition, license |-> license,
   redistribute |-> redistribute]
PublicDomain(slug, tradition)       == Source(slug, slug, tradition, "public_domain", TRUE)
Copyright(slug, tradition, license) == Source(slug, slug, tradition, license, FALSE)

\* scrape_source: the first of the URLs that answers.  One URL is the common
\* case; pages are fetched once.
Fetched(web, urls) == SelectSeq(urls, LAMBDA u : u \in DOMAIN web)
ScrapeSource(web, urls, Parse(_)) ==
  LET there == Fetched(web, urls)
  IN  IF there = <<>> THEN Fault ELSE Found(Parse(web[Head(there)]))

-----------------------------------------------------------------------------
(* _html.py: chapters, articles, questions and answers.                    *)

\* opc_style_chapter_sections: a chapter heading that comes again goes on with
\* its chapter; a paragraph without a number belongs to the section before it.
OpcSections(page) ==
  LET Heads(i) == {j \in 1 .. i : page[j].tag = "h3" /\ page[j].num # 0}
      Chapter(i) == IF Heads(i) = {} THEN 0 ELSE page[Max(Heads(i))].num
      Title(c) == page[Min({j \in DOMAIN page : page[j].tag = "h3" /\ page[j].num = c})].text
      Paras(c) == SelectSeq(Places(page), LAMBDA i : page[i].tag = "p" /\ Chapter(i) = c)
      First(c) == SelectSeq(Places(Paras(c)), LAMBDA k : page[Paras(c)[k]].num # 0)
      Section(c, k) ==
        LET last == IF k = Len(First(c)) THEN Len(Paras(c)) ELSE First(c)[k + 1] - 1
        IN  [chapter |-> c, title |-> Title(c), section |-> page[Paras(c)[First(c)[k]]].num,
             text |-> Spaced([j \in 1 .. last - First(c)[k] + 1 |->
                                page[Paras(c)[First(c)[k] + j - 1]].text])]
      named == FirstBy("num", SelectSeq(page, LAMBDA e : e.tag = "h3" /\ e.num # 0))
  IN  EachAll(named, LAMBDA h : [k \in DOMAIN First(h.num) |-> Section(h.num, k)])

\* opc_qa_blocks: the paragraphs that hold a question and its answer.
OpcQa(page) == SelectSeq(page, LAMBDA p : p.num # 0 /\ p.question # NoBody /\ p.answer # NoBody)

\* crcna_qa_blocks: in the block of a marker, references are left out and a
\* plain paragraph goes on with the question or the answer.
CrcnaQa(page) ==
  LET Mode(ps, i) ==
        LET said == {j \in 1 .. i : ps[j].kind \in {"q", "a"}}
        IN  IF said = {} THEN Null ELSE ps[Max(said)].kind
      Said(ps, mode) ==
        Spaced(Each(SelectSeq(Places(ps), LAMBDA i : ps[i].kind # "reference" /\ Mode(ps, i) = mode),
                    LAMBDA i : ps[i].text))
  IN  Each(page, LAMBDA b : [num |-> b.num, question |-> Said(b.paras, "q"), answer |-> Said(b.paras, "a")])
\* crcna_article_blocks: the articles that have a body.
CrcnaArticles(page) ==
  LET Body(b) == TextsOf(SelectSeq(b.paras, LAMBDA p : p.kind # "reference"))
  IN  SelectSeq(Each(page, LAMBDA b : [num |-> b.num, title |-> b.title, text |-> Body(b)]),
                LAMBDA a : a.text # NoBody)
\* crcna_dort_articles: "Third and Fourth" counts as the third head.
HeadNumber(word) ==
  CASE word = "first" -> 1 [] word = "second" -> 2 [] word = "third" -> 3
    [] word = "fourth" -> 4 [] word = "fifth" -> 5
DortArticles(page) ==
  EachAll(page, LAMBDA h :
    Each(CrcnaArticles(h.articles), LAMBDA a :
      [head |-> HeadNumber(h.word), num |-> a.num, title |-> a.title, text |-> a.text]))

\* bcp1662_qa_blocks: a question may wait for the answer of a later paragraph.
\* The pairs are numbered as they come.
BcpQa(page) ==
  LET Step(acc, p) ==
        CASE p.kind = "both" ->
               [acc EXCEPT !.out = Append(@, [question |-> p.question, answer |-> p.answer])]
          [] p.kind = "question" -> [acc EXCEPT !.pending = p.question]
          [] p.kind = "answer" /\ acc.pending # Null ->
               [out |-> Append(acc.out, [question |-> acc.pending, answer |-> p.answer]),
                pending |-> Null]
          [] OTHER -> acc
  IN  FoldLeft(Step, [out |-> <<>>, pending |-> Null], page).out
\* bcp1662_section
BcpSection(page) == TextsOf(SelectSeq(page, LAMBDA p : p.long))

\* wikisource_39_articles: the paragraphs after a centred heading are its body.
WikisourceArticles(page) ==
  LET heads == SelectSeq(Places(page), LAMBDA i : page[i].tag = "center" /\ page[i].num # 0)
      Body(k) ==
        LET last == IF k = Len(heads) THEN Len(page) ELSE heads[k + 1] - 1
        IN  TextsOf(SelectSeq(SubSeq(page, heads[k], last), LAMBDA e : e.tag = "p"))
  IN  SelectSeq([k \in DOMAIN heads |->
                   [num |-> page[heads[k]].num, title |-> page[heads[k]].text, text |-> Body(k)]],
                LAMBDA a : a.text # NoBody)

\* ag_truths_accordion: the first block of each number, by number.
AgTruths(page) ==
  SortSeq(FirstBy("num", SelectSeq(page, LAMBDA e : e.num \in 1 .. 16)),
          LAMBDA x, y : x.num < y.num)
\* umc_h4_articles
UmcArticles(page) == SelectSeq(page, LAMBDA a : a.num \in 1 .. 25 /\ a.text # NoBody)
\* schleitheim_articles: the first marker of each number counts; what follows
\* another one still belongs to the article before it.
SchleitheimArticles(page) ==
  LET Counts(i) == page[i].num \in 1 .. 7 /\ \A j \in 1 .. i - 1 : page[j].num # page[i].num
      taken == SelectSeq(Places(page), Counts)
      Article(k) ==
        LET last == IF k = Len(taken) THEN Len(page) ELSE taken[k + 1] - 1
            body == SubSeq(page, taken[k], last)
        IN  [num |-> page[taken[k]].num, text |-> TextsOf(body),
             long |-> \E i \in DOMAIN body : body[i].long]
  IN  SelectSeq([k \in DOMAIN taken |-> Article(k)], LAMBDA a : a.long)

\* vatican_ccc_paragraphs and vatican_council_paragraphs: the first paragraph
\* of a number counts, and when that one is too short the number is lost.
\* Mutant: it is the first one that is long enough.
VaticanParagraphsLong(page, most) ==
  FirstBy("num", SelectSeq(page, LAMBDA p : p.num \in 1 .. most /\ p.long))
VaticanParagraphs(page, most) ==
  SelectSeq(FirstBy("num", SelectSeq(page, LAMBDA p : p.num \in 1 .. most)), LAMBDA p : p.long)

-----------------------------------------------------------------------------
(* _html.py: running text and links.                                       *)

\* chunk_paragraphs: paragraphs are gathered until they reach TARGET_WORDS; one
\* that would go beyond begins a new chunk when the one before has MIN_WORDS.
\* Mutant: what is gathered at the end is left out.
GatheredToEnd(done, open) == done
Gathered(done, open)      == IF open = <<>> THEN done ELSE Append(done, open)
ChunkParagraphs(paras) ==
  LET Words(ps) == FoldLeft(LAMBDA n, p : n + p.words, 0, ps)
      Close(acc) == [done |-> Append(acc.done, acc.open), open |-> <<>>]
      Step(acc, p) ==
        LET full == Words(acc.open) + p.words > TARGET_WORDS
            next == [acc EXCEPT !.open = Append(@, p)]
        IN  CASE acc.open # <<>> /\ full /\ Words(acc.open) >= MIN_WORDS ->
                   [Close(acc) EXCEPT !.open = <<p>>]
              [] OTHER -> IF Words(next.open) >= TARGET_WORDS THEN Close(next) ELSE next
      end == FoldLeft(Step, [done |-> <<>>, open |-> <<>>], SelectSeq(paras, LAMBDA p : p.words > 0))
  IN  Each(Gathered(end.done, end.open), TextsOf)
\* ccel_page_paragraphs
CcelParagraphs(page) == SelectSeq(page.paras, LAMBDA p : p.long /\ ~p.navigation)
\* ccel_toc_chapter_links, vatican_ccc_paragraph_pages and _author_work_links:
\* the wanted links, each once.
Links(page) == FirstBy("href", SelectSeq(page.links, LAMBDA l : l.wanted))

-----------------------------------------------------------------------------
(* Adapters that read one page.                                            *)

Pad3(n) == IF n < 10 THEN "00" \o ToString(n) ELSE IF n < 100 THEN "0" \o ToString(n) ELSE ToString(n)
QandA(q) == "Q. " \o ToString(q.num) \o ". " \o q.question \o " A. " \o q.answer
TitledIf(title, body) == IF title = NoBody THEN body ELSE Titled(title, body)

\* wcf
WcfRows(page) ==
  Each(SelectSeq(OpcSections(page), LAMBDA s : s.text # NoBody), LAMBDA s :
    Row(PublicDomain("wcf", "reformed"), "WCF." \o ToString(s.chapter) \o "." \o ToString(s.section),
        s.text, Titled(s.title, s.text)))
OpcQaRows(page, slug, prefix) ==
  Each(OpcQa(page), LAMBDA q :
    Row(PublicDomain(slug, "reformed"), prefix \o ".Q" \o Pad3(q.num), QandA(q), QandA(q)))
\* wlc_catechism and wsc
WlcRows(page) == OpcQaRows(page, "wlc-catechism", "WLC")
WscRows(page) == OpcQaRows(page, "wsc", "WSC")
\* heidelberg
HeidelbergRows(page) ==
  Each(SelectSeq(CrcnaQa(page), LAMBDA q : q.num \in 1 .. 129 /\ q.answer # NoBody), LAMBDA q :
    Row(PublicDomain("heidelberg", "reformed"), "HC.Q" \o Pad3(q.num), QandA(q), QandA(q)))
\* belgic
BelgicRows(page) ==
  Each(SelectSeq(CrcnaArticles(page), LAMBDA a : a.num \in 1 .. 37), LAMBDA a :
    Row(PublicDomain("belgic", "reformed"), "Belgic.A" \o Pad2(a.num), a.text, TitledIf(a.title, a.text)))
\* dort.  Mutant: the anchor does not name the head of doctrine.
DortAnchorFlat(a) == "Dort.A" \o Pad2(a.num)
DortAnchor(a)     == "Dort." \o ToString(a.head) \o ".A" \o Pad2(a.num)
DortRows(page) ==
  Each(DortArticles(page), LAMBDA a :
    Row(PublicDomain("dort", "reformed"), DortAnchor(a), a.text, TitledIf(a.title, a.text)))
\* articles_39
Articles39Rows(page) ==
  Each(SelectSeq(WikisourceArticles(page), LAMBDA a : a.num \in 1 .. 39), LAMBDA a :
    Row(PublicDomain("articles-39", "anglican"), "39A.A" \o Pad2(a.num), a.text, Titled(a.title, a.text)))
\* umc
UmcRows(page) ==
  Each(UmcArticles(page), LAMBDA a :
    Row(Source("umc", "umc-articles", "methodist", "public_domain", TRUE),
        "UMC.A" \o Pad2(a.num), a.text, Titled(a.title, a.text)))
\* schleitheim
SchleitheimRows(page) ==
  Each(SchleitheimArticles(page), LAMBDA a :
    Row(PublicDomain("schleitheim", "anabaptist"), "Schleitheim.A" \o ToString(a.num), a.text, a.text))
\* ag
AgRows(page) ==
  Each(AgTruths(page), LAMBDA t :
    Row(Source("ag", "ag-fundamental-truths", "pentecostal", "©Assemblies-of-God", FALSE),
        "AG.A" \o Pad2(t.num), t.text, Titled(t.title, t.text)))
\* vatican_dv
DvRows(page) ==
  Each(SelectSeq(VaticanParagraphs(page, 200), LAMBDA p : p.num <= 30), LAMBDA p :
    Row(Copyright("vatican-dv", "catholic-magisterial", "©Libreria-Editrice-Vaticana"),
        "DV." \o ToString(p.num), p.text, p.text))

-----------------------------------------------------------------------------
(* Adapters that read many pages.                                          *)

\* Pages that do not answer are passed over.
PagesOf(web, urls, Parse(_)) == EachAll(Fetched(web, urls), LAMBDA u : Parse(web[u]))

\* augsburg: it fails only when every article does.
AugsburgScrape(web) ==
  LET there == SelectSeq(AugsburgPages, LAMBDA a : a.url \in DOMAIN web)
      Body(a) == TextsOf(SelectSeq(web[a.url], LAMBDA p : p.long))
      Article(a) == When(Body(a) # NoBody,
        Row(PublicDomain("augsburg", "lutheran"), "Augsburg.A" \o Pad2(a.num), Body(a),
            Titled(a.title, Body(a))))
      Result(rows) == IF rows = <<>> /\ there # AugsburgPages THEN Fault ELSE Found(rows)
  IN  Result(EachAll(there, Article))

\* bcp_1662: one section that does not answer fails the source.
BcpScrape(web) ==
  LET Prayer(anchor, text, title) ==
        Row(PublicDomain("bcp-1662", "anglican"), "BCP." \o anchor, text, Titled(title, text))
      Catechism(qs) == [i \in DOMAIN qs |->
        Prayer("Catechism.Q" \o Pad2(i), "Q. " \o qs[i].question \o " A. " \o qs[i].answer, "Catechism")]
      Section(s) == IF s.slug = "catechism" THEN Catechism(BcpQa(web[s.url]))
                    ELSE When(BcpSection(web[s.url]) # NoBody,
                              Prayer(s.slug, BcpSection(web[s.url]), s.title))
  IN  IF \E i \in DOMAIN BcpPages : BcpPages[i].url \notin DOMAIN web THEN Fault
      ELSE Found(EachAll(BcpPages, Section))

\* lbc_1689: one chapter that does not answer fails the source.
LbcScrape(web) ==
  LET Chapter(n, page) ==
        Each(SelectSeq(page.paras, LAMBDA p : p.num # 0), LAMBDA p :
          Row(PublicDomain("lbc-1689", "reformed"),
              "1689." \o ToString(n) \o "." \o ToString(p.num), p.text, TitledIf(page.title, p.text)))
  IN  IF \E n \in DOMAIN LbcPages : LbcPages[n] \notin DOMAIN web THEN Fault
      ELSE Found(EachAll(Places(LbcPages), LAMBDA n : Chapter(n, web[LbcPages[n]])))

\* vatican_ccc: the index must answer, its pages need not.
CccScrape(web, index) ==
  LET Paragraphs(page) ==
        Each(VaticanParagraphs(page, 2865), LAMBDA p :
          Row(Copyright("vatican-ccc", "catholic-magisterial", "©Libreria-Editrice-Vaticana"),
              "CCC." \o ToString(p.num), p.text, p.text))
  IN  ScrapeSource(web, <<index>>, LAMBDA page :
        PagesOf(web, Each(Links(page), LAMBDA l : l.href), Paragraphs))

\* conciliar: of the candidate pages of a creed the first that answers with the
\* creed; a creed without one fails the source.
ConciliarScrape(web) ==
  LET Faithful(page) == page.long /\ ~page.disambiguation /\ page.phrase
      Good(c) == SelectSeq(Fetched(web, c.urls), LAMBDA u : Faithful(web[u]))
      Creed(c) == Row(Source("conciliar", c.work, "patristic", "public_domain", TRUE), c.anchor,
                      web[Head(Good(c))].text, Titled(c.work, web[Head(Good(c))].text))
  IN  IF \E i \in DOMAIN Creeds : Good(Creeds[i]) = <<>> THEN Fault
      ELSE Found(Each(Creeds, Creed))

\* What a page of running text becomes.
RunningRows(source, prefix, page) ==
  LET texts == ChunkParagraphs(CcelParagraphs(page))
  IN  [i \in DOMAIN texts |-> Row(source, prefix \o "." \o Pad3(i), texts[i], texts[i])]
\* for url in urls: if len(out) >= MAX_CHUNKS: break; out.extend(...)
Extended(out, batches) ==
  FoldLeft(LAMBDA acc, rows : IF Len(acc) >= MAX_CHUNKS THEN acc ELSE acc \o rows, out, batches)

\* ccel_anf: the chapters of the volumes whose contents answer.
CcelScrape(web, slug, prefix) ==
  LET Chapter(v, l) ==
        RunningRows(Source(slug, slug \o ".vol" \o ToString(v.vol), "patristic", "public_domain", TRUE),
                    prefix \o ".vol" \o ToString(v.vol) \o "." \o l.name, web[l.href])
      Volume(v) == Each(SelectSeq(Links(web[v.toc]), LAMBDA l : l.href \in DOMAIN web),
                        LAMBDA l : Chapter(v, l))
      there == SelectSeq(Volumes[slug], LAMBDA v : v.toc \in DOMAIN web)
  IN  Found(Extended(<<>>, EachAll(there, Volume)))
\* ccel_npnf1 and ccel_npnf2
Npnf1Scrape(web) == CcelScrape(web, "ccel-npnf1", "NPNF1")
Npnf2Scrape(web) == CcelScrape(web, "ccel-npnf2", "NPNF2")

\* stem_publishing
StemScrape(web) ==
  LET Work(a, l) ==
        RunningRows(Source("stem-publishing", "stem-publishing." \o a.name \o "." \o l.name,
                           "plymouth-brethren", "public_domain", TRUE),
                    "STEM." \o a.name \o "." \o l.name, web[l.href])
      Shelf(a) ==
        LET all == Links(web[a.index])
            few == SubSeq(all, 1, MinOf(Len(all), MAX_WORKS_PER_AUTHOR))
        IN  Each(SelectSeq(few, LAMBDA l : l.href \in DOMAIN web), LAMBDA l : Work(a, l))
      there == SelectSeq(AuthorIndexes, LAMBDA a : a.index \in DOMAIN web)
  IN  Found(Extended(<<>>, EachAll(there, Shelf)))

\* oca_hopko: the leaves the crawl finds breadth first, two links or more from
\* the root, then each of them again for its text.  A level of the crawl is the
\* part of the queue that has one depth.
OcaLeaves(web, root) ==
  LET Visit(s, url, depth) ==
        LET page  == web[url]
            under == SubSeq(page.links, 1, MinOf(Len(page.links), MAX_CHILDREN))
            fresh == SelectSeq(under, LAMBDA l : l.below /\ l.href \notin s.seen \cup {url})
        IN  IF Len(s.out) >= MAX_LEAVES THEN s
            ELSE IF url \in s.seen \/ url \notin DOMAIN web THEN [s EXCEPT !.seen = @ \cup {url}]
            ELSE [queue |-> s.queue \o (IF depth >= MAX_DEPTH THEN <<>> ELSE Each(fresh, LAMBDA l : l.href)),
                  seen  |-> s.seen \cup {url},
                  out   |-> s.out \o When(page.long /\ depth >= 2, url)]
      Level(s, depth) ==
        FoldLeft(LAMBDA t, url : Visit(t, url, depth), [s EXCEPT !.queue = <<>>], s.queue)
  IN  FoldLeft(Level, [queue |-> <<root>>, seen |-> {}, out |-> <<>>],
               [i \in 1 .. MAX_DEPTH + 1 |-> i - 1]).out
OcaScrape(web, root) ==
  Found(Each(OcaLeaves(web, root), LAMBDA u :
    Row(Copyright("oca-hopko", "eastern-orthodox", "©OCA-Hopko-estate"), "OCA." \o web[u].name,
        web[u].text, Titled(web[u].title, web[u].text))))

\* brethren_parsed: files that are no documents are passed over; a chunk
\* without text keeps its number.
BrethrenScrape ==
  LET Sermon(d) == EachAll(Places(d.chunks), LAMBDA i :
        When(d.chunks[i] # NoBody,
             Row(Source("brethren-parsed", "brethren-parsed." \o d.slug, "plymouth-brethren",
                        "parsed-sanitized", FALSE),
                 "parsed." \o d.slug \o "." \o Pad3(i), d.chunks[i], d.chunks[i])))
  IN  Found(EachAll(SelectSeq(ParsedDocs, LAMBDA d : d.readable), Sermon))

-----------------------------------------------------------------------------
(* run.py.                                                                 *)

\* ADAPTERS
CulturalAdapterNames ==
  <<"schleitheim", "augsburg", "heidelberg", "belgic", "dort", "wcf", "wlc_catechism", "wsc",
    "lbc_1689", "articles_39", "umc", "ag", "oca_hopko", "vatican_ccc", "vatican_dv", "ccel_anf",
    "ccel_npnf1", "ccel_npnf2", "conciliar", "stem_publishing", "bcp_1662", "brethren_parsed">>

\* scrape() of an adapter; a URL is named after the adapter, with what tells
\* its pages apart.
Scrape(name, web) ==
  CASE name = "schleitheim" -> ScrapeSource(web, <<"schleitheim", "schleitheim/mirror">>, SchleitheimRows)
    [] name = "augsburg" -> AugsburgScrape(web)
    [] name = "heidelberg" -> ScrapeSource(web, <<"heidelberg">>, HeidelbergRows)
    [] name = "belgic" -> ScrapeSource(web, <<"belgic">>, BelgicRows)
    [] name = "dort" -> ScrapeSource(web, <<"dort">>, DortRows)
    [] name = "wcf" -> ScrapeSource(web, <<"wcf", "wcf/mirror">>, WcfRows)
    [] name = "wlc_catechism" -> ScrapeSource(web, <<"wlc", "wlc/mirror">>, WlcRows)
    [] name = "wsc" -> ScrapeSource(web, <<"wsc", "wsc/mirror">>, WscRows)
    [] name = "lbc_1689" -> LbcScrape(web)
    [] name = "articles_39" -> ScrapeSource(web, <<"articles", "articles/mirror">>, Articles39Rows)
    [] name = "umc" -> ScrapeSource(web, <<"umc">>, UmcRows)
    \* LOCAL_SNAPSHOT takes the place of a second URL.
    [] name = "ag" -> ScrapeSource(web, <<"ag", "ag/snapshot">>, AgRows)
    [] name = "oca_hopko" -> OcaScrape(web, "oca")
    [] name = "vatican_ccc" -> CccScrape(web, "ccc")
    [] name = "vatican_dv" -> ScrapeSource(web, <<"dv">>, DvRows)
    [] name = "ccel_anf" -> CcelScrape(web, "ccel-anf", "ANF")
    [] name = "ccel_npnf1" -> Npnf1Scrape(web)
    [] name = "ccel_npnf2" -> Npnf2Scrape(web)
    [] name = "conciliar" -> ConciliarScrape(web)
    [] name = "stem_publishing" -> StemScrape(web)
    [] name = "bcp_1662" -> BcpScrape(web)
    [] name = "brethren_parsed" -> BrethrenScrape

=============================================================================
