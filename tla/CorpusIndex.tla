---------------------------- MODULE CorpusIndex ----------------------------
(***************************************************************************)
(* The life of a corpus after its adapters: jobs, one at a time, that      *)
(* capture parsed rows in jsonl files, upsert them into the cultural       *)
(* Neo4j, rebuild the Qdrant collection from the captures and persist the  *)
(* doctrine tags of the autotag pass in both stores.  A behaviour keeps to *)
(* one corpus: the historical and the cultural one share neither files,    *)
(* labels nor collection.                                                  *)
(*                                                                         *)
(* A job is a script of commands, each one call on a file or a store.  It  *)
(* may be killed before any of them, and between two jobs the staged files *)
(* and the sites change.  The threads and retries of cultural_reseed are   *)
(* in CulturalReseed; here its sources follow one another.                 *)
(***************************************************************************)
EXTENDS HistoricalAdapters, CulturalAdapters

CONSTANTS
  Agendas,         \* the jobs operators start, one after another
  StagedIn, WebIn, \* edition -> staged files of history, pages of the web
  UPSERT_BATCH,    \* batch_size of upsert_chunks and upsert_historical_chunks
  BATCH,           \* of embed_historical and embed_cultural
  PERSIST_BATCH,   \* of persist_neo4j
  MAX_TEXT_CHARS, MAX_TAGS_PER_CHUNK, CONFIDENCE_THRESHOLD,
  TaggedFiles,     \* the records of the tagged_chunks.jsonl files, in order:
                   \* <<[id, tags]>>; a tag is [name, confidence, valid]
  Clauses,         \* what adapters redact from the text they embed
  MaxKills, MaxRefusals   \* bound the model, as the agendas do

Kinds == {"ingest", "from-jsonl", "run", "reseed", "rebuild", "persist"}
Jobs  == UNION {Range(a) : a \in Agendas}
ASSUME AgendasAssumption ==
  /\ \A a \in Agendas : a \in Seq(Jobs) /\ a # <<>> /\ \A i, k \in DOMAIN a : a[i].corpus = a[k].corpus
  /\ \A j \in Jobs : /\ j.corpus \in {"historical", "cultural"} /\ j.kind \in Kinds
                     /\ j.names \in Seq(STRING) /\ j.load \in BOOLEAN
                     /\ j.kind = "persist" => j.corpus = "cultural" /\ j.names = <<>>
ASSUME BatchesAssumption == {UPSERT_BATCH, BATCH, PERSIST_BATCH} \subseteq Nat \ {0}
ASSUME TextsAssumption == MAX_TEXT_CHARS \in Nat \ {0} /\ MAX_TAGS_PER_CHUNK \in Nat

VARIABLES
  corpus,    \* never changes
  agenda,    \* the jobs to come: [corpus, kind, names, load, edition], the
             \* edition being what the job finds on the disk and on the web
  captures,  \* <name>.jsonl: its whole lines, and whether half a line follows
  graph,
  points,    \* the collection: chunk_id -> [text, vec, license, tags]
  job, todo, script,  \* the job, the sources it has yet to do, the commands
                      \* of the source at hand
  outcome,   \* of the job: "running", "faulty" (running, but a source failed),
             \* or how it ended
  cut,       \* history: the names whose capture a kill cut off
  refused,   \* history: the ids in batches the last rebuild could not embed
  loaded,    \* history: the names whose capture, as it is, was upserted last,
             \* and whole
  indexed,   \* history: the names whose capture, as it is, is in the collection
  kills, refusals

work   == <<job, todo, script, outcome>>
stores == <<captures, graph, points>>
past   == <<cut, refused, loaded, indexed>>
count  == <<kills, refusals>>
vars   == <<corpus, agenda, stores, work, past, count>>

-----------------------------------------------------------------------------
(* Rows.                                                                   *)

\* parse() or scrape() of an adapter: [raised, rows].
Parse(c, name, e) ==
  IF c = "historical" THEN HistoricalParse(name, StagedIn[e])
  ELSE LET got == Scrape(name, WebIn[e]) IN [raised |-> got.fault, rows |-> got.rows]
\* What the jobs parse, and the rows they get.
Parsing(j) == j.kind \in {"ingest", "run", "reseed"}
Parsings   == UNION {{Parse(j.corpus, n, j.edition) : n \in Range(j.names)} : j \in {k \in Jobs : Parsing(k)}}
ParsedRows == UNION {Range(got.rows) : got \in Parsings}
ASSUME RowsAssumption ==
  /\ \A got \in Parsings : got.rows \in Seq(ParsedRows)
  /\ \A r \in ParsedRows : {r.id, r.work, r.text, r.embed} \subseteq STRING \ {Null}
\* The rows of a source, in any edition.  Every adapter puts its own name, or the
\* works only it has, before the ids of its chunks (pliny_melmoth.py:131).
RowsFrom(c, n) ==
  UNION {Range(Parse(c, n, j.edition).rows) : j \in {k \in Jobs : Parsing(k) /\ k.corpus = c /\ n \in Range(k.names)}}
ASSUME SourcesAssumption ==
  \A c \in {"historical", "cultural"}, m, n \in UNION {Range(j.names) : j \in Jobs} :
    m # n => \A r \in RowsFrom(c, m), q \in RowsFrom(c, n) : r.id # q.id

Captured(name) == name \in DOMAIN captures
RowsOf(name) == IF Captured(name) THEN captures[name].rows ELSE <<>>

\* text_value of the upserts.
StoredText(row) == IF BulkAllowed(row.license) THEN row.text ELSE row.embed
Flag(b) == IF b THEN "true" ELSE "false"
TagText(tags) == FoldLeft(LAMBDA s, t : s \o t.name \o ";", "", tags)

\* buf[i : i + size] for all of buf (mutant: the last, partial batch is lost).
FullBatches(xs, size) ==
  [i \in 1 .. Len(xs) \div size |-> SubSeq(xs, (i - 1) * size + 1, i * size)]
Batches(xs, size) ==
  [i \in 1 .. (Len(xs) + size - 1) \div size |->
     SubSeq(xs, (i - 1) * size + 1, MinOf(i * size, Len(xs)))]

-----------------------------------------------------------------------------
(* Statements: MERGE the node and SET its properties; where owner is named, *)
(* MATCH it and MERGE the edge that leads to the node.                      *)

NoOwner == [kind |-> "none"]
OwnedBy(type, label, key, olabel, okey) == EdgeT(type, End(olabel, okey), End(label, key))
Merging(label, key, edge, rows) ==
  [op |-> "merge", t |-> NodeT(label, key), edge |-> edge, key |-> key, rows |-> rows]
MergeRow(g, s, r) ==
  IF s.edge.kind = "none" THEN MergeNode(g, s.t, r.props)
  ELSE MergeEdge(MergeNode(g, s.t, r.props), s.edge, Link(r.owner, r.key))
AttachRow(g, r) == AttachNode(g, AttachT("CulturalChunk", "chunk_id"), r)
\* One session.run of a command.
RunCommand(g, c) ==
  After(g, c.rows, LAMBDA h, r : IF c.op = "merge" THEN MergeRow(h, c, r) ELSE AttachRow(h, r))
Merged(key, owner, props) == [key |-> key, owner |-> owner, props |-> props]

\* _flush of upsert_historical_chunks: a dict of sources and one of works, in
\* which the last row of the batch wins, then the chunks.
HistoricalSource(r) == Merged(r.slug, Null, [slug |-> r.slug, source_type |-> r.stype])
HistoricalWork(r) ==
  Merged(r.work, r.slug,
    [work_id |-> r.work, title |-> r.title, language |-> r.lang,
     original_language |-> r.orig, loss_status |-> r.loss])
HistoricalChunk(r) ==
  Merged(r.id, r.work,
    [chunk_id |-> r.id, anchor_alt_citation |-> r.alt, source_type |-> r.stype,
     text |-> StoredText(r), text_to_embed |-> r.embed, language |-> r.lang,
     license |-> r.license, redistribute |-> Flag(r.redistribute),
     contested_interpolation_type |-> r.contested, provenance_loss_status |-> r.loss])
HistoricalFlush(rows) ==
  <<Merging("HistoricalSource", "slug", NoOwner, LastBy("key", Each(rows, HistoricalSource))),
    Merging("HistoricalWork", "work_id",
            OwnedBy("CONTAINS", "HistoricalWork", "work_id", "HistoricalSource", "slug"),
            LastBy("key", Each(rows, HistoricalWork))),
    Merging("HistoricalChunk", "chunk_id",
            OwnedBy("HAS_CHUNK", "HistoricalChunk", "chunk_id", "HistoricalWork", "work_id"),
            Each(rows, HistoricalChunk))>>
\* _flush of upsert_chunks: the tags are those of the row.
CulturalWork(r) ==
  Merged(r.work, Null, [work_id |-> r.work, title |-> r.title, tradition |-> r.tradition])
CulturalChunk(r) ==
  Merged(r.id, r.work,
    [chunk_id |-> r.id, tradition |-> r.tradition, text |-> StoredText(r),
     text_to_embed |-> r.embed, license |-> r.license,
     redistribute |-> Flag(r.redistribute), doctrine_tags |-> TagText(r.tags)])
CulturalFlush(rows) ==
  <<Merging("Work", "work_id", NoOwner, LastBy("key", Each(rows, CulturalWork))),
    Merging("CulturalChunk", "chunk_id",
            OwnedBy("HAS_CHUNK", "CulturalChunk", "chunk_id", "Work", "work_id"),
            Each(rows, CulturalChunk))>>
Upserts(rows) ==
  EachAll(Batches(rows, UPSERT_BATCH), LAMBDA b :
    IF corpus = "historical" THEN HistoricalFlush(b) ELSE CulturalFlush(b))

-----------------------------------------------------------------------------
(* The collection.                                                         *)

\* text[:n] (mutant: the text).
Uncut(text, n) == text
CutTo(text, n) == SubSeq(text, 1, MinOf(Len(text), n))
\* The text whose vector is stored (mutant: that of the chunk).
VectorOfText(row) == row.text
VectorOf(row) == CutTo(row.embed, MAX_TEXT_CHARS)
\* _redistribute_safe_text
PayloadText(row) == CutTo(IF BulkAllowed(row.license) THEN row.text ELSE row.embed, MAX_TEXT_CHARS)
\* _point_for
PointFor(row) ==
  [text |-> PayloadText(row), vec |-> VectorOf(row), license |-> row.license,
   tags |-> IF corpus = "cultural" THEN TagText(row.tags) ELSE TagText(<<>>)]
PointsFor(rows) ==
  [id \in {rows[i].id : i \in DOMAIN rows} |->
     PointFor(rows[CHOOSE i \in DOMAIN rows :
                     rows[i].id = id /\ \A k \in DOMAIN rows : rows[k].id = id => k <= i])]
\* _recreate_collection (mutant: a collection that is there is kept).  Between
\* the drop and the creation it is missing; the model has it empty.
Kept(ps)      == ps
Recreated(ps) == <<>>

\* embed_file: a torn line raises, and what is buffered then is lost.
Embedding(b) == [op |-> "embed", rows |-> b]
EmbedScript(name) ==
  LET rows  == EachAll(RowsOf(name), LAMBDA r : When(r.embed # NoText, r))
      whole == SubSeq(rows, 1, (Len(rows) \div BATCH) * BATCH)
  IN  IF captures[name].torn
      THEN Each(Batches(whole, BATCH), Embedding) \o <<[op |-> "raise"]>>
      ELSE Each(Batches(rows, BATCH), Embedding)

\* _validate_tags and collect_tags: by confidence, the best of all records.
ByConfidence(tags) == SortSeq(tags, LAMBDA x, y : x.confidence > y.confidence)
BestTags(tags) ==
  [i \in 1 .. MinOf(Len(tags), MAX_TAGS_PER_CHUNK) |-> ByConfidence(tags)[i]]
ValidTags(tags) ==
  BestTags(EachAll(tags, LAMBDA t : When(t.valid /\ t.confidence >= CONFIDENCE_THRESHOLD, t)))
\* The records with a tag to keep, the dict's keys in its order, and the dict.
Keep(rec) == [id |-> rec.id, tags |-> ValidTags(rec.tags)]
KeptTags  == EachAll(TaggedFiles, LAMBDA rec : When(ValidTags(rec.tags) # <<>>, Keep(rec)))
TaggedIds == Each(FirstBy("id", KeptTags), LAMBDA k : k.id)
CollectTags ==
  [id \in {KeptTags[i].id : i \in DOMAIN KeptTags} |->
     After(<<>>, KeptTags, LAMBDA best, k : IF k.id = id THEN BestTags(best \o k.tags) ELSE best)]
ASSUME TagsAssumption ==
  /\ TaggedFiles \in Seq(Range(TaggedFiles))
  /\ \A rec \in Range(TaggedFiles) : rec.id # Null /\ rec.tags \in Seq(Range(rec.tags))
  /\ \A id \in DOMAIN CollectTags : TagText(CollectTags[id]) # Null
\* rows[i : i + batch_size] (mutant: the last, partial batch is lost).
PersistFullBatches(ids) == FullBatches(ids, PERSIST_BATCH)
PersistBatches(ids)     == Batches(ids, PERSIST_BATCH)
\* persist_qdrant, point by point, then persist_neo4j.
TagRow(id) == [chunk_id |-> id, doctrine_tags |-> TagText(CollectTags[id])]
Attaching(ids) == [op |-> "attach", rows |-> Each(ids, TagRow)]
PersistScript ==
  <<[op |-> "tag", left |-> DOMAIN points \cap DOMAIN CollectTags]>>
    \o Each(PersistBatches(TaggedIds), Attaching)

-----------------------------------------------------------------------------
(* Jobs.                                                                   *)

NoJob == [kind |-> "none", names |-> <<>>, load |-> FALSE]
Working == outcome \in {"running", "faulty"}
Loads(j) == j.kind \in {"run", "reseed"} \/ (j.kind \in {"ingest", "from-jsonl"} /\ j.load)
Labels(c) == IF c = "historical" THEN {"HistoricalSource", "HistoricalWork", "HistoricalChunk"}
             ELSE {"Work", "CulturalChunk"}

Init ==
  /\ agenda \in Agendas
  /\ corpus = Head(agenda).corpus
  /\ captures = <<>>
  /\ graph = EmptyGraph(Labels(corpus))
  /\ points = <<>>
  /\ job = NoJob /\ todo = <<>> /\ script = <<>> /\ outcome = "none"
  /\ cut = {} /\ refused = {} /\ loaded = {} /\ indexed = {}
  /\ kills = 0 /\ refusals = 0

\* A rebuild passes over the files that are not there.
Start ==
  /\ ~Working /\ agenda # <<>>
  /\ job' = Head(agenda) /\ agenda' = Tail(agenda) /\ outcome' = "running"
  /\ todo' = IF job'.kind = "rebuild" THEN EachAll(job'.names, LAMBDA n : When(Captured(n), n)) ELSE job'.names
  /\ script' = CASE job'.kind = "rebuild" -> <<[op |-> "recreate"]>>
                 [] job'.kind = "persist" -> PersistScript
                 [] OTHER -> <<>>
  /\ refused' = IF job'.kind = "rebuild" THEN {} ELSE refused
  /\ UNCHANGED <<corpus, stores, cut, loaded, indexed, count>>

EndJob(how) ==
  /\ outcome' = how /\ todo' = <<>> /\ script' = <<>>
  /\ UNCHANGED <<corpus, agenda, graph, points, job, refused, loaded, indexed, refusals>>

\* What a job does with the next source.
ReadSource(name, got) ==
  CASE job.kind = "rebuild" -> EmbedScript(name)
    [] job.kind = "from-jsonl" -> IF job.load THEN Upserts(RowsOf(name)) ELSE <<>>
    [] job.kind = "run" -> Upserts(got.rows)
    [] OTHER -> <<[op |-> "capture", rows |-> got.rows]>>
                \o (IF Loads(job) THEN Upserts(got.rows) ELSE <<>>)
\* Whether it fails before it has done anything: for ingest/historical a
\* capture that is not there is no failure.
FailsAtOnce(name, got) ==
  CASE job.kind = "rebuild" -> FALSE
    [] job.kind = "from-jsonl" -> IF Captured(name) THEN captures[name].torn ELSE corpus = "cultural"
    [] OTHER -> got.raised
NoParse == [raised |-> FALSE, rows |-> <<>>]

\* A source's last command is "done".  A failure ends every job but
\* cultural_reseed, which notes it and goes on.
NextSource ==
  /\ Working /\ script = <<>> /\ todo # <<>>
  /\ \E name \in {Head(todo)} :
     \E got \in {IF job.kind \in {"rebuild", "from-jsonl"} THEN NoParse
                ELSE Parse(corpus, name, job.edition)} :
       IF ~FailsAtOnce(name, got)
       THEN script' = Append(ReadSource(name, got), [op |-> "done"]) /\ UNCHANGED outcome
       ELSE IF corpus = "cultural" /\ job.kind \in {"reseed", "from-jsonl"}
       THEN script' = <<>> /\ outcome' = "faulty"
       ELSE script' = <<[op |-> "raise"]>> /\ UNCHANGED outcome
  /\ todo' = IF script' = <<>> THEN Tail(todo) ELSE todo
  /\ UNCHANGED <<corpus, agenda, stores, job, past, count>>

\* The next command of the script.
Does(op) ==
  /\ Working /\ script # <<>> /\ Head(script).op = op
  /\ UNCHANGED <<corpus, agenda, job>>
Did == script' = Tail(script) /\ UNCHANGED <<todo, outcome>>

\* _write_capture and write_chunks_jsonl
WriteCapture ==
  /\ Does("capture") /\ Did
  /\ captures' = Put(captures, Head(todo), [rows |-> Head(script).rows, torn |-> FALSE])
  /\ cut' = cut \ {Head(todo)} /\ loaded' = loaded \ {Head(todo)}
  /\ indexed' = indexed \ {Head(todo)}
  /\ UNCHANGED <<graph, points, refused, count>>
Upsert ==
  /\ Does("merge") /\ Did
  /\ graph' = RunCommand(graph, Head(script))
  /\ loaded' = loaded \ {Head(todo)}
  /\ UNCHANGED <<captures, points, cut, refused, indexed, count>>
Recreate ==
  /\ Does("recreate") /\ Did
  /\ points' = Recreated(points) /\ indexed' = {}
  /\ UNCHANGED <<captures, graph, cut, refused, loaded, count>>
Embed ==
  /\ Does("embed") /\ Did
  /\ points' = Updated(points, PointsFor(Head(script).rows))
  /\ UNCHANGED <<captures, graph, past, count>>
\* The service refuses the batch; it is dropped and the run goes on.
Refuse ==
  /\ refusals < MaxRefusals /\ Does("embed") /\ Did
  /\ refused' = refused \cup {r.id : r \in Range(Head(script).rows)}
  /\ refusals' = refusals + 1
  /\ UNCHANGED <<stores, cut, loaded, indexed, kills>>
\* set_payload of one point; they come in the order of their hashes.
TagPoint ==
  /\ Does("tag") /\ UNCHANGED <<todo, outcome>>
  /\ LET c == Head(script) IN
     \/ /\ c.left = {}
        /\ script' = Tail(script) /\ UNCHANGED points
     \/ \E id \in c.left :
          /\ points' = [points EXCEPT ![id].tags = TagText(CollectTags[id])]
          /\ script' = [script EXCEPT ![1].left = @ \ {id}]
  /\ UNCHANGED <<captures, graph, past, count>>
TagChunks ==
  /\ Does("attach") /\ Did
  /\ graph' = RunCommand(graph, Head(script))
  /\ UNCHANGED <<captures, points, past, count>>
FinishSource ==
  /\ Does("done") /\ script' = <<>> /\ todo' = Tail(todo) /\ UNCHANGED outcome
  /\ loaded' = IF Loads(job) /\ job.kind # "run" /\ Captured(Head(todo))
               THEN loaded \cup {Head(todo)} ELSE loaded
  /\ indexed' = IF job.kind = "rebuild" THEN indexed \cup {Head(todo)} ELSE indexed
  /\ UNCHANGED <<stores, cut, refused, count>>

\* An exception nobody catches.
Raise ==
  /\ Working /\ script # <<>> /\ Head(script).op = "raise"
  /\ EndJob("failed") /\ UNCHANGED <<captures, cut, kills>>
Finish ==
  /\ Working /\ script = <<>> /\ todo = <<>>
  /\ EndJob(IF outcome = "faulty" THEN "failed" ELSE "ok") /\ UNCHANGED <<captures, cut, kills>>

\* A kill while the capture is written leaves the first lines of it.
Cuts(name, rows) ==
  {Put(captures, name, part) :
     part \in [rows : {SubSeq(rows, 1, n) : n \in 0 .. Len(rows) - 1}, torn : BOOLEAN]}
Kill ==
  /\ Working /\ kills < MaxKills
  /\ kills' = kills + 1
  /\ outcome' = "killed" /\ todo' = <<>> /\ script' = <<>>
  /\ \/ UNCHANGED <<captures, cut, loaded, indexed>>
     \/ /\ script # <<>> /\ Head(script).op = "capture"
        /\ captures' \in Cuts(Head(todo), Head(script).rows)
        /\ cut' = cut \cup {Head(todo)}
        /\ loaded' = loaded \ {Head(todo)} /\ indexed' = indexed \ {Head(todo)}
  /\ UNCHANGED <<corpus, agenda, graph, points, job, refused, refusals>>

\* The agenda is done.
Idle == ~Working /\ agenda = <<>> /\ UNCHANGED vars

Next ==
  \/ Start \/ NextSource \/ WriteCapture \/ Upsert \/ Recreate \/ Embed \/ Refuse
  \/ TagPoint \/ TagChunks \/ FinishSource \/ Raise \/ Finish \/ Kill \/ Idle
Spec == Init /\ [][Next]_vars

-----------------------------------------------------------------------------
(* Properties.                                                             *)

\* Types; the payload and what was embedded keep to MAX_TEXT_CHARS
\* (embed_historical.py:57, embed_cultural.py:51), and only a kill tears a file.
TypeOK ==
  /\ corpus \in {"historical", "cultural"}
  /\ outcome \in {"none", "running", "faulty", "ok", "failed", "killed"}
  /\ cut \cup loaded \cup indexed \subseteq DOMAIN captures
  /\ \A n \in DOMAIN captures : captures[n].torn => n \in cut
  /\ \A id \in DOMAIN points :
       /\ points[id].vec # NoText
       /\ Len(points[id].text) <= MAX_TEXT_CHARS /\ Len(points[id].vec) <= MAX_TEXT_CHARS

\* The last row of each id.
LastRows(rows) ==
  {rows[i] : i \in {k \in DOMAIN rows : \A m \in k + 1 .. Len(rows) : rows[m].id # rows[k].id}}
ChunkLabel == IF corpus = "historical" THEN "HistoricalChunk" ELSE "CulturalChunk"
OwnersOf(id) ==
  {e.a[2].work_id : e \in {x \in DOMAIN graph.edges :
                          x.type = "HAS_CHUNK" /\ x.b[2] = [chunk_id |-> id]}}

\* Whatever was upserted before and wherever a run was killed: once a capture
\* is loaded, each of its rows is a chunk with the text its licence allows and
\* hangs on its own work (the batching of upsert_chunks and
\* upsert_historical_chunks).
LoadedAsRead ==
  \A n \in loaded : \A r \in LastRows(captures[n].rows) :
    \E props \in {graph.nodes[ChunkLabel][k] :
                  k \in DOMAIN graph.nodes[ChunkLabel] \cap {[chunk_id |-> r.id]}} :
      /\ props.text = StoredText(r) /\ props.text_to_embed = r.embed
      /\ r.work \in OwnersOf(r.id)

\* An adapter that insists on its passages gives all of them or no capture:
\* the parse is listed before a line is written (run.py:108), a creed without
\* a faithful page fails its source.
IsWhole(n, rows) ==
  LET ids == {rows[i].id : i \in DOMAIN rows}
  IN  CASE n = "roman_historians" ->
             Cardinality(ids) = Len(EachAll(RomanPassages, LAMBDA p : p.cites))
        [] n = "pliny_melmoth" -> Cardinality(ids) = 2
        [] n = "conciliar" -> Cardinality(ids) = Len(Creeds)
        [] n = "josephus" -> \A r \in Range(rows) : r.id = TfAnchor => r.redact /\ r.embed # r.text
        [] OTHER -> TRUE
CapturesAreWhole == \A n \in DOMAIN captures \ cut : IsWhole(n, captures[n].rows)

\* A clause that is redacted from a chunk is in no vector (embed_file embeds
\* text_to_embed), unless the chunk is nothing else.
Within(c, text) ==
  \E i \in 1 .. Len(text) - Len(c) + 1 : SubSeq(text, i, i + Len(c) - 1) = c
ClausesStayOut ==
  \A id \in DOMAIN points : \A c \in Clauses :
    Within(c, points[id].vec) => points[id].vec = c
\* The same of what the adapters return, before any of it is stored: what the
\* jobs may keep of a source are the rows of a parse that did not raise.
ReturnedBy(c, n) ==
  {got.rows : got \in {x \in {Parse(c, n, j.edition) :
                              j \in {k \in Jobs : Parsing(k) /\ k.corpus = c /\ n \in Range(k.names)}} :
                     ~x.raised}}
SourcesOf(c) == UNION {Range(j.names) : j \in {k \in Jobs : k.corpus = c}}
ParsesAreWhole(c) == \A n \in SourcesOf(c) : \A rows \in ReturnedBy(c, n) : IsWhole(n, rows)
RowsRedacted == \A r \in ParsedRows, c \in Clauses : Within(c, r.embed) => r.embed = c

\* The ids of the captured rows that have a text to embed.
Embeddable(n) == {r.id : r \in {x \in Range(captures[n].rows) : x.embed # NoText}}

\* After a rebuild over all captures, whatever was in the collection: the
\* points are the captured chunks that have a text to embed, but for the
\* batches the service refused.  (_recreate_collection says that they mirror
\* the current graph; what is read are the captures: README.)
IndexMirrorsCaptures ==
  outcome = "ok" /\ job.kind = "rebuild" /\ DOMAIN captures \subseteq Range(job.names) =>
    LET ids == UNION {Embeddable(n) : n \in DOMAIN captures}
    IN  /\ ids \ refused \subseteq DOMAIN points
        /\ DOMAIN points \subseteq ids

\* When persist has ended, a chunk that its records tag and that is in both stores
\* has the same tags in both, and no more than MAX_TAGS_PER_CHUNK (persist_neo4j:
\* "so the graph and the vector store agree").  A chunk they do not name keeps in
\* each store what an earlier persist or upsert left there.
TagsAgree ==
  outcome = "ok" /\ job.kind = "persist" =>
    \A id \in DOMAIN points \cap DOMAIN CollectTags :
      /\ Len(CollectTags[id]) <= MAX_TAGS_PER_CHUNK
      /\ \A k \in DOMAIN graph.nodes["CulturalChunk"] \cap {[chunk_id |-> id]} :
           graph.nodes["CulturalChunk"][k].doctrine_tags = points[id].tags

=============================================================================
