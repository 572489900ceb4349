------------------------- MODULE CorpusIndexProofs -------------------------
(***************************************************************************)
(* Proofs about CorpusIndex for any agendas, captures, sites, batch sizes  *)
(* and bounds: what kinds of commands stand in a script and what the       *)
(* stores hold (Types); the invariant of a rebuild, from which the         *)
(* collection mirrors the captures when the rebuild has ended (RebuildInv);*)
(* that each node of the graph keeps its key and what an upsert may take   *)
(* from it (GraphTypes, Grew); the invariant of persist, from which the    *)
(* two stores agree on the tags when it has ended (PersistInv); and the    *)
(* invariant of a load, from which the graph shows the rows of every       *)
(* capture that was loaded (LoadInv); and that of the captures, from which *)
(* each holds what one parse of its source returned (CaptureInv).          *)
(***************************************************************************)
EXTENDS CorpusIndex, SequenceLemmas

\* The batches together hold what the sequence holds.
LEMMA BatchesHold ==
  ASSUME NEW S, NEW xs \in Seq(S), NEW size \in Nat \ {0}
  PROVE  /\ Batches(xs, size) \in Seq(Seq(S))
         /\ \A b \in Range(Batches(xs, size)) : Range(b) \subseteq Range(xs)
         /\ \A x \in Range(xs) : \E b \in Range(Batches(xs, size)) : x \in Range(b)
<1>1. Batches(xs, size) = CutUp(xs, size)
  BY DEF Batches, CutUp, EndOf, MinOf
<1> QED
  BY <1>1, CutUpHolds

-----------------------------------------------------------------------------
(* Types. *)

EmbedRows == {r \in ParsedRows : r.embed # NoText}
Word(op)  == [op |-> op]
FlushOf(c, b) == IF c = "historical" THEN HistoricalFlush(b) ELSE CulturalFlush(b)
FlushCommands(c) == UNION {Range(FlushOf(c, b)) : b \in Seq(ParsedRows)}
Capturing(rows)  == [op |-> "capture", rows |-> rows]
RebuildCommands ==
  {Word("recreate"), Word("raise"), Word("done")} \cup {Embedding(b) : b \in Seq(EmbedRows)}
SourceCommands(c) ==
  {Word("raise"), Word("done")} \cup {Capturing(rows) : rows \in Seq(ParsedRows)}
    \cup FlushCommands(c)
PersistCommands ==
  {[op |-> "tag", left |-> ids] : ids \in SUBSET (DOMAIN CollectTags)}
    \cup {Attaching(ids) : ids \in Seq(DOMAIN CollectTags)}
CommandsOf(k, c) ==
  IF k = "rebuild" THEN RebuildCommands
  ELSE IF k = "persist" THEN PersistCommands ELSE SourceCommands(c)

Files == [rows : Seq(ParsedRows), torn : BOOLEAN]
IsPoint(p) ==
  /\ p = [text |-> p.text, vec |-> p.vec, license |-> p.license, tags |-> p.tags]
  /\ \E r \in EmbedRows : p.vec = VectorOf(r) /\ p.text = PayloadText(r)

JobTypes ==
  /\ corpus \in {"historical", "cultural"}
  /\ agenda \in Seq({j \in Jobs : j.corpus = corpus})
  /\ outcome \in {"none", "running", "faulty", "ok", "failed", "killed"}
  /\ Working => job \in Jobs /\ job.corpus = corpus
  /\ todo \in Seq(Range(job.names))
StoreTypes ==
  /\ captures = [n \in DOMAIN captures |-> captures[n]]
  /\ \A n \in DOMAIN captures : captures[n] \in Files /\ (captures[n].torn => n \in cut)
  /\ points = [id \in DOMAIN points |-> points[id]]
  /\ \A id \in DOMAIN points : IsPoint(points[id])
  /\ cut \cup loaded \cup indexed \subseteq DOMAIN captures
ScriptTypes ==
  /\ script \in Seq(CommandsOf(job.kind, corpus))
  /\ \A i \in DOMAIN script : script[i].op = "done" => i = Len(script)
  /\ \A c \in Range(script) : c.op = "recreate" => script = <<Word("recreate")>>
  /\ script # <<>> /\ job.kind # "persist" => todo # <<>> \/ script = <<Word("recreate")>>
  /\ job.kind = "rebuild" => Range(todo) \subseteq DOMAIN captures
Types == JobTypes /\ StoreTypes /\ ScriptTypes

\* The commands of each kind of job and their fields.
LEMMA Ops ==
  /\ \A c \in RebuildCommands : c.op \in {"recreate", "raise", "done", "embed"}
  /\ \A c \in RebuildCommands : c.op = "embed" => c.rows \in Seq(EmbedRows) /\ c = Embedding(c.rows)
  /\ \A c \in PersistCommands : c.op \in {"tag", "attach"}
  /\ \A c \in PersistCommands : c.op = "tag" => c.left \subseteq DOMAIN CollectTags
                                               /\ c = [op |-> "tag", left |-> c.left]
  /\ \A c \in PersistCommands : c.op = "attach" => \E ids \in Seq(DOMAIN CollectTags) : c = Attaching(ids)
  /\ \A k : \A c \in FlushCommands(k) : c.op = "merge"
  /\ \A k : \A c \in SourceCommands(k) : c.op \in {"raise", "done", "capture", "merge"}
  /\ \A k : \A c \in SourceCommands(k) : c.op = "capture" => c.rows \in Seq(ParsedRows)
  /\ \A k : \A c \in SourceCommands(k) : c.op = "merge" => c \in FlushCommands(k)
<1>1. \A k : \A c \in FlushCommands(k) : c.op = "merge"
  <2>1. SUFFICES ASSUME NEW k, NEW b \in Seq(ParsedRows), NEW c \in Range(FlushOf(k, b))
                 PROVE  c.op = "merge"
    BY DEF FlushCommands
  <2>2. CASE k = "historical"
    BY <2>1, <2>2 DEF FlushOf, HistoricalFlush, Merging, Range
  <2>3. CASE k # "historical"
    BY <2>1, <2>3 DEF FlushOf, CulturalFlush, Merging, Range
  <2> QED
    BY <2>2, <2>3
<1>2. /\ \A c \in RebuildCommands : c.op \in {"recreate", "raise", "done", "embed"}
      /\ \A c \in RebuildCommands : c.op = "embed" => c.rows \in Seq(EmbedRows) /\ c = Embedding(c.rows)
  BY DEF RebuildCommands, Word, Embedding
<1>3. /\ \A c \in PersistCommands : c.op \in {"tag", "attach"}
      /\ \A c \in PersistCommands : c.op = "tag" => c.left \subseteq DOMAIN CollectTags
                                               /\ c = [op |-> "tag", left |-> c.left]
      /\ \A c \in PersistCommands : c.op = "attach" => \E ids \in Seq(DOMAIN CollectTags) : c = Attaching(ids)
  BY DEF PersistCommands, Attaching
<1>4. /\ \A k : \A c \in SourceCommands(k) : c.op \in {"raise", "done", "capture", "merge"}
      /\ \A k : \A c \in SourceCommands(k) : c.op = "capture" => c.rows \in Seq(ParsedRows)
      /\ \A k : \A c \in SourceCommands(k) : c.op = "merge" => c \in FlushCommands(k)
  BY <1>1 DEF SourceCommands, Word, Capturing
<1> QED
  BY <1>1, <1>2, <1>3, <1>4

\* The commands of an upsert.
LEMMA UpsertsTyped ==
  ASSUME NEW rows \in Seq(ParsedRows)
  PROVE  Upserts(rows) \in Seq(FlushCommands(corpus))
<1> DEFINE bs == Batches(rows, UPSERT_BATCH)
           S  == FlushCommands(corpus)
           seqs == [i \in DOMAIN bs |-> FlushOf(corpus, bs[i])]
<1>1. bs \in Seq(Seq(ParsedRows))
  BY BatchesHold, BatchesAssumption
<1>2. Upserts(rows) = FlattenSeq(seqs)
  BY DEF Upserts, EachAll, Each, FlushOf
<1> HIDE DEF bs
<1>3. ASSUME NEW b \in Seq(ParsedRows) PROVE FlushOf(corpus, b) \in Seq(S)
  <2>1. Range(FlushOf(corpus, b)) \subseteq S
    BY <1>3 DEF FlushCommands
  <2>2. CASE corpus = "historical"
    <3>1. FlushOf(corpus, b) = HistoricalFlush(b)
      BY <2>2 DEF FlushOf
    <3>2. PICK x, y, z : HistoricalFlush(b) = <<x, y, z>>
      BY DEF HistoricalFlush
    <3>3. {x, y, z} \subseteq S
      BY <2>1, <3>1, <3>2 DEF Range
    <3> HIDE DEF S
    <3> QED
      BY <3>1, <3>2, <3>3
  <2>3. CASE corpus # "historical"
    <3>1. FlushOf(corpus, b) = CulturalFlush(b)
      BY <2>3 DEF FlushOf
    <3>2. PICK x, y : CulturalFlush(b) = <<x, y>>
      BY DEF CulturalFlush
    <3>3. {x, y} \subseteq S
      BY <2>1, <3>1, <3>2 DEF Range
    <3> HIDE DEF S
    <3> QED
      BY <3>1, <3>2, <3>3
  <2> QED
    BY <2>2, <2>3
<1>4. \A i \in DOMAIN bs : bs[i] \in Seq(ParsedRows)
  BY <1>1, ElementOfSeq, LenProperties
<1> HIDE DEF S
<1>5. seqs \in [DOMAIN bs -> Seq(S)]
  BY <1>3, <1>4
<1> HIDE DEF seqs
<1>6. seqs \in Seq(Seq(S))
  BY <1>1, <1>5, EachOf
<1> QED
  BY <1>2, <1>6, FlattenRange DEF S

\* The rows of a capture that are embedded.
LEMMA ToEmbed ==
  ASSUME NEW rows \in Seq(ParsedRows)
  PROVE  LET some == EachAll(rows, LAMBDA r : When(r.embed # NoText, r))
         IN  some \in Seq(EmbedRows) /\ Range(some) = {r \in Range(rows) : r.embed # NoText}
<1> DEFINE seqs == [i \in DOMAIN rows |-> When(rows[i].embed # NoText, rows[i])]
           T == {r \in ParsedRows : r.embed # NoText}
<1>1. EachAll(rows, LAMBDA r : When(r.embed # NoText, r)) = FlattenSeq(seqs)
  BY DEF EachAll, Each
<1>2. \A i \in DOMAIN rows : rows[i] \in ParsedRows
  BY ElementOfSeq, LenProperties
<1>3. \A i \in DOMAIN rows : seqs[i] = IF rows[i] \in T THEN <<rows[i]>> ELSE <<>>
  BY <1>2 DEF When
<1>4. seqs \in [DOMAIN rows -> Seq(ParsedRows)]
  <2>1. ASSUME NEW i \in DOMAIN rows PROVE When(rows[i].embed # NoText, rows[i]) \in Seq(ParsedRows)
    BY <1>2, EmptySeq DEF When
  <2> QED
    BY <2>1
<1>6. T \in SUBSET ParsedRows /\ T = EmbedRows
  BY DEF EmbedRows
<1> HIDE DEF seqs
<1>5. FlattenSeq(seqs) \in Seq(T) /\ Range(FlattenSeq(seqs)) = Range(rows) \cap T
  <2> HIDE DEF T
  <2> QED
    BY <1>3, <1>4, <1>6, Filtered
<1>7. Range(rows) \subseteq ParsedRows
  BY <1>2 DEF Range
<1> QED
  BY <1>1, <1>5, <1>6, <1>7

\* The commands for one capture of a rebuild: they embed what is to be embedded
\* and nothing else, unless the file is torn.
LEMMA EmbedScriptOf ==
  ASSUME NEW name, Captured(name), captures[name] \in Files
  PROVE  LET s    == EmbedScript(name)
             some == {r \in Range(captures[name].rows) : r.embed # NoText}
         IN  /\ s \in Seq({Word("raise")} \cup {Embedding(b) : b \in Seq(EmbedRows)})
             /\ \A c \in Range(s) : c.op = "embed" => Range(c.rows) \subseteq some
             /\ \/ Word("raise") \in Range(s)
                \/ \A r \in some : \E c \in Range(s) : c.op = "embed" /\ r \in Range(c.rows)
<1> DEFINE C    == {Word("raise")} \cup {Embedding(b) : b \in Seq(EmbedRows)}
           rows == EachAll(captures[name].rows, LAMBDA r : When(r.embed # NoText, r))
           some == {r \in Range(captures[name].rows) : r.embed # NoText}
           k    == (Len(rows) \div BATCH) * BATCH
           whole == SubSeq(rows, 1, k)
           Cmds(bs) == [i \in DOMAIN bs |-> Embedding(bs[i])]
<1>1. captures[name].rows \in Seq(ParsedRows) /\ RowsOf(name) = captures[name].rows
  BY DEF Files, RowsOf
<1>2. rows \in Seq(EmbedRows) /\ Range(rows) = some
  BY <1>1, ToEmbed
<1>3. EmbedScript(name) = IF captures[name].torn
                          THEN Cmds(Batches(whole, BATCH)) \o <<Word("raise")>>
                          ELSE Cmds(Batches(rows, BATCH))
  BY <1>1 DEF EmbedScript, Each, Word
<1> HIDE DEF rows
<1>4. whole \in Seq(EmbedRows) /\ Range(whole) \subseteq Range(rows)
  <2>1. Len(rows) \in Nat /\ DOMAIN rows = 1 .. Len(rows) /\ BATCH \in Nat \ {0}
    BY <1>2, LenProperties, BatchesAssumption
  <2>2. k \in Nat /\ k <= Len(rows)
    BY <2>1
  <2> HIDE DEF k
  <2>3. /\ whole \in Seq(EmbedRows) /\ Len(whole) = k
        /\ \A i \in 1 .. k : whole[i] = rows[i]
    <3>1. \A i \in 1 .. k : rows[i] \in EmbedRows
      BY <1>2, <2>1, <2>2, ElementOfSeq
    <3>2. SubSeq(rows, 1, k) \in Seq(EmbedRows) /\ Len(SubSeq(rows, 1, k)) = (IF 1 <= k THEN k - 1 + 1 ELSE 0)
          /\ \A i \in 1 .. k - 1 + 1 : SubSeq(rows, 1, k)[i] = rows[1 + i - 1]
      BY <1>2, <2>1, <2>2, <3>1, SubSeqProperties
    <3> QED
      BY <2>2, <3>2
  <2>4. DOMAIN whole = 1 .. k
    BY <2>3, LenProperties
  <2> HIDE DEF whole
  <2> QED
    BY <2>1, <2>2, <2>3, <2>4 DEF Range
<1> HIDE DEF whole, some, C
<1>5. ASSUME NEW xs \in Seq(EmbedRows), NEW bs, bs = Batches(xs, BATCH)
      PROVE  /\ Cmds(bs) \in Seq(C)
             /\ \A c \in Range(Cmds(bs)) : c.op = "embed" /\ Range(c.rows) \subseteq Range(xs)
             /\ \A r \in Range(xs) : \E c \in Range(Cmds(bs)) : c.op = "embed" /\ r \in Range(c.rows)
  <2>1. /\ bs \in Seq(Seq(EmbedRows))
        /\ \A b \in Range(bs) : Range(b) \subseteq Range(xs)
        /\ \A x \in Range(xs) : \E b \in Range(bs) : x \in Range(b)
    BY <1>5, BatchesHold, BatchesAssumption
  <2>2. \A i \in DOMAIN bs : bs[i] \in Seq(EmbedRows) /\ bs[i] \in Range(bs)
    <3>1. \A i \in DOMAIN bs : bs[i] \in Seq(EmbedRows)
      BY <2>1, ElementOfSeq, LenProperties
    <3> QED
      BY <3>1 DEF Range
  <2> DEFINE cs == Cmds(bs)
  <2>3. cs \in [DOMAIN bs -> C] /\ \A i \in DOMAIN bs : cs[i] = Embedding(bs[i])
    BY <2>2 DEF C
  <2> HIDE DEF cs
  <2>4. cs \in Seq(C) /\ DOMAIN cs = DOMAIN bs
    BY <2>1, <2>3, EachOf
  <2>5. \A i \in DOMAIN bs : cs[i].op = "embed" /\ cs[i].rows = bs[i]
    BY <2>3 DEF Embedding
  <2>6. \A c \in Range(cs) : c.op = "embed" /\ Range(c.rows) \subseteq Range(xs)
    <3>1. SUFFICES ASSUME NEW i \in DOMAIN bs
                   PROVE  cs[i].op = "embed" /\ Range(cs[i].rows) \subseteq Range(xs)
      BY <2>4 DEF Range
    <3> QED
      BY <2>1, <2>2, <2>5
  <2>7. ASSUME NEW r \in Range(xs)
        PROVE  \E c \in Range(cs) : c.op = "embed" /\ r \in Range(c.rows)
    <3>1. PICK b \in Range(bs) : r \in Range(b)
      BY <2>1
    <3>2. PICK i \in DOMAIN bs : b = bs[i]
      BY DEF Range
    <3>3. cs[i] \in Range(cs)
      BY <2>4 DEF Range
    <3> QED
      BY <2>5, <3>1, <3>2, <3>3
  <2> QED
    BY <2>4, <2>6, <2>7 DEF cs
<1>6. CASE captures[name].torn
  <2> DEFINE cs == Cmds(Batches(whole, BATCH))
  <2>1. cs \in Seq(C) /\ \A c \in Range(cs) : c.op = "embed" /\ Range(c.rows) \subseteq Range(whole)
    BY <1>4, <1>5
  <2> DEFINE one == <<Word("raise")>>
  <2>2. one \in Seq(C) /\ Range(one) = {Word("raise")} /\ Word("raise").op = "raise"
    BY DEF C, Range, Word
  <2>3. EmbedScript(name) = cs \o one
    BY <1>3, <1>6
  <2> HIDE DEF cs, one
  <2>4. cs \o one \in Seq(C) /\ Range(cs \o one) = Range(cs) \cup {Word("raise")}
    BY <2>1, <2>2, ConcatRange
  <2> QED
    BY <1>2, <1>4, <2>1, <2>2, <2>3, <2>4 DEF C, some
<1>7. CASE ~ captures[name].torn
  <2> DEFINE cs == Cmds(Batches(rows, BATCH))
  <2>1. /\ cs \in Seq(C)
        /\ \A c \in Range(cs) : c.op = "embed" /\ Range(c.rows) \subseteq Range(rows)
        /\ \A r \in Range(rows) : \E c \in Range(cs) : c.op = "embed" /\ r \in Range(c.rows)
    BY <1>2, <1>5
  <2> HIDE DEF cs
  <2>2. EmbedScript(name) = cs
    BY <1>3, <1>7 DEF cs
  <2> QED
    BY <1>2, <2>1, <2>2 DEF C, some
<1> QED
  BY <1>6, <1>7

\* The next command of a script is in sight and the rest is a script.
LEMMA ScriptGoesOn ==
  ASSUME ScriptTypes, script # <<>>, script' = Tail(script), UNCHANGED <<job, corpus, todo>>,
         DOMAIN captures \subseteq DOMAIN captures'
  PROVE  ScriptTypes'
<1> DEFINE C == CommandsOf(job.kind, corpus)
<1>1. script \in Seq(C)
  BY DEF ScriptTypes
<1>2. CommandsOf(job'.kind, corpus') = C
  BY DEF CommandsOf
<1> HIDE DEF C
<1>3. /\ script' \in Seq(C) /\ Len(script') = Len(script) - 1 /\ DOMAIN script' = 1 .. Len(script) - 1
      /\ \A i \in 1 .. Len(script) - 1 : script'[i] = script[i + 1] /\ i + 1 \in DOMAIN script
      /\ Range(script') \subseteq Range(script)
  BY <1>1, TailRange
<1>4. Len(script) \in Nat
  BY <1>1, LenProperties
<1>5. ASSUME NEW i \in DOMAIN script', script'[i].op = "done" PROVE i = Len(script')
  <2>1. i + 1 \in DOMAIN script /\ script[i + 1].op = "done" /\ i \in Int
    BY <1>3, <1>5
  <2>2. i + 1 = Len(script)
    BY <2>1 DEF ScriptTypes
  <2> QED
    BY <1>3, <1>4, <2>1, <2>2
<1>6. script = <<Word("recreate")>> => script' = <<>>
  <2>1. ASSUME script = <<Word("recreate")>> PROVE Len(script) = 1
    BY <2>1
  <2>2. ASSUME script = <<Word("recreate")>> PROVE Len(script') = 0
    BY <1>3, <2>1, <2>2
  <2> QED
    BY <1>3, <2>2, EmptySeq
<1>7. ASSUME NEW c \in Range(script'), c.op = "recreate" PROVE script' = <<Word("recreate")>>
  <2>1. script' = <<>>
    BY <1>3, <1>6, <1>7 DEF ScriptTypes
  <2> QED
    BY <1>7, <2>1 DEF Range
<1>8. script' # <<>> /\ job'.kind # "persist" => todo' # <<>> \/ script' = <<Word("recreate")>>
  BY <1>6 DEF ScriptTypes
<1>9. job'.kind = "rebuild" => Range(todo') \subseteq DOMAIN captures'
  BY DEF ScriptTypes
<1>10. (Word("recreate"))' = Word("recreate")
  BY DEF Word
<1> QED
  BY <1>2, <1>3, <1>5, <1>7, <1>8, <1>9, <1>10 DEF ScriptTypes

\* A script that ends with "done".
LEMMA ScriptEnds ==
  ASSUME NEW C, NEW rs \in Seq(C), Word("done") \in C,
         \A c \in Range(rs) : c.op \notin {"done", "recreate"}
  PROVE  LET s == Append(rs, Word("done"))
         IN  /\ s \in Seq(C) /\ s # <<>> /\ Range(s) = Range(rs) \cup {Word("done")}
             /\ \A i \in DOMAIN s : s[i].op = "done" => i = Len(s)
             /\ \A c \in Range(s) : c.op # "recreate"
<1> DEFINE s == Append(rs, Word("done"))
<1>1. /\ Len(rs) \in Nat /\ DOMAIN rs = 1 .. Len(rs)
      /\ s \in Seq(C) /\ Len(s) = Len(rs) + 1 /\ s[Len(rs) + 1] = Word("done")
      /\ \A i \in 1 .. Len(rs) : s[i] = rs[i]
  BY AppendProperties, LenProperties
<1>2. DOMAIN s = 1 .. Len(rs) + 1 /\ s # <<>>
  BY <1>1, LenProperties, EmptySeq
<1> HIDE DEF s
<1>3. Range(s) = Range(rs) \cup {Word("done")}
  BY <1>1, <1>2 DEF Range
<1>4. \A i \in 1 .. Len(rs) : s[i].op # "done"
  BY <1>1 DEF Range
<1>5. \A i \in DOMAIN s : s[i].op = "done" => i = Len(s)
  BY <1>1, <1>2, <1>4
<1>6. \A c \in Range(s) : c.op # "recreate"
  BY <1>3 DEF Word
<1> QED
  BY <1>1, <1>2, <1>3, <1>5, <1>6 DEF s

\* Where a command of a script's kind is expected.
LEMMA HeadTyped ==
  ASSUME ScriptTypes, script # <<>>
  PROVE  /\ Head(script) \in CommandsOf(job.kind, corpus) /\ Head(script) \in Range(script)
         /\ Tail(script) \in Seq(CommandsOf(job.kind, corpus))
         /\ Range(script) = {Head(script)} \cup Range(Tail(script))
<1> DEFINE C == CommandsOf(job.kind, corpus)
<1>1. script \in Seq(C)
  BY DEF ScriptTypes
<1> HIDE DEF C
<1>2. /\ Head(script) \in C /\ Tail(script) \in Seq(C)
      /\ Range(script) = {Head(script)} \cup Range(Tail(script))
  BY <1>1, TailRange
<1> QED
  BY <1>2 DEF C

\* What a job that parses may get for one of its names.
LEMMA ParsingOf ==
  ASSUME NEW j \in Jobs, Parsing(j), NEW n \in Range(j.names)
  PROVE  Parse(j.corpus, n, j.edition) \in Parsings
<1> DEFINE P(k) == {Parse(k.corpus, x, k.edition) : x \in Range(k.names)}
           J    == {k \in Jobs : Parsing(k)}
<1>1. Parse(j.corpus, n, j.edition) \in P(j)
  OBVIOUS
<1>2. j \in J
  OBVIOUS
<1>3. Parsings = UNION {P(k) : k \in J}
  BY DEF Parsings
<1> HIDE DEF P, J
<1> QED
  BY <1>1, <1>2, <1>3

\* What a job does with a source.
LEMMA ReadSourceTyped ==
  ASSUME JobTypes, StoreTypes, ScriptTypes, Working, todo # <<>>, NEW name, name = Head(todo), NEW got,
         got = IF job.kind \in {"rebuild", "from-jsonl"} THEN NoParse
               ELSE Parse(corpus, name, job.edition)
  PROVE  /\ job.kind # "persist" /\ job \in Jobs /\ job.kind \in Kinds /\ name \in Range(job.names)
         /\ ReadSource(name, got) \in Seq(CommandsOf(job.kind, corpus))
         /\ \A c \in Range(ReadSource(name, got)) : c.op \notin {"done", "recreate"}
<1>1. job \in Jobs /\ job.corpus = corpus /\ job.kind \in Kinds
      /\ (job.kind = "persist" => job.names = <<>>)
  BY AgendasAssumption DEF JobTypes
<1>2. name \in Range(job.names)
  <2> DEFINE N == Range(job.names)
  <2>1. todo \in Seq(N)
    BY DEF JobTypes
  <2> HIDE DEF N
  <2>2. Head(todo) \in N
    BY <2>1, TailRange
  <2> QED
    BY <2>2 DEF N
<1>3. job.kind # "persist"
  BY <1>1, <1>2 DEF Range
<1> DEFINE R == ReadSource(name, got)
<1>4. CASE job.kind = "rebuild"
  <2>1. Captured(name) /\ captures[name] \in Files
    <3> DEFINE N == Range(job.names)
    <3>1. todo \in Seq(N)
      BY DEF JobTypes
    <3> HIDE DEF N
    <3>2. Head(todo) \in Range(todo)
      BY <3>1, TailRange
    <3> QED
      BY <1>4, <3>2 DEF ScriptTypes, StoreTypes, Captured
  <2> DEFINE C == {Word("raise")} \cup {Embedding(b) : b \in Seq(EmbedRows)}
  <2>2. R = EmbedScript(name) /\ EmbedScript(name) \in Seq(C)
    BY <1>4, <2>1, EmbedScriptOf DEF ReadSource
  <2>3. C \subseteq CommandsOf(job.kind, corpus) /\ \A c \in C : c.op \notin {"done", "recreate"}
    BY <1>4 DEF CommandsOf, RebuildCommands, Word, Embedding
  <2> HIDE DEF C
  <2>4. \A i \in 1 .. Len(R) : R[i] \in C /\ DOMAIN R = 1 .. Len(R)
    BY <2>2, ElementOfSeq, LenProperties
  <2> HIDE DEF R
  <2>5. R \in Seq(CommandsOf(job.kind, corpus)) /\ Range(R) \subseteq C
    <3>1. R \in Seq(CommandsOf(job.kind, corpus))
      BY <2>2, <2>3
    <3>2. Len(R) \in Nat /\ DOMAIN R = 1 .. Len(R)
      BY <2>2, LenProperties
    <3> QED
      BY <2>4, <3>1, <3>2 DEF Range
  <2> QED
    BY <1>1, <1>2, <1>3, <2>3, <2>5 DEF R
<1>5. CASE job.kind # "rebuild"
  <2> DEFINE C == SourceCommands(corpus)
             U == FlushCommands(corpus)
  <2>1. CommandsOf(job.kind, corpus) = C
    BY <1>3, <1>5 DEF CommandsOf
  <2>2. U \subseteq C /\ \A c \in U : c.op \notin {"done", "recreate"}
    BY Ops DEF SourceCommands
  <2>3. \A rows \in Seq(ParsedRows) : Upserts(rows) \in Seq(U)
    BY UpsertsTyped
  <2>4. RowsOf(name) \in Seq(ParsedRows)
    BY EmptySeq DEF StoreTypes, Files, RowsOf, Captured
  <2>5. ASSUME job.kind # "from-jsonl" PROVE got.rows \in Seq(ParsedRows)
    <3>1. Parsing(job)
      BY <1>1, <1>3, <1>5, <2>5 DEF Parsing, Kinds
    <3>2. Parse(job.corpus, name, job.edition) \in Parsings
      BY <1>1, <1>2, <3>1, ParsingOf
    <3> QED
      BY <1>1, <1>5, <2>5, <3>2, RowsAssumption
  <2> DEFINE one == <<Capturing(got.rows)>>
  <2>6. ASSUME job.kind # "from-jsonl"
        PROVE one \in Seq(C) /\ Range(one) = {Capturing(got.rows)}
    BY <2>5, <2>6 DEF SourceCommands, Range
  <2> DEFINE ups == Upserts(got.rows)
  <2>7. \/ R = <<>>
        \/ R = Upserts(RowsOf(name))
        \/ R = ups /\ job.kind # "from-jsonl"
        \/ R = one \o ups /\ job.kind # "from-jsonl"
        \/ R = one \o <<>> /\ job.kind # "from-jsonl"
    BY <1>5 DEF ReadSource, Capturing
  <2>8. Capturing(got.rows).op = "capture"
    BY DEF Capturing
  <2>9. \A s \in Seq(U) : s \in Seq(C) /\ Range(s) \subseteq U
    <3> HIDE DEF U, C
    <3>1. SUFFICES ASSUME NEW s \in Seq(U) PROVE s \in Seq(C) /\ Range(s) \subseteq U
      OBVIOUS
    <3>2. s \in Seq(C)
      BY <2>2
    <3>3. DOMAIN s = 1 .. Len(s) /\ \A i \in 1 .. Len(s) : s[i] \in U
      BY ElementOfSeq, LenProperties
    <3> QED
      BY <3>2, <3>3 DEF Range
  <2>10. <<>> \in Seq(C) /\ <<>> \in Seq(U)
    BY EmptySeq
  <2> HIDE DEF R, C, U, one, ups
  <2>11. ASSUME job.kind # "from-jsonl", NEW s \in Seq(U)
         PROVE  one \o s \in Seq(C) /\ Range(one \o s) \subseteq {Capturing(got.rows)} \cup U
    <3>1. s \in Seq(C) /\ Range(s) \subseteq U /\ one \in Seq(C) /\ Range(one) = {Capturing(got.rows)}
      BY <2>6, <2>9, <2>11
    <3>2. one \o s \in Seq(C) /\ Range(one \o s) = Range(one) \cup Range(s)
      BY <3>1, ConcatRange
    <3> QED
      BY <3>1, <3>2
  <2>12. ASSUME job.kind # "from-jsonl" PROVE ups \in Seq(U)
    BY <2>3, <2>5, <2>12 DEF ups
  <2>13. R \in Seq(C) /\ Range(R) \subseteq {Capturing(got.rows)} \cup U
    <3>1. CASE R = <<>>
      BY <2>9, <2>10, <3>1
    <3>2. CASE R = Upserts(RowsOf(name))
      BY <2>3, <2>4, <2>9, <3>2
    <3>3. CASE R = ups /\ job.kind # "from-jsonl"
      BY <2>9, <2>12, <3>3
    <3>4. CASE R = one \o ups /\ job.kind # "from-jsonl"
      BY <2>11, <2>12, <3>4
    <3>5. CASE R = one \o <<>> /\ job.kind # "from-jsonl"
      BY <2>10, <2>11, <3>5
    <3> QED
      BY <2>7, <3>1, <3>2, <3>3, <3>4, <3>5
  <2>14. \A c \in Range(R) : c.op \notin {"done", "recreate"}
    BY <2>2, <2>8, <2>13
  <2> QED
    BY <1>1, <1>2, <1>3, <2>1, <2>13, <2>14 DEF R
<1> QED
  BY <1>4, <1>5

\* FirstBy leaves a row for each value of f, and no other row.
LEMMA FirstByHolds ==
  ASSUME NEW S, NEW rows \in Seq(S), NEW f
  PROVE  /\ FirstBy(f, rows) \in Seq(S)
         /\ Range(FirstBy(f, rows)) \subseteq Range(rows)
         /\ \A r \in Range(rows) : \E q \in Range(FirstBy(f, rows)) : q[f] = r[f]
<1> DEFINE New(i) == \A j \in 1 .. i - 1 : rows[j][f] # rows[i][f]
           seqs   == [i \in DOMAIN rows |-> When(New(i), rows[i])]
<1>1. FirstBy(f, rows) = FlattenSeq(seqs)
  <2>1. DOMAIN [i \in DOMAIN rows |-> i] = DOMAIN rows
    OBVIOUS
  <2> QED
    BY <2>1 DEF FirstBy, EachAll, Each
<1>2. DOMAIN rows = 1 .. Len(rows) /\ Len(rows) \in Nat /\ \A i \in DOMAIN rows : rows[i] \in S
  BY LenProperties, ElementOfSeq
<1> DEFINE News == {i \in DOMAIN rows : New(i)}
<1>3. \A i \in DOMAIN rows : seqs[i] = IF i \in News THEN <<rows[i]>> ELSE <<>>
  BY DEF When
<1>4. seqs \in [DOMAIN rows -> Seq(S)]
  <2>1. ASSUME NEW i \in DOMAIN rows PROVE When(New(i), rows[i]) \in Seq(S)
    BY <1>2, EmptySeq DEF When
  <2> QED
    BY <2>1
<1> HIDE DEF seqs, News
<1>5. seqs \in Seq(Seq(S)) /\ DOMAIN seqs = DOMAIN rows /\ Len(seqs) = Len(rows)
  BY <1>4, EachOf
<1>6. /\ FlattenSeq(seqs) \in Seq(S)
      /\ Range(FlattenSeq(seqs)) = UNION {Range(seqs[i]) : i \in 1 .. Len(rows)}
  BY <1>5, FlattenRange
<1>7. Range(FlattenSeq(seqs)) \subseteq Range(rows)
  <2>1. ASSUME NEW i \in DOMAIN rows PROVE Range(seqs[i]) \subseteq Range(rows)
    <3>1. seqs[i] = <<rows[i]>> \/ seqs[i] = <<>>
      BY <1>3
    <3> QED
      BY <3>1 DEF Range
  <2> QED
    BY <1>2, <1>6, <2>1
<1>8. ASSUME NEW r \in Range(rows) PROVE \E q \in Range(FlattenSeq(seqs)) : q[f] = r[f]
  <2> DEFINE T == {i \in 1 .. Len(rows) : rows[i][f] = r[f]}
  <2>1. T # {} /\ T \subseteq Nat
    BY <1>2, <1>8 DEF Range
  <2>2. PICK i \in T : \A j \in T : i <= j
    <3> HIDE DEF T
    <3> QED
      BY <2>1, LeastNumber
  <2>3. New(i)
    <3>1. ASSUME NEW j \in 1 .. i - 1, rows[j][f] = rows[i][f] PROVE FALSE
      <4>1. j \in T /\ j < i
        BY <1>2, <2>2, <3>1
      <4> QED
        BY <2>2, <4>1
    <3> QED
      BY <3>1
  <2>4. seqs[i] = <<rows[i]>> /\ i \in 1 .. Len(rows) /\ rows[i][f] = r[f]
    <3>1. i \in News /\ i \in 1 .. Len(rows) /\ rows[i][f] = r[f] /\ i \in DOMAIN rows
      BY <1>2, <2>2, <2>3 DEF News
    <3> QED
      BY <1>3, <3>1
  <2>5. rows[i] \in Range(seqs[i])
    BY <2>4 DEF Range
  <2>6. rows[i] \in Range(FlattenSeq(seqs))
    BY <1>6, <2>4, <2>5
  <2> QED
    BY <2>4, <2>6
<1> QED
  BY <1>1, <1>6, <1>7, <1>8

\* The records with tags to keep.
LEMMA KeptTagsTyped ==
  /\ KeptTags \in Seq({Keep(rec) : rec \in Range(TaggedFiles)})
  /\ DOMAIN CollectTags = {k.id : k \in Range(KeptTags)}
<1> DEFINE K == {Keep(rec) : rec \in Range(TaggedFiles)}
           seqs == [i \in DOMAIN TaggedFiles |->
                      When(ValidTags(TaggedFiles[i].tags) # <<>>, Keep(TaggedFiles[i]))]
<1>1. KeptTags = FlattenSeq(seqs)
  BY DEF KeptTags, EachAll, Each
<1>2. TaggedFiles \in Seq(Range(TaggedFiles))
  BY TagsAssumption
<1>3. seqs \in [DOMAIN TaggedFiles -> Seq(K)]
  <2>1. ASSUME NEW i \in DOMAIN TaggedFiles
        PROVE  When(ValidTags(TaggedFiles[i].tags) # <<>>, Keep(TaggedFiles[i])) \in Seq(K)
    <3>1. Keep(TaggedFiles[i]) \in K
      BY DEF Range
    <3> HIDE DEF K
    <3> QED
      BY <3>1, EmptySeq DEF When
  <2> QED
    BY <2>1
<1> HIDE DEF seqs, K
<1>4. seqs \in Seq(Seq(K))
  BY <1>2, <1>3, EachOf
<1>5. KeptTags \in Seq(K)
  BY <1>1, <1>4, FlattenRange
<1>6. DOMAIN CollectTags = {k.id : k \in Range(KeptTags)}
  BY DEF CollectTags, Range
<1> QED
  BY <1>5, <1>6 DEF K

\* Every chunk with tags is in the list that persist_neo4j cuts into batches.
LEMMA TaggedIdsTyped ==
  TaggedIds \in Seq(DOMAIN CollectTags) /\ Range(TaggedIds) = DOMAIN CollectTags
<1> DEFINE D == DOMAIN CollectTags
           F == FirstBy("id", KeptTags)
           S == Range(F)
<1>1. /\ F \in Seq({Keep(rec) : rec \in Range(TaggedFiles)})
      /\ S \subseteq Range(KeptTags)
      /\ \A r \in Range(KeptTags) : \E q \in S : q["id"] = r["id"]
  BY KeptTagsTyped, FirstByHolds
<1>2. DOMAIN F = 1 .. Len(F) /\ Len(F) \in Nat
  BY <1>1, LenProperties
<1>3. TaggedIds = [i \in DOMAIN F |-> F[i].id]
  BY DEF TaggedIds, Each
<1> HIDE DEF F
<1>4. \A i \in DOMAIN F : F[i].id \in D
  BY <1>1, KeptTagsTyped DEF Range
<1>5. TaggedIds \in [DOMAIN F -> D]
  BY <1>3, <1>4
<1> HIDE DEF D
<1>6. TaggedIds \in Seq(D)
  BY <1>1, <1>5, EachOf
<1>7. Range(TaggedIds) \subseteq D
  BY <1>5 DEF Range
<1>8. ASSUME NEW d \in D PROVE d \in Range(TaggedIds)
  <2>1. PICK k \in Range(KeptTags) : d = k.id
    BY KeptTagsTyped DEF D
  <2>2. PICK q \in S : q.id = d
    BY <1>1, <2>1
  <2>3. PICK i \in DOMAIN F : q = F[i]
    BY <2>2 DEF Range
  <2> QED
    BY <1>3, <2>2, <2>3 DEF Range
<1> QED
  BY <1>6, <1>7, <1>8 DEF D

\* persist tags the points and attaches the tags of all chunks that have some.
LEMMA PersistScriptTyped ==
  LET tag == [op |-> "tag", left |-> DOMAIN points \cap DOMAIN CollectTags]
  IN  /\ PersistScript \in Seq(PersistCommands)
      /\ PersistScript # <<>> /\ Head(PersistScript) = tag
      /\ \A c \in Range(Tail(PersistScript)) : c.op = "attach"
      /\ \A id \in DOMAIN CollectTags :
           \E c \in Range(PersistScript) : c.op = "attach" /\ TagRow(id) \in Range(c.rows)
<1> DEFINE D   == DOMAIN CollectTags
           tag == [op |-> "tag", left |-> DOMAIN points \cap D]
           one == <<tag>>
           bs  == PersistBatches(TaggedIds)
           cs  == [i \in DOMAIN bs |-> Attaching(bs[i])]
<1>1. PersistScript = one \o cs
  BY DEF PersistScript, Each
<1>2. TaggedIds \in Seq(D) /\ Range(TaggedIds) = D
  BY TaggedIdsTyped
<1> HIDE DEF D
<1>3. /\ bs \in Seq(Seq(D))
      /\ \A x \in Range(TaggedIds) : \E b \in Range(bs) : x \in Range(b)
  BY <1>2, BatchesHold, BatchesAssumption DEF PersistBatches
<1> HIDE DEF bs
<1>4. \A i \in DOMAIN bs : bs[i] \in Seq(D)
  BY <1>3, ElementOfSeq, LenProperties
<1>5. \A ids \in Seq(D) : Attaching(ids) \in PersistCommands
  BY DEF D, PersistCommands
<1>6. cs \in [DOMAIN bs -> PersistCommands]
  BY <1>4, <1>5
<1>7. \A i \in DOMAIN bs : cs[i] = Attaching(bs[i])
  OBVIOUS
<1>8. tag \in PersistCommands
  BY DEF D, PersistCommands
<1> HIDE DEF cs, tag
<1>9. cs \in Seq(PersistCommands) /\ DOMAIN cs = DOMAIN bs
  BY <1>3, <1>6, EachOf
<1>10. one \in Seq(PersistCommands) /\ Len(one) = 1 /\ one[1] = tag /\ Range(one) = {tag}
  BY <1>8 DEF Range
<1> HIDE DEF one
<1>11. /\ one \o cs \in Seq(PersistCommands)
       /\ Range(one \o cs) = {tag} \cup Range(cs)
  BY <1>9, <1>10, ConcatRange
<1>12. one \o cs # <<>> /\ Head(one \o cs) = tag /\ Tail(one \o cs) = cs
  <2>1. /\ Len(one \o cs) = 1 + Len(cs) /\ Len(cs) \in Nat
        /\ \A i \in 1 .. 1 + Len(cs) : (one \o cs)[i] = IF i <= 1 THEN one[i] ELSE cs[i - 1]
    <3>1. Len(cs) \in Nat
      BY <1>9, LenProperties
    <3>2. /\ Len(one \o cs) = Len(one) + Len(cs)
          /\ \A i \in 1 .. Len(one) + Len(cs) :
               (one \o cs)[i] = IF i <= Len(one) THEN one[i] ELSE cs[i - Len(one)]
      BY <1>9, <1>10, ConcatProperties
    <3> QED
      BY <1>10, <3>1, <3>2
  <2> DEFINE s == one \o cs
  <2>2. s \in Seq(PersistCommands) /\ Len(s) = 1 + Len(cs)
    BY <1>11, <2>1
  <2>3. s # <<>>
    BY <2>1, <2>2, EmptySeq
  <2>4. Head(s) = s[1] /\ s[1] = tag
    <3>1. 1 \in 1 .. 1 + Len(cs)
      BY <2>1
    <3>2. s[1] = tag
      BY <1>10, <2>1, <3>1
    <3> HIDE DEF s
    <3> QED
      BY <2>2, <2>3, <3>2, TailRange
  <2>5. Tail(s) = cs
    <3>1. \A i \in 1 .. Len(cs) : s[i + 1] = cs[i]
      <4>1. \A i \in 1 .. Len(cs) : i + 1 \in 1 .. 1 + Len(cs) /\ ~ (i + 1 <= 1) /\ (i + 1) - 1 = i
        BY <2>1
      <4> QED
        BY <2>1, <4>1
    <3> HIDE DEF s
    <3>2. /\ Tail(s) \in Seq(PersistCommands) /\ Len(Tail(s)) = Len(cs)
          /\ \A i \in 1 .. Len(cs) : Tail(s)[i] = s[i + 1]
      BY <2>1, <2>2, <2>3, TailRange
    <3>3. DOMAIN Tail(s) = 1 .. Len(cs) /\ DOMAIN cs = 1 .. Len(cs)
      BY <1>9, <3>2, LenProperties
    <3> QED
      BY <1>9, <3>1, <3>2, <3>3, SeqEqual
  <2> QED
    BY <2>3, <2>4, <2>5
<1>13. \A i \in DOMAIN bs :
         cs[i].op = "attach" /\ cs[i].rows = [j \in DOMAIN bs[i] |-> TagRow(bs[i][j])]
  <2>1. \A ids : /\ Attaching(ids).op = "attach"
                 /\ Attaching(ids).rows = [j \in DOMAIN ids |-> TagRow(ids[j])]
    BY DEF Attaching, Each
  <2> QED
    BY <1>7, <2>1
<1>14. \A c \in Range(cs) : c.op = "attach"
  BY <1>9, <1>13 DEF Range
<1>15. ASSUME NEW id \in D PROVE \E c \in Range(cs) : c.op = "attach" /\ TagRow(id) \in Range(c.rows)
  <2>1. PICK b \in Range(bs) : id \in Range(b)
    BY <1>2, <1>3
  <2>2. PICK i \in DOMAIN bs : b = bs[i]
    BY DEF Range
  <2>3. PICK j \in DOMAIN b : id = b[j]
    BY <2>1 DEF Range
  <2>4. TagRow(id) \in Range([k \in DOMAIN b |-> TagRow(b[k])])
    BY <2>3 DEF Range
  <2>5. cs[i] \in Range(cs)
    BY <1>9, <2>2 DEF Range
  <2> QED
    BY <1>13, <2>2, <2>4, <2>5
<1> QED
  BY <1>1, <1>11, <1>12, <1>14, <1>15 DEF D, tag

\* A set of places has a last one.
LEMMA LastPlace ==
  ASSUME NEW n \in Nat, NEW T \in SUBSET (1 .. n), T # {}
  PROVE  \E x \in T : \A y \in T : y <= x
<1> DEFINE U == {n - i : i \in T}
<1>1. U \subseteq Nat /\ U # {}
  <2>1. \A i \in 1 .. n : n - i \in Nat
    OBVIOUS
  <2>2. \A i \in T : i \in 1 .. n
    OBVIOUS
  <2> QED
    BY <2>1, <2>2
<1>2. PICK u \in U : \A v \in U : u <= v
  <2> HIDE DEF U
  <2> QED
    BY <1>1, LeastNumber
<1>3. PICK x \in T : u = n - x
  BY <1>2
<1>4. ASSUME NEW y \in T PROVE y <= x
  <2>1. n - y \in U
    OBVIOUS
  <2>2. n - x <= n - y /\ x \in 1 .. n /\ y \in 1 .. n
    BY <1>2, <1>3, <2>1
  <2> QED
    BY <2>2
<1> QED
  BY <1>4

\* A batch gives a point for each of its ids.
LEMMA PointsForTyped ==
  ASSUME NEW rows \in Seq(EmbedRows)
  PROVE  /\ PointsFor(rows) = [id \in {r.id : r \in Range(rows)} |-> PointsFor(rows)[id]]
         /\ \A id \in {r.id : r \in Range(rows)} : IsPoint(PointsFor(rows)[id])
<1>1. DOMAIN rows = 1 .. Len(rows) /\ Len(rows) \in Nat /\ \A i \in DOMAIN rows : rows[i] \in EmbedRows
  BY LenProperties, ElementOfSeq
<1> DEFINE T(id)  == {i \in DOMAIN rows : rows[i].id = id}
           ids    == {r.id : r \in Range(rows)}
           at(id) == CHOOSE i \in DOMAIN rows :
                       rows[i].id = id /\ \A k \in DOMAIN rows : rows[k].id = id => k <= i
<1>2. ids = {rows[i].id : i \in DOMAIN rows}
  BY DEF Range
<1>3. PointsFor(rows) = [id \in ids |-> PointFor(rows[at(id)])]
  BY <1>2 DEF PointsFor
<1>4. ASSUME NEW id \in ids PROVE at(id) \in DOMAIN rows
  <2>1. T(id) # {} /\ T(id) \in SUBSET (1 .. Len(rows))
    BY <1>1, <1>2
  <2>2. \E x \in T(id) : \A y \in T(id) : y <= x
    <3> HIDE DEF T
    <3> QED
      BY <1>1, <2>1, LastPlace
  <2>3. \E i \in DOMAIN rows :
           rows[i].id = id /\ \A k \in DOMAIN rows : rows[k].id = id => k <= i
    BY <2>2
  <2> QED
    BY <2>3
<1> HIDE DEF at, ids
<1>5. \A r \in EmbedRows : IsPoint(PointFor(r))
  BY DEF IsPoint, PointFor
<1>6. \A id \in ids : IsPoint(PointFor(rows[at(id)]))
  BY <1>1, <1>4, <1>5
<1>7. \A id \in ids : PointsFor(rows)[id] = PointFor(rows[at(id)])
  BY <1>3
<1>8. PointsFor(rows) = [id \in ids |-> PointsFor(rows)[id]]
  BY <1>3
<1> QED
  BY <1>6, <1>7, <1>8 DEF ids

\* Nothing is captured, stored or begun.
LEMMA InitTypes == ASSUME Init PROVE Types
<1>1. JobTypes
  <2>1. agenda \in Seq(Jobs) /\ agenda # <<>> /\ \A i, k \in DOMAIN agenda : agenda[i].corpus = agenda[k].corpus
    BY AgendasAssumption DEF Init
  <2>2. Head(agenda) = agenda[1] /\ Head(agenda) \in Jobs /\ 1 \in DOMAIN agenda
    BY <2>1, TailRange
  <2>3. corpus = agenda[1].corpus /\ corpus \in {"historical", "cultural"}
    BY <2>2, AgendasAssumption DEF Init
  <2>4. DOMAIN agenda = 1 .. Len(agenda) /\ Len(agenda) \in Nat /\ \A i \in DOMAIN agenda : agenda[i] \in Jobs
    BY <2>1, LenProperties, ElementOfSeq
  <2> DEFINE J == {j \in Jobs : j.corpus = corpus}
  <2>5. \A i \in DOMAIN agenda : agenda[i] \in J
    BY <2>1, <2>2, <2>3, <2>4
  <2>6. agenda \in Seq(J)
    <3> HIDE DEF J
    <3>1. agenda = [i \in 1 .. Len(agenda) |-> agenda[i]]
      BY <2>1, LenProperties
    <3>2. agenda \in [1 .. Len(agenda) -> J]
      BY <2>4, <2>5, <3>1
    <3> QED
      BY <2>4, <3>2, SeqDef
  <2>7. todo \in Seq(Range(job.names))
    BY EmptySeq DEF Init
  <2> QED
    BY <2>3, <2>6, <2>7 DEF JobTypes, Init, Working
<1>2. StoreTypes
  BY DEF Init, StoreTypes
<1>3. ScriptTypes
  <2>1. script = <<>> /\ todo = <<>> /\ job.kind = "none"
    BY DEF Init, NoJob
  <2> QED
    BY <2>1, EmptySeq DEF ScriptTypes, Range
<1> QED
  BY <1>1, <1>2, <1>3 DEF Types

\* A sequence is one of what it holds.
LEMMA RangeOf ==
  ASSUME NEW S, NEW N \in Seq(S)
  PROVE  N \in Seq(Range(N)) /\ Range(N) \subseteq S
<1>1. /\ DOMAIN N = 1 .. Len(N) /\ Len(N) \in Nat /\ N = [i \in 1 .. Len(N) |-> N[i]]
      /\ \A i \in 1 .. Len(N) : N[i] \in S
  BY LenProperties, ElementOfSeq
<1>2. N \in [1 .. Len(N) -> Range(N)]
  BY <1>1 DEF Range
<1>3. N \in Seq(Range(N))
  BY <1>1, <1>2, SeqDef
<1> QED
  BY <1>1, <1>3 DEF Range

\* A rebuild takes the captures of its list that are there.
LEMMA StartTodo ==
  ASSUME Start, job'.kind = "rebuild", job'.names \in Seq(Range(job'.names))
  PROVE  /\ todo' \in Seq(Range(job'.names))
         /\ Range(todo') = Range(job'.names) \cap DOMAIN captures
<1> DEFINE N == job'.names
           T == {n \in Range(N) : n \in DOMAIN captures}
           seqs == [i \in DOMAIN N |-> When(Captured(N[i]), N[i])]
<1>1. todo' = FlattenSeq(seqs)
  BY DEF Start, EachAll, Each
<1> HIDE DEF N
<1>2. \A i \in DOMAIN N : N[i] \in Range(N)
  BY DEF Range
<1>3. \A i \in DOMAIN N : seqs[i] = IF N[i] \in T THEN <<N[i]>> ELSE <<>>
  BY <1>2 DEF When, Captured
<1>4. seqs \in [DOMAIN N -> Seq(Range(N))]
  <2>1. ASSUME NEW i \in DOMAIN N PROVE When(Captured(N[i]), N[i]) \in Seq(Range(N))
    BY <1>2, EmptySeq DEF When
  <2> QED
    BY <2>1
<1>5. T \in SUBSET Range(N)
  OBVIOUS
<1> HIDE DEF seqs, T
<1>6. FlattenSeq(seqs) \in Seq(T) /\ Range(FlattenSeq(seqs)) = Range(N) \cap T
  <2>1. N \in Seq(Range(N))
    BY DEF N
  <2> QED
    BY <1>3, <1>4, <1>5, <2>1, Filtered
<1>7. FlattenSeq(seqs) \in Seq(Range(N))
  BY <1>5, <1>6
<1> QED
  BY <1>1, <1>6, <1>7 DEF N, T

\* Jobs begin and end.
LEMMA StartTypes == ASSUME Types, Start PROVE Types'
<1> DEFINE J == {j \in Jobs : j.corpus = corpus}
<1>1. agenda \in Seq(J) /\ agenda # <<>> /\ job' = Head(agenda) /\ agenda' = Tail(agenda)
      /\ corpus' = corpus /\ outcome' = "running"
  BY DEF Types, JobTypes, Start
<1>2. job' \in J /\ agenda' \in Seq(J)
  <2> HIDE DEF J
  <2> QED
    BY <1>1, TailRange
<1>3. job' \in Jobs /\ job'.corpus = corpus /\ job'.kind \in Kinds /\ job'.names \in Seq(STRING)
      /\ (job'.kind = "persist" => job'.corpus = "cultural" /\ job'.names = <<>>)
  BY <1>2, AgendasAssumption
<1> DEFINE N == job'.names
<1>4. N \in Seq(Range(N)) /\ N \in Seq(STRING)
  BY <1>3, RangeOf
<1> HIDE DEF N
<1>5. /\ job'.kind = "rebuild" => /\ todo' \in Seq(Range(N))
                                 /\ Range(todo') = Range(N) \cap DOMAIN captures
      /\ job'.kind # "rebuild" => todo' = N
  BY <1>4, StartTodo DEF Start, N
<1>13. todo' \in Seq(Range(N)) /\ (job'.kind = "rebuild" => Range(todo') \subseteq DOMAIN captures)
  BY <1>4, <1>5
<1>14. JobTypes'
  <2>1. (Range(job.names))' = Range(N)
    BY DEF N, Range
  <2>2. {j \in Jobs : j.corpus = corpus}' = J
    BY <1>1
  <2> QED
    BY <1>1, <1>2, <1>3, <1>13, <2>1, <2>2 DEF JobTypes, Types, Working
<1>15. StoreTypes'
  BY DEF Start, StoreTypes, Types, IsPoint, stores
<1>16. ScriptTypes'
  <2> DEFINE C == CommandsOf(job'.kind, corpus)
  <2>1. (CommandsOf(job.kind, corpus))' = C /\ captures' = captures
    BY <1>1 DEF Start, CommandsOf, stores
  <2>2. CASE job'.kind = "rebuild"
    <3> DEFINE one == <<Word("recreate")>>
    <3>1. script' = one
      BY <2>2 DEF Start, Word
    <3>2. Word("recreate") \in C /\ Word("recreate").op # "done"
      BY <2>2 DEF CommandsOf, RebuildCommands, Word
    <3>3. one \in Seq(C) /\ \A i \in DOMAIN one : one[i].op # "done"
      BY <3>2
    <3>4. (Word("recreate"))' = Word("recreate")
      BY DEF Word
    <3> HIDE DEF C
    <3> QED
      BY <1>13, <2>1, <2>2, <3>1, <3>3, <3>4 DEF ScriptTypes
  <2>3. CASE job'.kind = "persist"
    <3> DEFINE ps == PersistScript
    <3>1. script' = ps
      BY <2>3 DEF Start
    <3>2. ps \in Seq(PersistCommands) /\ C = PersistCommands
      BY <2>3, PersistScriptTyped DEF CommandsOf
    <3> HIDE DEF ps
    <3>3. \A i \in DOMAIN ps : ps[i] \in PersistCommands
      BY <3>2, ElementOfSeq, LenProperties
    <3>4. \A i \in DOMAIN ps : ps[i].op # "done" /\ ps[i].op # "recreate"
      BY <3>3, Ops
    <3> HIDE DEF C
    <3>5. \A c \in Range(script') : c.op # "recreate"
      BY <3>1, <3>4 DEF Range
    <3> QED
      BY <2>1, <2>3, <3>1, <3>2, <3>4, <3>5 DEF ScriptTypes
  <2>4. CASE job'.kind \notin {"rebuild", "persist"}
    <3>1. script' = <<>>
      BY <2>4 DEF Start
    <3> QED
      BY <2>1, <2>4, <3>1, EmptySeq DEF ScriptTypes, Range
  <2> QED
    BY <2>2, <2>3, <2>4
<1> QED
  BY <1>14, <1>15, <1>16 DEF Types

\* The commands for the next source, or none when it failed at once.
LEMMA NextSourceTypes == ASSUME Types, NextSource PROVE Types'
<1>1. /\ JobTypes /\ StoreTypes /\ ScriptTypes /\ Working /\ script = <<>> /\ todo # <<>>
      /\ UNCHANGED <<corpus, agenda, job, captures, graph, points, cut, refused, loaded, indexed>>
  BY DEF Types, NextSource, stores, past
<1> DEFINE name == Head(todo)
           got  == IF job.kind \in {"rebuild", "from-jsonl"} THEN NoParse
                   ELSE Parse(corpus, name, job.edition)
           R    == ReadSource(name, got)
           C    == CommandsOf(job.kind, corpus)
           s    == Append(R, Word("done"))
<1>2. /\ job.kind # "persist" /\ job \in Jobs /\ job.kind \in Kinds
      /\ R \in Seq(C) /\ \A c \in Range(R) : c.op \notin {"done", "recreate"}
  BY <1>1, ReadSourceTyped
<1>3. Word("done") \in C /\ Word("raise") \in C /\ Word("raise").op = "raise"
  BY <1>2 DEF CommandsOf, RebuildCommands, SourceCommands, Word
<1>4. \/ script' = s /\ outcome' = outcome
      \/ script' = <<>> /\ outcome' = "faulty" /\ corpus = "cultural"
      \/ script' = <<Word("raise")>> /\ outcome' = outcome
  BY DEF NextSource, Word
<1>5. todo' = IF script' = <<>> THEN Tail(todo) ELSE todo
  BY DEF NextSource
<1>6. (CommandsOf(job.kind, corpus))' = C
  BY <1>1 DEF CommandsOf
<1>7. todo' \in Seq(Range(job.names)) /\ Range(todo') \subseteq Range(todo)
  <2> DEFINE N == Range(job.names)
  <2>1. todo \in Seq(N)
    BY <1>1 DEF JobTypes
  <2> HIDE DEF N
  <2>2. Tail(todo) \in Seq(N) /\ Range(Tail(todo)) \subseteq Range(todo)
    BY <1>1, <2>1, TailRange
  <2>3. todo' \in Seq(N) /\ Range(todo') \subseteq Range(todo)
    BY <1>5, <2>1, <2>2
  <2> QED
    BY <2>3 DEF N
<1>8. JobTypes'
  <2>1. (Range(job.names))' = Range(job.names)
    BY <1>1 DEF Range
  <2> QED
    BY <1>1, <1>4, <1>7, <2>1 DEF JobTypes, Working
<1>9. StoreTypes'
  BY <1>1 DEF StoreTypes, IsPoint
<1> HIDE DEF R, C
<1>10. ScriptTypes'
  <2>1. /\ s \in Seq(C) /\ s # <<>> /\ \A i \in DOMAIN s : s[i].op = "done" => i = Len(s)
        /\ \A c \in Range(s) : c.op # "recreate"
    BY <1>2, <1>3, ScriptEnds
  <2> HIDE DEF s
  <2>2. job'.kind = "rebuild" => Range(todo') \subseteq DOMAIN captures'
    BY <1>1, <1>7 DEF ScriptTypes
  <2>3. CASE script' = s
    BY <1>1, <1>5, <1>6, <2>1, <2>2, <2>3 DEF ScriptTypes
  <2>4. CASE script' = <<>>
    BY <1>6, <2>2, <2>4, EmptySeq DEF ScriptTypes, Range
  <2>5. CASE script' = <<Word("raise")>>
    <3> DEFINE one == <<Word("raise")>>
    <3>1. /\ one \in Seq(C) /\ one # <<>> /\ \A i \in DOMAIN one : one[i].op = "raise"
          /\ \A c \in Range(one) : c.op # "recreate"
      BY <1>3 DEF Range
    <3> HIDE DEF one
    <3>2. script' = one
      BY <2>5 DEF one
    <3> QED
      BY <1>1, <1>5, <1>6, <2>2, <3>1, <3>2 DEF ScriptTypes
  <2> QED
    BY <1>4, <2>3, <2>4, <2>5 DEF s
<1> QED
  BY <1>8, <1>9, <1>10 DEF Types

\* A command done leaves the job as it is.
LEMMA DidTypes ==
  ASSUME Types, NEW op, Does(op), Did, DOMAIN captures \subseteq DOMAIN captures'
  PROVE  JobTypes' /\ ScriptTypes'
<1>1. UNCHANGED <<corpus, agenda, job, todo, outcome>> /\ script # <<>> /\ script' = Tail(script)
  BY DEF Does, Did
<1>2. ScriptTypes'
  BY <1>1, ScriptGoesOn DEF Types
<1>3. (Range(job.names))' = Range(job.names)
  BY <1>1 DEF Range
<1> QED
  BY <1>1, <1>2, <1>3 DEF Types, JobTypes, Working

\* Where the commands of each kind stand.
LEMMA CommandAtHand ==
  ASSUME Types, NEW op, Does(op)
  PROVE  /\ Head(script).op = op /\ job \in Jobs /\ job.kind \in Kinds
         /\ op \in {"recreate", "embed"} => job.kind = "rebuild" /\ Head(script) \in RebuildCommands
         /\ op \in {"tag", "attach"} => job.kind = "persist" /\ Head(script) \in PersistCommands
         /\ op \in {"capture", "merge"} => /\ job.kind \notin {"rebuild", "persist"}
                                         /\ Head(script) \in SourceCommands(corpus)
         /\ op \in {"done", "raise"} => job.kind # "persist"
         /\ op \notin {"recreate", "tag", "attach"} => todo # <<>>
<1>1. Head(script).op = op /\ job \in Jobs /\ job.kind \in Kinds /\ script # <<>>
  BY AgendasAssumption DEF Does, Types, JobTypes
<1>2. Head(script) \in CommandsOf(job.kind, corpus)
  BY <1>1, HeadTyped DEF Types
<1>3. CASE job.kind = "rebuild"
  <2>1. Head(script) \in RebuildCommands
    BY <1>2, <1>3 DEF CommandsOf
  <2>2. op \in {"recreate", "raise", "done", "embed"}
    BY <1>1, <2>1, Ops
  <2>3. script = <<Word("recreate")>> => op = "recreate"
    BY <1>1 DEF Word
  <2> QED
    BY <1>1, <1>3, <2>1, <2>2, <2>3 DEF Types, ScriptTypes
<1>4. CASE job.kind = "persist"
  <2>1. Head(script) \in PersistCommands
    BY <1>2, <1>4 DEF CommandsOf
  <2>2. op \in {"tag", "attach"}
    BY <1>1, <2>1, Ops
  <2> QED
    BY <1>1, <1>4, <2>1, <2>2
<1>5. CASE job.kind \notin {"rebuild", "persist"}
  <2>1. Head(script) \in SourceCommands(corpus)
    BY <1>2, <1>5 DEF CommandsOf
  <2>2. op \in {"raise", "done", "capture", "merge"}
    BY <1>1, <2>1, Ops
  <2>3. script = <<Word("recreate")>> => op = "recreate"
    BY <1>1 DEF Word
  <2> QED
    BY <1>1, <1>5, <2>1, <2>2, <2>3 DEF Types, ScriptTypes
<1> QED
  BY <1>3, <1>4, <1>5

\* The capture is whole and of its source alone.
LEMMA WriteCaptureTypes == ASSUME Types, WriteCapture PROVE Types'
<1> DEFINE n == Head(todo)
           file == [rows |-> Head(script).rows, torn |-> FALSE]
<1>1. Does("capture") /\ Did /\ UNCHANGED points
  BY DEF WriteCapture
<1>2. file \in Files
  BY <1>1, CommandAtHand, Ops DEF Files
<1>3. /\ captures' = [x \in DOMAIN captures \cup {n} |-> IF x = n THEN file ELSE captures[x]]
      /\ cut' = cut \ {n} /\ loaded' = loaded \ {n} /\ indexed' = indexed \ {n}
  BY DEF WriteCapture, Put
<1>4. JobTypes' /\ ScriptTypes'
  BY <1>1, <1>3, DidTypes
<1>5. StoreTypes'
  <2> HIDE DEF file, n
  <2>1. \A x \in DOMAIN captures' : captures'[x] \in Files /\ (captures'[x].torn => x \in cut')
    <3>1. ASSUME NEW x \in DOMAIN captures \cup {n}
          PROVE  captures'[x] \in Files /\ (captures'[x].torn => x \in cut')
      <4>1. CASE x = n
        <5>1. captures'[x] = file /\ ~ file.torn
          BY <1>3, <4>1 DEF file
        <5> QED
          BY <1>2, <5>1
      <4>2. CASE x # n
        <5>1. captures'[x] = captures[x] /\ x \in DOMAIN captures
          BY <1>3, <3>1, <4>2
        <5> QED
          BY <1>3, <4>2, <5>1 DEF Types, StoreTypes
      <4> QED
        BY <4>1, <4>2
    <3> QED
      BY <1>3, <3>1
  <2>2. captures' = [x \in DOMAIN captures' |-> captures'[x]]
    BY <1>3
  <2>3. cut' \cup loaded' \cup indexed' \subseteq DOMAIN captures'
    BY <1>3 DEF Types, StoreTypes
  <2> QED
    BY <1>1, <2>1, <2>2, <2>3 DEF Types, StoreTypes, IsPoint
<1> QED
  BY <1>4, <1>5 DEF Types

\* An upsert leaves files and collection alone.
LEMMA UpsertTypes == ASSUME Types, Upsert PROVE Types'
<1>1. Does("merge") /\ Did /\ UNCHANGED <<captures, points, cut, indexed>> /\ loaded' \subseteq loaded
  BY DEF Upsert
<1>2. JobTypes' /\ ScriptTypes'
  BY <1>1, DidTypes
<1> QED
  BY <1>1, <1>2 DEF Types, StoreTypes, IsPoint

\* The collection is empty.
LEMMA RecreateTypes == ASSUME Types, Recreate PROVE Types'
<1>1. Does("recreate") /\ Did /\ UNCHANGED <<captures, cut, loaded>> /\ points' = <<>> /\ indexed' = {}
  BY DEF Recreate, Recreated
<1>2. JobTypes' /\ ScriptTypes'
  BY <1>1, DidTypes
<1> QED
  BY <1>1, <1>2 DEF Types, StoreTypes

\* The points of a batch are made from rows that have a text to embed.
LEMMA EmbedTypes == ASSUME Types, Embed PROVE Types'
<1> DEFINE rows == Head(script).rows
           new  == PointsFor(rows)
<1>1. Does("embed") /\ Did /\ UNCHANGED <<captures, cut, loaded, indexed>> /\ points' = Updated(points, new)
  BY DEF Embed, past
<1>2. rows \in Seq(EmbedRows)
  BY <1>1, CommandAtHand, Ops
<1>3. new = [id \in DOMAIN new |-> new[id]] /\ \A id \in DOMAIN new : IsPoint(new[id])
  BY <1>2, PointsForTyped
<1>4. JobTypes' /\ ScriptTypes'
  BY <1>1, DidTypes
<1> HIDE DEF new, rows
<1>5. points' = [id \in DOMAIN points \cup DOMAIN new |-> IF id \in DOMAIN new THEN new[id] ELSE points[id]]
  BY <1>1 DEF Updated
<1>6. \A id \in DOMAIN points' : IsPoint(points'[id])
  <2>1. ASSUME NEW id \in DOMAIN points' PROVE IsPoint(points'[id])
    <3>1. id \in DOMAIN points \cup DOMAIN new
          /\ points'[id] = IF id \in DOMAIN new THEN new[id] ELSE points[id]
      BY <1>5, <2>1
    <3>2. CASE id \in DOMAIN new
      BY <1>3, <3>1, <3>2
    <3>3. CASE id \notin DOMAIN new
      BY <3>1, <3>3 DEF Types, StoreTypes
    <3> QED
      BY <3>2, <3>3
  <2> QED
    BY <2>1
<1>7. points' = [id \in DOMAIN points' |-> points'[id]]
  BY <1>5
<1>8. \A p : IsPoint(p)' = IsPoint(p)
  BY <1>1 DEF IsPoint
<1> QED
  BY <1>1, <1>4, <1>6, <1>7 DEF Types, StoreTypes, IsPoint

\* A batch that was refused is left out.
LEMMA RefuseTypes == ASSUME Types, Refuse PROVE Types'
<1>1. Does("embed") /\ Did /\ UNCHANGED <<captures, points, cut, loaded, indexed>>
  BY DEF Refuse, stores
<1>2. JobTypes' /\ ScriptTypes'
  BY <1>1, DidTypes
<1> QED
  BY <1>1, <1>2 DEF Types, StoreTypes, IsPoint

\* Putting another command first.
WithFirst(s, c) == [s EXCEPT ![1] = c]
FirstIs(c, t, s, S) ==
  /\ t \in Seq(S) /\ Head(t) = c /\ t # <<>> /\ Tail(t) = Tail(s)
  /\ Range(t) = {c} \cup Range(Tail(s))
LEMMA FirstReplaced ==
  ASSUME NEW S, NEW s \in Seq(S), s # <<>>, NEW c \in S
  PROVE  FirstIs(c, WithFirst(s, c), s, S)
<1> DEFINE t == WithFirst(s, c)
<1>1. DOMAIN s = 1 .. Len(s) /\ Len(s) \in Nat \ {0} /\ \A i \in 1 .. Len(s) : s[i] \in S
  BY LenProperties, ElementOfSeq, EmptySeq
<1>2. /\ DOMAIN t = 1 .. Len(s) /\ t = [i \in 1 .. Len(s) |-> t[i]]
      /\ \A i \in 1 .. Len(s) : t[i] = IF i = 1 THEN c ELSE s[i]
  BY <1>1 DEF WithFirst
<1> HIDE DEF t
<1>3. t \in [1 .. Len(s) -> S]
  BY <1>1, <1>2
<1>4. t \in Seq(S) /\ Len(t) = Len(s)
  <2>1. t \in Seq(S)
    BY <1>1, <1>3, SeqDef
  <2> QED
    BY <1>1, <1>2, <2>1, LenProperties
<1>5. t # <<>>
  BY <1>1, <1>4, EmptySeq
<1>6. Head(t) = c
  <2>1. Head(t) = t[1] /\ 1 \in 1 .. Len(s)
    BY <1>1, <1>4, <1>5, TailRange
  <2> QED
    BY <1>2, <2>1
<1>7. Tail(t) = Tail(s)
  <2>1. /\ Tail(t) \in Seq(S) /\ Len(Tail(t)) = Len(s) - 1
        /\ \A i \in 1 .. Len(s) - 1 : Tail(t)[i] = t[i + 1]
    BY <1>4, <1>5, TailRange
  <2>2. /\ Tail(s) \in Seq(S) /\ Len(Tail(s)) = Len(s) - 1
        /\ \A i \in 1 .. Len(s) - 1 : Tail(s)[i] = s[i + 1]
    BY TailRange
  <2>3. \A i \in 1 .. Len(s) - 1 : i + 1 \in 1 .. Len(s) /\ i + 1 # 1
    BY <1>1
  <2>4. \A i \in 1 .. Len(s) - 1 : Tail(t)[i] = Tail(s)[i]
    BY <1>2, <2>1, <2>2, <2>3
  <2> QED
    BY <2>1, <2>2, <2>4, SeqEqual
<1>8. Range(t) = {c} \cup Range(Tail(s))
  BY <1>4, <1>5, <1>6, <1>7, TailRange
<1> QED
  BY <1>4, <1>5, <1>6, <1>7, <1>8 DEF t, FirstIs

\* One point less is to be tagged.
LEMMA PointTagged ==
  ASSUME ScriptTypes, job.kind = "persist", script # <<>>, Head(script).op = "tag",
         NEW id, NEW d, d = [op |-> "tag", left |-> Head(script).left \ {id}]
  PROVE  script' = [script EXCEPT ![1].left = @ \ {id}] =>
           /\ d \in PersistCommands /\ script' \in Seq(PersistCommands) /\ script' # <<>>
           /\ Head(script') = d /\ Tail(script') = Tail(script)
           /\ Range(script') = {d} \cup Range(Tail(script))
<1> DEFINE c == Head(script)
<1>1. script \in Seq(PersistCommands)
  BY DEF ScriptTypes, CommandsOf
<1>2. c \in PersistCommands /\ script[1] = c /\ 1 \in DOMAIN script
  BY <1>1, TailRange
<1>3. c.left \subseteq DOMAIN CollectTags /\ c = [op |-> "tag", left |-> c.left]
  BY <1>2, Ops
<1>4. d \in PersistCommands
  BY <1>3 DEF PersistCommands
<1> DEFINE l == c.left
           m == c.left \ {id}
<1>5. [script[1] EXCEPT !.left = script[1].left \ {id}] = d
  <2>1. script[1] = [op |-> "tag", left |-> l] /\ script[1].left \ {id} = m
    BY <1>2, <1>3
  <2>2. d = [op |-> "tag", left |-> m]
    OBVIOUS
  <2> HIDE DEF c, l, m
  <2>3. [script[1] EXCEPT !.left = m] = [op |-> "tag", left |-> m]
    BY <2>1
  <2> QED
    BY <2>1, <2>2, <2>3
<1>6. [script EXCEPT ![1].left = @ \ {id}] = WithFirst(script, d)
  BY <1>2, <1>5 DEF WithFirst
<1> DEFINE t == WithFirst(script, d)
<1> HIDE DEF c, l, m
<1>7. FirstIs(d, t, script, PersistCommands)
  BY <1>1, <1>4, FirstReplaced DEF t
<1> QED
  BY <1>4, <1>6, <1>7 DEF FirstIs, t

\* A point keeps its text and its vector when it is tagged.
LEMMA TagPointTypes == ASSUME Types, TagPoint PROVE Types'
<1>1. /\ Does("tag") /\ UNCHANGED <<captures, cut, loaded, indexed, corpus, agenda, job, todo, outcome>>
      /\ script # <<>>
  BY DEF TagPoint, past, Does
<1> DEFINE c == Head(script)
<1>2. job.kind = "persist" /\ c \in PersistCommands /\ c.op = "tag"
  BY <1>1, CommandAtHand
<1>3. c.left \subseteq DOMAIN CollectTags /\ c = [op |-> "tag", left |-> c.left]
  BY <1>2, Ops
<1>4. (Range(job.names))' = Range(job.names)
  BY <1>1 DEF Range
<1>5. JobTypes'
  BY <1>1, <1>4 DEF Types, JobTypes, Working
<1>6. CASE c.left = {}
  <2>1. script' = Tail(script) /\ points' = points
    BY <1>6 DEF TagPoint
  <2>2. ScriptTypes'
    BY <1>1, <2>1, ScriptGoesOn DEF Types
  <2> QED
    BY <1>1, <1>5, <2>1, <2>2 DEF Types, StoreTypes, IsPoint
<1>7. CASE c.left # {}
  <2>1. PICK id \in c.left : /\ points' = [points EXCEPT ![id].tags = TagText(CollectTags[id])]
                            /\ script' = [script EXCEPT ![1].left = @ \ {id}]
    BY <1>7 DEF TagPoint
  <2> DEFINE d == [op |-> "tag", left |-> c.left \ {id}]
             C == CommandsOf(job.kind, corpus)
  <2>2. script \in Seq(C) /\ C = PersistCommands
    BY <1>2 DEF Types, ScriptTypes, CommandsOf
  <2>3. ScriptTypes /\ job.kind = "persist" /\ script # <<>> /\ Head(script).op = "tag"
    BY <1>1, <1>2 DEF Types
  <2>4. d = [op |-> "tag", left |-> Head(script).left \ {id}] /\ d.op = "tag"
    OBVIOUS
  <2> HIDE DEF C, c, d
  <2>5. /\ d \in PersistCommands /\ script' \in Seq(C) /\ Head(script') = d /\ Tail(script') = Tail(script)
        /\ Range(script') = {d} \cup Range(Tail(script))
    BY <2>1, <2>2, <2>3, <2>4, PointTagged
  <2>6. (CommandsOf(job.kind, corpus))' = C
    BY <1>1 DEF C, CommandsOf
  <2>7. \A x \in Range(script') : x.op # "recreate"
    <3>1. Range(Tail(script)) \subseteq Range(script)
      BY <1>1, <2>2, TailRange
    <3>2. \A x \in Range(script) : x.op # "recreate"
      <4>1. \A i \in 1 .. Len(script) : script[i] \in C
        BY <2>2, ElementOfSeq
      <4>2. DOMAIN script = 1 .. Len(script)
        BY <2>2, LenProperties
      <4>3. Range(script) \subseteq PersistCommands
        BY <2>2, <4>1, <4>2 DEF Range
      <4> QED
        BY <4>3, Ops
    <3> QED
      BY <2>4, <2>5, <3>1, <3>2
  <2>8. \A i \in DOMAIN script' : script'[i].op # "done"
    <3>1. \A i \in 1 .. Len(script') : script'[i] \in PersistCommands
      BY <2>2, <2>5, ElementOfSeq
    <3>2. DOMAIN script' = 1 .. Len(script')
      BY <2>5, LenProperties
    <3> QED
      BY <3>1, <3>2, Ops
  <2>9. ScriptTypes'
    BY <1>1, <1>2, <2>5, <2>6, <2>7, <2>8 DEF ScriptTypes
  <2>10. /\ points' = [x \in DOMAIN points' |-> points'[x]] /\ DOMAIN points' = DOMAIN points
         /\ \A x \in DOMAIN points : points'[x] = IF x = id THEN [points[x] EXCEPT !.tags = TagText(CollectTags[id])]
                                               ELSE points[x]
    BY <2>1 DEF Types, StoreTypes
  <2>11. \A p, t : IsPoint(p) => IsPoint([p EXCEPT !.tags = t])
    BY DEF IsPoint
  <2>12. ASSUME NEW x \in DOMAIN points PROVE IsPoint(points'[x])
    <3>1. IsPoint(points[x])
      BY DEF Types, StoreTypes
    <3> QED
      BY <2>10, <2>11, <3>1
  <2>13. StoreTypes'
    BY <1>1, <2>10, <2>12 DEF Types, StoreTypes, IsPoint
  <2> QED
    BY <1>5, <2>9, <2>13 DEF Types
<1> QED
  BY <1>6, <1>7

\* The tags of chunks are attached in the graph.
LEMMA TagChunksTypes == ASSUME Types, TagChunks PROVE Types'
<1>1. Does("attach") /\ Did /\ UNCHANGED <<captures, points, cut, loaded, indexed>>
  BY DEF TagChunks, past
<1>2. JobTypes' /\ ScriptTypes'
  BY <1>1, DidTypes
<1> QED
  BY <1>1, <1>2 DEF Types, StoreTypes, IsPoint

\* The last command of a source: what is loaded or indexed was captured.
LEMMA FinishSourceTypes == ASSUME Types, FinishSource PROVE Types'
<1>1. /\ Does("done") /\ script' = <<>> /\ todo' = Tail(todo)
      /\ UNCHANGED <<corpus, agenda, job, outcome, captures, points, cut>>
      /\ loaded' \subseteq loaded \cup (IF Captured(Head(todo)) THEN {Head(todo)} ELSE {})
      /\ indexed' \subseteq indexed \cup (IF job.kind = "rebuild" THEN {Head(todo)} ELSE {})
  BY DEF FinishSource, Does, stores
<1>2. todo # <<>>
  BY <1>1, CommandAtHand
<1> DEFINE N == Range(job.names)
<1>3. todo \in Seq(N)
  BY DEF Types, JobTypes
<1> HIDE DEF N
<1>4. Tail(todo) \in Seq(N) /\ Range(todo) = {Head(todo)} \cup Range(Tail(todo))
  BY <1>2, <1>3, TailRange
<1>5. N' = N
  BY <1>1 DEF N, Range
<1>6. JobTypes'
  BY <1>1, <1>4, <1>5 DEF Types, JobTypes, Working, N
<1>7. (CommandsOf(job.kind, corpus))' = CommandsOf(job.kind, corpus)
  BY <1>1 DEF CommandsOf
<1>8. job.kind = "rebuild" => Range(todo') \subseteq DOMAIN captures /\ Head(todo) \in DOMAIN captures
  BY <1>1, <1>4 DEF Types, ScriptTypes
<1>9. ScriptTypes'
  BY <1>1, <1>7, <1>8, EmptySeq DEF ScriptTypes, Range
<1>10. StoreTypes'
  BY <1>1, <1>8 DEF Types, StoreTypes, IsPoint, Captured
<1> QED
  BY <1>6, <1>9, <1>10 DEF Types

\* However a job ends.
LEMMA EndTypes ==
  ASSUME Types, outcome' \in {"failed", "ok", "killed"}, todo' = <<>>, script' = <<>>,
         UNCHANGED <<corpus, agenda, job>>
  PROVE  JobTypes' /\ ScriptTypes'
<1>1. JobTypes'
  BY EmptySeq DEF Types, JobTypes, Working
<1>2. ScriptTypes'
  BY EmptySeq DEF Types, ScriptTypes, Range
<1> QED
  BY <1>1, <1>2

\* The job ends with a failure.
LEMMA RaiseTypes == ASSUME Types, Raise PROVE Types'
<1>1. outcome' = "failed" /\ todo' = <<>> /\ script' = <<>>
      /\ UNCHANGED <<corpus, agenda, job, captures, points, cut, loaded, indexed>>
  BY DEF Raise, EndJob
<1>2. JobTypes' /\ ScriptTypes'
  BY <1>1, EndTypes
<1> QED
  BY <1>1, <1>2 DEF Types, StoreTypes, IsPoint

\* The job ends.
LEMMA FinishTypes == ASSUME Types, Finish PROVE Types'
<1>1. outcome' \in {"failed", "ok"} /\ todo' = <<>> /\ script' = <<>>
      /\ UNCHANGED <<corpus, agenda, job, captures, points, cut, loaded, indexed>>
  BY DEF Finish, EndJob
<1>2. JobTypes' /\ ScriptTypes'
  BY <1>1, EndTypes
<1> QED
  BY <1>1, <1>2 DEF Types, StoreTypes, IsPoint

\* A cut file holds whole lines of the rows that were being written.
LEMMA CutFile ==
  ASSUME NEW rows \in Seq(ParsedRows), NEW n \in 0 .. Len(rows) - 1, NEW t \in BOOLEAN
  PROVE  [rows |-> SubSeq(rows, 1, n), torn |-> t] \in Files
<1>1. Len(rows) \in Nat /\ \A i \in 1 .. Len(rows) : rows[i] \in ParsedRows
  BY LenProperties, ElementOfSeq
<1>2. n \in Nat /\ n <= Len(rows) /\ \A i \in 1 .. n : rows[i] \in ParsedRows
  BY <1>1
<1>3. SubSeq(rows, 1, n) \in Seq(ParsedRows)
  BY <1>2, SubSeqProperties
<1> QED
  BY <1>3 DEF Files

\* The job is killed, perhaps in the middle of a capture.
LEMMA KillTypes == ASSUME Types, Kill PROVE Types'
<1>1. outcome' = "killed" /\ todo' = <<>> /\ script' = <<>>
      /\ UNCHANGED <<corpus, agenda, job, points>> /\ Working
  BY DEF Kill
<1>2. JobTypes' /\ ScriptTypes'
  BY <1>1, EndTypes
<1>3. CASE UNCHANGED <<captures, cut, loaded, indexed>>
  BY <1>1, <1>2, <1>3 DEF Types, StoreTypes, IsPoint
<1>4. CASE /\ script # <<>> /\ Head(script).op = "capture"
           /\ captures' \in Cuts(Head(todo), Head(script).rows)
           /\ cut' = cut \cup {Head(todo)}
           /\ loaded' = loaded \ {Head(todo)} /\ indexed' = indexed \ {Head(todo)}
  <2> DEFINE x == Head(todo)
             rows == Head(script).rows
  <2>1. rows \in Seq(ParsedRows)
    <3>1. Head(script) \in CommandsOf(job.kind, corpus)
      BY <1>4, HeadTyped DEF Types
    <3>2. Head(script) \in SourceCommands(corpus)
      BY <1>4, <3>1, Ops DEF CommandsOf
    <3> QED
      BY <1>4, <3>2, Ops
  <2>2. PICK file \in [rows : {SubSeq(rows, 1, n) : n \in 0 .. Len(rows) - 1}, torn : BOOLEAN] :
          captures' = Put(captures, x, file)
    BY <1>4 DEF Cuts
  <2>3. file \in Files
    <3>1. PICK n \in 0 .. Len(rows) - 1 : file.rows = SubSeq(rows, 1, n)
      OBVIOUS
    <3>2. file.torn \in BOOLEAN /\ file = [rows |-> file.rows, torn |-> file.torn]
      OBVIOUS
    <3> HIDE DEF rows
    <3>3. [rows |-> SubSeq(rows, 1, n), torn |-> file.torn] \in Files
      BY <2>1, <3>2, CutFile
    <3> QED
      BY <3>1, <3>2, <3>3
  <2> HIDE DEF x
  <2>4. captures' = [y \in DOMAIN captures \cup {x} |-> IF y = x THEN file ELSE captures[y]]
    BY <2>2 DEF Put
  <2>5. cut' = cut \cup {x} /\ loaded' = loaded \ {x} /\ indexed' = indexed \ {x}
    BY <1>4 DEF x
  <2>6. ASSUME NEW y \in DOMAIN captures'
        PROVE  captures'[y] \in Files /\ (captures'[y].torn => y \in cut')
    <3>1. CASE y = x
      BY <2>3, <2>4, <2>5, <3>1
    <3>2. CASE y # x
      <4>1. captures'[y] = captures[y] /\ y \in DOMAIN captures
        BY <2>4, <2>6, <3>2
      <4> QED
        BY <2>5, <4>1 DEF Types, StoreTypes
    <3> QED
      BY <3>1, <3>2
  <2>7. captures' = [y \in DOMAIN captures' |-> captures'[y]]
    BY <2>4
  <2>8. cut' \cup loaded' \cup indexed' \subseteq DOMAIN captures'
    BY <2>4, <2>5 DEF Types, StoreTypes
  <2>9. StoreTypes'
    BY <1>1, <2>6, <2>7, <2>8 DEF Types, StoreTypes, IsPoint
  <2> QED
    BY <1>2, <2>9 DEF Types
<1> QED
  BY <1>3, <1>4 DEF Kill

\* No step.
LEMMA SameTypes == ASSUME Types, UNCHANGED vars PROVE Types'
<1>1. UNCHANGED <<corpus, agenda, captures, points, job, todo, script, outcome, cut, loaded, indexed>>
  BY DEF vars, stores, work, past, count
<1>2. JobTypes'
  BY <1>1 DEF Types, JobTypes, Working, Range
<1>3. StoreTypes'
  BY <1>1 DEF Types, StoreTypes, IsPoint
<1>4. ScriptTypes'
  BY <1>1 DEF Types, ScriptTypes, CommandsOf, Range, Word
<1> QED
  BY <1>2, <1>3, <1>4 DEF Types

\* Every step keeps the types.
LEMMA StepTypes == ASSUME Types, [Next]_vars PROVE Types'
  BY StartTypes, NextSourceTypes, WriteCaptureTypes, UpsertTypes, RecreateTypes, EmbedTypes,
     RefuseTypes, TagPointTypes, TagChunksTypes, FinishSourceTypes, RaiseTypes, FinishTypes,
     KillTypes, SameTypes DEF Next, Idle

\* The types are an invariant.
LEMMA AlwaysTypes == Spec => []Types
  BY InitTypes, StepTypes, PTL DEF Spec

-----------------------------------------------------------------------------
(* The collection mirrors the captures. *)

Rebuilding == job.kind = "rebuild" /\ outcome \in {"running", "ok"}
Recreating == script = <<Word("recreate")>>
IdsOf(rows) == {r.id : r \in Range(rows)}
\* The ids in the batches that are still to be sent.
Pending == UNION {IdsOf(c.rows) : c \in {x \in Range(script) : x.op = "embed"}}
Raising == \E c \in Range(script) : c.op = "raise"
Sent(n) == Embeddable(n) \subseteq DOMAIN points \cup refused
RebuildInv ==
  Rebuilding =>
    /\ Recreating => \A n \in Range(job.names) \cap DOMAIN captures : n \in Range(todo)
    /\ ~Recreating => DOMAIN points \subseteq UNION {Embeddable(n) : n \in DOMAIN captures}
    /\ \A n \in Range(job.names) \cap DOMAIN captures : n \in Range(todo) \/ Sent(n)
    /\ script # <<>> /\ ~Recreating =>
         /\ Pending \subseteq Embeddable(Head(todo))
         /\ Raising \/ Embeddable(Head(todo)) \subseteq DOMAIN points \cup refused \cup Pending
    /\ outcome = "ok" => todo = <<>> /\ script = <<>>

\* No rebuild has begun.
LEMMA InitRebuild == ASSUME Init PROVE RebuildInv
  BY DEF Init, RebuildInv, Rebuilding

\* A rebuild begins with the whole list of its captures that are there.
LEMMA StartRebuild == ASSUME Types, Start PROVE RebuildInv'
<1>1. SUFFICES ASSUME Rebuilding' PROVE RebuildInv'
  BY DEF RebuildInv
<1>2. job'.kind = "rebuild" /\ script' = <<Word("recreate")>> /\ UNCHANGED <<captures, corpus>>
      /\ outcome' = "running" /\ job' = Head(agenda) /\ agenda # <<>>
  BY <1>1 DEF Start, Rebuilding, stores, Word
<1>3. (Word("recreate"))' = Word("recreate")
  BY DEF Word
<1>4. Recreating'
  BY <1>2, <1>3 DEF Recreating
<1> DEFINE N == job'.names
<1>5. N \in Seq(STRING)
  <2> DEFINE J == {j \in Jobs : j.corpus = corpus}
  <2>1. agenda \in Seq(J)
    BY DEF Types, JobTypes
  <2> HIDE DEF J
  <2>2. job' \in J
    BY <1>2, <2>1, TailRange
  <2> QED
    BY <2>2, AgendasAssumption DEF J
<1>13. Range(todo') = Range(N) \cap DOMAIN captures
  BY <1>2, <1>5, RangeOf, StartTodo
<1>14. (Range(job.names))' = Range(N) /\ (Range(todo))' = Range(todo')
  BY DEF N, Range
<1> QED
  BY <1>2, <1>4, <1>13, <1>14 DEF RebuildInv

\* Names in the middle of a rebuild.
LEMMA RebuildRange ==
  ASSUME Types
  PROVE  /\ todo # <<>> => Range(todo) = {Head(todo)} \cup Range(Tail(todo))
         /\ script # <<>> => /\ Range(script) = {Head(script)} \cup Range(Tail(script))
                            /\ Head(script) \in Range(script)
<1> DEFINE N == Range(job.names)
<1>1. todo \in Seq(N)
  BY DEF Types, JobTypes
<1> HIDE DEF N
<1>2. todo # <<>> => Range(todo) = {Head(todo)} \cup Range(Tail(todo))
  BY <1>1, TailRange
<1> QED
  BY <1>2, HeadTyped DEF Types

\* All that is to be embedded of the next capture is in its commands.
LEMMA NextSourceRebuild == ASSUME Types, RebuildInv, NextSource PROVE RebuildInv'
<1>1. SUFFICES ASSUME Rebuilding' PROVE RebuildInv'
  BY DEF RebuildInv
<1>2. /\ JobTypes /\ StoreTypes /\ ScriptTypes /\ Working /\ script = <<>> /\ todo # <<>>
      /\ UNCHANGED <<corpus, agenda, job, captures, graph, points, cut, refused, loaded, indexed>>
  BY DEF Types, NextSource, stores, past
<1> DEFINE name == Head(todo)
           R    == EmbedScript(name)
           s    == Append(R, Word("done"))
           some == {r \in Range(captures[name].rows) : r.embed # NoText}
<1>3. job.kind = "rebuild" /\ outcome' \in {"running", "ok"}
  BY <1>1, <1>2 DEF Rebuilding
<1>4. script' = s /\ outcome' = outcome
  <2>1. ~ FailsAtOnce(name, NoParse) /\ ReadSource(name, NoParse) = R
    BY <1>3 DEF FailsAtOnce, ReadSource
  <2> HIDE DEF R, name
  <2>2. \E n \in {name} : \E got \in {NoParse} :
          ~ FailsAtOnce(n, got) => script' = Append(ReadSource(n, got), Word("done")) /\ outcome' = outcome
    BY <1>3 DEF NextSource, name, Word
  <2> QED
    BY <2>1, <2>2
<1>5. name \in Range(todo) /\ Captured(name) /\ captures[name] \in Files
  BY <1>2, <1>3, RebuildRange DEF Types, ScriptTypes, StoreTypes, Captured
<1> DEFINE C == {Word("raise")} \cup {Embedding(b) : b \in Seq(EmbedRows)}
<1>6. /\ R \in Seq(C)
      /\ \A c \in Range(R) : c.op = "embed" => Range(c.rows) \subseteq some
      /\ \/ Word("raise") \in Range(R)
         \/ \A r \in some : \E c \in Range(R) : c.op = "embed" /\ r \in Range(c.rows)
  BY <1>5, EmbedScriptOf
<1>7. \A c \in C : c.op \notin {"done", "recreate"}
  BY DEF Word, Embedding
<1> DEFINE D == C \cup {Word("done")}
<1> HIDE DEF R, C
<1>8. /\ s # <<>> /\ Range(s) = Range(R) \cup {Word("done")}
      /\ \A c \in Range(s) : c.op # "recreate"
  <2>1. R \in Seq(D) /\ Word("done") \in D
    BY <1>6
  <2>2. \A c \in Range(R) : c.op \notin {"done", "recreate"}
    <3>1. DOMAIN R = 1 .. Len(R) /\ \A i \in 1 .. Len(R) : R[i] \in C
      BY <1>6, ElementOfSeq, LenProperties
    <3> QED
      BY <1>7, <3>1 DEF Range
  <2> HIDE DEF D
  <2> QED
    BY <2>1, <2>2, ScriptEnds
<1> HIDE DEF s, name, some
<1>9. todo' = todo
  BY <1>4, <1>8 DEF NextSource
<1>10. ~ Recreating' /\ ~ Recreating
  <2>1. Word("recreate") \in Range(<<Word("recreate")>>) /\ Word("recreate").op = "recreate"
        /\ <<Word("recreate")>> # <<>> /\ (Word("recreate"))' = Word("recreate")
    BY DEF Word, Range
  <2> QED
    BY <1>2, <1>4, <1>8, <2>1 DEF Recreating
<1>11. Rebuilding
  BY <1>3, <1>4 DEF Rebuilding
<1>12. Embeddable(name) = {r.id : r \in some}
  BY DEF Embeddable, some
<1>13. (Range(script))' = Range(R) \cup {Word("done")} /\ Word("done").op = "done"
  BY <1>4, <1>8 DEF Range, Word
<1>14. (Embeddable(Head(todo)))' = Embeddable(name)
  BY <1>2, <1>9 DEF Embeddable, name, Range
<1> HIDE DEF Word
<1>15. Pending' \subseteq {r.id : r \in some}
  <2>1. SUFFICES ASSUME NEW c \in (Range(script))', c.op = "embed", NEW r \in Range(c.rows)
                 PROVE  r \in some
    BY DEF Pending, IdsOf, Range
  <2>2. c \in Range(R)
    BY <1>13, <2>1
  <2> QED
    BY <1>6, <2>1, <2>2
<1>16. Raising' \/ {r.id : r \in some} \subseteq Pending'
  <2>1. CASE Word("raise") \in Range(R)
    <3>1. Word("raise").op = "raise"
      BY DEF Word
    <3> QED
      BY <1>13, <2>1, <3>1 DEF Raising
  <2>2. CASE \A r \in some : \E c \in Range(R) : c.op = "embed" /\ r \in Range(c.rows)
    <3>1. ASSUME NEW r \in some PROVE r.id \in Pending'
      <4>1. PICK c \in Range(R) : c.op = "embed" /\ r \in Range(c.rows)
        BY <2>2
      <4>2. c \in (Range(script))'
        BY <1>13
      <4> QED
        BY <4>1, <4>2 DEF Pending, IdsOf, Range
    <3> QED
      BY <3>1
  <2> QED
    BY <1>6, <2>1, <2>2
<1>17. \A n \in DOMAIN captures : (Embeddable(n))' = Embeddable(n) /\ Sent(n)' = Sent(n)
  BY <1>2 DEF Embeddable, Sent, Range
<1>18. (Range(todo))' = Range(todo) /\ (Range(job.names))' = Range(job.names)
  BY <1>2, <1>9 DEF Range
<1>19. outcome' # "ok"
  BY <1>2, <1>4 DEF Working
<1> QED
  BY <1>2, <1>4, <1>8, <1>10, <1>11, <1>12, <1>14, <1>15, <1>16, <1>17, <1>18, <1>19 DEF RebuildInv

\* The collection is dropped before the first capture is read.
LEMMA RecreateRebuild == ASSUME Types, RebuildInv, Recreate PROVE RebuildInv'
<1>1. /\ Does("recreate") /\ script' = Tail(script) /\ points' = <<>>
      /\ UNCHANGED <<job, todo, outcome, captures, refused>> /\ script # <<>> /\ Working
  BY DEF Recreate, Recreated, Does, Did
<1>2. Recreating
  <2>1. Head(script) \in Range(script) /\ Head(script).op = "recreate"
    BY <1>1, RebuildRange, CommandAtHand
  <2> QED
    BY <2>1 DEF Types, ScriptTypes, Recreating
<1>3. script' = <<>>
  <2> DEFINE one == <<Word("recreate")>>
  <2>1. Tail(one) = <<>>
    BY DEF Word
  <2> QED
    BY <1>1, <1>2, <2>1 DEF Recreating
<1>4. ~ Recreating'
  BY <1>3 DEF Recreating
<1>5. (Range(todo))' = Range(todo) /\ (Range(job.names))' = Range(job.names)
  BY <1>1 DEF Range
<1>6. outcome # "ok"
  BY <1>1 DEF Working
<1> QED
  BY <1>1, <1>2, <1>3, <1>4, <1>5, <1>6 DEF RebuildInv, Rebuilding

\* One batch sent: it is in the collection or refused.
LEMMA BatchSent ==
  ASSUME Types, RebuildInv, Does("embed"), Did, UNCHANGED captures,
         DOMAIN points \subseteq DOMAIN points', refused \subseteq refused',
         DOMAIN points' \cup refused' = DOMAIN points \cup refused \cup IdsOf(Head(script).rows),
         DOMAIN points' \subseteq DOMAIN points \cup IdsOf(Head(script).rows)
  PROVE  RebuildInv'
<1>1. SUFFICES ASSUME Rebuilding' PROVE RebuildInv'
  BY DEF RebuildInv
<1>2. /\ script # <<>> /\ script' = Tail(script) /\ UNCHANGED <<job, todo, outcome, captures>>
      /\ Working /\ outcome = "running"
  BY <1>1 DEF Does, Did, Rebuilding, Working
<1>3. Rebuilding
  BY <1>1, <1>2 DEF Rebuilding
<1> DEFINE c    == Head(script)
           name == Head(todo)
<1>4. c.op = "embed" /\ todo # <<>> /\ c \in Range(script) /\ Range(script) = {c} \cup Range(Tail(script))
  BY <1>2, CommandAtHand, RebuildRange
<1>5. ~ Recreating
  BY <1>4 DEF Recreating, Word
<1>6. name \in Range(todo) /\ name \in DOMAIN captures
  BY <1>3, <1>4, RebuildRange DEF Types, ScriptTypes, Rebuilding
<1>7. ~ Recreating'
  <2>1. (Word("recreate"))' = Word("recreate") /\ Word("recreate") \in Range(<<Word("recreate")>>)
        /\ Word("recreate").op = "recreate"
    BY DEF Word, Range
  <2>2. Word("recreate") \in Range(Tail(script)) => script = <<Word("recreate")>>
    BY <1>4, <2>1 DEF Types, ScriptTypes
  <2> QED
    BY <1>2, <1>5, <2>1, <2>2 DEF Recreating
<1> HIDE DEF c, name
<1>8. (Range(script))' = Range(Tail(script))
  BY <1>2 DEF Range
<1>9. Pending = IdsOf(c.rows) \cup Pending'
  <2>1. \A x \in Range(script) : (IdsOf(x.rows))' = IdsOf(x.rows)
    BY DEF IdsOf, Range
  <2>2. Pending' = UNION {IdsOf(x.rows) : x \in {y \in Range(Tail(script)) : y.op = "embed"}}
    BY <1>8 DEF Pending, IdsOf, Range
  <2>3. Pending = UNION {IdsOf(x.rows) : x \in {y \in {c} \cup Range(Tail(script)) : y.op = "embed"}}
    BY <1>4 DEF Pending
  <2> QED
    BY <1>4, <2>2, <2>3
<1>10. Raising => Raising'
  BY <1>4, <1>8 DEF Raising
<1>11. /\ Pending \subseteq Embeddable(name)
       /\ Raising \/ Embeddable(name) \subseteq DOMAIN points \cup refused \cup Pending
       /\ DOMAIN points \subseteq UNION {Embeddable(n) : n \in DOMAIN captures}
       /\ \A n \in Range(job.names) \cap DOMAIN captures : n \in Range(todo) \/ Sent(n)
  BY <1>2, <1>3, <1>5 DEF RebuildInv, name
<1>12. \A n : (Embeddable(n))' = Embeddable(n)
  BY <1>2 DEF Embeddable, Range
<1>13. (Embeddable(Head(todo)))' = Embeddable(name)
  BY <1>2 DEF Embeddable, Range, name
<1>14. DOMAIN points' \subseteq UNION {Embeddable(n) : n \in DOMAIN captures}
  BY <1>6, <1>9, <1>11 DEF c
<1>15. (UNION {Embeddable(n) : n \in DOMAIN captures})' = UNION {Embeddable(n) : n \in DOMAIN captures}
  BY <1>2 DEF Embeddable, Range
<1>16. (Range(todo))' = Range(todo) /\ (Range(job.names))' = Range(job.names)
  BY <1>2 DEF Range
<1>17. \A n : Sent(n) => Sent(n)'
  BY <1>12 DEF Sent
<1>18. Raising' \/ Embeddable(name) \subseteq DOMAIN points' \cup refused' \cup Pending'
  <2>1. CASE Raising
    BY <1>10, <2>1
  <2>2. CASE ~ Raising
    BY <1>9, <1>11, <2>2 DEF c
  <2> QED
    BY <2>1, <2>2
<1>19. Pending' \subseteq Embeddable(name)
  BY <1>9, <1>11
<1> QED
  BY <1>2, <1>7, <1>11, <1>13, <1>14, <1>15, <1>16, <1>17, <1>18, <1>19 DEF RebuildInv

\* A batch is embedded.
LEMMA EmbedRebuild == ASSUME Types, RebuildInv, Embed PROVE RebuildInv'
<1> DEFINE rows == Head(script).rows
           new  == PointsFor(rows)
<1>1. Does("embed") /\ Did /\ UNCHANGED <<captures, refused>> /\ points' = Updated(points, new)
  BY DEF Embed, past
<1>2. rows \in Seq(EmbedRows)
  BY <1>1, CommandAtHand, Ops
<1>3. DOMAIN new = IdsOf(rows)
  BY <1>2, PointsForTyped DEF IdsOf
<1>4. DOMAIN points' = DOMAIN points \cup IdsOf(rows)
  BY <1>1, <1>3 DEF Updated
<1> QED
  BY <1>1, <1>4, BatchSent

\* A batch is refused.
LEMMA RefuseRebuild == ASSUME Types, RebuildInv, Refuse PROVE RebuildInv'
<1>1. Does("embed") /\ Did /\ UNCHANGED <<captures, points>>
      /\ refused' = refused \cup IdsOf(Head(script).rows)
  BY DEF Refuse, stores, IdsOf
<1> QED
  BY <1>1, BatchSent

\* With its last command a capture is in the collection.
LEMMA FinishSourceRebuild == ASSUME Types, RebuildInv, FinishSource PROVE RebuildInv'
<1>1. SUFFICES ASSUME Rebuilding' PROVE RebuildInv'
  BY DEF RebuildInv
<1>2. /\ Does("done") /\ script # <<>> /\ script' = <<>> /\ todo' = Tail(todo) /\ Working
      /\ UNCHANGED <<job, outcome, captures, points, refused>>
  BY DEF FinishSource, Does, stores
<1>3. Rebuilding
  BY <1>1, <1>2 DEF Rebuilding
<1> DEFINE c    == Head(script)
           name == Head(todo)
<1>4. c.op = "done" /\ todo # <<>> /\ Range(todo) = {name} \cup Range(Tail(todo))
  BY <1>2, CommandAtHand, RebuildRange
<1>5. Range(script) = {c}
  <2> DEFINE C == CommandsOf(job.kind, corpus)
  <2>1. script \in Seq(C)
    BY DEF Types, ScriptTypes
  <2> HIDE DEF C
  <2>2. /\ c = script[1] /\ 1 \in DOMAIN script /\ Range(script) = {c} \cup Range(Tail(script))
        /\ DOMAIN Tail(script) = 1 .. Len(script) - 1
    BY <1>2, <2>1, TailRange
  <2>3. 1 = Len(script)
    BY <1>4, <2>2 DEF Types, ScriptTypes
  <2>4. Range(Tail(script)) = {}
    <3> DEFINE rest == Tail(script)
               last == Len(script) - 1
    <3>1. DOMAIN rest = 1 .. last
      BY <2>2
    <3>2. last = 0
      BY <2>3
    <3> HIDE DEF rest, last
    <3>3. Range(rest) = {}
      BY <3>1, <3>2 DEF Range
    <3> QED
      BY <3>3 DEF rest
  <2> QED
    BY <2>2, <2>4
<1>6. Pending = {} /\ ~ Raising
  BY <1>4, <1>5 DEF Pending, Raising
<1>7. ~ Recreating
  BY <1>4 DEF Recreating, Word
<1>8. Sent(name)
  BY <1>2, <1>3, <1>6, <1>7 DEF RebuildInv, Sent
<1> HIDE DEF c, name
<1>9. \A n : (Embeddable(n))' = Embeddable(n) /\ Sent(n)' = Sent(n)
  BY <1>2 DEF Embeddable, Range, Sent
<1>10. (Range(todo))' = Range(Tail(todo)) /\ (Range(job.names))' = Range(job.names)
  BY <1>2 DEF Range
<1>11. (UNION {Embeddable(n) : n \in DOMAIN captures})' = UNION {Embeddable(n) : n \in DOMAIN captures}
  BY <1>2 DEF Embeddable, Range
<1>12. ~ Recreating'
  BY <1>2 DEF Recreating
<1>13. \A n \in Range(job.names) \cap DOMAIN captures : n \in Range(Tail(todo)) \/ Sent(n)
  BY <1>3, <1>4, <1>8 DEF RebuildInv
<1>14. outcome # "ok"
  BY <1>2 DEF Working
<1> QED
  BY <1>2, <1>3, <1>7, <1>9, <1>10, <1>11, <1>12, <1>13, <1>14 DEF RebuildInv

\* A rebuild that ends well has no capture left.
LEMMA FinishRebuild == ASSUME Types, RebuildInv, Finish PROVE RebuildInv'
<1>1. SUFFICES ASSUME Rebuilding' PROVE RebuildInv'
  BY DEF RebuildInv
<1>2. /\ script = <<>> /\ todo = <<>> /\ script' = <<>> /\ todo' = <<>>
      /\ UNCHANGED <<job, captures, points, refused>>
      /\ outcome' = (IF outcome = "faulty" THEN "failed" ELSE "ok") /\ Working
  BY DEF Finish, EndJob
<1>3. Rebuilding
  BY <1>1, <1>2 DEF Rebuilding, Working
<1>4. ~ Recreating /\ ~ Recreating'
  BY <1>2 DEF Recreating
<1>5. \A n : (Embeddable(n))' = Embeddable(n) /\ Sent(n)' = Sent(n)
  BY <1>2 DEF Embeddable, Range, Sent
<1>6. (Range(todo))' = Range(todo) /\ (Range(job.names))' = Range(job.names)
  BY <1>2 DEF Range
<1>7. (UNION {Embeddable(n) : n \in DOMAIN captures})' = UNION {Embeddable(n) : n \in DOMAIN captures}
  BY <1>2, <1>5
<1> QED
  BY <1>2, <1>3, <1>4, <1>5, <1>6, <1>7 DEF RebuildInv

\* What no rebuild is about leaves its invariant alone.
LEMMA SameRebuild ==
  ASSUME RebuildInv, UNCHANGED <<job, todo, script, outcome, captures, points, refused>>
  PROVE  RebuildInv'
<1>1. (Rebuilding' <=> Rebuilding) /\ (Recreating' <=> Recreating) /\ (Raising' <=> Raising) /\ Pending' = Pending
  BY DEF Rebuilding, Recreating, Raising, Pending, IdsOf, Range, Word
<1>2. \A n : (Embeddable(n))' = Embeddable(n) /\ Sent(n)' = Sent(n)
  BY DEF Embeddable, Range, Sent
<1>3. (Range(todo))' = Range(todo) /\ (Range(job.names))' = Range(job.names)
  BY DEF Range
<1>4. (UNION {Embeddable(n) : n \in DOMAIN captures})' = UNION {Embeddable(n) : n \in DOMAIN captures}
  BY DEF Embeddable, Range
<1>5. (Embeddable(Head(todo)))' = Embeddable(Head(todo))
  BY DEF Embeddable, Range
<1> QED
  BY <1>1, <1>2, <1>3, <1>4, <1>5 DEF RebuildInv

\* Every step keeps the invariant of a rebuild.
LEMMA StepRebuild == ASSUME Types, RebuildInv, [Next]_vars PROVE RebuildInv'
<1>1. ASSUME NEW op \in {"capture", "merge", "tag", "attach"}, Does(op) PROVE RebuildInv'
  <2>1. job' = job /\ job.kind # "rebuild"
    BY <1>1, CommandAtHand DEF Does
  <2> QED
    BY <2>1 DEF RebuildInv, Rebuilding
<1>2. CASE WriteCapture \/ Upsert \/ TagPoint \/ TagChunks
  BY <1>1, <1>2 DEF WriteCapture, Upsert, TagPoint, TagChunks
<1>3. CASE Raise \/ Kill
  BY <1>3 DEF Raise, Kill, EndJob, RebuildInv, Rebuilding
<1>4. CASE UNCHANGED vars
  BY <1>4, SameRebuild DEF vars, stores, work, past
<1> QED
  BY <1>2, <1>3, <1>4, StartRebuild, NextSourceRebuild, RecreateRebuild, EmbedRebuild, RefuseRebuild,
     FinishSourceRebuild, FinishRebuild DEF Next, Idle

\* After a rebuild over all captures that ended well, whatever was in the
\* collection before, which jobs were killed and which batches refused, the
\* points are the captured chunks with a text to embed, but for those refused
\* (main of embed_historical.py and embed_cultural.py, which drops the
\* collection, passes over files that are not there and flushes the last,
\* partial batch).
THEOREM IndexMirrors == Spec => []IndexMirrorsCaptures
<1>1. ASSUME RebuildInv PROVE IndexMirrorsCaptures
  <2>1. SUFFICES ASSUME outcome = "ok", job.kind = "rebuild", DOMAIN captures \subseteq Range(job.names)
                 PROVE  LET ids == UNION {Embeddable(n) : n \in DOMAIN captures}
                        IN  ids \ refused \subseteq DOMAIN points /\ DOMAIN points \subseteq ids
    BY DEF IndexMirrorsCaptures
  <2>2. script = <<>> /\ todo = <<>> /\ Rebuilding
    BY <1>1, <2>1 DEF RebuildInv, Rebuilding
  <2>3. ~ Recreating /\ Range(todo) = {}
    BY <2>2 DEF Recreating, Range
  <2>4. /\ \A n \in DOMAIN captures : Sent(n)
        /\ DOMAIN points \subseteq UNION {Embeddable(n) : n \in DOMAIN captures}
    BY <1>1, <2>1, <2>2, <2>3 DEF RebuildInv
  <2> QED
    BY <2>4 DEF Sent
<1>2. Spec => []RebuildInv
  BY AlwaysTypes, InitRebuild, StepRebuild, PTL DEF Spec
<1> QED
  BY <1>1, <1>2, PTL

\* What CutTo leaves of a sequence.
LEMMA CutToOf ==
  ASSUME NEW S, NEW text \in Seq(S), NEW n \in Nat \ {0}
  PROVE  /\ Len(CutTo(text, n)) \in Nat /\ Len(CutTo(text, n)) <= n
         /\ text # <<>> => CutTo(text, n) # <<>>
<1> DEFINE m == MinOf(Len(text), n)
<1>1. Len(text) \in Nat /\ \A i \in 1 .. Len(text) : text[i] \in S
  BY LenProperties, ElementOfSeq
<1>2. m \in Nat /\ m <= n /\ m <= Len(text) /\ (Len(text) # 0 => m # 0)
  BY <1>1 DEF MinOf
<1> HIDE DEF m
<1>3. SubSeq(text, 1, m) \in Seq(S) /\ Len(SubSeq(text, 1, m)) = (IF 1 <= m THEN m - 1 + 1 ELSE 0)
  BY <1>1, <1>2, SubSeqProperties
<1>4. CutTo(text, n) = SubSeq(text, 1, m)
  BY DEF CutTo, m
<1>5. Len(CutTo(text, n)) = m
  BY <1>2, <1>3, <1>4
<1>6. text # <<>> => CutTo(text, n) # <<>>
  <2>1. text # <<>> => Len(text) # 0
    BY EmptySeq
  <2> QED
    BY <1>2, <1>5, <2>1, EmptySeq
<1> QED
  BY <1>2, <1>5, <1>6

\* No stored text and no embedded text is longer than MAX_TEXT_CHARS and none
\* that is embedded is empty, and only a kill tears a capture (embed_file and
\* _redistribute_safe_text).  The hypotheses are TLA+'s own definition of a
\* string, a sequence of characters, which the provers do not know.
THEOREM TypesHold ==
  ASSUME NEW Chars, STRING \subseteq Seq(Chars), NoText = <<>>
  PROVE  Spec => []TypeOK
<1>1. ASSUME Types PROVE TypeOK
  <2>1. ASSUME NEW id \in DOMAIN points
        PROVE  /\ points[id].vec # NoText
               /\ Len(points[id].text) <= MAX_TEXT_CHARS /\ Len(points[id].vec) <= MAX_TEXT_CHARS
    <3>1. PICK r \in EmbedRows : points[id].vec = VectorOf(r) /\ points[id].text = PayloadText(r)
      BY <1>1, <2>1 DEF Types, StoreTypes, IsPoint
    <3>2. r.embed # NoText /\ r.embed \in Seq(Chars) /\ r.text \in Seq(Chars)
      BY RowsAssumption DEF EmbedRows
    <3> DEFINE t == IF BulkAllowed(r.license) THEN r.text ELSE r.embed
    <3>3. t \in Seq(Chars)
      BY <3>2
    <3> HIDE DEF t
    <3>4. /\ Len(CutTo(t, MAX_TEXT_CHARS)) <= MAX_TEXT_CHARS
          /\ Len(CutTo(r.embed, MAX_TEXT_CHARS)) <= MAX_TEXT_CHARS
          /\ CutTo(r.embed, MAX_TEXT_CHARS) # <<>>
      BY <3>2, <3>3, CutToOf, TextsAssumption
    <3> QED
      BY <3>1, <3>4 DEF VectorOf, PayloadText, t
  <2> QED
    BY <1>1, <2>1 DEF Types, JobTypes, StoreTypes, TypeOK
<1> QED
  BY <1>1, AlwaysTypes, PTL

\* A stretch of the beginning of a text is a stretch of the text.
LEMMA CutWithin ==
  ASSUME NEW S, NEW text \in Seq(S), NEW n \in Nat \ {0}, NEW c \in Seq(S), Within(c, CutTo(text, n))
  PROVE  /\ Within(c, text)
         /\ text = c => CutTo(text, n) = c
<1> DEFINE m == MinOf(Len(text), n)
           t == CutTo(text, n)
           k == Len(c)
<1>1. Len(text) \in Nat /\ \A i \in 1 .. Len(text) : text[i] \in S
  BY LenProperties, ElementOfSeq
<1>2. m \in Nat /\ m <= Len(text) /\ k \in Nat
  BY <1>1, LenProperties DEF MinOf
<1>3. t = SubSeq(text, 1, m)
  BY DEF CutTo
<1>4. PICK i \in 1 .. Len(t) - k + 1 : SubSeq(t, i, i + k - 1) = c
  BY DEF Within
<1> HIDE DEF m
<1>5. t \in Seq(S) /\ Len(t) = m /\ \A j \in 1 .. m : t[j] = text[j]
  <2>1. \A j \in 1 .. m : text[j] \in S
    BY <1>1, <1>2
  <2>2. /\ SubSeq(text, 1, m) \in Seq(S)
        /\ Len(SubSeq(text, 1, m)) = IF 1 <= m THEN m - 1 + 1 ELSE 0
        /\ \A j \in 1 .. m - 1 + 1 : SubSeq(text, 1, m)[j] = text[1 + j - 1]
    BY <1>2, <2>1, SubSeqProperties
  <2>3. m - 1 + 1 = m /\ \A j \in 1 .. m : 1 + j - 1 = j
    BY <1>2
  <2> HIDE DEF t
  <2> QED
    BY <1>2, <1>3, <2>2, <2>3
<1> HIDE DEF t, k
<1>6. i \in 1 .. Len(text) - k + 1 /\ i + k - 1 <= m /\ k <= m /\ i \in Nat /\ i >= 1
  BY <1>1, <1>2, <1>4, <1>5
<1>7. SubSeq(text, i, i + k - 1) = SubSeq(t, i, i + k - 1)
  <2> DEFINE z == i + k - 1
             u == SubSeq(text, i, z)
             v == SubSeq(t, i, z)
  <2>1. z \in Int /\ i \in Int /\ z <= m /\ \A j \in i .. z : j \in 1 .. m /\ j \in 1 .. Len(text)
    BY <1>1, <1>2, <1>6
  <2>2. \A j \in i .. z : text[j] \in S /\ t[j] = text[j] /\ t[j] \in S
    BY <1>1, <1>5, <2>1
  <2> HIDE DEF z
  <2>3. /\ u \in Seq(S) /\ Len(u) = (IF i <= z THEN z - i + 1 ELSE 0)
        /\ \A j \in 1 .. z - i + 1 : u[j] = text[i + j - 1]
    BY <2>1, <2>2, SubSeqProperties
  <2>4. /\ v \in Seq(S) /\ Len(v) = (IF i <= z THEN z - i + 1 ELSE 0)
        /\ \A j \in 1 .. z - i + 1 : v[j] = t[i + j - 1]
    BY <2>1, <2>2, SubSeqProperties
  <2> HIDE DEF u, v
  <2>5. \A j \in 1 .. Len(u) : j \in 1 .. z - i + 1 /\ i + j - 1 \in i .. z
    BY <2>1, <2>3
  <2>6. \A j \in 1 .. Len(u) : u[j] = v[j]
    BY <2>2, <2>3, <2>4, <2>5
  <2>7. Len(u) = Len(v)
    BY <2>3, <2>4
  <2>8. u = v
    BY <2>3, <2>4, <2>6, <2>7, SeqEqual
  <2> QED
    BY <2>8 DEF u, v, z
<1>8. Within(c, text)
  BY <1>4, <1>6, <1>7 DEF Within, k
<1>9. ASSUME text = c PROVE t = c
  <2>1. Len(text) = k /\ Len(text) = m
    BY <1>1, <1>2, <1>6, <1>9 DEF k
  <2>2. Len(t) = Len(text) /\ \A j \in 1 .. Len(t) : t[j] = text[j]
    BY <1>5, <2>1
  <2> QED
    BY <1>5, <1>9, <2>2, SeqEqual
<1> QED
  BY <1>8, <1>9 DEF t

\* If the adapters redact a clause, no vector is ever made of it, whatever is
\* captured, upserted, torn and embedded in what order, and wherever a text is
\* cut at MAX_TEXT_CHARS: the vectors are those of text_to_embed, never of text
\* (embed_file of embed_historical.py and embed_cultural.py).
THEOREM ClausesHold ==
  ASSUME NEW Chars, STRING \subseteq Seq(Chars), Clauses \subseteq STRING, RowsRedacted
  PROVE  Spec => []ClausesStayOut
<1>1. ASSUME Types PROVE ClausesStayOut
  <2>1. SUFFICES ASSUME NEW id \in DOMAIN points, NEW c \in Clauses, Within(c, points[id].vec)
                 PROVE  points[id].vec = c
    BY DEF ClausesStayOut
  <2>2. PICK r \in EmbedRows : points[id].vec = VectorOf(r)
    BY <1>1 DEF Types, StoreTypes, IsPoint
  <2>3. r \in ParsedRows /\ r.embed \in Seq(Chars) /\ c \in Seq(Chars) /\ MAX_TEXT_CHARS \in Nat \ {0}
    BY RowsAssumption, TextsAssumption DEF EmbedRows
  <2>4. Within(c, CutTo(r.embed, MAX_TEXT_CHARS))
    BY <2>1, <2>2 DEF VectorOf
  <2>5. Within(c, r.embed) /\ (r.embed = c => CutTo(r.embed, MAX_TEXT_CHARS) = c)
    BY <2>3, <2>4, CutWithin
  <2> QED
    BY <2>2, <2>3, <2>5 DEF RowsRedacted, VectorOf
<1> QED
  BY <1>1, AlwaysTypes, PTL

-----------------------------------------------------------------------------
(* The graph. *)

\* The labels whose nodes another statement looks for, and the property by
\* which it does.
ChunkOf(c) == IF c = "historical" THEN "HistoricalChunk" ELSE "CulturalChunk"
WorkOf(c)  == IF c = "historical" THEN "HistoricalWork" ELSE "Work"
Sought(c)  == {ChunkOf(c), WorkOf(c)}
KeyName(l) == IF l \in {"HistoricalChunk", "CulturalChunk"} THEN "chunk_id" ELSE "work_id"
KeyIn(l, v) == [x \in {KeyName(l)} |-> v]

\* Each of their nodes stands under its key.
Keyed(c, g) ==
  /\ g = [nodes |-> g.nodes, edges |-> g.edges]
  /\ g.nodes = [l \in Labels(c) |-> g.nodes[l]]
  /\ \A l \in Sought(c) : \A k \in DOMAIN g.nodes[l] :
       KeyName(l) \in DOMAIN g.nodes[l][k] /\ k = KeyIn(l, g.nodes[l][k][KeyName(l)])
GraphTypes == Keyed(corpus, graph)

\* A key has one value.
LEMMA KeysDiffer ==
  ASSUME NEW l, NEW v
  PROVE  DOMAIN KeyIn(l, v) = {KeyName(l)} /\ KeyIn(l, v)[KeyName(l)] = v
BY DEF KeyIn

\* The labels sought are labels of the graph.
LEMMA SoughtAreLabels ==
  ASSUME NEW c
  PROVE  Sought(c) \subseteq Labels(c) /\ ChunkOf(c) # WorkOf(c)
BY DEF Sought, Labels, ChunkOf, WorkOf

\* A SET leaves every property it names with the value it names, unless that
\* is null, and the others as they were.
LEMMA SetPropsOf ==
  ASSUME NEW old, NEW new
  PROVE  /\ \A f \in DOMAIN new : new[f] # Null =>
              f \in DOMAIN SetProps(old, new) /\ SetProps(old, new)[f] = new[f]
         /\ \A f \in DOMAIN old \ DOMAIN new : old[f] # Null =>
              f \in DOMAIN SetProps(old, new) /\ SetProps(old, new)[f] = old[f]
<1> DEFINE both == Updated(old, new)
<1>1. /\ \A f \in DOMAIN new : f \in DOMAIN both /\ both[f] = new[f]
      /\ \A f \in DOMAIN old \ DOMAIN new : f \in DOMAIN both /\ both[f] = old[f]
  BY DEF Updated
<1>2. SetProps(old, new) = [x \in {y \in DOMAIN both : both[y] # Null} |-> both[x]]
  BY DEF SetProps, Restrict
<1> HIDE DEF both
<1> QED
  BY <1>1, <1>2

\* h is g but for the nodes of l.
OnlyIn(h, g, c, l) ==
  /\ h = [nodes |-> h.nodes, edges |-> h.edges] /\ h.edges = g.edges
  /\ h.nodes = [x \in Labels(c) |-> h.nodes[x]]
  /\ \A x \in Labels(c) \ {l} : h.nodes[x] = g.nodes[x]

\* The properties of a node after a SET on it.
SetAt(nodes, k, row) == SetProps(IF k \in DOMAIN nodes THEN nodes[k] ELSE <<>>, row)

\* What SetNodes leaves of a graph.
LEMMA NodesSet ==
  ASSUME NEW c, NEW g, Keyed(c, g), NEW l \in Labels(c), NEW ks, NEW row
  PROVE  LET h   == SetNodes(g, l, ks, row)
             new == [k \in ks |-> SetAt(g.nodes[l], k, row)]
         IN  OnlyIn(h, g, c, l) /\ h.nodes[l] = Updated(g.nodes[l], new)
<1> DEFINE new == [k \in ks |-> SetAt(g.nodes[l], k, row)]
           L   == Labels(c)
<1>1. SetNodes(g, l, ks, row) = [g EXCEPT !.nodes[l] = Updated(g.nodes[l], new)]
  BY DEF SetNodes, SetAt
<1> DEFINE u == Updated(g.nodes[l], new)
<1> HIDE DEF u, new, L
<1>2. g = [nodes |-> g.nodes, edges |-> g.edges] /\ g.nodes = [x \in L |-> g.nodes[x]] /\ l \in L
  BY DEF Keyed, L
<1>3. [g EXCEPT !.nodes[l] = u] = [nodes |-> [g.nodes EXCEPT ![l] = u], edges |-> g.edges]
  BY <1>2
<1>4. [g.nodes EXCEPT ![l] = u] = [x \in L |-> IF x = l THEN u ELSE g.nodes[x]]
  BY <1>2
<1> DEFINE h == [nodes |-> [x \in L |-> IF x = l THEN u ELSE g.nodes[x]], edges |-> g.edges]
<1>5. OnlyIn(h, g, c, l) /\ h.nodes[l] = u
  BY <1>2 DEF OnlyIn, L
<1>6. SetNodes(g, l, ks, row) = h
  BY <1>1, <1>3, <1>4 DEF u
<1> QED
  BY <1>5, <1>6 DEF u, new

\* The nodes a statement finds by the key of a row.
LEMMA FoundByKey ==
  ASSUME NEW c, NEW g, Keyed(c, g), NEW l \in Sought(c), NEW v
  PROVE  Find(g, l, KeyIn(l, v)) = {KeyIn(l, v)} \cap DOMAIN g.nodes[l]
<1>1. ASSUME NEW k \in DOMAIN g.nodes[l]
      PROVE  Has(g.nodes[l][k], KeyIn(l, v)) <=> k = KeyIn(l, v)
  <2>1. KeyName(l) \in DOMAIN g.nodes[l][k] /\ k = KeyIn(l, g.nodes[l][k][KeyName(l)])
    BY DEF Keyed
  <2>2. \A x : DOMAIN KeyIn(l, x) = {KeyName(l)} /\ KeyIn(l, x)[KeyName(l)] = x
    BY KeysDiffer
  <2>3. Has(g.nodes[l][k], KeyIn(l, v)) <=> g.nodes[l][k][KeyName(l)] = v
    BY <2>1, <2>2 DEF Has
  <2> QED
    BY <2>1, <2>2, <2>3
<1> QED
  BY <1>1 DEF Find

\* h is g with the properties in row set on the nodes of l with the keys ks.
SetOn(h, g, l, ks, row) ==
  /\ DOMAIN h.nodes[l] = DOMAIN g.nodes[l] \cup ks
  /\ \A k \in ks : h.nodes[l][k] = SetAt(g.nodes[l], k, row)
  /\ \A k \in DOMAIN g.nodes[l] \ ks : h.nodes[l][k] = g.nodes[l][k]

\* Setting the properties of the node with the key of the row.
LEMMA NodeSet ==
  ASSUME NEW c, NEW g, Keyed(c, g), NEW l \in Sought(c),
         NEW row, KeyName(l) \in DOMAIN row, row[KeyName(l)] # Null,
         NEW ks, ks \subseteq {KeyIn(l, row[KeyName(l)])},
         NEW h, h = SetNodes(g, l, ks, row)
  PROVE  Keyed(c, h) /\ SetOn(h, g, l, ks, row) /\ OnlyIn(h, g, c, l)
<1> DEFINE new == [k \in ks |-> SetAt(g.nodes[l], k, row)]
<1>0. l \in Labels(c)
  BY SoughtAreLabels
<1>1. OnlyIn(h, g, c, l) /\ h.nodes[l] = Updated(g.nodes[l], new)
  BY <1>0, NodesSet
<1>2. /\ DOMAIN new = ks
      /\ \A k \in ks : new[k] = SetAt(g.nodes[l], k, row)
  OBVIOUS
<1> HIDE DEF new
<1>3. /\ DOMAIN Updated(g.nodes[l], new) = DOMAIN g.nodes[l] \cup ks
      /\ \A k \in ks : Updated(g.nodes[l], new)[k] = new[k]
      /\ \A k \in DOMAIN g.nodes[l] \ ks : Updated(g.nodes[l], new)[k] = g.nodes[l][k]
  BY <1>2 DEF Updated
<1>4. SetOn(h, g, l, ks, row)
  BY <1>1, <1>2, <1>3 DEF SetOn
<1>5. ASSUME NEW k \in DOMAIN h.nodes[l]
      PROVE  KeyName(l) \in DOMAIN h.nodes[l][k] /\ k = KeyIn(l, h.nodes[l][k][KeyName(l)])
  <2>1. CASE k \in ks
    <3> DEFINE old == IF k \in DOMAIN g.nodes[l] THEN g.nodes[l][k] ELSE <<>>
    <3>1. h.nodes[l][k] = SetProps(old, row)
      BY <1>4, <2>1 DEF SetOn, SetAt
    <3>2. KeyName(l) \in DOMAIN SetProps(old, row) /\ SetProps(old, row)[KeyName(l)] = row[KeyName(l)]
      BY SetPropsOf
    <3> HIDE DEF old
    <3> QED
      BY <2>1, <3>1, <3>2
  <2>2. CASE k \notin ks
    BY <1>4, <2>2 DEF Keyed, SetOn
  <2> QED
    BY <2>1, <2>2
<1>6. ASSUME NEW x \in Sought(c), x # l, NEW k \in DOMAIN h.nodes[x]
      PROVE  KeyName(x) \in DOMAIN h.nodes[x][k] /\ k = KeyIn(x, h.nodes[x][k][KeyName(x)])
  <2>1. h.nodes[x] = g.nodes[x]
    BY <1>1, <1>6, SoughtAreLabels DEF OnlyIn
  <2> QED
    BY <1>6, <2>1 DEF Keyed
<1>7. Keyed(c, h)
  BY <1>1, <1>5, <1>6 DEF Keyed, OnlyIn
<1> QED
  BY <1>1, <1>4, <1>7

\* The node of a row is found by the key in the row.
LEMMA KeyOfRow ==
  ASSUME NEW l, NEW row, KeyName(l) \in DOMAIN row
  PROVE  Restrict(row, {KeyName(l)}) = KeyIn(l, row[KeyName(l)])
BY DEF Restrict, KeyIn

\* A merged node that other statements look for stands under its key.
LEMMA NodeMerged ==
  ASSUME NEW c, NEW g, Keyed(c, g), NEW l \in Sought(c),
         NEW row, KeyName(l) \in DOMAIN row, row[KeyName(l)] # Null,
         NEW h, h = MergeNode(g, NodeT(l, KeyName(l)), row)
  PROVE  Keyed(c, h) /\ SetOn(h, g, l, {KeyIn(l, row[KeyName(l)])}, row) /\ OnlyIn(h, g, c, l)
<1> DEFINE key == KeyIn(l, row[KeyName(l)])
           hit == Find(g, l, key)
           ks  == IF hit = {} THEN {key} ELSE hit
<1>1. MergeNode(g, NodeT(l, KeyName(l)), row) = SetNodes(g, l, ks, row)
  BY KeyOfRow DEF MergeNode, NodeT
<1>2. ks = {key}
  BY FoundByKey
<1> HIDE DEF ks, hit
<1>3. h = SetNodes(g, l, {key}, row)
  BY <1>1, <1>2
<1>4. {key} \subseteq {KeyIn(l, row[KeyName(l)])}
  OBVIOUS
<1> DEFINE one == {key}
<1>5. h = SetNodes(g, l, one, row) /\ one \subseteq {KeyIn(l, row[KeyName(l)])}
  BY <1>3, <1>4
<1> HIDE DEF one
<1>6. Keyed(c, h) /\ SetOn(h, g, l, one, row) /\ OnlyIn(h, g, c, l)
  BY <1>5, NodeSet
<1> QED
  BY <1>6 DEF one

\* A merged node of another label, a source, leaves works and chunks alone.
LEMMA SourceMerged ==
  ASSUME NEW c, NEW g, Keyed(c, g), NEW l \in Labels(c) \ Sought(c), NEW key, NEW row,
         NEW h, h = MergeNode(g, NodeT(l, key), row)
  PROVE  Keyed(c, h) /\ h.edges = g.edges /\ \A x \in Sought(c) : h.nodes[x] = g.nodes[x]
<1>1. PICK ks : h = SetNodes(g, l, ks, row)
  BY DEF MergeNode, NodeT
<1>2. OnlyIn(h, g, c, l)
  BY <1>1, NodesSet
<1>3. \A x \in Sought(c) : x \in Labels(c) \ {l}
  BY SoughtAreLabels
<1>4. h.edges = g.edges /\ \A x \in Sought(c) : h.nodes[x] = g.nodes[x]
  BY <1>2, <1>3 DEF OnlyIn
<1>5. Keyed(c, h)
  BY <1>2, <1>4 DEF Keyed, OnlyIn
<1> QED
  BY <1>4, <1>5

\* Edges are no matter of the nodes, and no edge is taken away.
LEMMA EdgeMerged ==
  ASSUME NEW c, NEW g, Keyed(c, g), NEW t, NEW row, NEW h, h = MergeEdge(g, t, row)
  PROVE  /\ Keyed(c, h) /\ h.nodes = g.nodes
         /\ DOMAIN h.edges = DOMAIN g.edges \cup EdgesOf(g, t, row)
<1> DEFINE new == [e \in EdgesOf(g, t, row) |-> SetProps(IF e \in DOMAIN g.edges THEN g.edges[e] ELSE <<>>, row.set)]
           x   == Updated(g.edges, new)
<1>1. h = [g EXCEPT !.edges = x]
  BY DEF MergeEdge
<1>2. DOMAIN x = DOMAIN g.edges \cup EdgesOf(g, t, row)
  BY DEF Updated
<1> HIDE DEF x, new
<1>3. g = [nodes |-> g.nodes, edges |-> g.edges]
  BY DEF Keyed
<1>4. [g EXCEPT !.edges = x] = [nodes |-> g.nodes, edges |-> x]
  BY <1>3
<1>5. h = [nodes |-> g.nodes, edges |-> x]
  BY <1>1, <1>4
<1>6. h.nodes = g.nodes /\ h.edges = x /\ h = [nodes |-> h.nodes, edges |-> h.edges]
  BY <1>5
<1>7. Keyed(c, h)
  BY <1>6 DEF Keyed
<1> QED
  BY <1>2, <1>6, <1>7

-----------------------------------------------------------------------------
\* The equation of the graphs in RunCommand, up to row m.
RunRow(h, c, r) == IF c.op = "merge" THEN MergeRow(h, c, r) ELSE AttachRow(h, r)
Runs(f, g, c, m) == f = [n \in 0 .. m |-> IF n = 0 THEN g ELSE RunRow(f[n - 1], c, c.rows[n])]

\* That equation has a solution.
LEMMA RunsExists ==
  ASSUME NEW g, NEW c, NEW m \in Nat
  PROVE  \E f : Runs(f, g, c, m)
<1> DEFINE S == {n \in Nat : \E f : Runs(f, g, c, n)}
<1>1. 0 \in S
  <2> DEFINE f == [n \in 0 .. 0 |-> g]
  <2>1. f = [n \in 0 .. 0 |-> IF n = 0 THEN g ELSE RunRow(f[n - 1], c, c.rows[n])]
    OBVIOUS
  <2>2. Runs(f, g, c, 0)
    BY <2>1 DEF Runs
  <2> QED
    BY <2>2
<1>2. ASSUME NEW n \in Nat, n \in S PROVE n + 1 \in S
  <2>1. PICK f : Runs(f, g, c, n)
    BY <1>2
  <2> DEFINE next == RunRow(f[n], c, c.rows[n + 1])
             h    == [i \in 0 .. n + 1 |-> IF i <= n THEN f[i] ELSE next]
  <2>2. \A i \in 0 .. n : f[i] = IF i = 0 THEN g ELSE RunRow(f[i - 1], c, c.rows[i])
    BY <2>1 DEF Runs
  <2>3. ASSUME NEW i \in 0 .. n + 1
        PROVE  h[i] = IF i = 0 THEN g ELSE RunRow(h[i - 1], c, c.rows[i])
    <3>1. CASE i <= n
      <4>1. i \in 0 .. n /\ h[i] = f[i] /\ (i # 0 => i - 1 \in 0 .. n + 1 /\ h[i - 1] = f[i - 1])
        BY <3>1
      <4> QED
        BY <2>2, <4>1
    <3>2. CASE i = n + 1
      <4>1. h[i] = next /\ i # 0 /\ i - 1 = n /\ n \in 0 .. n + 1 /\ h[n] = f[n]
        BY <3>2
      <4> HIDE DEF h
      <4> QED
        BY <3>2, <4>1
    <3> QED
      BY <3>1, <3>2
  <2>4. h = [i \in 0 .. n + 1 |-> IF i = 0 THEN g ELSE RunRow(h[i - 1], c, c.rows[i])]
    BY <2>3
  <2>5. Runs(h, g, c, n + 1)
    BY <2>4 DEF Runs
  <2> QED
    BY <2>5
<1> HIDE DEF S
<1>3. Nat \subseteq S
  BY <1>1, <1>2, InductionOnNat
<1> QED
  BY <1>3 DEF S

\* RunCommand is the last value of a solution: row by row.
LEMMA RunIsLast ==
  ASSUME NEW g, NEW c, Len(c.rows) \in Nat
  PROVE  \E f : /\ f[0] = g /\ RunCommand(g, c) = f[Len(c.rows)]
                /\ \A n \in 1 .. Len(c.rows) : f[n] = RunRow(f[n - 1], c, c.rows[n])
<1> DEFINE f == CHOOSE f : Runs(f, g, c, Len(c.rows))
<1>1. Runs(f, g, c, Len(c.rows))
  BY RunsExists
<1>2. RunCommand(g, c) = f[Len(c.rows)]
  BY DEF RunCommand, After, Runs, RunRow
<1> HIDE DEF f
<1>3. \A n \in 0 .. Len(c.rows) : f[n] = IF n = 0 THEN g ELSE RunRow(f[n - 1], c, c.rows[n])
  BY <1>1 DEF Runs
<1>4. \A n \in 1 .. Len(c.rows) : n \in 0 .. Len(c.rows) /\ n # 0
  OBVIOUS
<1>5. 0 \in 0 .. Len(c.rows)
  OBVIOUS
<1> QED
  BY <1>2, <1>3, <1>4, <1>5

-----------------------------------------------------------------------------
(* What the rows of an upsert do. *)

\* The work of a chunk, and that a chunk shows the row r and hangs on its work.
WorkIn(c, g, w) == KeyIn(WorkOf(c), w) \in DOMAIN g.nodes[WorkOf(c)]
TextIn(c, g, r) ==
  LET k == KeyIn(ChunkOf(c), r.id)
      n == g.nodes[ChunkOf(c)]
  IN  /\ k \in DOMAIN n
      /\ "text" \in DOMAIN n[k] /\ n[k]["text"] = StoredText(r)
      /\ "text_to_embed" \in DOMAIN n[k] /\ n[k]["text_to_embed"] = r.embed
Hangs(c, g, r) ==
  \E e \in DOMAIN g.edges :
    e.type = "HAS_CHUNK" /\ e.b[2] = KeyIn(ChunkOf(c), r.id) /\ e.a[2].work_id = r.work
Reached(c, g, r) == TextIn(c, g, r) /\ Hangs(c, g, r)

\* Nothing is taken away, and no chunk is touched.
Grew(c, g, h) ==
  /\ Keyed(c, h)
  /\ DOMAIN g.nodes[WorkOf(c)] \subseteq DOMAIN h.nodes[WorkOf(c)]
  /\ DOMAIN g.edges \subseteq DOMAIN h.edges
Aside(c, g, h) == Grew(c, g, h) /\ h.nodes[ChunkOf(c)] = g.nodes[ChunkOf(c)]

\* The three statements of a flush.
ChunkRow(c, r) == IF c = "historical" THEN HistoricalChunk(r) ELSE CulturalChunk(r)
WorkRow(c, r)  == IF c = "historical" THEN HistoricalWork(r) ELSE CulturalWork(r)
OwnedChunks(c) == OwnedBy("HAS_CHUNK", ChunkOf(c), "chunk_id", WorkOf(c), "work_id")
OwnedWorks(c)  ==
  IF c = "historical" THEN OwnedBy("CONTAINS", "HistoricalWork", "work_id", "HistoricalSource", "slug")
  ELSE NoOwner
ChunkCommand(c, b) ==
  Merging(ChunkOf(c), "chunk_id", OwnedChunks(c), [i \in DOMAIN b |-> ChunkRow(c, b[i])])
WorkCommand(c, b) ==
  Merging(WorkOf(c), "work_id", OwnedWorks(c), LastBy("key", [i \in DOMAIN b |-> WorkRow(c, b[i])]))
SourceCommand(b) ==
  Merging("HistoricalSource", "slug", NoOwner, LastBy("key", [i \in DOMAIN b |-> HistoricalSource(b[i])]))
LEMMA FlushIs ==
  ASSUME NEW c \in {"historical", "cultural"}, NEW b
  PROVE  FlushOf(c, b) = IF c = "historical" THEN <<SourceCommand(b), WorkCommand(c, b), ChunkCommand(c, b)>>
                         ELSE <<WorkCommand(c, b), ChunkCommand(c, b)>>
<1>1. CASE c = "historical"
  <2>1. /\ WorkOf(c) = "HistoricalWork" /\ ChunkOf(c) = "HistoricalChunk"
        /\ [i \in DOMAIN b |-> ChunkRow(c, b[i])] = Each(b, HistoricalChunk)
        /\ [i \in DOMAIN b |-> WorkRow(c, b[i])] = Each(b, HistoricalWork)
        /\ [i \in DOMAIN b |-> HistoricalSource(b[i])] = Each(b, HistoricalSource)
    BY <1>1 DEF WorkOf, ChunkOf, ChunkRow, WorkRow, Each
  <2> QED
    BY <1>1, <2>1 DEF FlushOf, HistoricalFlush, SourceCommand, WorkCommand, ChunkCommand, OwnedChunks, OwnedWorks
<1>2. CASE c = "cultural"
  <2>1. /\ WorkOf(c) = "Work" /\ ChunkOf(c) = "CulturalChunk"
        /\ [i \in DOMAIN b |-> ChunkRow(c, b[i])] = Each(b, CulturalChunk)
        /\ [i \in DOMAIN b |-> WorkRow(c, b[i])] = Each(b, CulturalWork)
    BY <1>2 DEF WorkOf, ChunkOf, ChunkRow, WorkRow, Each
  <2> QED
    BY <1>2, <2>1 DEF FlushOf, CulturalFlush, WorkCommand, ChunkCommand, OwnedChunks, OwnedWorks
<1> QED
  BY <1>1, <1>2

\* The fields the statements look at.
LEMMA RowFields ==
  ASSUME NEW c, NEW r \in ParsedRows
  PROVE  /\ ChunkRow(c, r).key = r.id /\ ChunkRow(c, r).owner = r.work
         /\ {"chunk_id", "text", "text_to_embed"} \subseteq DOMAIN ChunkRow(c, r).props
         /\ ChunkRow(c, r).props["chunk_id"] = r.id /\ r.id # Null
         /\ ChunkRow(c, r).props["text"] = StoredText(r) /\ StoredText(r) # Null
         /\ ChunkRow(c, r).props["text_to_embed"] = r.embed /\ r.embed # Null
         /\ WorkRow(c, r).key = r.work
         /\ "work_id" \in DOMAIN WorkRow(c, r).props
         /\ WorkRow(c, r).props["work_id"] = r.work /\ r.work # Null
<1>1. r.id # Null /\ r.work # Null /\ r.embed # Null /\ r.text # Null
  BY RowsAssumption
<1>2. StoredText(r) # Null
  BY <1>1 DEF StoredText
<1>3. CASE c = "historical"
  <2>1. ChunkRow(c, r) = HistoricalChunk(r) /\ WorkRow(c, r) = HistoricalWork(r)
    BY <1>3 DEF ChunkRow, WorkRow
  <2> QED
    BY <1>1, <1>2, <2>1 DEF HistoricalChunk, HistoricalWork, Merged
<1>4. CASE c # "historical"
  <2>1. ChunkRow(c, r) = CulturalChunk(r) /\ WorkRow(c, r) = CulturalWork(r)
    BY <1>4 DEF ChunkRow, WorkRow
  <2> QED
    BY <1>1, <1>2, <2>1 DEF CulturalChunk, CulturalWork, Merged
<1> QED
  BY <1>3, <1>4

\* The edge of a chunk that is sent after its work.
LEMMA ChunkHung ==
  ASSUME NEW c \in {"historical", "cultural"}, NEW g, Keyed(c, g), NEW r,
         WorkIn(c, g, r.work), KeyIn(ChunkOf(c), r.id) \in DOMAIN g.nodes[ChunkOf(c)],
         NEW h, DOMAIN h.edges = DOMAIN g.edges \cup EdgesOf(g, OwnedChunks(c), Link(r.work, r.id))
  PROVE  Hangs(c, h, r)
<1> DEFINE t  == OwnedChunks(c)
           w  == KeyIn(WorkOf(c), r.work)
           k  == KeyIn(ChunkOf(c), r.id)
           l  == Link(r.work, r.id)
<1>1. /\ t.type = "HAS_CHUNK" /\ t.a = End(WorkOf(c), "work_id") /\ t.b = End(ChunkOf(c), "chunk_id")
      /\ l.from = r.work /\ l.to = r.id /\ l.pat = <<>>
  BY DEF OwnedChunks, OwnedBy, EdgeT, Link
<1>2. KeyName(WorkOf(c)) = "work_id" /\ KeyName(ChunkOf(c)) = "chunk_id"
  BY DEF KeyName, WorkOf, ChunkOf
<1>3. /\ Put(<<>>, "work_id", r.work) = w
      /\ Put(<<>>, "chunk_id", r.id) = k
  BY <1>2 DEF Put, KeyIn
<1>4. /\ Matches(g, t.a, l.from) = Find(g, WorkOf(c), w)
      /\ Matches(g, t.b, l.to) = Find(g, ChunkOf(c), k)
  BY <1>1, <1>3 DEF Matches, End
<1>5. w \in Find(g, WorkOf(c), w) /\ k \in Find(g, ChunkOf(c), k)
  <2>1. WorkOf(c) \in Sought(c) /\ ChunkOf(c) \in Sought(c)
    BY DEF Sought
  <2>2. /\ Find(g, WorkOf(c), w) = {w} \cap DOMAIN g.nodes[WorkOf(c)]
        /\ Find(g, ChunkOf(c), k) = {k} \cap DOMAIN g.nodes[ChunkOf(c)]
    BY <2>1, FoundByKey
  <2> QED
    BY <2>2 DEF WorkIn
<1> DEFINE e == [type |-> t.type, a |-> <<t.a.label, w>>, b |-> <<t.b.label, k>>, pat |-> l.pat]
<1> HIDE DEF w, k, l, t
<1>6. e \in EdgesOf(g, t, l)
  BY <1>4, <1>5 DEF EdgesOf
<1>7. e \in DOMAIN h.edges
  BY <1>6 DEF t, l
<1>8. e.type = "HAS_CHUNK" /\ e.b[2] = k /\ e.a[2] = w
  BY <1>1
<1>9. w.work_id = r.work
  BY <1>2, KeysDiffer DEF w
<1> QED
  BY <1>7, <1>8, <1>9 DEF Hangs, k

\* Merging the row of a chunk: the chunk shows it and hangs on its work; what
\* other chunks show stays.
LEMMA ChunkRowRun ==
  ASSUME NEW c \in {"historical", "cultural"}, NEW g, Keyed(c, g), NEW b, NEW r \in ParsedRows,
         NEW h, h = RunRow(g, ChunkCommand(c, b), ChunkRow(c, r))
  PROVE  /\ Grew(c, g, h) /\ h.nodes[WorkOf(c)] = g.nodes[WorkOf(c)]
         /\ TextIn(c, h, r) /\ (WorkIn(c, g, r.work) => Hangs(c, h, r))
         /\ \A x : x.id # r.id /\ TextIn(c, g, x) => TextIn(c, h, x)
<1> DEFINE cmd == ChunkCommand(c, b)
           l   == ChunkOf(c)
           row == ChunkRow(c, r).props
           q   == MergeNode(g, NodeT(l, "chunk_id"), row)
           k   == KeyIn(l, r.id)
<1>1. /\ cmd.op = "merge" /\ cmd.edge = OwnedChunks(c) /\ cmd.edge.kind = "edge"
      /\ cmd.t = NodeT(l, "chunk_id") /\ KeyName(l) = "chunk_id" /\ l \in Sought(c)
  BY DEF ChunkCommand, Merging, OwnedChunks, OwnedBy, EdgeT, KeyName, ChunkOf, Sought
<1>2. h = MergeEdge(q, OwnedChunks(c), Link(r.work, r.id))
  BY <1>1, RowFields DEF RunRow, MergeRow
<1>3. "chunk_id" \in DOMAIN row /\ row["chunk_id"] = r.id /\ r.id # Null
      /\ "text" \in DOMAIN row /\ row["text"] = StoredText(r) /\ StoredText(r) # Null
      /\ "text_to_embed" \in DOMAIN row /\ row["text_to_embed"] = r.embed /\ r.embed # Null
  BY RowFields
<1>4. q = MergeNode(g, NodeT(l, KeyName(l)), row)
  BY <1>1
<1> HIDE DEF q, row, cmd, l
<1>5. Keyed(c, q) /\ SetOn(q, g, l, {k}, row) /\ OnlyIn(q, g, c, l)
  BY <1>1, <1>3, <1>4, NodeMerged
<1>6. /\ Keyed(c, h) /\ h.nodes = q.nodes
      /\ DOMAIN h.edges = DOMAIN q.edges \cup EdgesOf(q, OwnedChunks(c), Link(r.work, r.id))
  BY <1>2, <1>5, EdgeMerged
<1>7. WorkOf(c) \in Labels(c) \ {l} /\ q.nodes[WorkOf(c)] = g.nodes[WorkOf(c)] /\ q.edges = g.edges
  BY <1>5, SoughtAreLabels DEF OnlyIn, Sought, l
<1>8. Grew(c, g, h) /\ h.nodes[WorkOf(c)] = g.nodes[WorkOf(c)]
  BY <1>6, <1>7 DEF Grew
<1>9. k \in DOMAIN h.nodes[l] /\ h.nodes[l][k] = SetAt(g.nodes[l], k, row)
  BY <1>5, <1>6 DEF SetOn
<1>10. TextIn(c, h, r)
  <2> DEFINE old == IF k \in DOMAIN g.nodes[l] THEN g.nodes[l][k] ELSE <<>>
             p   == SetProps(old, row)
  <2>1. h.nodes[l][k] = p
    BY <1>9 DEF SetAt
  <2> HIDE DEF old
  <2>2. "text" \in DOMAIN p /\ p["text"] = StoredText(r) /\ "text_to_embed" \in DOMAIN p /\ p["text_to_embed"] = r.embed
    BY <1>3, SetPropsOf
  <2> HIDE DEF p
  <2> QED
    BY <1>9, <2>1, <2>2 DEF TextIn, l
<1>11. WorkIn(c, g, r.work) => Hangs(c, h, r)
  <2>1. WorkIn(c, g, r.work) => WorkIn(c, q, r.work)
    BY <1>7 DEF WorkIn
  <2>2. k \in DOMAIN q.nodes[ChunkOf(c)]
    BY <1>6, <1>9 DEF l
  <2> QED
    BY <1>5, <1>6, <2>1, <2>2, ChunkHung DEF l
<1>12. ASSUME NEW x, x.id # r.id, TextIn(c, g, x) PROVE TextIn(c, h, x)
  <2>1. KeyIn(l, x.id) # k
    BY <1>12, KeysDiffer
  <2>2. KeyIn(l, x.id) \in DOMAIN h.nodes[l] /\ h.nodes[l][KeyIn(l, x.id)] = g.nodes[l][KeyIn(l, x.id)]
    BY <1>5, <1>6, <1>12, <2>1 DEF SetOn, TextIn, l
  <2> QED
    BY <1>12, <2>2 DEF TextIn, l
<1> QED
  BY <1>8, <1>10, <1>11, <1>12

-----------------------------------------------------------------------------
\* Merging the row of a work: the work is there; the chunks are as they were.
LEMMA WorkRowRun ==
  ASSUME NEW c \in {"historical", "cultural"}, NEW g, Keyed(c, g), NEW b, NEW r \in ParsedRows,
         NEW h, h = RunRow(g, WorkCommand(c, b), WorkRow(c, r))
  PROVE  Aside(c, g, h) /\ WorkIn(c, h, r.work)
<1> DEFINE cmd == WorkCommand(c, b)
           l   == WorkOf(c)
           row == WorkRow(c, r).props
           q   == MergeNode(g, NodeT(l, "work_id"), row)
<1>1. /\ cmd.op = "merge" /\ cmd.edge = OwnedWorks(c)
      /\ cmd.t = NodeT(l, "work_id") /\ KeyName(l) = "work_id" /\ l \in Sought(c)
  BY DEF WorkCommand, Merging, KeyName, WorkOf, Sought
<1>2. h = q \/ \E x : h = MergeEdge(q, OwnedWorks(c), x)
  BY <1>1 DEF RunRow, MergeRow
<1>3. "work_id" \in DOMAIN row /\ row["work_id"] = r.work /\ r.work # Null
  BY RowFields
<1>4. q = MergeNode(g, NodeT(l, KeyName(l)), row)
  BY <1>1
<1> HIDE DEF q, row, cmd, l
<1>5. Keyed(c, q) /\ SetOn(q, g, l, {KeyIn(l, r.work)}, row) /\ OnlyIn(q, g, c, l)
  BY <1>1, <1>3, <1>4, NodeMerged
<1>6. Keyed(c, h) /\ h.nodes = q.nodes /\ DOMAIN q.edges \subseteq DOMAIN h.edges
  BY <1>2, <1>5, EdgeMerged
<1>7. ChunkOf(c) \in Labels(c) \ {l} /\ q.nodes[ChunkOf(c)] = g.nodes[ChunkOf(c)] /\ q.edges = g.edges
  BY <1>5, SoughtAreLabels DEF OnlyIn, Sought, l
<1>8. DOMAIN q.nodes[l] = DOMAIN g.nodes[l] \cup {KeyIn(l, r.work)}
  BY <1>5 DEF SetOn
<1> QED
  BY <1>6, <1>7, <1>8 DEF Aside, Grew, WorkIn, l

\* Merging the row of a source: works and chunks are as they were.
LEMMA SourceRowRun ==
  ASSUME NEW g, Keyed("historical", g), NEW b, NEW r, NEW h, h = RunRow(g, SourceCommand(b), r)
  PROVE  Aside("historical", g, h)
<1> DEFINE cmd == SourceCommand(b)
<1>1. cmd.op = "merge" /\ cmd.edge.kind = "none" /\ cmd.t = NodeT("HistoricalSource", "slug")
  BY DEF SourceCommand, Merging, NoOwner
<1>2. h = MergeNode(g, NodeT("HistoricalSource", "slug"), r.props)
  BY <1>1 DEF RunRow, MergeRow
<1>3. "HistoricalSource" \in Labels("historical") \ Sought("historical")
  BY DEF Labels, Sought, ChunkOf, WorkOf
<1>4. Keyed("historical", h) /\ h.edges = g.edges /\ \A x \in Sought("historical") : h.nodes[x] = g.nodes[x]
  BY <1>2, <1>3, SourceMerged
<1> QED
  BY <1>4 DEF Aside, Grew, Sought

\* What is set aside twice is set aside.
LEMMA AsideTwice ==
  ASSUME NEW c, NEW f, NEW g, NEW h, Aside(c, f, g), Aside(c, g, h)
  PROVE  Aside(c, f, h) /\ \A w : WorkIn(c, g, w) => WorkIn(c, h, w)
BY DEF Aside, Grew, WorkIn

\* A command whose rows touch no chunk touches none, and what each of the rows
\* in I brings, the work ws[i], is there at its end.
LEMMA AsideRun ==
  ASSUME NEW c, NEW g, Keyed(c, g), NEW cmd, Len(cmd.rows) \in Nat, NEW ws, NEW I,
         \A h : \A i \in 1 .. Len(cmd.rows) : Keyed(c, h) =>
           /\ Aside(c, h, RunRow(h, cmd, cmd.rows[i]))
           /\ i \in I => WorkIn(c, RunRow(h, cmd, cmd.rows[i]), ws[i])
  PROVE  /\ Aside(c, g, RunCommand(g, cmd))
         /\ \A i \in I \cap 1 .. Len(cmd.rows) : WorkIn(c, RunCommand(g, cmd), ws[i])
<1> DEFINE m == Len(cmd.rows)
<1>1. PICK f : /\ f[0] = g /\ RunCommand(g, cmd) = f[m]
               /\ \A n \in 1 .. m : f[n] = RunRow(f[n - 1], cmd, cmd.rows[n])
  BY RunIsLast
<1> DEFINE Done(n) == Aside(c, g, f[n]) /\ \A i \in I \cap 1 .. n : WorkIn(c, f[n], ws[i])
           S == {n \in Nat : n <= m => Done(n)}
<1>2. 0 \in S
  <2>1. Aside(c, g, f[0])
    BY <1>1 DEF Aside, Grew
  <2> QED
    BY <2>1
<1>3. ASSUME NEW n \in Nat, n \in S PROVE n + 1 \in S
  <2>1. SUFFICES ASSUME n + 1 <= m PROVE Done(n + 1)
    OBVIOUS
  <2>2. n <= m /\ n + 1 \in 1 .. m /\ (n + 1) - 1 = n
    BY <2>1
  <2>3. Aside(c, g, f[n]) /\ \A i \in I \cap 1 .. n : WorkIn(c, f[n], ws[i])
    BY <1>3, <2>2
  <2>4. Keyed(c, f[n]) /\ f[n + 1] = RunRow(f[n], cmd, cmd.rows[n + 1])
    BY <1>1, <2>2, <2>3 DEF Aside, Grew
  <2>5. Aside(c, f[n], f[n + 1]) /\ (n + 1 \in I => WorkIn(c, f[n + 1], ws[n + 1]))
    BY <2>2, <2>4
  <2>6. Aside(c, g, f[n + 1]) /\ \A w : WorkIn(c, f[n], w) => WorkIn(c, f[n + 1], w)
    BY <2>3, <2>5, AsideTwice
  <2>7. \A i \in 1 .. n + 1 : i \in 1 .. n \/ i = n + 1
    OBVIOUS
  <2> QED
    BY <2>3, <2>5, <2>6, <2>7
<1> HIDE DEF S
<1>4. Nat \subseteq S
  BY <1>2, <1>3, InductionOnNat
<1>5. Done(m)
  BY <1>4 DEF S
<1> QED
  BY <1>1, <1>5

\* A dict keyed by f has an entry for each value of f, and only rows.
LEMMA LastByHolds ==
  ASSUME NEW S, NEW rows \in Seq(S), NEW f, NEW d, d = LastBy(f, rows)
  PROVE  /\ Len(d) \in Nat /\ DOMAIN d = 1 .. Len(d)
         /\ \A i \in DOMAIN d : d[i] \in Range(rows)
         /\ \A r \in Range(rows) : \E i \in DOMAIN d : d[i][f] = r[f]
<1> DEFINE first == FirstBy(f, rows)
           Has1(j, v) == j \in DOMAIN rows /\ rows[j][f] = v
                         /\ \A k \in DOMAIN rows : rows[k][f] = v => k <= j
           Latest(v) == CHOOSE j \in DOMAIN rows :
                          rows[j][f] = v /\ \A k \in DOMAIN rows : rows[k][f] = v => k <= j
<1>1. d = [i \in DOMAIN first |-> rows[Latest(first[i][f])]]
  BY DEF LastBy
<1>2. /\ first \in Seq(S) /\ Range(first) \subseteq Range(rows)
      /\ \A r \in Range(rows) : \E q \in Range(first) : q[f] = r[f]
  BY FirstByHolds
<1>3. DOMAIN rows = 1 .. Len(rows) /\ Len(rows) \in Nat
  BY LenProperties
<1>4. ASSUME NEW r \in Range(rows) PROVE Has1(Latest(r[f]), r[f])
  <2> DEFINE T == {j \in 1 .. Len(rows) : rows[j][f] = r[f]}
  <2>1. T \in SUBSET (1 .. Len(rows)) /\ T # {}
    BY <1>3 DEF Range
  <2>2. PICK j \in T : \A k \in T : k <= j
    <3> HIDE DEF T
    <3> QED
      BY <1>3, <2>1, LastPlace
  <2>3. Has1(j, r[f])
    BY <1>3, <2>2
  <2> QED
    BY <2>3
<1> HIDE DEF first, Latest
<1>5. DOMAIN first = 1 .. Len(first) /\ Len(first) \in Nat
  BY <1>2, LenProperties
<1>6. ASSUME NEW i \in DOMAIN first PROVE d[i] \in Range(rows) /\ d[i][f] = first[i][f]
  <2>1. first[i] \in Range(rows)
    BY <1>2 DEF Range
  <2>2. Has1(Latest(first[i][f]), first[i][f])
    BY <1>4, <2>1
  <2> QED
    BY <1>1, <2>2 DEF Range
<1>7. ASSUME NEW r \in Range(rows) PROVE \E i \in DOMAIN first : d[i][f] = r[f]
  <2>1. PICK q \in Range(first) : q[f] = r[f]
    BY <1>2
  <2>2. PICK i \in DOMAIN first : q = first[i]
    BY DEF Range
  <2> QED
    BY <1>6, <2>1, <2>2
<1>8. d \in Seq(Range(d)) /\ DOMAIN d = DOMAIN first /\ Len(d) = Len(first)
  <2>1. d \in [DOMAIN first -> Range(d)]
    BY <1>1 DEF Range
  <2> QED
    BY <1>2, <2>1, EachOf
<1> QED
  BY <1>5, <1>6, <1>7, <1>8

-----------------------------------------------------------------------------
\* The works of a batch are there when their statement has run.
LEMMA WorksRun ==
  ASSUME NEW c \in {"historical", "cultural"}, NEW g, Keyed(c, g), NEW b \in Seq(ParsedRows),
         NEW h, h = RunCommand(g, WorkCommand(c, b))
  PROVE  Aside(c, g, h) /\ \A i \in 1 .. Len(b) : WorkIn(c, h, b[i].work)
<1> DEFINE es  == [i \in DOMAIN b |-> WorkRow(c, b[i])]
           d   == LastBy("key", es)
           cmd == WorkCommand(c, b)
           ws  == [i \in DOMAIN d |-> d[i].key]
<1>1. DOMAIN b = 1 .. Len(b) /\ \A i \in 1 .. Len(b) : b[i] \in ParsedRows
  BY LenProperties, ElementOfSeq
<1>2. es \in Seq(Range(es)) /\ DOMAIN es = 1 .. Len(b)
      /\ \A i \in 1 .. Len(b) : es[i] = WorkRow(c, b[i])
  <2>1. es \in [DOMAIN b -> Range(es)]
    BY DEF Range
  <2>2. DOMAIN es = 1 .. Len(b) /\ \A i \in 1 .. Len(b) : es[i] = WorkRow(c, b[i])
    BY <1>1
  <2> HIDE DEF es
  <2> QED
    BY <2>1, <2>2, EachOf
<1>3. cmd.rows = d
  BY DEF WorkCommand, Merging
<1> HIDE DEF es, cmd
<1>4. /\ Len(d) \in Nat /\ DOMAIN d = 1 .. Len(d)
      /\ \A i \in DOMAIN d : d[i] \in Range(es)
      /\ \A r \in Range(es) : \E i \in DOMAIN d : d[i]["key"] = r["key"]
  <2> DEFINE S == Range(es)
             f == "key"
  <2>1. es \in Seq(S)
    BY <1>2
  <2> HIDE DEF S, f
  <2>2. LET e == LastBy(f, es) IN
        /\ Len(e) \in Nat /\ DOMAIN e = 1 .. Len(e)
        /\ \A i \in DOMAIN e : e[i] \in Range(es)
        /\ \A r \in Range(es) : \E i \in DOMAIN e : e[i][f] = r[f]
    BY <2>1, LastByHolds
  <2> QED
    BY <2>2 DEF f
<1> HIDE DEF d
<1>5. ASSUME NEW i \in 1 .. Len(d)
      PROVE  \E r \in ParsedRows : d[i] = WorkRow(c, r) /\ ws[i] = r.work
  <2>1. PICK j \in 1 .. Len(b) : d[i] = es[j]
    BY <1>2, <1>4 DEF Range
  <2>2. d[i] = WorkRow(c, b[j]) /\ b[j] \in ParsedRows /\ ws[i] = d[i].key
    BY <1>1, <1>2, <1>4, <2>1
  <2> QED
    BY <2>2, RowFields
<1> DEFINE I == 1 .. Len(d)
<1> HIDE DEF ws
<1>6. ASSUME NEW q, NEW i \in 1 .. Len(cmd.rows), Keyed(c, q)
      PROVE  /\ Aside(c, q, RunRow(q, cmd, cmd.rows[i]))
             /\ WorkIn(c, RunRow(q, cmd, cmd.rows[i]), ws[i])
  <2>1. PICK r \in ParsedRows : d[i] = WorkRow(c, r) /\ ws[i] = r.work
    BY <1>3, <1>5, <1>6
  <2>2. RunRow(q, cmd, cmd.rows[i]) = RunRow(q, WorkCommand(c, b), WorkRow(c, r))
    BY <1>3, <2>1 DEF cmd
  <2> QED
    BY <1>6, <2>1, <2>2, WorkRowRun
<1>7. /\ Aside(c, g, RunCommand(g, cmd))
      /\ \A i \in I \cap 1 .. Len(cmd.rows) : WorkIn(c, RunCommand(g, cmd), ws[i])
  <2> HIDE DEF I
  <2> QED
    BY <1>3, <1>4, <1>6, AsideRun
<1>8. ASSUME NEW i \in 1 .. Len(b) PROVE WorkIn(c, h, b[i].work)
  <2>1. es[i] \in Range(es) /\ es[i]["key"] = b[i].work
    BY <1>1, <1>2, RowFields DEF Range
  <2>2. PICK j \in DOMAIN d : d[j]["key"] = b[i].work
    BY <1>4, <2>1
  <2>3. ws[j] = b[i].work /\ j \in I \cap 1 .. Len(cmd.rows)
    BY <1>3, <1>4, <2>2 DEF ws
  <2> QED
    BY <1>7, <2>3 DEF cmd
<1> QED
  BY <1>7, <1>8 DEF cmd

\* The statement of the sources leaves works and chunks alone.
LEMMA SourcesRun ==
  ASSUME NEW g, Keyed("historical", g), NEW b \in Seq(ParsedRows),
         NEW h, h = RunCommand(g, SourceCommand(b))
  PROVE  Aside("historical", g, h)
<1> DEFINE es  == [i \in DOMAIN b |-> HistoricalSource(b[i])]
           d   == LastBy("key", es)
           cmd == SourceCommand(b)
<1>1. es \in Seq(Range(es))
  <2>1. es \in [DOMAIN b -> Range(es)]
    BY DEF Range
  <2> HIDE DEF es
  <2> QED
    BY <2>1, EachOf
<1>2. cmd.rows = d
  BY DEF SourceCommand, Merging
<1> HIDE DEF es
<1>3. Len(d) \in Nat
  <2> DEFINE S == Range(es)
             f == "key"
  <2>1. es \in Seq(S)
    BY <1>1
  <2> HIDE DEF S, f
  <2>2. Len(LastBy(f, es)) \in Nat
    BY <2>1, LastByHolds
  <2> QED
    BY <2>2 DEF f
<1> HIDE DEF d, cmd
<1> DEFINE c == "historical"
           I == {}
<1>4. ASSUME NEW q, NEW i \in 1 .. Len(cmd.rows), Keyed(c, q)
      PROVE  Aside(c, q, RunRow(q, cmd, cmd.rows[i]))
  BY <1>4, SourceRowRun DEF cmd
<1> HIDE DEF c
<1>5. Aside(c, g, RunCommand(g, cmd))
  <2>1. Keyed(c, g)
    BY DEF c
  <2>2. \A q : \A i \in 1 .. Len(cmd.rows) : Keyed(c, q) =>
          /\ Aside(c, q, RunRow(q, cmd, cmd.rows[i]))
          /\ i \in I => WorkIn(c, RunRow(q, cmd, cmd.rows[i]), d[i])
    BY <1>4
  <2> HIDE DEF I
  <2> QED
    BY <1>2, <1>3, <2>1, <2>2, AsideRun
<1> QED
  BY <1>5 DEF c, cmd

\* What grows twice has grown; what hangs on its work stays there.
LEMMA GrewTwice ==
  ASSUME NEW c, NEW f, NEW g, NEW h, Grew(c, f, g), Grew(c, g, h)
  PROVE  /\ Grew(c, f, h)
         /\ \A w : WorkIn(c, g, w) => WorkIn(c, h, w)
         /\ \A x : Hangs(c, g, x) => Hangs(c, h, x)
<1>1. Grew(c, f, h) /\ \A w : WorkIn(c, g, w) => WorkIn(c, h, w)
  BY DEF Grew, WorkIn
<1>2. \A x : Hangs(c, g, x) => Hangs(c, h, x)
  BY DEF Grew, Hangs
<1> QED
  BY <1>1, <1>2

\* The statement of the chunks of a batch: the last row of each id is shown,
\* and hangs on its work if that is there; other chunks are as they were.
LEMMA ChunksRun ==
  ASSUME NEW c \in {"historical", "cultural"}, NEW g, Keyed(c, g), NEW b \in Seq(ParsedRows),
         NEW h, h = RunCommand(g, ChunkCommand(c, b))
  PROVE  /\ Grew(c, g, h)
         /\ \A i \in 1 .. Len(b) :
              (\A j \in i + 1 .. Len(b) : b[j].id # b[i].id) => TextIn(c, h, b[i])
         /\ \A i \in 1 .. Len(b) : WorkIn(c, g, b[i].work) => Hangs(c, h, b[i])
         /\ \A x : TextIn(c, g, x) /\ (\A j \in 1 .. Len(b) : b[j].id # x.id) => TextIn(c, h, x)
<1> DEFINE cmd == ChunkCommand(c, b)
           m   == Len(b)
<1>1. m \in Nat /\ DOMAIN b = 1 .. m /\ \A i \in 1 .. m : b[i] \in ParsedRows
  BY LenProperties, ElementOfSeq
<1>2. Len(cmd.rows) = m /\ \A i \in 1 .. m : cmd.rows[i] = ChunkRow(c, b[i])
  <2> DEFINE es == [i \in DOMAIN b |-> ChunkRow(c, b[i])]
  <2>1. cmd.rows = es
    BY DEF ChunkCommand, Merging
  <2>2. es \in [DOMAIN b -> Range(es)]
    BY DEF Range
  <2>3. \A i \in 1 .. m : es[i] = ChunkRow(c, b[i])
    BY <1>1
  <2> HIDE DEF es
  <2>4. Len(es) = Len(b)
    BY <2>2, EachOf
  <2> QED
    BY <2>1, <2>3, <2>4
<1> HIDE DEF cmd, m
<1>3. PICK f : /\ f[0] = g /\ RunCommand(g, cmd) = f[m]
               /\ \A n \in 1 .. m : f[n] = RunRow(f[n - 1], cmd, cmd.rows[n])
  BY <1>1, <1>2, RunIsLast
<1> DEFINE Shown(n) == \A i \in 1 .. n : (\A j \in i + 1 .. n : b[j].id # b[i].id) => TextIn(c, f[n], b[i])
           Hung(n)  == \A i \in 1 .. n : WorkIn(c, g, b[i].work) => Hangs(c, f[n], b[i])
           Left(n)  == \A x : TextIn(c, g, x) /\ (\A j \in 1 .. n : b[j].id # x.id) => TextIn(c, f[n], x)
           S == {n \in Nat : n <= m => Grew(c, g, f[n]) /\ Shown(n) /\ Hung(n) /\ Left(n)}
<1>4. 0 \in S
  <2>1. Grew(c, g, f[0])
    BY <1>3 DEF Grew
  <2> QED
    BY <1>3, <2>1
<1>5. ASSUME NEW n \in Nat, n \in S PROVE n + 1 \in S
  <2>1. SUFFICES ASSUME n + 1 <= m PROVE Grew(c, g, f[n + 1]) /\ Shown(n + 1) /\ Hung(n + 1) /\ Left(n + 1)
    OBVIOUS
  <2>2. n <= m /\ n + 1 \in 1 .. m /\ (n + 1) - 1 = n
    BY <1>1, <2>1
  <2>3. Grew(c, g, f[n]) /\ Shown(n) /\ Hung(n) /\ Left(n)
    BY <1>5, <2>2
  <2> DEFINE r == b[n + 1]
             p == f[n]
             q == f[n + 1]
  <2>4. Keyed(c, p) /\ r \in ParsedRows /\ q = RunRow(p, ChunkCommand(c, b), ChunkRow(c, r))
    BY <1>1, <1>2, <1>3, <2>2, <2>3 DEF Grew, cmd
  <2> HIDE DEF r, p, q
  <2>5. /\ Grew(c, p, q) /\ TextIn(c, q, r) /\ (WorkIn(c, p, r.work) => Hangs(c, q, r))
        /\ \A x : x.id # r.id /\ TextIn(c, p, x) => TextIn(c, q, x)
    BY <2>4, ChunkRowRun
  <2>6. Grew(c, g, p) /\ Grew(c, g, g)
    BY <2>3 DEF p, Grew
  <2>7. /\ Grew(c, g, q)
        /\ \A w : WorkIn(c, g, w) => WorkIn(c, p, w)
        /\ \A x : Hangs(c, p, x) => Hangs(c, q, x)
    BY <2>5, <2>6, GrewTwice
  <2>8. \A i \in 1 .. n + 1 : i \in 1 .. n \/ i = n + 1
    OBVIOUS
  <2>9. Shown(n + 1)
    <3>1. ASSUME NEW i \in 1 .. n, \A j \in i + 1 .. n + 1 : b[j].id # b[i].id
          PROVE  TextIn(c, q, b[i])
      <4>1. n + 1 \in i + 1 .. n + 1 /\ \A j \in i + 1 .. n : j \in i + 1 .. n + 1
        OBVIOUS
      <4>2. b[i].id # r.id /\ \A j \in i + 1 .. n : b[j].id # b[i].id
        BY <3>1, <4>1 DEF r
      <4>3. TextIn(c, p, b[i])
        BY <2>3, <4>2 DEF p
      <4> QED
        BY <2>5, <4>2, <4>3
    <3>2. TextIn(c, q, b[n + 1])
      BY <2>5 DEF r
    <3> QED
      BY <2>8, <3>1, <3>2 DEF q
  <2>10. Hung(n + 1)
    <3>1. ASSUME NEW i \in 1 .. n, WorkIn(c, g, b[i].work) PROVE Hangs(c, q, b[i])
      BY <2>3, <2>7, <3>1 DEF p
    <3>2. WorkIn(c, g, b[n + 1].work) => Hangs(c, q, b[n + 1])
      BY <2>5, <2>7 DEF r
    <3> QED
      BY <2>8, <3>1, <3>2 DEF q
  <2>11. Left(n + 1)
    <3>1. ASSUME NEW x, TextIn(c, g, x), \A j \in 1 .. n + 1 : b[j].id # x.id
          PROVE  TextIn(c, q, x)
      <4>1. n + 1 \in 1 .. n + 1 /\ \A j \in 1 .. n : j \in 1 .. n + 1
        OBVIOUS
      <4>2. x.id # r.id /\ TextIn(c, p, x)
        BY <2>3, <3>1, <4>1 DEF r, p
      <4> QED
        BY <2>5, <4>2
    <3> QED
      BY <3>1 DEF q
  <2> QED
    BY <2>7, <2>9, <2>10, <2>11 DEF q
<1> HIDE DEF S
<1>6. Nat \subseteq S
  BY <1>4, <1>5, InductionOnNat
<1>7. Grew(c, g, f[m]) /\ Shown(m) /\ Hung(m) /\ Left(m)
  BY <1>1, <1>6 DEF S
<1>8. h = f[m]
  BY <1>3 DEF cmd
<1> HIDE DEF S
<1> QED
  BY <1>7, <1>8 DEF m

-----------------------------------------------------------------------------
\* A row of tags reaches the chunk of its id and no other, and takes no text.
ChunksOf(g) == g.nodes["CulturalChunk"]
KeyOf(id)   == KeyIn("CulturalChunk", id)
Attached(g, id) ==
  \A k \in {KeyOf(id)} \cap DOMAIN ChunksOf(g) : ChunksOf(g)[k].doctrine_tags = TagText(CollectTags[id])
LEMMA RowAttached ==
  ASSUME NEW c, c = "cultural", NEW g, Keyed(c, g), NEW id \in DOMAIN CollectTags, id # Null,
         NEW h, h = AttachRow(g, TagRow(id))
  PROVE  /\ Grew(c, g, h) /\ Attached(h, id)
         /\ \A x \in DOMAIN CollectTags : Attached(g, x) => Attached(h, x)
         /\ \A r \in ParsedRows : TextIn(c, g, r) => TextIn(c, h, r)
<1> DEFINE row == TagRow(id)
           l   == ChunkOf(c)
           ks  == {KeyIn(l, id)} \cap DOMAIN g.nodes[l]
<1>1. /\ l = "CulturalChunk" /\ l \in Sought(c) /\ KeyName(l) = "chunk_id" /\ WorkOf(c) = "Work"
  BY DEF ChunkOf, WorkOf, Sought, KeyName
<1>2. /\ "chunk_id" \in DOMAIN row /\ row["chunk_id"] = id
      /\ "doctrine_tags" \in DOMAIN row /\ row["doctrine_tags"] = TagText(CollectTags[id])
      /\ DOMAIN row = {"chunk_id", "doctrine_tags"}
  BY DEF TagRow
<1>3. row["doctrine_tags"] # Null
  BY <1>2, TagsAssumption
<1> HIDE DEF row
<1>4. h = SetNodes(g, l, ks, row)
  <2>1. h = SetNodes(g, "CulturalChunk", Find(g, "CulturalChunk", Restrict(row, {"chunk_id"})), row)
    BY DEF AttachRow, AttachNode, AttachT, row
  <2>2. Restrict(row, {KeyName(l)}) = KeyIn(l, row[KeyName(l)])
    BY <1>1, <1>2, KeyOfRow
  <2>3. Restrict(row, {"chunk_id"}) = KeyIn(l, id)
    BY <1>1, <1>2, <2>2
  <2> HIDE DEF l
  <2>4. Find(g, l, KeyIn(l, id)) = {KeyIn(l, id)} \cap DOMAIN g.nodes[l]
    BY <1>1, FoundByKey
  <2> QED
    BY <1>1, <2>1, <2>3, <2>4
<1> HIDE DEF l
<1>5. Keyed(c, h) /\ SetOn(h, g, l, ks, row) /\ OnlyIn(h, g, c, l)
  <2>1. ks \subseteq {KeyIn(l, row[KeyName(l)])} /\ row[KeyName(l)] # Null /\ KeyName(l) \in DOMAIN row
    BY <1>1, <1>2
  <2> HIDE DEF ks
  <2> QED
    BY <1>1, <1>4, <2>1, NodeSet
<1>6. WorkOf(c) \in Labels(c) \ {l} /\ h.nodes[WorkOf(c)] = g.nodes[WorkOf(c)] /\ h.edges = g.edges
  BY <1>5, SoughtAreLabels DEF OnlyIn, Sought, l
<1>7. Grew(c, g, h)
  BY <1>5, <1>6 DEF Grew
<1> DEFINE p(k) == SetAt(g.nodes[l], k, row)
<1>8. \A k \in ks : h.nodes[l][k] = p(k)
  BY <1>5 DEF SetOn
<1>9. DOMAIN h.nodes[l] = DOMAIN g.nodes[l] /\ \A k \in DOMAIN g.nodes[l] \ ks : h.nodes[l][k] = g.nodes[l][k]
  BY <1>5 DEF SetOn
<1>10. \A k : p(k)["doctrine_tags"] = TagText(CollectTags[id])
  <2>1. ASSUME NEW k PROVE p(k)["doctrine_tags"] = row["doctrine_tags"]
    BY <1>2, <1>3, SetPropsOf DEF SetAt
  <2> QED
    BY <1>2, <2>1
<1>11. \A k \in ks : \A f \in DOMAIN g.nodes[l][k] \ {"chunk_id", "doctrine_tags"} :
         g.nodes[l][k][f] # Null => f \in DOMAIN p(k) /\ p(k)[f] = g.nodes[l][k][f]
  <2>1. SUFFICES ASSUME NEW k \in ks, NEW f \in DOMAIN g.nodes[l][k] \ {"chunk_id", "doctrine_tags"},
                        g.nodes[l][k][f] # Null
                 PROVE  f \in DOMAIN p(k) /\ p(k)[f] = g.nodes[l][k][f]
    OBVIOUS
  <2>2. p(k) = SetProps(g.nodes[l][k], row)
    BY DEF SetAt
  <2> DEFINE old == g.nodes[l][k]
  <2>3. f \in DOMAIN old \ DOMAIN row /\ old[f] # Null
    BY <1>2, <2>1
  <2> HIDE DEF old
  <2>4. f \in DOMAIN SetProps(old, row) /\ SetProps(old, row)[f] = old[f]
    BY <2>3, SetPropsOf
  <2> QED
    BY <2>2, <2>4 DEF old
<1> HIDE DEF p, ks
<1>12. Attached(h, id)
  <2>1. SUFFICES ASSUME NEW k \in {KeyIn(l, id)} \cap DOMAIN h.nodes[l]
                 PROVE  h.nodes[l][k]["doctrine_tags"] = TagText(CollectTags[id])
    BY <1>1 DEF Attached, ChunksOf, KeyOf
  <2>2. k \in ks
    BY <1>9, <2>1 DEF ks
  <2> QED
    BY <1>8, <1>10, <2>2
<1>13. ASSUME NEW x \in DOMAIN CollectTags, Attached(g, x) PROVE Attached(h, x)
  <2>1. CASE x = id
    BY <1>12, <2>1
  <2>2. CASE x # id
    <3>1. KeyIn(l, x)[KeyName(l)] = x /\ KeyIn(l, id)[KeyName(l)] = id
      BY KeysDiffer
    <3>2. KeyIn(l, x) \notin ks
      BY <2>2, <3>1 DEF ks
    <3> QED
      BY <1>1, <1>9, <1>13, <3>2 DEF Attached, ChunksOf, KeyOf
  <2> QED
    BY <2>1, <2>2
<1>14. ASSUME NEW r \in ParsedRows, TextIn(c, g, r) PROVE TextIn(c, h, r)
  <2> DEFINE k == KeyIn(l, r.id)
             o == g.nodes[l][k]
  <2>1. /\ k \in DOMAIN g.nodes[l]
        /\ "text" \in DOMAIN o /\ o["text"] = StoredText(r)
        /\ "text_to_embed" \in DOMAIN o /\ o["text_to_embed"] = r.embed
    BY <1>14 DEF TextIn, l
  <2>2. StoredText(r) # Null /\ r.embed # Null
    BY RowFields
  <2> HIDE DEF k
  <2>3. /\ k \in DOMAIN h.nodes[l]
        /\ "text" \in DOMAIN h.nodes[l][k] /\ h.nodes[l][k]["text"] = StoredText(r)
        /\ "text_to_embed" \in DOMAIN h.nodes[l][k] /\ h.nodes[l][k]["text_to_embed"] = r.embed
    <3>1. CASE k \in ks
      <4>1. /\ "text" \in DOMAIN g.nodes[l][k] \ {"chunk_id", "doctrine_tags"} /\ g.nodes[l][k]["text"] # Null
            /\ "text_to_embed" \in DOMAIN g.nodes[l][k] \ {"chunk_id", "doctrine_tags"}
            /\ g.nodes[l][k]["text_to_embed"] # Null
        BY <2>1, <2>2
      <4>2. /\ "text" \in DOMAIN p(k) /\ p(k)["text"] = StoredText(r)
            /\ "text_to_embed" \in DOMAIN p(k) /\ p(k)["text_to_embed"] = r.embed
        BY <1>11, <2>1, <3>1, <4>1
      <4> QED
        BY <1>8, <1>9, <2>1, <3>1, <4>2
    <3>2. CASE k \notin ks
      BY <1>9, <2>1, <3>2
    <3> QED
      BY <3>1, <3>2
  <2> QED
    BY <2>3 DEF TextIn, k, l
<1> QED
  BY <1>7, <1>12, <1>13, <1>14

\* No chunk is tagged without an id.
LEMMA TagsHaveIds == Null \notin DOMAIN CollectTags
<1>1. KeptTags \in Seq({Keep(rec) : rec \in Range(TaggedFiles)})
      /\ DOMAIN CollectTags = {k.id : k \in Range(KeptTags)}
  BY KeptTagsTyped
<1> DEFINE K == {Keep(rec) : rec \in Range(TaggedFiles)}
<1>2. \A k \in K : k.id # Null
  BY TagsAssumption DEF Keep
<1> HIDE DEF K
<1>3. Range(KeptTags) \subseteq K
  BY <1>1, RangeOf DEF K
<1> QED
  BY <1>1, <1>2, <1>3

\* A batch of tags reaches all its chunks and takes no text.
LEMMA AttachReaches ==
  ASSUME NEW e, e = "cultural", NEW g, Keyed(e, g), NEW ids \in Seq(DOMAIN CollectTags),
         NEW h, h = RunCommand(g, Attaching(ids))
  PROVE  /\ Grew(e, g, h)
         /\ \A x \in DOMAIN CollectTags : Attached(g, x) \/ x \in Range(ids) => Attached(h, x)
         /\ \A r \in ParsedRows : TextIn(e, g, r) => TextIn(e, h, r)
<1> DEFINE D == DOMAIN CollectTags
           c == Attaching(ids)
           m == Len(ids)
<1>1. /\ c.op = "attach" /\ c.rows = [i \in 1 .. m |-> TagRow(ids[i])] /\ m \in Nat
      /\ DOMAIN ids = 1 .. m /\ \A i \in 1 .. m : ids[i] \in D
  <2>1. m \in Nat /\ DOMAIN ids = 1 .. m /\ \A i \in 1 .. m : ids[i] \in D
    BY LenProperties, ElementOfSeq
  <2> QED
    BY <2>1 DEF Attaching, Each
<1> HIDE DEF c, m
<1>2. Len(c.rows) = m
  BY <1>1
<1>3. PICK f : /\ f[0] = g /\ RunCommand(g, c) = f[m]
               /\ \A n \in 1 .. m : f[n] = RunRow(f[n - 1], c, c.rows[n])
  <2>1. Len(c.rows) \in Nat
    BY <1>1, <1>2
  <2>2. \E f : /\ f[0] = g /\ RunCommand(g, c) = f[Len(c.rows)]
               /\ \A n \in 1 .. Len(c.rows) : f[n] = RunRow(f[n - 1], c, c.rows[n])
    BY <2>1, RunIsLast
  <2> QED
    BY <1>2, <2>2
<1>4. \A n \in 1 .. m : f[n] = AttachRow(f[n - 1], TagRow(ids[n])) /\ ids[n] \in D /\ ids[n] # Null
  BY <1>1, <1>3, TagsHaveIds DEF RunRow
<1> DEFINE Done(n) == {x \in D : Attached(g, x) \/ \E i \in 1 .. n : x = ids[i]}
           Good(n) == /\ Grew(e, g, f[n]) /\ \A x \in Done(n) : Attached(f[n], x)
                      /\ \A r \in ParsedRows : TextIn(e, g, r) => TextIn(e, f[n], r)
           S == {n \in Nat : n <= m => Good(n)}
<1>5. 0 \in S
  <2>1. Grew(e, g, f[0])
    BY <1>3 DEF Grew
  <2> QED
    BY <1>3, <2>1
<1>6. ASSUME NEW n \in Nat, n \in S PROVE n + 1 \in S
  <2>1. SUFFICES ASSUME n + 1 <= m PROVE Good(n + 1)
    OBVIOUS
  <2>2. n <= m /\ n + 1 \in 1 .. m /\ (n + 1) - 1 = n
    BY <1>1, <2>1
  <2> DEFINE id == ids[n + 1]
             p == f[n]
             q == f[n + 1]
  <2>3. Good(n) /\ q = AttachRow(p, TagRow(id)) /\ id \in D /\ id # Null
    BY <1>4, <1>6, <2>2
  <2>4. Keyed(e, p)
    BY <2>3 DEF Grew
  <2> HIDE DEF p, q, id
  <2>5. /\ Grew(e, p, q) /\ Attached(q, id) /\ \A x \in D : Attached(p, x) => Attached(q, x)
        /\ \A r \in ParsedRows : TextIn(e, p, r) => TextIn(e, q, r)
    BY <2>3, <2>4, RowAttached
  <2>6. Grew(e, g, p)
    BY <2>3 DEF p
  <2>7. Grew(e, g, q)
    BY <2>5, <2>6, GrewTwice
  <2>8. \A x \in Done(n + 1) : x \in Done(n) \/ x = id
    <3>1. \A i \in 1 .. n + 1 : i \in 1 .. n \/ i = n + 1
      OBVIOUS
    <3> QED
      BY <3>1 DEF id
  <2>9. \A x \in Done(n + 1) : x \in D
    OBVIOUS
  <2>10. (\A x \in Done(n) : Attached(p, x)) /\ \A r \in ParsedRows : TextIn(e, g, r) => TextIn(e, p, r)
    BY <2>3 DEF p
  <2> HIDE DEF Done
  <2> QED
    BY <2>5, <2>7, <2>8, <2>9, <2>10 DEF q
<1> HIDE DEF S
<1>7. Nat \subseteq S
  BY <1>5, <1>6, InductionOnNat
<1>8. Good(m)
  BY <1>1, <1>7 DEF S
<1>9. ASSUME NEW x \in D, Attached(g, x) \/ x \in Range(ids) PROVE x \in Done(m)
  BY <1>1, <1>9 DEF Range
<1> QED
  BY <1>3, <1>8, <1>9 DEF c

-----------------------------------------------------------------------------
\* The command of an upsert is one of the three statements.
LEMMA StatementIs ==
  ASSUME NEW x \in {"historical", "cultural"}, NEW c \in FlushCommands(x)
  PROVE  \E b \in Seq(ParsedRows) :
           \/ c = SourceCommand(b) /\ x = "historical"
           \/ c = WorkCommand(x, b)
           \/ c = ChunkCommand(x, b)
<1>1. PICK b \in Seq(ParsedRows) : c \in Range(FlushOf(x, b))
  BY DEF FlushCommands
<1>2. FlushOf(x, b) = IF x = "historical" THEN <<SourceCommand(b), WorkCommand(x, b), ChunkCommand(x, b)>>
                      ELSE <<WorkCommand(x, b), ChunkCommand(x, b)>>
  BY FlushIs
<1> DEFINE s == SourceCommand(b)
           w == WorkCommand(x, b)
           k == ChunkCommand(x, b)
<1> HIDE DEF s, w, k
<1>3. Range(<<s, w, k>>) = {s, w, k} /\ Range(<<w, k>>) = {w, k}
  BY DEF Range
<1>4. (c = s /\ x = "historical") \/ c = w \/ c = k
  <2>1. FlushOf(x, b) = IF x = "historical" THEN <<s, w, k>> ELSE <<w, k>>
    BY <1>2 DEF s, w, k
  <2> QED
    BY <1>1, <1>3, <2>1
<1> QED
  BY <1>4 DEF s, w, k

\* An upsert takes nothing away.
LEMMA UpsertGrows ==
  ASSUME NEW x \in {"historical", "cultural"}, NEW g, Keyed(x, g), NEW c \in FlushCommands(x),
         NEW h, h = RunCommand(g, c)
  PROVE  Grew(x, g, h)
<1>1. PICK b \in Seq(ParsedRows) :
        \/ c = SourceCommand(b) /\ x = "historical"
        \/ c = WorkCommand(x, b)
        \/ c = ChunkCommand(x, b)
  BY StatementIs
<1>2. CASE c = SourceCommand(b) /\ x = "historical"
  BY <1>2, SourcesRun DEF Aside
<1>3. CASE c = WorkCommand(x, b)
  BY <1>3, WorksRun DEF Aside
<1>4. CASE c = ChunkCommand(x, b)
  BY <1>4, ChunksRun
<1> QED
  BY <1>1, <1>2, <1>3, <1>4

\* The graph has its labels, each node under its key.
LEMMA InitGraph == ASSUME Init PROVE GraphTypes
<1>1. graph = [nodes |-> [l \in Labels(corpus) |-> <<>>], edges |-> <<>>]
  BY DEF Init, EmptyGraph
<1>2. \A l \in Sought(corpus) : DOMAIN graph.nodes[l] = {}
  BY <1>1, SoughtAreLabels
<1> QED
  BY <1>1, <1>2 DEF GraphTypes, Keyed

\* What a step does to the graph.
LEMMA GraphSteps ==
  ASSUME Types, GraphTypes, [Next]_vars
  PROVE  corpus' = corpus /\ Grew(corpus, graph, graph')
<1>1. CASE Upsert
  <2>1. Does("merge") /\ graph' = RunCommand(graph, Head(script)) /\ corpus' = corpus
    BY <1>1 DEF Upsert, Does
  <2> DEFINE c == Head(script)
             x == corpus
             g == graph
             h == graph'
  <2>2. c \in FlushCommands(x)
    BY <2>1, CommandAtHand, Ops
  <2>3. x \in {"historical", "cultural"} /\ Keyed(x, g) /\ h = RunCommand(g, c)
    BY <2>1 DEF GraphTypes, Types, JobTypes
  <2> HIDE DEF c, x, g, h
  <2>4. Grew(x, g, h)
    BY <2>2, <2>3, UpsertGrows
  <2> QED
    BY <2>1, <2>4 DEF x, g, h
<1>2. CASE TagChunks
  <2>1. Does("attach") /\ graph' = RunCommand(graph, Head(script)) /\ corpus' = corpus
    BY <1>2 DEF TagChunks, Does
  <2>2. PICK ids \in Seq(DOMAIN CollectTags) : Head(script) = Attaching(ids)
    BY <2>1, CommandAtHand, Ops
  <2>3. corpus = "cultural"
    <3>1. job \in Jobs /\ job.kind = "persist" /\ job.corpus = corpus
      BY <2>1, CommandAtHand DEF Does, Types, JobTypes
    <3> QED
      BY <3>1, AgendasAssumption
  <2> DEFINE x == corpus
             g == graph
             h == graph'
  <2>4. x = "cultural" /\ Keyed(x, g) /\ h = RunCommand(g, Attaching(ids))
    BY <2>1, <2>2, <2>3 DEF GraphTypes
  <2> HIDE DEF x, g, h
  <2>5. Grew(x, g, h)
    BY <2>4, AttachReaches
  <2> QED
    BY <2>1, <2>5 DEF x, g, h
<1>3. CASE UNCHANGED <<corpus, graph>>
  <2>1. Grew(corpus, graph, graph)
    BY DEF GraphTypes, Grew
  <2> QED
    BY <1>3, <2>1
<1> QED
  BY <1>1, <1>2, <1>3
  DEF Next, Start, NextSource, WriteCapture, Recreate, Embed, Refuse, TagPoint, FinishSource, Raise,
      Finish, Kill, Idle, EndJob, Does, stores, vars

\* No command takes a node from its key.
LEMMA StepGraph == ASSUME Types, GraphTypes, [Next]_vars PROVE GraphTypes'
<1>1. corpus' = corpus /\ Keyed(corpus, graph')
  BY GraphSteps DEF Grew
<1>2. GraphTypes' = Keyed(corpus', graph')
  BY DEF GraphTypes, Keyed, Labels, Sought, ChunkOf, WorkOf
<1> QED
  BY <1>1, <1>2

-----------------------------------------------------------------------------
\* What tags a chunk is given: never too many.
FewTags(tags) == tags \in Seq(Range(tags)) /\ Len(tags) <= MAX_TAGS_PER_CHUNK

\* The best tags are few.
LEMMA BestAreFew ==
  ASSUME NEW S, NEW tags \in Seq(S)
  PROVE  FewTags(BestTags(tags))
<1> DEFINE m == MinOf(Len(tags), MAX_TAGS_PER_CHUNK)
           b == BestTags(tags)
<1>1. m \in Nat /\ m <= MAX_TAGS_PER_CHUNK
  BY LenProperties, TextsAssumption DEF MinOf
<1>2. b = [i \in 1 .. m |-> b[i]]
  BY DEF BestTags
<1> HIDE DEF b, m
<1>3. b \in [1 .. m -> Range(b)]
  BY <1>2 DEF Range
<1>4. b \in Seq(Range(b))
  BY <1>1, <1>3, SeqDef
<1>5. Len(b) = m
  BY <1>1, <1>2, <1>4, LenProperties
<1> QED
  BY <1>1, <1>4, <1>5 DEF FewTags, b

\* So are the tags of a record.
LEMMA RecordsAreFew ==
  ASSUME NEW k \in Range(KeptTags)
  PROVE  FewTags(k.tags)
<1> DEFINE K == {Keep(rec) : rec \in Range(TaggedFiles)}
<1>1. KeptTags \in Seq(K)
  BY KeptTagsTyped
<1> HIDE DEF K
<1>2. k \in K
  BY <1>1, RangeOf
<1>3. PICK rec \in Range(TaggedFiles) : k = Keep(rec)
  BY <1>2 DEF K
<1> DEFINE R == Range(rec.tags)
           T == {t \in R : t.valid /\ t.confidence >= CONFIDENCE_THRESHOLD}
           x == rec.tags
           seqs == [i \in DOMAIN x |-> When(x[i].valid /\ x[i].confidence >= CONFIDENCE_THRESHOLD, x[i])]
<1>4. k.tags = BestTags(FlattenSeq(seqs))
  BY <1>3 DEF Keep, ValidTags, EachAll, Each
<1>5. x \in Seq(R)
  BY TagsAssumption
<1>6. \A i \in DOMAIN x : x[i] \in R
  BY DEF Range
<1>7. \A i \in DOMAIN x : seqs[i] = IF x[i] \in T THEN <<x[i]>> ELSE <<>>
  BY <1>6 DEF When
<1> HIDE DEF x, R
<1>8. seqs \in [DOMAIN x -> Seq(R)]
  <2>1. \A y \in R : <<y>> \in Seq(R)
    OBVIOUS
  <2>2. <<>> \in Seq(R)
    OBVIOUS
  <2>3. ASSUME NEW i \in DOMAIN x PROVE seqs[i] \in Seq(R)
    BY <1>6, <1>7, <2>1, <2>2
  <2> QED
    BY <2>3
<1>9. T \in SUBSET R
  OBVIOUS
<1> HIDE DEF seqs, T
<1>10. FlattenSeq(seqs) \in Seq(T)
  BY <1>5, <1>7, <1>8, <1>9, Filtered
<1> QED
  BY <1>4, <1>10, BestAreFew

\* The equation of the tags of id, up to record m, and its solution.
TagStep(best, k, id) == IF k.id = id THEN BestTags(best \o k.tags) ELSE best
Collects(f, id, m) ==
  f = [n \in 0 .. m |-> IF n = 0 THEN <<>> ELSE TagStep(f[n - 1], KeptTags[n], id)]
LEMMA CollectsExists ==
  ASSUME NEW id, NEW m \in Nat
  PROVE  \E f : Collects(f, id, m)
<1> DEFINE S == {n \in Nat : \E f : Collects(f, id, n)}
<1>1. 0 \in S
  <2> DEFINE f == [n \in 0 .. 0 |-> <<>>]
  <2>1. f = [n \in 0 .. 0 |-> IF n = 0 THEN <<>> ELSE TagStep(f[n - 1], KeptTags[n], id)]
    OBVIOUS
  <2>2. Collects(f, id, 0)
    BY <2>1 DEF Collects
  <2> QED
    BY <2>2
<1>2. ASSUME NEW n \in Nat, n \in S PROVE n + 1 \in S
  <2>1. PICK f : Collects(f, id, n)
    BY <1>2
  <2> DEFINE next == TagStep(f[n], KeptTags[n + 1], id)
             h    == [i \in 0 .. n + 1 |-> IF i <= n THEN f[i] ELSE next]
  <2>2. \A i \in 0 .. n : f[i] = IF i = 0 THEN <<>> ELSE TagStep(f[i - 1], KeptTags[i], id)
    BY <2>1 DEF Collects
  <2>3. ASSUME NEW i \in 0 .. n + 1
        PROVE  h[i] = IF i = 0 THEN <<>> ELSE TagStep(h[i - 1], KeptTags[i], id)
    <3>1. CASE i <= n
      <4>1. i \in 0 .. n /\ h[i] = f[i] /\ (i # 0 => i - 1 \in 0 .. n + 1 /\ h[i - 1] = f[i - 1])
        BY <3>1
      <4> QED
        BY <2>2, <4>1
    <3>2. CASE i = n + 1
      <4>1. h[i] = next /\ i # 0 /\ i - 1 = n /\ n \in 0 .. n + 1 /\ h[n] = f[n]
        BY <3>2
      <4> HIDE DEF h
      <4> QED
        BY <3>2, <4>1
    <3> QED
      BY <3>1, <3>2
  <2>4. h = [i \in 0 .. n + 1 |-> IF i = 0 THEN <<>> ELSE TagStep(h[i - 1], KeptTags[i], id)]
    BY <2>3
  <2>5. Collects(h, id, n + 1)
    BY <2>4 DEF Collects
  <2> QED
    BY <2>5
<1> HIDE DEF S
<1>3. Nat \subseteq S
  BY <1>1, <1>2, InductionOnNat
<1> QED
  BY <1>3 DEF S

\* collect_tags keeps to the cap however many records a chunk has.
LEMMA CollectedAreFew ==
  ASSUME NEW id \in DOMAIN CollectTags
  PROVE  FewTags(CollectTags[id])
<1> DEFINE m == Len(KeptTags)
           f == CHOOSE f : Collects(f, id, m)
<1>1. m \in Nat /\ DOMAIN KeptTags = 1 .. m
  BY KeptTagsTyped, LenProperties
<1>2. CollectTags[id] = f[m]
  <2> HIDE DEF m
  <2>1. id \in {KeptTags[i].id : i \in DOMAIN KeptTags}
    BY DEF CollectTags
  <2> QED
    BY <2>1 DEF CollectTags, After, Collects, TagStep, m
<1> HIDE DEF m
<1>3. Collects(f, id, m)
  BY <1>1, CollectsExists
<1> HIDE DEF f
<1>4. \A n \in 0 .. m : f[n] = IF n = 0 THEN <<>> ELSE TagStep(f[n - 1], KeptTags[n], id)
  BY <1>3 DEF Collects
<1> DEFINE S == {n \in Nat : n <= m => FewTags(f[n])}
<1>5. 0 \in S
  <2>1. f[0] = <<>>
    BY <1>1, <1>4
  <2>2. FewTags(<<>>)
    BY TextsAssumption, EmptySeq DEF FewTags
  <2> QED
    BY <2>1, <2>2
<1>6. ASSUME NEW n \in Nat, n \in S PROVE n + 1 \in S
  <2>1. SUFFICES ASSUME n + 1 <= m PROVE FewTags(f[n + 1])
    OBVIOUS
  <2>2. n <= m /\ n + 1 \in 0 .. m /\ n + 1 \in 1 .. m /\ (n + 1) - 1 = n /\ n + 1 # 0
    BY <1>1, <2>1
  <2> DEFINE k == KeptTags[n + 1]
             a == f[n]
             b == k.tags
             U == Range(a) \cup Range(b)
  <2>3. FewTags(a) /\ f[n + 1] = TagStep(a, k, id)
    BY <1>4, <1>6, <2>2
  <2>4. FewTags(b)
    BY <1>1, <2>2, RecordsAreFew DEF Range
  <2> HIDE DEF a, b, k
  <2>5. a \in Seq(U) /\ b \in Seq(U)
    BY <2>3, <2>4, SeqOfMore DEF FewTags
  <2> HIDE DEF U
  <2>6. FewTags(BestTags(a \o b))
    BY <2>5, ConcatRange, BestAreFew
  <2> QED
    BY <2>3, <2>6 DEF TagStep, b
<1> HIDE DEF S
<1>7. Nat \subseteq S
  BY <1>5, <1>6, InductionOnNat
<1>8. FewTags(f[m])
  BY <1>1, <1>7 DEF S
<1> QED
  BY <1>2, <1>8

-----------------------------------------------------------------------------
(* Tags in both stores. *)

Persisting == job.kind = "persist" /\ outcome \in {"running", "ok"}
\* The points that are still to be tagged and the chunks still to be reached.
ToTag    == IF script # <<>> /\ Head(script).op = "tag" THEN Head(script).left ELSE {}
ToAttach == {id \in DOMAIN CollectTags :
               \E c \in Range(script) : c.op = "attach" /\ TagRow(id) \in Range(c.rows)}
PersistInv ==
  Persisting =>
    /\ corpus = "cultural" /\ todo = <<>>
    /\ script # <<>> => \A c \in Range(Tail(script)) : c.op = "attach"
    /\ \A id \in DOMAIN points \cap DOMAIN CollectTags :
         points[id].tags = TagText(CollectTags[id]) \/ id \in ToTag
    /\ \A id \in DOMAIN CollectTags : Attached(graph, id) \/ id \in ToAttach
    /\ outcome = "ok" => script = <<>>

\* Nothing is persisted at the start.
LEMMA InitPersist == ASSUME Init PROVE PersistInv
  BY DEF Init, PersistInv, Persisting

\* persist begins with all points to tag and all chunks to reach.
LEMMA StartPersist == ASSUME Types, Start PROVE PersistInv'
<1>1. SUFFICES ASSUME Persisting' PROVE PersistInv'
  BY DEF PersistInv
<1>2. job'.kind = "persist" /\ script' = PersistScript /\ UNCHANGED <<points, graph, corpus>>
      /\ outcome' = "running" /\ job' = Head(agenda) /\ agenda # <<>> /\ todo' = job'.names
  BY <1>1 DEF Start, Persisting, stores
<1>3. corpus = "cultural" /\ todo' = <<>>
  <2> DEFINE J == {j \in Jobs : j.corpus = corpus}
  <2>1. agenda \in Seq(J)
    BY DEF Types, JobTypes
  <2> HIDE DEF J
  <2>2. job' \in J
    BY <1>2, <2>1, TailRange
  <2> QED
    BY <1>2, <2>2, AgendasAssumption DEF J
<1> DEFINE s == PersistScript
<1>4. /\ s # <<>> /\ Head(s) = [op |-> "tag", left |-> DOMAIN points \cap DOMAIN CollectTags]
      /\ \A c \in Range(Tail(s)) : c.op = "attach"
      /\ \A id \in DOMAIN CollectTags : \E c \in Range(s) : c.op = "attach" /\ TagRow(id) \in Range(c.rows)
  BY PersistScriptTyped
<1> HIDE DEF s
<1>5. ToTag' = DOMAIN points \cap DOMAIN CollectTags
  BY <1>2, <1>4 DEF ToTag, s
<1>6. ToAttach' = DOMAIN CollectTags
  <2>1. ToAttach' = {id \in DOMAIN CollectTags :
                       \E c \in Range(s) : c.op = "attach" /\ TagRow(id) \in Range(c.rows)}
    BY <1>2 DEF ToAttach, s, Range
  <2> QED
    BY <1>4, <2>1
<1>7. script' = s /\ s # <<>> /\ \A c \in Range(Tail(s)) : c.op = "attach"
  BY <1>2, <1>4 DEF s
<1>8. script' # <<>> /\ \A c \in Range(Tail(script')) : c.op = "attach"
  BY <1>7 DEF Range
<1>9. (Range(Tail(script)))' = Range(Tail(script'))
  BY DEF Range
<1> QED
  BY <1>2, <1>3, <1>5, <1>6, <1>8, <1>9 DEF PersistInv

\* A command done, the rest follows: all of it attaches.
LEMMA RestAttaches ==
  ASSUME Types, PersistInv, Persisting, script # <<>>, script' = Tail(script)
  PROVE  /\ ToTag' = {}
         /\ script' # <<>> => \A c \in (Range(Tail(script)))' : c.op = "attach"
         /\ \A id \in ToAttach :
              \/ id \in ToAttach'
              \/ Head(script).op = "attach" /\ TagRow(id) \in Range(Head(script).rows)
<1> DEFINE C == CommandsOf(job.kind, corpus)
           t == Tail(script)
<1>1. t \in Seq(C) /\ Range(script) = {Head(script)} \cup Range(t)
  BY HeadTyped DEF Types
<1>2. \A c \in Range(t) : c.op = "attach"
  BY DEF PersistInv
<1> HIDE DEF C, t
<1>3. t # <<>> => Head(t) \in Range(t) /\ Range(Tail(t)) \subseteq Range(t)
  <2>1. ASSUME t # <<>> PROVE Head(t) \in Range(t) /\ Range(Tail(t)) \subseteq Range(t)
    BY <1>1, <2>1, TailRange
  <2> QED
    BY <2>1
<1>4. script' = t
  BY DEF t
<1>5. ToTag' = {}
  BY <1>2, <1>3, <1>4 DEF ToTag
<1>6. (Range(Tail(script)))' = Range(Tail(t))
  BY <1>4 DEF Range
<1>7. ToAttach' = {id \in DOMAIN CollectTags :
                     \E c \in Range(t) : c.op = "attach" /\ TagRow(id) \in Range(c.rows)}
  BY <1>4 DEF ToAttach, Range
<1>8. ASSUME NEW id \in ToAttach
      PROVE  id \in ToAttach' \/ (Head(script).op = "attach" /\ TagRow(id) \in Range(Head(script).rows))
  <2>1. PICK c \in Range(script) : c.op = "attach" /\ TagRow(id) \in Range(c.rows)
    BY DEF ToAttach
  <2>2. id \in DOMAIN CollectTags
    BY DEF ToAttach
  <2> QED
    BY <1>1, <1>7, <2>1, <2>2
<1> QED
  BY <1>2, <1>3, <1>4, <1>5, <1>6, <1>8

\* One point is tagged, or all are.
LEMMA TagPointPersist == ASSUME Types, PersistInv, TagPoint PROVE PersistInv'
<1>1. SUFFICES ASSUME Persisting' PROVE PersistInv'
  BY DEF PersistInv
<1>2. /\ Does("tag") /\ UNCHANGED <<graph, corpus, job, todo, outcome>> /\ Working /\ script # <<>>
      /\ Head(script).op = "tag"
  BY DEF TagPoint, Does, stores
<1>3. Persisting /\ outcome # "ok"
  BY <1>1, <1>2 DEF Persisting, Working
<1> DEFINE c == Head(script)
<1>4. /\ corpus = "cultural" /\ todo = <<>>
      /\ \A x \in Range(Tail(script)) : x.op = "attach"
      /\ \A id \in DOMAIN points \cap DOMAIN CollectTags :
           points[id].tags = TagText(CollectTags[id]) \/ id \in c.left
      /\ \A id \in DOMAIN CollectTags : Attached(graph, id) \/ id \in ToAttach
  BY <1>2, <1>3 DEF PersistInv, ToTag
<1>5. c \in PersistCommands
  BY <1>2, CommandAtHand
<1>6. c.left \subseteq DOMAIN CollectTags /\ c = [op |-> "tag", left |-> c.left]
  BY <1>2, <1>5, Ops
<1>7. CASE c.left = {}
  <2>1. script' = Tail(script) /\ points' = points
    BY <1>7 DEF TagPoint
  <2>2. \A id \in ToAttach : id \in ToAttach'
    BY <1>2, <1>3, <2>1, RestAttaches
  <2>3. \A id \in DOMAIN CollectTags : Attached(graph', id) \/ id \in ToAttach'
    BY <1>2, <1>4, <2>2
  <2>4. script' # <<>> => \A x \in (Range(Tail(script)))' : x.op = "attach"
    BY <1>2, <1>3, <2>1, RestAttaches
  <2> QED
    BY <1>2, <1>3, <1>4, <1>7, <2>1, <2>3, <2>4 DEF PersistInv
<1>8. CASE c.left # {}
  <2>1. PICK id \in c.left : /\ points' = [points EXCEPT ![id].tags = TagText(CollectTags[id])]
                            /\ script' = [script EXCEPT ![1].left = @ \ {id}]
    BY <1>8 DEF TagPoint
  <2> DEFINE d == [op |-> "tag", left |-> c.left \ {id}]
  <2>2. ScriptTypes /\ job.kind = "persist" /\ script # <<>> /\ Head(script).op = "tag"
    BY <1>2, <1>3 DEF Types, Persisting
  <2>3. d = [op |-> "tag", left |-> Head(script).left \ {id}]
    OBVIOUS
  <2>4. d.op = "tag" /\ d.left = c.left \ {id}
    OBVIOUS
  <2> HIDE DEF c, d
  <2>5. /\ Head(script') = d /\ Tail(script') = Tail(script) /\ script' # <<>>
        /\ Range(script') = {d} \cup Range(Tail(script))
    BY <2>1, <2>2, <2>3, PointTagged
  <2>6. ToTag' = c.left \ {id}
    BY <2>4, <2>5 DEF ToTag
  <2>7. (Range(Tail(script)))' = Range(Tail(script)) /\ (Range(script))' = Range(script')
    BY <2>5 DEF Range
  <2>8. ToAttach \subseteq ToAttach'
    <3>1. Range(script) = {c} \cup Range(Tail(script))
      BY <1>2, HeadTyped DEF Types, c
    <3>2. c.op = "tag"
      BY <1>6
    <3>3. ASSUME NEW x \in ToAttach PROVE x \in ToAttach'
      <4>1. PICK y \in Range(script) : y.op = "attach" /\ TagRow(x) \in Range(y.rows)
        BY DEF ToAttach
      <4>2. y \in Range(Tail(script))
        BY <3>1, <3>2, <4>1
      <4>3. y \in (Range(script))' /\ x \in DOMAIN CollectTags
        BY <2>5, <2>7, <4>2 DEF ToAttach
      <4>4. ToAttach' = {i \in DOMAIN CollectTags :
                           \E z \in (Range(script))' : z.op = "attach" /\ TagRow(i) \in Range(z.rows)}
        BY <2>7 DEF ToAttach
      <4> QED
        BY <4>1, <4>3, <4>4
    <3> QED
      BY <3>3
  <2>9. /\ DOMAIN points' = DOMAIN points
        /\ \A x \in DOMAIN points : x # id => points'[x] = points[x]
        /\ id \in DOMAIN points => points'[id] = [points[id] EXCEPT !.tags = TagText(CollectTags[id])]
    BY <2>1 DEF Types, StoreTypes
  <2>10. \A p, t : IsPoint(p) => [p EXCEPT !.tags = t].tags = t
    BY DEF IsPoint
  <2>11. id \in DOMAIN points => points'[id].tags = TagText(CollectTags[id])
    <3>1. id \in DOMAIN points => IsPoint(points[id])
      BY DEF Types, StoreTypes
    <3> QED
      BY <2>9, <2>10, <3>1
  <2>12. \A x \in DOMAIN points' \cap DOMAIN CollectTags :
           points'[x].tags = TagText(CollectTags[x]) \/ x \in ToTag'
    BY <1>4, <2>6, <2>9, <2>11
  <2>13. \A x \in DOMAIN CollectTags : Attached(graph', x) \/ x \in ToAttach'
    BY <1>2, <1>4, <2>8
  <2> QED
    BY <1>2, <1>3, <1>4, <2>7, <2>12, <2>13 DEF PersistInv
<1> QED
  BY <1>7, <1>8

\* One batch of chunks is reached.
LEMMA TagChunksPersist == ASSUME Types, GraphTypes, PersistInv, TagChunks PROVE PersistInv'
<1>1. SUFFICES ASSUME Persisting' PROVE PersistInv'
  BY DEF PersistInv
<1>2. /\ Does("attach") /\ UNCHANGED <<points, corpus, job, todo, outcome>> /\ Working /\ script # <<>>
      /\ Head(script).op = "attach" /\ script' = Tail(script) /\ graph' = RunCommand(graph, Head(script))
  BY DEF TagChunks, Does, Did
<1>3. Persisting /\ outcome # "ok"
  BY <1>1, <1>2 DEF Persisting, Working
<1>4. /\ corpus = "cultural" /\ todo = <<>> /\ Keyed(corpus, graph)
      /\ \A id \in DOMAIN points \cap DOMAIN CollectTags :
           points[id].tags = TagText(CollectTags[id])
      /\ \A id \in DOMAIN CollectTags : Attached(graph, id) \/ id \in ToAttach
  BY <1>2, <1>3 DEF PersistInv, ToTag, GraphTypes
<1>5. PICK ids \in Seq(DOMAIN CollectTags) : Head(script) = Attaching(ids)
  BY <1>2, CommandAtHand, Ops
<1>6. \A x \in DOMAIN CollectTags : Attached(graph, x) \/ x \in Range(ids) => Attached(graph', x)
  <2> DEFINE e == corpus
             g == graph
             h == graph'
  <2>1. e = "cultural" /\ Keyed(e, g) /\ h = RunCommand(g, Attaching(ids))
    BY <1>2, <1>4, <1>5
  <2> HIDE DEF e, g, h
  <2>2. \A x \in DOMAIN CollectTags : Attached(g, x) \/ x \in Range(ids) => Attached(h, x)
    BY <2>1, AttachReaches
  <2> QED
    BY <2>2 DEF g, h
<1>7. \A x : TagRow(x) \in Range(Head(script).rows) => x \in Range(ids)
  <2>1. Head(script).rows = [j \in DOMAIN ids |-> TagRow(ids[j])]
    BY <1>5 DEF Attaching, Each
  <2>2. \A x, y : TagRow(x) = TagRow(y) => x = y
    <3>1. \A x : TagRow(x).chunk_id = x
      BY DEF TagRow
    <3> QED
      BY <3>1
  <2>3. ASSUME NEW x, TagRow(x) \in Range(Head(script).rows) PROVE x \in Range(ids)
    <3>1. PICK j \in DOMAIN ids : TagRow(x) = TagRow(ids[j])
      BY <2>1, <2>3 DEF Range
    <3> QED
      BY <2>2, <3>1 DEF Range
  <2> QED
    BY <2>3
<1>8. \A x \in ToAttach : x \in ToAttach' \/ x \in Range(ids)
  BY <1>2, <1>3, <1>7, RestAttaches
<1>9. \A x \in DOMAIN CollectTags : Attached(graph', x) \/ x \in ToAttach'
  BY <1>4, <1>6, <1>8
<1>10. script' # <<>> => \A x \in (Range(Tail(script)))' : x.op = "attach"
  BY <1>2, <1>3, RestAttaches
<1> QED
  BY <1>2, <1>3, <1>4, <1>9, <1>10 DEF PersistInv

\* What persist is not about leaves its invariant alone.
LEMMA SamePersist ==
  ASSUME PersistInv, UNCHANGED <<corpus, job, todo, script, outcome, points, graph>>
  PROVE  PersistInv'
<1>1. ToTag' = ToTag /\ ToAttach' = ToAttach /\ (Range(Tail(script)))' = Range(Tail(script))
  BY DEF ToTag, ToAttach, Range
<1>2. \A id : Attached(graph', id) <=> Attached(graph, id)
  OBVIOUS
<1>3. Persisting' <=> Persisting
  BY DEF Persisting
<1> QED
  BY <1>1, <1>2, <1>3 DEF PersistInv

\* persist ends well when no command is left.
LEMMA FinishPersist == ASSUME Types, PersistInv, Finish PROVE PersistInv'
<1>1. SUFFICES ASSUME Persisting' PROVE PersistInv'
  BY DEF PersistInv
<1>2. /\ UNCHANGED <<corpus, graph, points, job>> /\ Working /\ script = <<>> /\ script' = <<>>
      /\ todo' = <<>> /\ outcome' = IF outcome = "faulty" THEN "failed" ELSE "ok"
  BY DEF Finish, EndJob
<1>3. Persisting
  BY <1>1, <1>2 DEF Persisting, Working
<1>4. ToTag = {} /\ ToAttach = {} /\ ToTag' = {} /\ ToAttach' = {}
  BY <1>2 DEF ToTag, ToAttach, Range
<1> QED
  BY <1>2, <1>3, <1>4 DEF PersistInv

\* Every step keeps the invariant of persist.
LEMMA StepPersist == ASSUME Types, GraphTypes, PersistInv, [Next]_vars PROVE PersistInv'
<1>1. CASE NextSource
  <2>1. UNCHANGED <<job, corpus>> /\ Working /\ todo # <<>> /\ outcome' \in {outcome, "faulty"}
    BY <1>1 DEF NextSource
  <2>2. ~ Persisting'
    BY <2>1 DEF PersistInv, Persisting, Working
  <2> QED
    BY <2>2 DEF PersistInv
<1>2. ASSUME NEW op \in {"capture", "merge", "recreate", "embed", "done", "raise"}, Does(op)
      PROVE  PersistInv'
  <2>1. job' = job /\ job.kind # "persist"
    BY <1>2, CommandAtHand DEF Does
  <2> QED
    BY <2>1 DEF PersistInv, Persisting
<1>3. CASE WriteCapture \/ Upsert \/ Recreate \/ Embed \/ Refuse \/ FinishSource
  BY <1>2, <1>3 DEF WriteCapture, Upsert, Recreate, Embed, Refuse, FinishSource
<1>4. CASE Raise \/ Kill
  BY <1>4 DEF Raise, Kill, EndJob, PersistInv, Persisting
<1>5. CASE UNCHANGED vars
  BY <1>5, SamePersist DEF vars, stores, work, past
<1> QED
  BY <1>1, <1>3, <1>4, <1>5, StartPersist, TagPointPersist, TagChunksPersist, FinishPersist DEF Next, Idle

\* When persist has ended well, every chunk that is in both stores has in both
\* the tags the records give it, whatever was there before and in however many
\* batches they came, and no chunk has more than MAX_TAGS_PER_CHUNK
\* (collect_tags, persist_qdrant and persist_neo4j of autotag_run.py: "so the
\* graph and the vector store agree").
THEOREM StoresAgree == Spec => []TagsAgree
<1>1. ASSUME PersistInv PROVE TagsAgree
  <2>1. SUFFICES ASSUME outcome = "ok", job.kind = "persist", NEW id \in DOMAIN points \cap DOMAIN CollectTags
                 PROVE  /\ Len(CollectTags[id]) <= MAX_TAGS_PER_CHUNK
                        /\ \A k \in DOMAIN graph.nodes["CulturalChunk"] \cap {[chunk_id |-> id]} :
                             graph.nodes["CulturalChunk"][k].doctrine_tags = points[id].tags
    BY DEF TagsAgree
  <2>2. Persisting
    BY <2>1 DEF Persisting
  <2>3. script = <<>>
    BY <1>1, <2>1, <2>2 DEF PersistInv
  <2>4. ToTag = {} /\ ToAttach = {}
    BY <2>3 DEF ToTag, ToAttach, Range
  <2>5. points[id].tags = TagText(CollectTags[id]) /\ Attached(graph, id)
    BY <1>1, <2>2, <2>4 DEF PersistInv
  <2>6. Len(CollectTags[id]) <= MAX_TAGS_PER_CHUNK
    BY CollectedAreFew DEF FewTags
  <2> QED
    <3>1. \A x \in {KeyOf(id)} \cap DOMAIN ChunksOf(graph) : ChunksOf(graph)[x].doctrine_tags = points[id].tags
      BY <2>5 DEF Attached
    <3>2. KeyOf(id) = [chunk_id |-> id]
      BY DEF KeyOf, KeyIn, KeyName
    <3> QED
      BY <2>6, <3>1, <3>2 DEF ChunksOf
<1>2. Spec => [](Types /\ GraphTypes /\ PersistInv)
  <2>1. Init => GraphTypes /\ PersistInv
    BY InitGraph, InitPersist
  <2>2. Types /\ GraphTypes /\ PersistInv /\ [Next]_vars => GraphTypes' /\ PersistInv'
    BY StepGraph, StepPersist
  <2> QED
    BY <2>1, <2>2, AlwaysTypes, PTL DEF Spec
<1> QED
  BY <1>1, <1>2, PTL

-----------------------------------------------------------------------------
(* The plan of a load: batch after batch, the statements of a flush. *)

Statements(c)     == IF c = "historical" THEN 3 ELSE 2
LoadBatches(rows) == Batches(rows, UPSERT_BATCH)
UpsertsOf(c, rows) ==
  FlattenSeq([i \in DOMAIN LoadBatches(rows) |-> FlushOf(c, LoadBatches(rows)[i])])
\* The rows in the first d batches.
SentBy(rows, d) == MinOf(d * UPSERT_BATCH, Len(rows))

LEMMA UpsertsAre ==
  ASSUME NEW rows
  PROVE  Upserts(rows) = UpsertsOf(corpus, rows)
BY DEF Upserts, UpsertsOf, LoadBatches, EachAll, Each, FlushOf

\* The statements of a flush, in their order.
LEMMA FlushPlaces ==
  ASSUME NEW c \in {"historical", "cultural"}, NEW b \in Seq(ParsedRows), NEW s, s = FlushOf(c, b),
         NEW F, F = Statements(c)
  PROVE  /\ s \in Seq(FlushCommands(c)) /\ Len(s) = F /\ F \in {2, 3}
         /\ s[F] = ChunkCommand(c, b) /\ s[F - 1] = WorkCommand(c, b)
         /\ F = 3 => c = "historical" /\ s[1] = SourceCommand(b)
<1>1. s = IF c = "historical" THEN <<SourceCommand(b), WorkCommand(c, b), ChunkCommand(c, b)>>
          ELSE <<WorkCommand(c, b), ChunkCommand(c, b)>>
  BY FlushIs
<1> DEFINE x == SourceCommand(b)
           y == WorkCommand(c, b)
           z == ChunkCommand(c, b)
           S == FlushCommands(c)
<1>2. Range(s) \subseteq S
  BY DEF FlushCommands
<1> HIDE DEF x, y, z, S
<1>3. CASE c = "historical"
  <2>1. s = <<x, y, z>> /\ F = 3
    BY <1>1, <1>3 DEF x, y, z, Statements
  <2>2. {x, y, z} \subseteq S
    BY <1>2, <2>1 DEF Range
  <2>3. s \in Seq(S) /\ Len(s) = 3 /\ s[3] = z /\ s[2] = y /\ s[1] = x
    BY <2>1, <2>2
  <2>4. s \in Seq(S) /\ Len(s) = F /\ s[F] = z /\ s[F - 1] = y /\ s[1] = x /\ F \in {2, 3}
    BY <2>1, <2>3
  <2> QED
    BY <1>3, <2>4 DEF x, y, z, S
<1>4. CASE c # "historical"
  <2>1. s = <<y, z>> /\ F = 2
    BY <1>1, <1>4 DEF y, z, Statements
  <2>2. {y, z} \subseteq S
    BY <1>2, <2>1 DEF Range
  <2>3. s \in Seq(S) /\ Len(s) = 2 /\ s[2] = z /\ s[1] = y
    BY <2>1, <2>2
  <2> QED
    BY <2>1, <2>3 DEF y, z, S
<1> QED
  BY <1>3, <1>4

\* Where they stand among the commands of a load.
LEMMA UpsertPlaces ==
  ASSUME NEW c \in {"historical", "cultural"}, NEW rows \in Seq(ParsedRows),
         NEW B, B = LoadBatches(rows), NEW u, u = UpsertsOf(c, rows), NEW F, F = Statements(c)
  PROVE  /\ u \in Seq(FlushCommands(c)) /\ Len(B) \in Nat /\ Len(u) = Len(B) * F
         /\ \A d \in 0 .. Len(B) - 1 : \A j \in 1 .. F :
              d * F + j \in 1 .. Len(u) /\ u[d * F + j] = FlushOf(c, B[d + 1])[j]
<1> DEFINE S    == FlushCommands(c)
           seqs == [i \in DOMAIN B |-> FlushOf(c, B[i])]
           m    == Len(B)
<1>1. B \in Seq(Seq(ParsedRows))
  BY BatchesHold, BatchesAssumption DEF LoadBatches
<1>2. F \in {2, 3}
  BY DEF Statements
<1>3. m \in Nat /\ DOMAIN B = 1 .. m /\ \A i \in 1 .. m : B[i] \in Seq(ParsedRows)
  BY <1>1, LenProperties, ElementOfSeq
<1>4. ASSUME NEW i \in 1 .. m PROVE seqs[i] \in Seq(S) /\ Len(seqs[i]) = F /\ seqs[i] = FlushOf(c, B[i])
  BY <1>3, FlushPlaces
<1>5. u = FlattenSeq(seqs)
  BY DEF UpsertsOf
<1> HIDE DEF S, m
<1>6. seqs \in [DOMAIN B -> Seq(S)]
  BY <1>3, <1>4
<1> HIDE DEF seqs
<1>7. seqs \in Seq(Seq(S)) /\ Len(seqs) = m
  BY <1>1, <1>6, EachOf DEF m
<1>8. u \in Seq(S)
  BY <1>5, <1>7, FlattenStarts
<1>9. PICK st : Starts(st, seqs)
  BY <1>7, FlattenStarts
<1>10. /\ st[1] = 0 /\ \A i \in 1 .. m : st[i + 1] = st[i] + F
       /\ Len(u) = st[m + 1]
       /\ \A i \in 1 .. m : \A j \in 1 .. F : st[i] + j \in 1 .. Len(u) /\ u[st[i] + j] = seqs[i][j]
  <2>1. /\ st[1] = 0 /\ \A i \in 1 .. m : st[i + 1] = st[i] + Len(seqs[i])
        /\ Len(u) = st[m + 1]
        /\ \A i \in 1 .. m : \A j \in 1 .. Len(seqs[i]) :
             st[i] + j \in 1 .. Len(u) /\ u[st[i] + j] = seqs[i][j]
    BY <1>5, <1>7, <1>9 DEF Starts
  <2> QED
    BY <1>4, <2>1
<1> DEFINE T == {n \in Nat : n <= m => st[n + 1] = n * F}
<1>11. 0 \in T
  BY <1>2, <1>10
<1>12. ASSUME NEW n \in Nat, n \in T PROVE n + 1 \in T
  <2>1. SUFFICES ASSUME n + 1 <= m PROVE st[n + 2] = (n + 1) * F
    OBVIOUS
  <2>2. n <= m /\ n + 1 \in 1 .. m /\ (n + 1) + 1 = n + 2
    BY <1>3, <2>1
  <2>3. st[n + 1] = n * F
    BY <1>12, <2>2
  <2>4. st[n + 2] = n * F + F
    BY <1>10, <2>2, <2>3
  <2>5. (n + 1) * F = n * F + F
    BY <1>2
  <2> QED
    BY <2>4, <2>5
<1> HIDE DEF T
<1>13. Nat \subseteq T
  BY <1>11, <1>12, InductionOnNat
<1>14. \A n \in Nat : n <= m => st[n + 1] = n * F
  BY <1>13 DEF T
<1>15. Len(u) = m * F
  BY <1>3, <1>10, <1>14
<1>16. ASSUME NEW d \in 0 .. m - 1, NEW j \in 1 .. F
       PROVE  d * F + j \in 1 .. Len(u) /\ u[d * F + j] = FlushOf(c, B[d + 1])[j]
  <2>1. d \in Nat /\ d <= m /\ d + 1 \in 1 .. m
    BY <1>3
  <2>2. st[d + 1] = d * F
    BY <1>14, <2>1
  <2> QED
    BY <1>4, <1>10, <2>1, <2>2
<1> QED
  BY <1>3, <1>8, <1>15, <1>16 DEF m, S

\* The rows of batch d + 1.
LEMMA BatchIs ==
  ASSUME NEW rows \in Seq(ParsedRows), NEW B, B = LoadBatches(rows), NEW d \in 0 .. Len(B) - 1
  PROVE  /\ B[d + 1] \in Seq(ParsedRows)
         /\ SentBy(rows, d) \in Nat /\ SentBy(rows, d + 1) \in Nat
         /\ SentBy(rows, d) < SentBy(rows, d + 1) /\ SentBy(rows, d + 1) <= Len(rows)
         /\ Len(B[d + 1]) = SentBy(rows, d + 1) - SentBy(rows, d)
         /\ \A i \in 1 .. Len(B[d + 1]) : B[d + 1][i] = rows[SentBy(rows, d) + i]
<1> DEFINE n    == Len(rows)
           size == UPSERT_BATCH
           m    == (n + size - 1) \div size
           a    == d * size + 1
           z    == MinOf((d + 1) * size, n)
<1>1. n \in Nat /\ DOMAIN rows = 1 .. n /\ size \in Nat \ {0}
  BY LenProperties, BatchesAssumption
<1>2. m \in Nat
  BY <1>1
<1>3. B = [i \in 1 .. m |-> SubSeq(rows, (i - 1) * size + 1, MinOf(i * size, n))]
  BY DEF LoadBatches, Batches
<1>4. Len(B) = m
  <2>1. B \in Seq(Seq(ParsedRows))
    BY BatchesHold, BatchesAssumption DEF LoadBatches
  <2> HIDE DEF m
  <2> QED
    BY <1>2, <1>3, <2>1, LenProperties
<1>5. d \in Nat /\ d + 1 \in 1 .. m /\ (d + 1) - 1 = d
  BY <1>2, <1>4
<1>6. a \in 1 .. n /\ z \in a .. n /\ d * size \in Nat
  BY <1>1, <1>5, BatchPlaces DEF EndOf, MinOf
<1>7. B[d + 1] = SubSeq(rows, a, z)
  BY <1>3, <1>5
<1>8. SentBy(rows, d) = d * size /\ SentBy(rows, d + 1) = z
  BY <1>1, <1>6 DEF SentBy, MinOf
<1> HIDE DEF n, size, m, z
<1>9. /\ SubSeq(rows, a, z) \in Seq(ParsedRows)
      /\ Len(SubSeq(rows, a, z)) = z - a + 1
      /\ \A j \in 1 .. z - a + 1 : SubSeq(rows, a, z)[j] = rows[a + j - 1]
  <2>1. \A j \in a .. z : rows[j] \in ParsedRows
    BY <1>1, <1>6, ElementOfSeq DEF n
  <2>2. a <= z + 1 /\ a \in Int /\ z \in Int /\ a <= z
    BY <1>1, <1>6
  <2> HIDE DEF a
  <2> QED
    BY <1>1, <1>6, <2>1, <2>2, SubSeqProperties DEF n
<1>10. Len(B[d + 1]) = z - d * size
  BY <1>1, <1>6, <1>7, <1>9
<1>11. \A i \in 1 .. z - d * size : B[d + 1][i] = rows[d * size + i]
  BY <1>1, <1>6, <1>7, <1>9
<1> QED
  BY <1>1, <1>6, <1>7, <1>8, <1>9, <1>10, <1>11 DEF n

\* All the batches hold all the rows.
LEMMA AllSent ==
  ASSUME NEW rows \in Seq(ParsedRows)
  PROVE  SentBy(rows, 0) = 0 /\ SentBy(rows, Len(LoadBatches(rows))) = Len(rows)
<1> DEFINE n    == Len(rows)
           size == UPSERT_BATCH
           m    == (n + size - 1) \div size
<1>1. n \in Nat /\ size \in Nat \ {0}
  BY LenProperties, BatchesAssumption
<1>2. m \in Nat
  BY <1>1
<1>3. Len(LoadBatches(rows)) = m
  <2>1. LoadBatches(rows) \in Seq(Seq(ParsedRows))
    BY BatchesHold, BatchesAssumption DEF LoadBatches
  <2>2. DOMAIN LoadBatches(rows) = 1 .. m
    BY DEF LoadBatches, Batches
  <2> HIDE DEF m
  <2> QED
    BY <1>2, <2>1, <2>2, LenProperties
<1>4. SentBy(rows, 0) = 0
  BY <1>1 DEF SentBy, MinOf
<1>5. n <= m * size
  <2>1. CASE n = 0
    <3>1. m * size \in Nat
      BY <1>1, <1>2
    <3> QED
      BY <2>1, <3>1
  <2>2. CASE n # 0
    <3>1. n \in 1 .. n
      BY <1>1, <2>2
    <3>2. PICK i \in 1 .. m : n \in (i - 1) * size + 1 .. MinOf(i * size, n)
      BY <1>1, <3>1, BatchOfPlace DEF EndOf, MinOf
    <3>3. i * size \in Nat /\ n <= i * size
      BY <1>1, <1>2, <3>2 DEF MinOf
    <3> HIDE DEF m
    <3>4. i * size <= m * size
      BY <1>1, <1>2, <3>2
    <3>5. m * size \in Nat
      BY <1>1, <1>2
    <3> QED
      BY <1>1, <3>3, <3>4, <3>5
  <2> QED
    BY <2>1, <2>2
<1>6. m * size \in Nat
  BY <1>1, <1>2
<1> HIDE DEF m
<1> QED
  BY <1>1, <1>3, <1>4, <1>5, <1>6 DEF SentBy, MinOf

-----------------------------------------------------------------------------
\* The first e rows are in the graph: each hangs on its work, and the last of
\* each id is shown.
Shown(c, g, rows, e) ==
  \A p \in 1 .. e :
    /\ Hangs(c, g, rows[p])
    /\ (\A q \in p + 1 .. e : rows[q].id # rows[p].id) => TextIn(c, g, rows[p])
\* The graph of a load that has done d batches and j statements of the next.
UpTo(c, g, rows, d, j) ==
  /\ Shown(c, g, rows, SentBy(rows, d))
  /\ j = Statements(c) - 1 =>
       \A p \in SentBy(rows, d) + 1 .. SentBy(rows, d + 1) : WorkIn(c, g, rows[p].work)

\* A graph in which the chunks are untouched shows what it showed.
LEMMA ShownAside ==
  ASSUME NEW c, NEW g, NEW h, Aside(c, g, h), NEW rows, NEW e, Shown(c, g, rows, e)
  PROVE  Shown(c, h, rows, e)
<1>1. \A x : Hangs(c, g, x) => Hangs(c, h, x)
  BY DEF Aside, Grew, Hangs
<1>2. \A x : TextIn(c, g, x) => TextIn(c, h, x)
  BY DEF Aside, TextIn
<1> QED
  BY <1>1, <1>2 DEF Shown

\* The last statement of a flush shows the rows of its batch.
LEMMA ShownNext ==
  ASSUME NEW c \in {"historical", "cultural"}, NEW g, Keyed(c, g), NEW rows \in Seq(ParsedRows),
         NEW B, B = LoadBatches(rows), NEW d \in 0 .. Len(B) - 1,
         Shown(c, g, rows, SentBy(rows, d)),
         \A p \in SentBy(rows, d) + 1 .. SentBy(rows, d + 1) : WorkIn(c, g, rows[p].work),
         NEW h, h = RunCommand(g, ChunkCommand(c, B[d + 1]))
  PROVE  /\ Grew(c, g, h) /\ Shown(c, h, rows, SentBy(rows, d + 1))
         /\ \A x : TextIn(c, g, x) /\ (\A r \in Range(rows) : r.id # x.id) => TextIn(c, h, x)
<1> DEFINE b == B[d + 1]
           a == SentBy(rows, d)
           z == SentBy(rows, d + 1)
<1>1. /\ b \in Seq(ParsedRows) /\ a \in Nat /\ z \in Nat /\ a < z /\ z <= Len(rows) /\ Len(b) = z - a
      /\ \A i \in 1 .. Len(b) : b[i] = rows[a + i]
  BY BatchIs
<1>2. Len(rows) \in Nat /\ DOMAIN rows = 1 .. Len(rows)
  BY LenProperties
<1>3. Shown(c, g, rows, a) /\ \A p \in a + 1 .. z : WorkIn(c, g, rows[p].work)
  OBVIOUS
<1> HIDE DEF b, a, z
<1>4. h = RunCommand(g, ChunkCommand(c, b))
  BY DEF b
<1>5. /\ Grew(c, g, h)
      /\ \A i \in 1 .. Len(b) :
           (\A j \in i + 1 .. Len(b) : b[j].id # b[i].id) => TextIn(c, h, b[i])
      /\ \A i \in 1 .. Len(b) : WorkIn(c, g, b[i].work) => Hangs(c, h, b[i])
      /\ \A x : TextIn(c, g, x) /\ (\A j \in 1 .. Len(b) : b[j].id # x.id) => TextIn(c, h, x)
  BY <1>1, <1>4, ChunksRun
<1>6. \A x : Hangs(c, g, x) => Hangs(c, h, x)
  BY <1>5 DEF Grew, Hangs
<1>7. ASSUME NEW p \in 1 .. z
      PROVE  /\ Hangs(c, h, rows[p])
             /\ (\A q \in p + 1 .. z : rows[q].id # rows[p].id) => TextIn(c, h, rows[p])
  <2>1. CASE p <= a
    <3>1. p \in 1 .. a
      BY <1>1, <2>1
    <3>2. Hangs(c, h, rows[p])
      BY <1>3, <1>6, <3>1 DEF Shown
    <3>3. ASSUME \A q \in p + 1 .. z : rows[q].id # rows[p].id PROVE TextIn(c, h, rows[p])
      <4>1. \A q \in p + 1 .. a : q \in p + 1 .. z
        BY <1>1
      <4>2. TextIn(c, g, rows[p])
        BY <1>3, <3>1, <3>3, <4>1 DEF Shown
      <4>3. ASSUME NEW j \in 1 .. Len(b) PROVE b[j].id # rows[p].id
        <5>1. a + j \in p + 1 .. z
          BY <1>1, <3>1
        <5> QED
          BY <1>1, <3>3, <5>1
      <4> QED
        BY <1>5, <4>2, <4>3
    <3> QED
      BY <3>2, <3>3
  <2>2. CASE a < p
    <3> DEFINE i == p - a
    <3>1. i \in 1 .. Len(b) /\ a + i = p /\ p \in a + 1 .. z
      BY <1>1, <2>2
    <3> HIDE DEF i
    <3>2. b[i] = rows[p]
      BY <1>1, <3>1
    <3>3. Hangs(c, h, rows[p])
      BY <1>3, <1>5, <3>1, <3>2
    <3>4. ASSUME \A q \in p + 1 .. z : rows[q].id # rows[p].id PROVE TextIn(c, h, rows[p])
      <4>1. ASSUME NEW j \in i + 1 .. Len(b) PROVE b[j].id # b[i].id
        <5>1. a + j \in p + 1 .. z /\ j \in 1 .. Len(b)
          BY <1>1, <3>1
        <5>2. rows[a + j].id # rows[p].id /\ b[j] = rows[a + j]
          BY <1>1, <3>4, <5>1
        <5> QED
          BY <3>2, <5>2
      <4> QED
        BY <1>5, <3>1, <3>2, <4>1
    <3> QED
      BY <3>3, <3>4
  <2> QED
    BY <1>1, <2>1, <2>2
<1>8. Shown(c, h, rows, z)
  BY <1>7 DEF Shown
<1>9. ASSUME NEW x, TextIn(c, g, x), \A r \in Range(rows) : r.id # x.id PROVE TextIn(c, h, x)
  <2>1. ASSUME NEW j \in 1 .. Len(b) PROVE b[j].id # x.id
    <3>1. a + j \in 1 .. Len(rows)
      BY <1>1, <1>2
    <3>2. rows[a + j] \in Range(rows)
      BY <1>2, <3>1 DEF Range
    <3> QED
      BY <1>1, <1>9, <3>2
  <2> QED
    BY <1>5, <1>9, <2>1
<1> QED
  BY <1>5, <1>8, <1>9 DEF z

\* One command of a load.
LEMMA LoadGoesOn ==
  ASSUME NEW c \in {"historical", "cultural"}, NEW g, Keyed(c, g), NEW rows \in Seq(ParsedRows),
         NEW B, B = LoadBatches(rows), NEW u, u = UpsertsOf(c, rows), NEW F, F = Statements(c),
         NEW d \in 0 .. Len(B) - 1, NEW j \in 0 .. F - 1, UpTo(c, g, rows, d, j),
         NEW h, h = RunCommand(g, u[d * F + (j + 1)])
  PROVE  /\ Grew(c, g, h)
         /\ j + 1 # F => UpTo(c, h, rows, d, j + 1)
         /\ j + 1 = F => UpTo(c, h, rows, d + 1, 0)
         /\ \A x : TextIn(c, g, x) /\ (\A r \in Range(rows) : r.id # x.id) => TextIn(c, h, x)
<1> DEFINE b == B[d + 1]
           s == FlushOf(c, b)
<1>1. b \in Seq(ParsedRows) /\ SentBy(rows, d) \in Nat /\ SentBy(rows, d + 1) \in Nat
      /\ Len(b) = SentBy(rows, d + 1) - SentBy(rows, d)
      /\ \A i \in 1 .. Len(b) : b[i] = rows[SentBy(rows, d) + i]
  BY BatchIs
<1>2. Len(B) \in Nat /\ \A i \in 0 .. Len(B) - 1 : \A k \in 1 .. F : u[i * F + k] = FlushOf(c, B[i + 1])[k]
  BY UpsertPlaces
<1> HIDE DEF b
<1>3. /\ F \in {2, 3} /\ s[F] = ChunkCommand(c, b) /\ s[F - 1] = WorkCommand(c, b)
      /\ F = 3 => c = "historical" /\ s[1] = SourceCommand(b)
  <2>1. s = FlushOf(c, b) /\ b \in Seq(ParsedRows)
    BY <1>1
  <2> HIDE DEF s
  <2> QED
    BY <2>1, FlushPlaces, ZenonT(30)
<1> HIDE DEF s
<1>4. d \in Nat /\ j + 1 \in 1 .. F
  <2>1. d \in Nat
    <3> DEFINE n == Len(B)
    <3>1. n \in Nat /\ d \in 0 .. n - 1
      BY <1>2
    <3> HIDE DEF n
    <3> QED
      BY <3>1
  <2>2. j + 1 \in 1 .. F
    BY <1>3
  <2> QED
    BY <2>1, <2>2
<1>5. h = RunCommand(g, s[j + 1])
  <2>1. u[d * F + (j + 1)] = FlushOf(c, B[d + 1])[j + 1]
    BY <1>2, <1>4
  <2> QED
    BY <2>1 DEF s, b
<1>6. Shown(c, g, rows, SentBy(rows, d))
  BY DEF UpTo
<1>7. CASE j + 1 = F
  <2>1. j = F - 1
    BY <1>3, <1>7
  <2>2. \A p \in SentBy(rows, d) + 1 .. SentBy(rows, d + 1) : WorkIn(c, g, rows[p].work)
    BY <2>1 DEF UpTo
  <2>3. h = RunCommand(g, ChunkCommand(c, B[d + 1]))
    BY <1>3, <1>5, <1>7 DEF b
  <2>4. /\ Grew(c, g, h) /\ Shown(c, h, rows, SentBy(rows, d + 1))
        /\ \A x : TextIn(c, g, x) /\ (\A r \in Range(rows) : r.id # x.id) => TextIn(c, h, x)
    BY <1>6, <2>2, <2>3, ShownNext
  <2>5. UpTo(c, h, rows, d + 1, 0)
    BY <1>3, <2>4 DEF UpTo
  <2> QED
    BY <1>7, <2>4, <2>5
<1>8. CASE j + 1 = F - 1
  <2>1. h = RunCommand(g, WorkCommand(c, b))
    BY <1>3, <1>5, <1>8
  <2>2. Aside(c, g, h) /\ \A i \in 1 .. Len(b) : WorkIn(c, h, b[i].work)
    BY <1>1, <2>1, WorksRun
  <2>3. Shown(c, h, rows, SentBy(rows, d))
    BY <1>6, <2>2, ShownAside
  <2>4. ASSUME NEW p \in SentBy(rows, d) + 1 .. SentBy(rows, d + 1) PROVE WorkIn(c, h, rows[p].work)
    <3> DEFINE i == p - SentBy(rows, d)
    <3>1. i \in 1 .. Len(b) /\ SentBy(rows, d) + i = p
      BY <1>1
    <3> HIDE DEF i
    <3>2. b[i] = rows[p]
      BY <1>1, <3>1
    <3> QED
      BY <2>2, <3>1, <3>2
  <2>5. UpTo(c, h, rows, d, j + 1)
    BY <2>3, <2>4 DEF UpTo
  <2>6. \A x : TextIn(c, g, x) => TextIn(c, h, x)
    BY <2>2 DEF Aside, TextIn
  <2> QED
    BY <1>3, <1>8, <2>2, <2>5, <2>6 DEF Aside
<1>9. CASE j + 1 \notin {F, F - 1}
  <2>1. F = 3 /\ j + 1 = 1
    BY <1>3, <1>4, <1>9
  <2>2. h = RunCommand(g, SourceCommand(b)) /\ c = "historical"
    BY <1>3, <1>5, <2>1
  <2>3. Aside(c, g, h)
    BY <1>1, <2>2, SourcesRun
  <2>4. Shown(c, h, rows, SentBy(rows, d))
    BY <1>6, <2>3, ShownAside
  <2>5. UpTo(c, h, rows, d, j + 1)
    BY <2>1, <2>4 DEF UpTo
  <2>6. \A x : TextIn(c, g, x) => TextIn(c, h, x)
    BY <2>3 DEF Aside, TextIn
  <2> QED
    BY <1>9, <2>3, <2>5, <2>6 DEF Aside
<1> QED
  BY <1>7, <1>8, <1>9

-----------------------------------------------------------------------------
(* The invariant of a load. *)

\* s is what is left of plan when k commands of it are done.
Rest(s, plan, k) ==
  /\ k \in 0 .. Len(plan) /\ Len(s) = Len(plan) - k
  /\ \A i \in 1 .. Len(s) : s[i] = plan[k + i]
PlanOf(c, rows) == Append(UpsertsOf(c, rows), Word("done"))

\* A source at hand, and that its rows are on their way: the capture holds
\* them, and the graph is as far as the script.
Loading == script # <<>> /\ job.kind \notin {"rebuild", "persist"}
Going(rows) ==
  /\ Loads(job)
  /\ job.kind # "run" /\ Captured(Head(todo)) => captures[Head(todo)].rows = rows
  /\ \E d \in 0 .. Len(LoadBatches(rows)) : \E j \in 0 .. Statements(corpus) - 1 :
       /\ Rest(script, PlanOf(corpus, rows), d * Statements(corpus) + j)
       /\ UpTo(corpus, graph, rows, d, j)
ToCapture(rows) ==
  /\ Head(script) = Capturing(rows)
  /\ Loads(job) => Rest(Tail(script), PlanOf(corpus, rows), 0)
  /\ ~ Loads(job) => Tail(script) = <<Word("done")>>

CapturesOwn == \A n \in DOMAIN captures : Range(captures[n].rows) \subseteq RowsFrom(corpus, n)
LoadedShown == \A n \in loaded : \A r \in LastRows(captures[n].rows) : Reached(corpus, graph, r)
PlanKept ==
  Loading =>
    \E rows \in Seq(ParsedRows) :
      /\ Range(rows) \subseteq RowsFrom(corpus, Head(todo))
      /\ \/ Head(script).op = "raise"
         \/ ToCapture(rows)
         \/ script = <<Word("done")>> /\ ~ Loads(job)
         \/ Going(rows)
LoadInv == CapturesOwn /\ LoadedShown /\ PlanKept

\* The commands of a plan.
LEMMA PlanPlaces ==
  ASSUME NEW c \in {"historical", "cultural"}, NEW rows \in Seq(ParsedRows),
         NEW p, p = PlanOf(c, rows), NEW m, m = Len(LoadBatches(rows)), NEW F, F = Statements(c)
  PROVE  /\ m \in Nat /\ F \in {2, 3} /\ Len(p) = m * F + 1
         /\ \A k \in 1 .. m * F : p[k] = UpsertsOf(c, rows)[k] /\ p[k].op = "merge"
         /\ p[m * F + 1].op = "done"
<1> DEFINE u == UpsertsOf(c, rows)
           S == FlushCommands(c)
<1>1. u \in Seq(S) /\ m \in Nat /\ Len(u) = m * F
  BY UpsertPlaces
<1>2. F \in {2, 3}
  BY DEF Statements
<1>3. \A x \in S : x.op = "merge"
  BY Ops
<1>4. p = Append(u, Word("done"))
  BY DEF PlanOf
<1> DEFINE T == S \cup {Word("done")}
<1> HIDE DEF u, S
<1>5. u \in Seq(T) /\ Word("done") \in T
  BY <1>1, SeqOfMore
<1> HIDE DEF T
<1>6. Len(p) = Len(u) + 1 /\ p[Len(u) + 1] = Word("done") /\ \A k \in 1 .. Len(u) : p[k] = u[k]
  BY <1>4, <1>5, AppendProperties
<1>7. \A k \in 1 .. Len(u) : u[k] \in S
  BY <1>1, ElementOfSeq
<1>8. Word("done").op = "done"
  BY DEF Word
<1> QED
  BY <1>1, <1>2, <1>3, <1>6, <1>7, <1>8 DEF u

\* The next command is the next of the plan.
LEMMA RestHead ==
  ASSUME NEW S, NEW s \in Seq(S), s # <<>>, NEW p, Len(p) \in Nat, NEW k, Rest(s, p, k)
  PROVE  k \in Nat /\ k < Len(p) /\ Head(s) = p[k + 1] /\ Rest(Tail(s), p, k + 1)
<1>1. /\ Head(s) = s[1] /\ 1 \in DOMAIN s /\ Len(Tail(s)) = Len(s) - 1
      /\ \A i \in 1 .. Len(s) - 1 : Tail(s)[i] = s[i + 1]
  BY TailRange
<1>2. Len(s) \in Nat /\ DOMAIN s = 1 .. Len(s)
  BY LenProperties
<1>3. k \in 0 .. Len(p) /\ Len(s) = Len(p) - k /\ \A i \in 1 .. Len(s) : s[i] = p[k + i]
  BY DEF Rest
<1>4. k \in Nat /\ k < Len(p) /\ Head(s) = p[k + 1]
  BY <1>1, <1>2, <1>3
<1>5. k + 1 \in 0 .. Len(p) /\ Len(Tail(s)) = Len(p) - (k + 1)
  BY <1>1, <1>3, <1>4
<1>6. ASSUME NEW i \in 1 .. Len(Tail(s)) PROVE Tail(s)[i] = p[(k + 1) + i]
  <2>1. i \in 1 .. Len(s) - 1 /\ i + 1 \in 1 .. Len(s) /\ k + (i + 1) = (k + 1) + i
    BY <1>1, <1>2, <1>4
  <2> QED
    BY <1>1, <1>3, <2>1
<1> QED
  BY <1>4, <1>5, <1>6 DEF Rest

\* How far a load is when a command of its plan is next.
LEMMA GoingAt ==
  ASSUME Types, script # <<>>, NEW rows \in Seq(ParsedRows), Going(rows),
         NEW m, m = Len(LoadBatches(rows)), NEW F, F = Statements(corpus)
  PROVE  \E d \in 0 .. m : \E j \in 0 .. F - 1 :
           /\ UpTo(corpus, graph, rows, d, j)
           /\ Rest(Tail(script), PlanOf(corpus, rows), d * F + j + 1)
           /\ \/ d < m /\ Head(script).op = "merge" /\ Head(script) = UpsertsOf(corpus, rows)[d * F + (j + 1)]
              \/ d = m /\ j = 0 /\ Head(script).op = "done"
<1> DEFINE c == corpus
           p == PlanOf(c, rows)
           s == script
           C == CommandsOf(job.kind, corpus)
<1>1. c \in {"historical", "cultural"} /\ s \in Seq(C) /\ s # <<>>
  BY DEF Types, JobTypes, ScriptTypes
<1>2. PICK d \in 0 .. m, j \in 0 .. F - 1 :
        Rest(s, p, d * F + j) /\ UpTo(c, graph, rows, d, j)
  BY DEF Going
<1>3. /\ m \in Nat /\ F \in {2, 3} /\ Len(p) = m * F + 1
      /\ \A k \in 1 .. m * F : p[k] = UpsertsOf(c, rows)[k] /\ p[k].op = "merge"
      /\ p[m * F + 1].op = "done"
  BY <1>1, PlanPlaces
<1> DEFINE k == d * F + j
<1> HIDE DEF s, p, C, c
<1>4. m * F \in Nat /\ d * F \in Nat /\ k \in Nat
  BY <1>3
<1>5. /\ k < Len(p) /\ Head(s) = p[k + 1] /\ Rest(Tail(s), p, k + 1)
  <2>1. Len(p) \in Nat
    BY <1>3, <1>4
  <2>2. Rest(s, p, k)
    BY <1>2
  <2> HIDE DEF k
  <2> QED
    BY <1>1, <2>1, <2>2, RestHead
<1>6. k + 1 = d * F + (j + 1)
  BY <1>3
<1>7. d < m => k + 1 \in 1 .. m * F
  <2>1. F = 2 /\ d < m => k + 1 \in 1 .. m * F
    BY <1>3
  <2>2. F = 3 /\ d < m => k + 1 \in 1 .. m * F
    BY <1>3
  <2> QED
    BY <1>3, <2>1, <2>2
<1>8. d = m => j = 0 /\ k + 1 = m * F + 1
  <2> DEFINE n == m * F
  <2>1. n \in Nat /\ Len(p) = n + 1 /\ j \in Nat
    BY <1>3, <1>4
  <2>2. d = m => k = n + j
    OBVIOUS
  <2> HIDE DEF n, k
  <2>3. d = m => j = 0 /\ k + 1 = n + 1
    BY <1>5, <2>1, <2>2
  <2> QED
    BY <2>3 DEF n
<1>9. d < m \/ d = m
  BY <1>3
<1> HIDE DEF k
<1>10. \/ d < m /\ Head(s).op = "merge" /\ Head(s) = UpsertsOf(c, rows)[d * F + (j + 1)]
       \/ d = m /\ j = 0 /\ Head(s).op = "done"
  <2>1. CASE d < m
    BY <1>3, <1>5, <1>6, <1>7, <2>1
  <2>2. CASE d = m
    BY <1>3, <1>5, <1>8, <2>2
  <2> QED
    BY <1>9, <2>1, <2>2
<1> QED
  BY <1>2, <1>5, <1>10 DEF s, p, c, k

-----------------------------------------------------------------------------
\* A load begins with nothing done.
LEMMA LoadBegins ==
  ASSUME NEW c \in {"historical", "cultural"}, NEW rows \in Seq(ParsedRows), NEW g, NEW s,
         Rest(s, PlanOf(c, rows), 0)
  PROVE  \E d \in 0 .. Len(LoadBatches(rows)) : \E j \in 0 .. Statements(c) - 1 :
           Rest(s, PlanOf(c, rows), d * Statements(c) + j) /\ UpTo(c, g, rows, d, j)
<1> DEFINE B == LoadBatches(rows)
           F == Statements(c)
<1>1. Len(B) \in Nat /\ F \in {2, 3}
  <2>1. B \in Seq(Seq(ParsedRows))
    BY BatchesHold, BatchesAssumption DEF LoadBatches
  <2> QED
    BY <2>1, LenProperties DEF Statements
<1>2. SentBy(rows, 0) = 0
  BY AllSent
<1>3. UpTo(c, g, rows, 0, 0)
  <2>1. 0 # Statements(c) - 1
    BY <1>1
  <2> QED
    BY <1>2, <2>1 DEF UpTo, Shown
<1>4. 0 \in 0 .. Len(B) /\ 0 \in 0 .. F - 1 /\ 0 * F + 0 = 0
  BY <1>1
<1> HIDE DEF B, F
<1>5. \E d \in 0 .. Len(B) : \E j \in 0 .. F - 1 :
        Rest(s, PlanOf(c, rows), d * F + j) /\ UpTo(c, g, rows, d, j)
  BY <1>3, <1>4
<1> QED
  BY <1>5 DEF B, F

\* Nothing is captured or loaded at the start.
LEMMA InitLoad == ASSUME Init PROVE LoadInv
<1>1. captures = <<>> /\ loaded = {} /\ script = <<>>
  BY DEF Init
<1> QED
  BY <1>1 DEF LoadInv, CapturesOwn, LoadedShown, PlanKept, Loading

\* The source at hand is one of the job.
LEMMA SourceAtHand ==
  ASSUME Types, Working, todo # <<>>
  PROVE  job \in Jobs /\ job.corpus = corpus /\ Head(todo) \in Range(job.names)
<1> DEFINE N == Range(job.names)
<1>1. todo \in Seq(N)
  BY DEF Types, JobTypes
<1> HIDE DEF N
<1>2. Head(todo) \in N
  BY <1>1, TailRange
<1> QED
  BY <1>2 DEF N, Types, JobTypes

\* What a parse of a job gives is of its source.
LEMMA ParsedFrom ==
  ASSUME NEW c, NEW n, NEW j \in Jobs, Parsing(j), j.corpus = c, n \in Range(j.names)
  PROVE  Range(Parse(c, n, j.edition).rows) \subseteq RowsFrom(c, n)
<1> DEFINE P(k) == Range(Parse(c, n, k.edition).rows)
           J    == {k \in Jobs : Parsing(k) /\ k.corpus = c /\ n \in Range(k.names)}
<1>1. RowsFrom(c, n) = UNION {P(k) : k \in J}
  BY DEF RowsFrom
<1>2. j \in J
  OBVIOUS
<1>3. P(j) = Range(Parse(c, n, j.edition).rows)
  OBVIOUS
<1> HIDE DEF P, J
<1> QED
  BY <1>1, <1>2, <1>3

\* Rows of different sources have different ids.
LEMMA SourcesApart ==
  ASSUME NEW c \in {"historical", "cultural"}, NEW m, NEW n, m # n,
         NEW r \in RowsFrom(c, m), NEW q \in RowsFrom(c, n)
  PROVE  r.id # q.id
<1> DEFINE N == UNION {Range(j.names) : j \in Jobs}
<1>1. ASSUME NEW x, NEW y \in RowsFrom(c, x) PROVE x \in N
  <2>1. PICK j \in Jobs : x \in Range(j.names)
    BY <1>1 DEF RowsFrom
  <2> QED
    BY <2>1
<1>2. m \in N /\ n \in N
  BY <1>1
<1> HIDE DEF N
<1> QED
  BY <1>2, SourcesAssumption DEF N

\* The rows of a capture.
LEMMA CaptureAtHand ==
  ASSUME Types, LoadInv, Does("capture")
  PROVE  \E rows \in Seq(ParsedRows) :
           /\ Range(rows) \subseteq RowsFrom(corpus, Head(todo)) /\ ToCapture(rows)
           /\ Head(script).rows = rows
<1>1. Loading /\ Head(script).op = "capture" /\ script # <<>>
  BY CommandAtHand DEF Loading, Does
<1>2. PICK rows \in Seq(ParsedRows) :
        /\ Range(rows) \subseteq RowsFrom(corpus, Head(todo))
        /\ \/ Head(script).op = "raise"
           \/ ToCapture(rows)
           \/ script = <<Word("done")>> /\ ~ Loads(job)
           \/ Going(rows)
  BY <1>1 DEF LoadInv, PlanKept
<1>3. ~ Going(rows)
  <2>1. ASSUME Going(rows) PROVE Head(script).op \in {"merge", "done"}
    BY <1>1, <2>1, GoingAt
  <2> QED
    BY <1>1, <2>1
<1>4. script # <<Word("done")>>
  BY <1>1 DEF Word
<1>5. ToCapture(rows)
  BY <1>1, <1>2, <1>3, <1>4
<1>6. Head(script).rows = rows
  BY <1>5 DEF ToCapture, Capturing
<1> QED
  BY <1>2, <1>5, <1>6

\* The load that sends a command or ends.
LEMMA LoadAtHand ==
  ASSUME Types, LoadInv, NEW op \in {"merge", "done"}, Does(op),
         op = "done" => Loads(job)
  PROVE  \E rows \in Seq(ParsedRows) : Range(rows) \subseteq RowsFrom(corpus, Head(todo)) /\ Going(rows)
<1>1. Head(script).op = op /\ script # <<>> /\ job.kind \in Kinds
  BY CommandAtHand DEF Does
<1>2. Loading
  <2>1. op = "merge" => job.kind \notin {"rebuild", "persist"}
    BY CommandAtHand
  <2>2. op = "done" => job.kind \notin {"rebuild", "persist"}
    BY DEF Loads
  <2> QED
    BY <1>1, <2>1, <2>2 DEF Loading
<1>3. PICK rows \in Seq(ParsedRows) :
        /\ Range(rows) \subseteq RowsFrom(corpus, Head(todo))
        /\ \/ Head(script).op = "raise"
           \/ ToCapture(rows)
           \/ script = <<Word("done")>> /\ ~ Loads(job)
           \/ Going(rows)
  BY <1>2 DEF LoadInv, PlanKept
<1>4. ~ ToCapture(rows)
  BY <1>1 DEF ToCapture, Capturing
<1>5. ~ (script = <<Word("done")>> /\ ~ Loads(job))
  BY <1>1 DEF Word
<1> QED
  BY <1>1, <1>3, <1>4, <1>5

-----------------------------------------------------------------------------
\* A file written anew: the other captures and what they show stay.
LEMMA FileWritten ==
  ASSUME Types, LoadInv, NEW n, NEW file, Range(file.rows) \subseteq RowsFrom(corpus, n),
         captures' = Put(captures, n, file), loaded' = loaded \ {n}, UNCHANGED <<corpus, graph>>
  PROVE  CapturesOwn' /\ LoadedShown'
<1>1. /\ DOMAIN captures' = DOMAIN captures \cup {n} /\ captures'[n] = file
      /\ \A x \in DOMAIN captures : x # n => captures'[x] = captures[x]
  BY DEF Put
<1>2. CapturesOwn'
  <2>1. ASSUME NEW x \in DOMAIN captures' PROVE Range(captures'[x].rows) \subseteq RowsFrom(corpus, x)
    BY <1>1, <2>1 DEF LoadInv, CapturesOwn
  <2> QED
    BY <2>1 DEF CapturesOwn
<1>3. \A x \in loaded' : x \in loaded /\ captures'[x] = captures[x]
  BY <1>1 DEF Types, StoreTypes
<1>4. LoadedShown'
  BY <1>3 DEF LoadInv, LoadedShown
<1> QED
  BY <1>2, <1>4

\* A capture is written.
LEMMA WriteCaptureLoad == ASSUME Types, LoadInv, WriteCapture PROVE LoadInv'
<1>1. /\ Does("capture") /\ script' = Tail(script) /\ UNCHANGED <<corpus, graph, job, todo>>
      /\ captures' = Put(captures, Head(todo), [rows |-> Head(script).rows, torn |-> FALSE])
      /\ loaded' = loaded \ {Head(todo)} /\ script # <<>>
  BY DEF WriteCapture, Does, Did
<1>2. PICK rows \in Seq(ParsedRows) :
        /\ Range(rows) \subseteq RowsFrom(corpus, Head(todo)) /\ ToCapture(rows) /\ Head(script).rows = rows
  BY <1>1, CaptureAtHand
<1> DEFINE n    == Head(todo)
           file == [rows |-> rows, torn |-> FALSE]
           c    == corpus
<1>3. captures' = Put(captures, n, file) /\ file.rows = rows
  BY <1>1, <1>2
<1>4. CapturesOwn' /\ LoadedShown'
  <2>1. Range(file.rows) \subseteq RowsFrom(corpus, n) /\ loaded' = loaded \ {n}
    BY <1>1, <1>2
  <2> HIDE DEF n, file
  <2> QED
    BY <1>1, <1>3, <2>1, FileWritten
<1>5. captures'[n].rows = rows
  BY <1>3 DEF Put
<1>6. CASE ~ Loads(job)
  <2>1. script' = <<Word("done")>> /\ ~ Loads(job')
    BY <1>1, <1>2, <1>6 DEF ToCapture
  <2>2. PlanKept'
    BY <1>1, <1>2, <2>1 DEF PlanKept, Word
  <2> QED
    BY <1>4, <2>2 DEF LoadInv
<1>7. CASE Loads(job)
  <2>1. Rest(script', PlanOf(c, rows), 0) /\ Loads(job')
    BY <1>1, <1>2, <1>7 DEF ToCapture
  <2>2. c \in {"historical", "cultural"}
    BY DEF Types, JobTypes
  <2>3. \E d \in 0 .. Len(LoadBatches(rows)) : \E j \in 0 .. Statements(c) - 1 :
          Rest(script', PlanOf(c, rows), d * Statements(c) + j) /\ UpTo(c, graph, rows, d, j)
    BY <2>1, <2>2, LoadBegins
  <2>4. Going(rows)'
    BY <1>1, <1>5, <2>1, <2>3 DEF Going
  <2>5. PlanKept'
    BY <1>1, <1>2, <2>4 DEF PlanKept
  <2> QED
    BY <1>4, <2>5 DEF LoadInv
<1> QED
  BY <1>6, <1>7

-----------------------------------------------------------------------------
\* The last rows are rows.
LEMMA LastAreRows ==
  ASSUME NEW rows
  PROVE  LastRows(rows) \subseteq Range(rows)
BY DEF LastRows, Range

\* The rows of a loaded capture are rows of its source.
LEMMA LoadedRows ==
  ASSUME Types, LoadInv, NEW n \in loaded, NEW r \in LastRows(captures[n].rows)
  PROVE  r \in ParsedRows /\ r \in RowsFrom(corpus, n) /\ TextIn(corpus, graph, r) /\ Hangs(corpus, graph, r)
<1>1. n \in DOMAIN captures
  BY DEF Types, StoreTypes
<1>2. captures[n].rows \in Seq(ParsedRows)
  BY <1>1 DEF Types, StoreTypes, Files
<1>3. Range(captures[n].rows) \subseteq ParsedRows
  BY <1>2, RangeOf
<1>4. r \in Range(captures[n].rows)
  BY LastAreRows
<1>5. Range(captures[n].rows) \subseteq RowsFrom(corpus, n)
  BY <1>1 DEF LoadInv, CapturesOwn
<1> QED
  BY <1>3, <1>4, <1>5 DEF LoadInv, LoadedShown, Reached

\* One command of an upsert.
LEMMA UpsertLoad == ASSUME Types, GraphTypes, LoadInv, Upsert PROVE LoadInv'
<1>1. /\ Does("merge") /\ script' = Tail(script) /\ UNCHANGED <<corpus, captures, job, todo>>
      /\ graph' = RunCommand(graph, Head(script)) /\ loaded' = loaded \ {Head(todo)}
      /\ script # <<>> /\ Head(script).op = "merge"
  BY DEF Upsert, Does, Did
<1>2. PICK rows \in Seq(ParsedRows) : Range(rows) \subseteq RowsFrom(corpus, Head(todo)) /\ Going(rows)
  BY <1>1, LoadAtHand
<1> DEFINE c == corpus
           g == graph
           h == graph'
           B == LoadBatches(rows)
           F == Statements(c)
           m == Len(B)
           u == UpsertsOf(c, rows)
<1>3. PICK d \in 0 .. m, j \in 0 .. F - 1 :
        /\ UpTo(c, g, rows, d, j)
        /\ Rest(Tail(script), PlanOf(c, rows), d * F + j + 1)
        /\ \/ d < m /\ Head(script).op = "merge" /\ Head(script) = u[d * F + (j + 1)]
           \/ d = m /\ j = 0 /\ Head(script).op = "done"
  BY <1>1, <1>2, GoingAt
<1>4. d < m /\ Head(script) = u[d * F + (j + 1)]
  BY <1>1, <1>3
<1>5. c \in {"historical", "cultural"} /\ Keyed(c, g)
  BY DEF GraphTypes, Types, JobTypes
<1>6. m \in Nat /\ F \in {2, 3}
  BY <1>5, PlanPlaces
<1>7. h = RunCommand(g, u[d * F + (j + 1)])
  BY <1>1, <1>4
<1> HIDE DEF g, h, B, F, m, u, c
<1>8. /\ Grew(c, g, h)
      /\ j + 1 # F => UpTo(c, h, rows, d, j + 1)
      /\ j + 1 = F => UpTo(c, h, rows, d + 1, 0)
      /\ \A x : TextIn(c, g, x) /\ (\A r \in Range(rows) : r.id # x.id) => TextIn(c, h, x)
  <2>1. d \in 0 .. Len(B) - 1
    BY <1>4, <1>6 DEF m
  <2>2. B = LoadBatches(rows) /\ u = UpsertsOf(c, rows) /\ F = Statements(c)
    BY DEF B, u, F
  <2> QED
    BY <1>3, <1>5, <1>7, <2>1, <2>2, LoadGoesOn
<1>9. \E e \in 0 .. m : \E i \in 0 .. F - 1 :
        Rest(script', PlanOf(c, rows), e * F + i) /\ UpTo(c, h, rows, e, i)
  <2>1. Rest(script', PlanOf(c, rows), d * F + j + 1)
    BY <1>1, <1>3
  <2>2. CASE j + 1 = F
    <3>1. d + 1 \in 0 .. m /\ 0 \in 0 .. F - 1
      BY <1>4, <1>6
    <3>2. (d + 1) * F + 0 = d * F + j + 1
      <4>1. F = 2 => (d + 1) * F + 0 = d * F + j + 1
        BY <1>6, <2>2
      <4>2. F = 3 => (d + 1) * F + 0 = d * F + j + 1
        BY <1>6, <2>2
      <4> QED
        BY <1>6, <4>1, <4>2
    <3> QED
      BY <1>8, <2>1, <2>2, <3>1, <3>2
  <2>3. CASE j + 1 # F
    <3>1. j + 1 \in 0 .. F - 1 /\ d * F + (j + 1) = d * F + j + 1
      BY <1>6, <2>3
    <3> QED
      BY <1>8, <2>1, <2>3, <3>1
  <2> QED
    BY <2>2, <2>3
<1>10. Going(rows)'
  BY <1>1, <1>2, <1>9 DEF Going, Captured, Loads, B, F, m, h, c
<1>11. PlanKept'
  BY <1>1, <1>2, <1>10 DEF PlanKept
<1>12. LoadedShown'
  <2>1. ASSUME NEW n \in loaded', NEW r \in LastRows(captures[n].rows) PROVE Reached(c, h, r)
    <3>1. n \in loaded /\ n # Head(todo)
      BY <1>1
    <3>2. r \in RowsFrom(c, n) /\ TextIn(c, g, r) /\ Hangs(c, g, r)
      BY <3>1, LoadedRows DEF c, g
    <3>3. ASSUME NEW q \in Range(rows) PROVE q.id # r.id
      BY <1>2, <1>5, <3>1, <3>2, SourcesApart DEF c
    <3>4. TextIn(c, h, r)
      BY <1>8, <3>2, <3>3
    <3>5. Hangs(c, h, r)
      BY <1>8, <3>2 DEF Grew, Hangs
    <3> QED
      BY <3>4, <3>5 DEF Reached
  <2> QED
    BY <1>1, <2>1 DEF LoadedShown, c, h
<1>13. CapturesOwn'
  BY <1>1 DEF LoadInv, CapturesOwn
<1> QED
  BY <1>11, <1>12, <1>13 DEF LoadInv

\* Tags take no text.
LEMMA TagChunksLoad == ASSUME Types, GraphTypes, LoadInv, TagChunks PROVE LoadInv'
<1>1. /\ Does("attach") /\ UNCHANGED <<corpus, captures, loaded, job>>
      /\ graph' = RunCommand(graph, Head(script))
  BY DEF TagChunks, Does, past
<1>2. job.kind = "persist"
  BY <1>1, CommandAtHand
<1>3. PICK ids \in Seq(DOMAIN CollectTags) : Head(script) = Attaching(ids)
  BY <1>1, CommandAtHand, Ops
<1>4. corpus = "cultural"
  <2>1. job \in Jobs /\ job.corpus = corpus
    BY <1>1, CommandAtHand DEF Does, Types, JobTypes
  <2> QED
    BY <1>2, <2>1, AgendasAssumption
<1> DEFINE c == corpus
           g == graph
           h == graph'
<1>5. c = "cultural" /\ Keyed(c, g) /\ h = RunCommand(g, Attaching(ids))
  BY <1>1, <1>3, <1>4 DEF GraphTypes
<1> HIDE DEF c, g, h
<1>6. Grew(c, g, h) /\ \A r \in ParsedRows : TextIn(c, g, r) => TextIn(c, h, r)
  BY <1>5, AttachReaches
<1>7. LoadedShown'
  <2>1. ASSUME NEW n \in loaded, NEW r \in LastRows(captures[n].rows) PROVE Reached(c, h, r)
    <3>1. r \in ParsedRows /\ TextIn(c, g, r) /\ Hangs(c, g, r)
      BY LoadedRows DEF c, g
    <3> QED
      BY <1>6, <3>1 DEF Reached, Grew, Hangs
  <2> QED
    BY <1>1, <2>1 DEF LoadedShown, c, h
<1>8. CapturesOwn'
  BY <1>1 DEF LoadInv, CapturesOwn
<1>9. PlanKept'
  BY <1>1, <1>2 DEF PlanKept, Loading
<1> QED
  BY <1>7, <1>8, <1>9 DEF LoadInv

\* The last command of a source: all its rows are in the graph.
LEMMA FinishSourceLoad == ASSUME Types, GraphTypes, LoadInv, FinishSource PROVE LoadInv'
<1>1. /\ Does("done") /\ script' = <<>> /\ script # <<>> /\ UNCHANGED <<corpus, captures, graph, job>>
      /\ loaded' = IF Loads(job) /\ job.kind # "run" /\ Captured(Head(todo))
                   THEN loaded \cup {Head(todo)} ELSE loaded
  BY DEF FinishSource, Does, stores
<1>2. PlanKept' /\ CapturesOwn'
  BY <1>1 DEF PlanKept, Loading, LoadInv, CapturesOwn
<1>3. CASE ~ (Loads(job) /\ job.kind # "run" /\ Captured(Head(todo)))
  BY <1>1, <1>2, <1>3 DEF LoadInv, LoadedShown
<1>4. CASE Loads(job) /\ job.kind # "run" /\ Captured(Head(todo))
  <2> DEFINE c == corpus
  <2>1. PICK rows \in Seq(ParsedRows) : Range(rows) \subseteq RowsFrom(c, Head(todo)) /\ Going(rows)
    BY <1>1, <1>4, LoadAtHand
  <2>2. captures[Head(todo)].rows = rows
    BY <1>4, <2>1 DEF Going
  <2>3. Head(script).op = "done"
    BY <1>1 DEF Does
  <2>4. UpTo(c, graph, rows, Len(LoadBatches(rows)), 0)
    BY <1>1, <2>1, <2>3, GoingAt
  <2>5. Shown(c, graph, rows, Len(rows))
    BY <2>4, AllSent DEF UpTo
  <2>6. Len(rows) \in Nat /\ DOMAIN rows = 1 .. Len(rows)
    BY LenProperties
  <2>7. ASSUME NEW r \in LastRows(rows) PROVE Reached(c, graph, r)
    <3>1. PICK p \in DOMAIN rows : r = rows[p] /\ \A q \in p + 1 .. Len(rows) : rows[q].id # rows[p].id
      BY <2>7 DEF LastRows
    <3> QED
      BY <2>5, <2>6, <3>1 DEF Shown, Reached
  <2>8. loaded' = loaded \cup {Head(todo)}
    BY <1>1, <1>4
  <2>9. LoadedShown'
    BY <1>1, <2>2, <2>7, <2>8 DEF LoadInv, LoadedShown
  <2> QED
    BY <1>2, <2>9 DEF LoadInv
<1> QED
  BY <1>3, <1>4

\* The first lines of a file are lines of it.
LEMMA CutRange ==
  ASSUME NEW S, NEW rows \in Seq(S), NEW k \in 0 .. Len(rows) - 1
  PROVE  Range(SubSeq(rows, 1, k)) \subseteq Range(rows)
<1>1. Len(rows) \in Nat /\ DOMAIN rows = 1 .. Len(rows) /\ \A i \in 1 .. Len(rows) : rows[i] \in S
  BY LenProperties, ElementOfSeq
<1>2. k \in Nat /\ k <= Len(rows) /\ \A i \in 1 .. k : rows[i] \in S
  BY <1>1
<1> DEFINE s == SubSeq(rows, 1, k)
<1>3. s \in Seq(S) /\ Len(s) = k /\ \A i \in 1 .. k : s[i] = rows[i]
  BY <1>2, SubSeqProperties
<1> HIDE DEF s
<1>4. DOMAIN s = 1 .. k
  BY <1>3, LenProperties
<1>5. Range(s) \subseteq Range(rows)
  BY <1>1, <1>2, <1>3, <1>4 DEF Range
<1> QED
  BY <1>5 DEF s

\* A kill: what is cut off is not loaded.
LEMMA KillLoad == ASSUME Types, LoadInv, Kill PROVE LoadInv'
<1>1. script' = <<>> /\ UNCHANGED <<corpus, agenda, graph, job>> /\ Working
  BY DEF Kill
<1>2. PlanKept'
  BY <1>1 DEF PlanKept, Loading
<1>3. CASE UNCHANGED <<captures, loaded>>
  BY <1>1, <1>2, <1>3 DEF LoadInv, CapturesOwn, LoadedShown
<1>4. CASE /\ script # <<>> /\ Head(script).op = "capture"
           /\ captures' \in Cuts(Head(todo), Head(script).rows)
           /\ loaded' = loaded \ {Head(todo)}
  <2>1. Does("capture")
    BY <1>1, <1>4 DEF Does
  <2>2. PICK rows \in Seq(ParsedRows) :
          /\ Range(rows) \subseteq RowsFrom(corpus, Head(todo)) /\ Head(script).rows = rows
    BY <2>1, CaptureAtHand
  <2> DEFINE n == Head(todo)
  <2>3. PICK file \in [rows : {SubSeq(rows, 1, k) : k \in 0 .. Len(rows) - 1}, torn : BOOLEAN] :
          captures' = Put(captures, n, file)
    BY <1>4, <2>2 DEF Cuts
  <2>4. PICK k \in 0 .. Len(rows) - 1 : file.rows = SubSeq(rows, 1, k)
    OBVIOUS
  <2>5. Range(SubSeq(rows, 1, k)) \subseteq Range(rows)
    BY CutRange
  <2>6. Range(file.rows) \subseteq RowsFrom(corpus, n) /\ loaded' = loaded \ {n}
    BY <1>4, <2>2, <2>4, <2>5
  <2> HIDE DEF n
  <2>7. CapturesOwn' /\ LoadedShown'
    BY <1>1, <2>3, <2>6, FileWritten
  <2> QED
    BY <1>2, <2>7 DEF LoadInv
<1> QED
  BY <1>3, <1>4 DEF Kill

-----------------------------------------------------------------------------
\* A whole plan is what is left when nothing is done; behind a first command
\* it is what is left of the script.
LEMMA PlanWhole ==
  ASSUME NEW c \in {"historical", "cultural"}, NEW rows \in Seq(ParsedRows)
  PROVE  Rest(PlanOf(c, rows), PlanOf(c, rows), 0)
<1> DEFINE p == PlanOf(c, rows)
           m == Len(LoadBatches(rows))
           F == Statements(c)
<1>1. m \in Nat /\ F \in {2, 3} /\ Len(p) = m * F + 1
  BY PlanPlaces
<1> HIDE DEF p, m, F
<1>2. Len(p) \in Nat
  BY <1>1
<1>3. Rest(p, p, 0)
  BY <1>2 DEF Rest
<1> QED
  BY <1>3 DEF p
LEMMA PlanBehind ==
  ASSUME NEW S, NEW x \in S, NEW u \in Seq(S), NEW w \in S, NEW s, s = Append(<<x>> \o u, w)
  PROVE  Head(s) = x /\ Tail(s) = Append(u, w)
<1>1. <<x>> \in Seq(S) /\ Len(<<x>>) = 1 /\ <<x>>[1] = x
  OBVIOUS
<1> DEFINE o == <<x>>
           v == o \o u
<1> HIDE DEF o
<1>2. /\ v \in Seq(S) /\ Len(v) = 1 + Len(u) /\ Len(u) \in Nat
      /\ \A i \in 1 .. 1 + Len(u) : v[i] = IF i <= 1 THEN o[i] ELSE u[i - 1]
  <2>1. o \in Seq(S) /\ Len(o) = 1
    BY <1>1 DEF o
  <2>2. Len(u) \in Nat
    BY LenProperties
  <2>3. /\ v \in Seq(S) /\ Len(v) = Len(o) + Len(u)
        /\ \A i \in 1 .. Len(o) + Len(u) : v[i] = IF i <= Len(o) THEN o[i] ELSE u[i - Len(o)]
    BY <2>1, ConcatProperties
  <2> HIDE DEF v
  <2> QED
    BY <2>1, <2>2, <2>3
<1> HIDE DEF v
<1>3. /\ s \in Seq(S) /\ Len(s) = Len(v) + 1 /\ s[Len(v) + 1] = w /\ \A i \in 1 .. Len(v) : s[i] = v[i]
  <2>1. s = Append(v, w)
    BY DEF v, o
  <2> QED
    BY <1>2, <2>1, AppendProperties
<1>4. s # <<>>
  BY <1>2, <1>3, EmptySeq
<1>5. /\ Head(s) = s[1] /\ Tail(s) \in Seq(S) /\ Len(Tail(s)) = Len(s) - 1
      /\ \A i \in 1 .. Len(s) - 1 : Tail(s)[i] = s[i + 1]
  BY <1>3, <1>4, TailRange
<1> DEFINE t == Append(u, w)
<1>6. t \in Seq(S) /\ Len(t) = Len(u) + 1 /\ t[Len(u) + 1] = w /\ \A i \in 1 .. Len(u) : t[i] = u[i]
  BY AppendProperties
<1> HIDE DEF t
<1>7. Len(Tail(s)) = Len(t)
  BY <1>2, <1>3, <1>5, <1>6
<1>8. ASSUME NEW i \in 1 .. Len(t) PROVE Tail(s)[i] = t[i]
  <2>1. CASE i <= Len(u)
    <3>1. i \in 1 .. Len(u) /\ i \in 1 .. Len(s) - 1 /\ i + 1 \in 1 .. Len(v) /\ i + 1 \in 1 .. 1 + Len(u)
          /\ ~ (i + 1 <= 1) /\ (i + 1) - 1 = i
      BY <1>2, <1>3, <1>6, <2>1
    <3> QED
      BY <1>2, <1>3, <1>5, <1>6, <3>1
  <2>2. CASE ~ (i <= Len(u))
    <3>1. i = Len(u) + 1 /\ i \in 1 .. Len(s) - 1 /\ i + 1 = Len(v) + 1
      BY <1>2, <1>3, <1>6, <2>2
    <3> QED
      BY <1>3, <1>5, <1>6, <3>1
  <2> QED
    BY <2>1, <2>2
<1>9. Tail(s) = t
  BY <1>5, <1>6, <1>7, <1>8, SeqEqual
<1>10. Head(s) = x
  <2>1. 1 \in 1 .. Len(v) /\ 1 \in 1 .. 1 + Len(u) /\ o[1] = x
    BY <1>1, <1>2 DEF o
  <2> QED
    BY <1>2, <1>3, <1>5, <2>1
<1> QED
  BY <1>9, <1>10 DEF t

\* A source is begun.
LEMMA NextSourceLoad == ASSUME Types, LoadInv, NextSource PROVE LoadInv'
<1>1. /\ Working /\ script = <<>> /\ todo # <<>>
      /\ UNCHANGED <<corpus, captures, graph, job, loaded>>
  BY DEF NextSource, stores, past
<1>2. CapturesOwn' /\ LoadedShown'
  BY <1>1 DEF LoadInv, CapturesOwn, LoadedShown
<1> DEFINE name == Head(todo)
           got  == IF job.kind \in {"rebuild", "from-jsonl"} THEN NoParse
                   ELSE Parse(corpus, name, job.edition)
           R    == ReadSource(name, got)
           s    == Append(R, Word("done"))
           c    == corpus
<1>3. \/ script' = s
      \/ script' = <<>>
      \/ script' = <<Word("raise")>>
  BY DEF NextSource, Word
<1>4. todo' = IF script' = <<>> THEN Tail(todo) ELSE todo
  BY DEF NextSource
<1>5. c \in {"historical", "cultural"} /\ job \in Jobs /\ job.corpus = c /\ name \in Range(job.names)
      /\ job.kind \in Kinds /\ job.load \in BOOLEAN
  BY <1>1, SourceAtHand, AgendasAssumption DEF Types, JobTypes
<1>6. PlanKept'
  <2>1. SUFFICES ASSUME Loading' PROVE PlanKept'
    BY DEF PlanKept
  <2>2. script' # <<>> /\ todo' = todo /\ job.kind \notin {"rebuild", "persist"}
    BY <1>1, <1>4, <2>1 DEF Loading
  <2>3. CASE script' = <<Word("raise")>>
    <3>1. Head(script').op = "raise"
      BY <2>3 DEF Word
    <3>2. <<>> \in Seq(ParsedRows) /\ Range(<<>>) \subseteq RowsFrom(corpus', Head(todo'))
      BY DEF Range
    <3> QED
      BY <3>1, <3>2 DEF PlanKept
  <2>4. CASE script' = s /\ job.kind = "from-jsonl"
    <3>1. PICK rows \in Seq(ParsedRows) :
            /\ rows = RowsOf(name) /\ Range(rows) \subseteq RowsFrom(c, name)
            /\ Captured(name) => captures[name].rows = rows
      <4>1. CASE Captured(name)
        BY <4>1 DEF RowsOf, Captured, Types, StoreTypes, Files, LoadInv, CapturesOwn
      <4>2. CASE ~ Captured(name)
        <5>1. RowsOf(name) = <<>>
          BY <4>2 DEF RowsOf
        <5>2. <<>> \in Seq(ParsedRows) /\ Range(<<>>) = {}
          BY DEF Range
        <5> HIDE DEF name, c
        <5> QED
          BY <4>2, <5>1, <5>2
      <4> QED
        BY <4>1, <4>2
    <3>2. CASE job.load
      <4>1. script' = PlanOf(c, rows)
        <5>1. R = Upserts(rows)
          BY <2>4, <3>1, <3>2 DEF ReadSource
        <5>2. Upserts(rows) = UpsertsOf(c, rows)
          BY UpsertsAre
        <5> HIDE DEF R
        <5> QED
          BY <2>4, <5>1, <5>2 DEF PlanOf
      <4> HIDE DEF c, name, got
      <4>2. Rest(script', PlanOf(c, rows), 0)
        BY <1>5, <3>1, <4>1, PlanWhole
      <4>3. \E d \in 0 .. Len(LoadBatches(rows)) : \E j \in 0 .. Statements(c) - 1 :
              Rest(script', PlanOf(c, rows), d * Statements(c) + j) /\ UpTo(c, graph, rows, d, j)
        BY <1>5, <3>1, <4>2, LoadBegins
      <4>4. Loads(job)
        BY <2>4, <3>2 DEF Loads
      <4>5. Going(rows)'
        BY <1>1, <2>2, <3>1, <4>3, <4>4 DEF Going, Loads, Captured, c, name
      <4> QED
        BY <1>1, <2>2, <3>1, <4>5 DEF PlanKept, c, name
    <3>3. CASE ~ job.load
      <4>1. R = <<>> /\ ~ Loads(job)
        BY <2>4, <3>3 DEF ReadSource, Loads
      <4>2. s = Append(<<>>, Word("done"))
        BY <4>1
      <4>3. script' = <<Word("done")>>
        <5>1. \A w : Append(<<>>, w) = <<w>>
          OBVIOUS
        <5> HIDE DEF s
        <5> QED
          BY <2>4, <4>2, <5>1
      <4> QED
        BY <1>1, <2>2, <3>1, <4>1, <4>3 DEF PlanKept, Loads, Word
    <3> QED
      BY <3>2, <3>3
  <2>5. CASE script' = s /\ job.kind # "from-jsonl"
    <3>1. PICK rows \in Seq(ParsedRows) : rows = got.rows /\ Range(rows) \subseteq RowsFrom(c, name)
      <4>1. Parsing(job) /\ got = Parse(c, name, job.edition)
        BY <1>5, <2>2, <2>5 DEF Parsing, Kinds
      <4>2. Parse(job.corpus, name, job.edition) \in Parsings
        BY <1>5, <4>1, ParsingOf
      <4>3. got.rows \in Seq(ParsedRows)
        BY <1>5, <4>1, <4>2, RowsAssumption
      <4> QED
        BY <1>5, <4>1, <4>3, ParsedFrom
    <3>2. Upserts(rows) = UpsertsOf(c, rows)
      BY UpsertsAre
    <3>3. CASE job.kind = "run"
      <4>1. script' = PlanOf(c, rows)
        <5>1. R = Upserts(rows)
          BY <3>1, <3>3 DEF ReadSource
        <5> HIDE DEF R
        <5> QED
          BY <2>5, <3>2, <5>1 DEF PlanOf
      <4> HIDE DEF c, name, got
      <4>2. Rest(script', PlanOf(c, rows), 0)
        BY <1>5, <3>1, <4>1, PlanWhole
      <4>3. \E d \in 0 .. Len(LoadBatches(rows)) : \E j \in 0 .. Statements(c) - 1 :
              Rest(script', PlanOf(c, rows), d * Statements(c) + j) /\ UpTo(c, graph, rows, d, j)
        BY <1>5, <3>1, <4>2, LoadBegins
      <4>4. Loads(job)
        BY <3>3 DEF Loads
      <4>5. Going(rows)'
        BY <1>1, <3>3, <4>3, <4>4 DEF Going, Loads, c
      <4> QED
        BY <1>1, <2>2, <3>1, <4>5 DEF PlanKept, c, name
    <3>4. CASE job.kind # "run"
      <4> DEFINE x == Capturing(rows)
                 u == IF Loads(job) THEN UpsertsOf(c, rows) ELSE <<>>
                 w == Word("done")
                 S == SourceCommands(c)
      <4>1. script' = Append(<<x>> \o u, w)
        <5>1. R = <<x>> \o (IF Loads(job) THEN Upserts(rows) ELSE <<>>)
          BY <2>2, <2>5, <3>1, <3>4 DEF ReadSource, Capturing
        <5>2. R = <<x>> \o u
          BY <3>2, <5>1
        <5> HIDE DEF R, u, x
        <5> QED
          BY <2>5, <5>2
      <4> HIDE DEF c, name, got
      <4>2. x \in S /\ w \in S /\ FlushCommands(c) \subseteq S
        BY <3>1 DEF SourceCommands
      <4>3. u \in Seq(S)
        <5>1. UpsertsOf(c, rows) \in Seq(FlushCommands(c))
          BY <1>5, <3>1, UpsertPlaces
        <5> HIDE DEF S
        <5>2. UpsertsOf(c, rows) \in Seq(S)
          BY <4>2, <5>1, SeqOfMore
        <5> QED
          BY <5>2
      <4> HIDE DEF x, u, w, S
      <4>4. Head(script') = x /\ Tail(script') = Append(u, w)
        BY <4>1, <4>2, <4>3, PlanBehind
      <4>5. ASSUME Loads(job) PROVE Rest(Tail(script'), PlanOf(c, rows), 0)
        <5>1. Tail(script') = PlanOf(c, rows)
          BY <4>4, <4>5 DEF PlanOf, u, w
        <5> QED
          BY <1>5, <3>1, <5>1, PlanWhole
      <4>6. ASSUME ~ Loads(job) PROVE Tail(script') = <<Word("done")>>
        <5>1. u = <<>>
          BY <4>6 DEF u
        <5>2. Tail(script') = <<w>>
          BY <4>4, <5>1
        <5> QED
          BY <5>2 DEF w
      <4>7. ToCapture(rows)'
        BY <1>1, <4>4, <4>5, <4>6 DEF ToCapture, Loads, Capturing, x, c, Word
      <4> QED
        BY <1>1, <2>2, <3>1, <4>7 DEF PlanKept, c, name
    <3> QED
      BY <3>3, <3>4
  <2> QED
    BY <1>3, <2>2, <2>3, <2>4, <2>5
<1> QED
  BY <1>2, <1>6 DEF LoadInv

\* A job that has no source at hand.
LEMMA IdleLoad ==
  ASSUME LoadInv, UNCHANGED <<corpus, captures, graph, loaded>>, ~ Loading'
  PROVE  LoadInv'
BY DEF LoadInv, CapturesOwn, LoadedShown, PlanKept

\* Every step keeps the invariant of a load.
LEMMA StepLoad == ASSUME Types, GraphTypes, LoadInv, [Next]_vars PROVE LoadInv'
<1>1. CASE Start
  <2>1. job'.kind \notin {"rebuild", "persist"} => script' = <<>>
    BY <1>1 DEF Start
  <2>2. UNCHANGED <<corpus, captures, graph, loaded>>
    BY <1>1 DEF Start, stores
  <2> QED
    BY <2>1, <2>2, IdleLoad DEF Loading
<1>2. CASE Recreate \/ Embed \/ Refuse \/ TagPoint
  <2>1. \E op \in {"recreate", "embed", "tag"} : Does(op)
    BY <1>2 DEF Recreate, Embed, Refuse, TagPoint
  <2>2. job' = job /\ job.kind \in {"rebuild", "persist"}
    BY <2>1, CommandAtHand DEF Does
  <2>3. UNCHANGED <<corpus, captures, graph, loaded>>
    BY <1>2 DEF Recreate, Embed, Refuse, TagPoint, Does, stores, past
  <2> QED
    BY <2>2, <2>3, IdleLoad DEF Loading
<1>3. CASE Raise \/ Finish
  <2>1. script' = <<>> /\ UNCHANGED <<corpus, captures, graph, loaded>>
    BY <1>3 DEF Raise, Finish, EndJob
  <2> QED
    BY <2>1, IdleLoad DEF Loading
<1>4. CASE UNCHANGED vars
  BY <1>4 DEF vars, stores, work, past, LoadInv, CapturesOwn, LoadedShown, PlanKept, Loading, ToCapture,
              Going, Loads, Captured, Capturing, Word
<1> QED
  BY <1>1, <1>2, <1>3, <1>4, NextSourceLoad, WriteCaptureLoad, UpsertLoad, TagChunksLoad,
     FinishSourceLoad, KillLoad DEF Next, Idle

\* Whatever was upserted before, by whatever job, and wherever a run was
\* killed: once a capture is loaded, the last row of each of its ids is a chunk
\* with the text its licence allows and hangs on its own work (_flush of
\* upsert_chunks and upsert_historical_chunks, whose dicts keep one work and
\* one source a batch, and sources that share no id).
THEOREM LoadsReach == Spec => []LoadedAsRead
<1>1. ASSUME LoadInv PROVE LoadedAsRead
  <2> DEFINE c == corpus
             Ns == graph.nodes[ChunkLabel]
  <2>1. ChunkLabel = ChunkOf(c) /\ \A id : KeyIn(ChunkOf(c), id) = [chunk_id |-> id]
    <3>1. ChunkLabel = ChunkOf(c) /\ KeyName(ChunkOf(c)) = "chunk_id"
      BY DEF ChunkLabel, ChunkOf, KeyName
    <3>2. \A id : [x \in {"chunk_id"} |-> id] = [chunk_id |-> id]
      OBVIOUS
    <3> QED
      BY <3>1, <3>2 DEF KeyIn
  <2>2. SUFFICES ASSUME NEW n \in loaded, NEW r \in LastRows(captures[n].rows)
                 PROVE  \E props \in {Ns[k] : k \in DOMAIN Ns \cap {[chunk_id |-> r.id]}} :
                          /\ props.text = StoredText(r) /\ props.text_to_embed = r.embed
                          /\ r.work \in OwnersOf(r.id)
    BY DEF LoadedAsRead
  <2>3. TextIn(c, graph, r) /\ Hangs(c, graph, r)
    BY <1>1 DEF LoadInv, LoadedShown, Reached
  <2> DEFINE k == [chunk_id |-> r.id]
  <2>4. k \in DOMAIN Ns /\ Ns[k].text = StoredText(r) /\ Ns[k].text_to_embed = r.embed
    BY <2>1, <2>3 DEF TextIn
  <2>5. PICK e \in DOMAIN graph.edges :
          e.type = "HAS_CHUNK" /\ e.b[2] = [chunk_id |-> r.id] /\ e.a[2].work_id = r.work
    BY <2>1, <2>3 DEF Hangs
  <2>6. r.work \in OwnersOf(r.id)
    BY <2>5 DEF OwnersOf
  <2> HIDE DEF Ns
  <2> QED
    BY <2>4, <2>6
<1>2. Spec => [](Types /\ GraphTypes /\ LoadInv)
  <2>1. Init => GraphTypes /\ LoadInv
    BY InitGraph, InitLoad
  <2>2. Types /\ GraphTypes /\ LoadInv /\ [Next]_vars => GraphTypes' /\ LoadInv'
    BY StepGraph, StepLoad
  <2> QED
    BY <2>1, <2>2, AlwaysTypes, PTL DEF Spec
<1> QED
  BY <1>1, <1>2, PTL

-----------------------------------------------------------------------------
(* What a capture holds. *)

\* A capture holds rows of a parse that did not raise, and all of them unless a
\* kill cut it off; a capture is written first and once.
CapturesReturned ==
  \A n \in DOMAIN captures : \E rows \in ReturnedBy(corpus, n) :
    Range(captures[n].rows) \subseteq Range(rows) /\ (n \notin cut => captures[n].rows = rows)
CaptureFirst ==
  Loading =>
    /\ Head(script).op = "capture" => Head(script).rows \in ReturnedBy(corpus, Head(todo))
    /\ \A x \in Range(Tail(script)) : x.op # "capture"
CaptureInv == CapturesReturned /\ CaptureFirst

\* Upserts capture nothing.
LEMMA UpsertsOnly ==
  ASSUME NEW c, NEW u \in Seq(FlushCommands(c)), NEW w, w.op = "done", NEW s, s = Append(u, w)
  PROVE  /\ \A x \in Range(s) : x.op # "capture"
         /\ Head(s).op # "capture" /\ \A x \in Range(Tail(s)) : x.op # "capture"
<1> DEFINE S == FlushCommands(c)
           T == S \cup {w}
<1>1. \A x \in S : x.op = "merge"
  BY Ops
<1> HIDE DEF S
<1>2. u \in Seq(T) /\ w \in T
  BY SeqOfMore DEF S
<1>3. \A x \in T : x.op # "capture"
  BY <1>1
<1> HIDE DEF T
<1>4. s \in Seq(T) /\ s # <<>>
  <2>1. s \in Seq(T) /\ Len(s) = Len(u) + 1 /\ Len(u) \in Nat
    BY <1>2, AppendProperties, LenProperties
  <2> QED
    BY <2>1, EmptySeq
<1>5. Range(s) \subseteq T
  BY <1>4, RangeOf
<1>6. Head(s) \in T /\ Range(Tail(s)) \subseteq Range(s)
  BY <1>4, TailRange
<1> QED
  BY <1>3, <1>5, <1>6

\* A command done, no capture follows.
LEMMA CaptureGone ==
  ASSUME Types, CaptureFirst, script # <<>>, script' = Tail(script), UNCHANGED job
  PROVE  CaptureFirst'
<1>1. SUFFICES ASSUME Loading' PROVE CaptureFirst'
  BY DEF CaptureFirst
<1>2. script' # <<>> /\ job.kind \notin {"rebuild", "persist"}
  BY <1>1 DEF Loading
<1> DEFINE C == CommandsOf(job.kind, corpus)
           t == Tail(script)
<1>3. t \in Seq(C) /\ \A x \in Range(t) : x.op # "capture"
  BY <1>2, HeadTyped DEF Types, CaptureFirst, Loading
<1>4. t # <<>> /\ script' = t
  BY <1>2
<1> HIDE DEF C, t
<1>5. Head(t) \in Range(t) /\ Range(Tail(t)) \subseteq Range(t)
  BY <1>3, <1>4, TailRange
<1>6. (Range(Tail(script)))' = Range(Tail(t))
  BY <1>4 DEF Range
<1> QED
  BY <1>3, <1>4, <1>5, <1>6 DEF CaptureFirst

\* What a parse returns is returned by its source.
LEMMA ReturnedOf ==
  ASSUME NEW c, NEW n, NEW j \in Jobs, Parsing(j), j.corpus = c, n \in Range(j.names),
         NEW got, got = Parse(c, n, j.edition), ~ got.raised
  PROVE  got.rows \in ReturnedBy(c, n)
<1> DEFINE J == {k \in Jobs : Parsing(k) /\ k.corpus = c /\ n \in Range(k.names)}
           X == {Parse(c, n, k.edition) : k \in J}
<1>1. j \in J
  OBVIOUS
<1> HIDE DEF J
<1>2. got \in X
  BY <1>1
<1>3. ReturnedBy(c, n) = {x.rows : x \in {y \in X : ~ y.raised}}
  BY DEF ReturnedBy, J
<1> HIDE DEF X
<1> QED
  BY <1>2, <1>3

\* A source is begun: what it will capture is what the parse returned.
LEMMA NextSourceCapture == ASSUME Types, LoadInv, CaptureInv, NextSource PROVE CaptureInv'
<1>1. /\ Working /\ script = <<>> /\ todo # <<>> /\ UNCHANGED <<corpus, captures, job, cut>>
  BY DEF NextSource, stores, past
<1>2. CapturesReturned'
  BY <1>1 DEF CaptureInv, CapturesReturned
<1> DEFINE name == Head(todo)
           got  == IF job.kind \in {"rebuild", "from-jsonl"} THEN NoParse
                   ELSE Parse(corpus, name, job.edition)
           R    == ReadSource(name, got)
           s    == Append(R, Word("done"))
           c    == corpus
<1>3. \/ script' = s /\ ~ FailsAtOnce(name, got)
      \/ script' = <<>>
      \/ script' = <<Word("raise")>>
  BY DEF NextSource, Word
<1>4. todo' = IF script' = <<>> THEN Tail(todo) ELSE todo
  BY DEF NextSource
<1>5. c \in {"historical", "cultural"} /\ job \in Jobs /\ job.corpus = c /\ name \in Range(job.names)
      /\ job.kind \in Kinds
  BY <1>1, SourceAtHand, AgendasAssumption DEF Types, JobTypes
<1>6. SUFFICES ASSUME Loading'
               PROVE  /\ Head(script').op = "capture" => Head(script').rows \in ReturnedBy(c, name)
                      /\ \A x \in Range(Tail(script')) : x.op # "capture"
  <2>1. SUFFICES ASSUME Loading' PROVE CaptureFirst'
    BY <1>2 DEF CaptureInv, CaptureFirst
  <2>2. todo' = todo /\ (Range(Tail(script)))' = Range(Tail(script'))
    BY <1>4, <2>1 DEF Loading, Range
  <2> HIDE DEF name
  <2> QED
    BY <1>1, <1>6, <2>1, <2>2 DEF CaptureFirst, name, c
<1>7. script' # <<>> /\ job.kind \notin {"rebuild", "persist"}
  BY <1>1, <1>6 DEF Loading
<1>8. CASE script' = <<Word("raise")>>
  <2>1. \A x : Head(<<x>>) = x /\ Tail(<<x>>) = <<>>
    OBVIOUS
  <2>2. Range(<<>>) = {}
    BY DEF Range
  <2> QED
    BY <1>8, <2>1, <2>2 DEF Word
<1>9. CASE script' = s /\ ~ FailsAtOnce(name, got) /\ job.kind \in {"from-jsonl", "run"}
  <2>1. \E rows \in Seq(ParsedRows) : R = UpsertsOf(c, rows) \/ R = <<>>
    <3>1. CASE job.kind = "from-jsonl"
      <4>1. RowsOf(name) \in Seq(ParsedRows)
        BY DEF RowsOf, Captured, Types, StoreTypes, Files
      <4>2. R = IF job.load THEN Upserts(RowsOf(name)) ELSE <<>>
        BY <3>1 DEF ReadSource
      <4>3. Upserts(RowsOf(name)) = UpsertsOf(c, RowsOf(name))
        BY UpsertsAre
      <4> QED
        BY <4>1, <4>2, <4>3
    <3>2. CASE job.kind = "run"
      <4>1. Parsing(job) /\ got = Parse(job.corpus, name, job.edition)
        BY <1>5, <3>2 DEF Parsing
      <4>2. got.rows \in Seq(ParsedRows)
        BY <1>5, <4>1, ParsingOf, RowsAssumption
      <4>3. R = Upserts(got.rows)
        BY <3>2 DEF ReadSource
      <4>4. Upserts(got.rows) = UpsertsOf(c, got.rows)
        BY UpsertsAre
      <4> HIDE DEF got, R
      <4> QED
        BY <4>2, <4>3, <4>4
    <3> QED
      BY <1>9, <3>1, <3>2
  <2>2. R \in Seq(FlushCommands(c))
    <3>1. \A rows \in Seq(ParsedRows) : UpsertsOf(c, rows) \in Seq(FlushCommands(c))
      BY <1>5, UpsertPlaces
    <3>2. <<>> \in Seq(FlushCommands(c))
      OBVIOUS
    <3> HIDE DEF R
    <3> QED
      BY <2>1, <3>1, <3>2
  <2> DEFINE w == Word("done")
  <2>3. w.op = "done"
    BY DEF Word
  <2>4. script' = Append(R, w)
    BY <1>9
  <2> HIDE DEF R, w, s
  <2> QED
    BY <2>2, <2>3, <2>4, UpsertsOnly
<1>10. CASE script' = s /\ ~ FailsAtOnce(name, got) /\ job.kind \notin {"from-jsonl", "run"}
  <2>1. Parsing(job) /\ got = Parse(c, name, job.edition)
    BY <1>5, <1>7, <1>10 DEF Parsing, Kinds
  <2>2. got.rows \in Seq(ParsedRows)
    BY <1>5, <2>1, ParsingOf, RowsAssumption
  <2>3. ~ got.raised
    BY <1>7, <1>10 DEF FailsAtOnce
  <2> DEFINE rows == got.rows
  <2>4. rows \in ReturnedBy(c, name)
    <3> HIDE DEF name, got, c
    <3> QED
      BY <1>5, <2>1, <2>3, ReturnedOf
  <2> DEFINE x == Capturing(rows)
             u == IF Loads(job) THEN UpsertsOf(c, rows) ELSE <<>>
             w == Word("done")
             F == FlushCommands(c)
             S == {x} \cup F \cup {w}
  <2>5. script' = Append(<<x>> \o u, w)
    <3>1. R = <<x>> \o (IF Loads(job) THEN Upserts(rows) ELSE <<>>)
      BY <1>7, <1>10 DEF ReadSource, Capturing
    <3>2. Upserts(rows) = UpsertsOf(c, rows)
      BY UpsertsAre
    <3> HIDE DEF rows, x
    <3>3. R = <<x>> \o u
      BY <3>1, <3>2
    <3> HIDE DEF R, u, w
    <3> QED
      BY <1>10, <3>3 DEF w
  <2>6. u \in Seq(F)
    <3>1. UpsertsOf(c, rows) \in Seq(F)
      BY <1>5, <2>2, UpsertPlaces
    <3> HIDE DEF F, rows
    <3>2. <<>> \in Seq(F)
      OBVIOUS
    <3> QED
      BY <3>1, <3>2
  <2>7. x.op = "capture" /\ x.rows = rows /\ w.op = "done"
    BY DEF Capturing, Word
  <2> HIDE DEF x, u, w, F, rows, got, name
  <2>8. u \in Seq(S) /\ x \in S /\ w \in S
    BY <2>6, SeqOfMore
  <2> HIDE DEF S
  <2>9. Head(script') = x /\ Tail(script') = Append(u, w)
    BY <2>5, <2>8, PlanBehind
  <2> DEFINE t == Append(u, w)
  <2>10. \A y \in Range(t) : y.op # "capture"
    <3>1. u \in Seq(FlushCommands(c)) /\ t = Append(u, w)
      BY <2>6 DEF F
    <3> HIDE DEF t
    <3> QED
      BY <2>7, <3>1, UpsertsOnly
  <2> HIDE DEF t
  <2>11. Tail(script') = t
    BY <2>9 DEF t
  <2> QED
    BY <2>4, <2>7, <2>9, <2>10, <2>11
<1> QED
  BY <1>3, <1>7, <1>8, <1>9, <1>10

\* A capture is written, whole.
LEMMA WriteCaptureWhole == ASSUME Types, CaptureInv, WriteCapture PROVE CaptureInv'
<1>1. /\ Does("capture") /\ script' = Tail(script) /\ UNCHANGED <<corpus, job>> /\ script # <<>>
      /\ captures' = Put(captures, Head(todo), [rows |-> Head(script).rows, torn |-> FALSE])
      /\ cut' = cut \ {Head(todo)}
  BY DEF WriteCapture, Does, Did
<1>2. Head(script).op = "capture" /\ Loading
  BY <1>1, CommandAtHand DEF Loading
<1> DEFINE n    == Head(todo)
           rows == Head(script).rows
           file == [rows |-> rows, torn |-> FALSE]
<1>3. rows \in ReturnedBy(corpus, n)
  BY <1>2 DEF CaptureInv, CaptureFirst
<1>4. captures' = Put(captures, n, file) /\ file.rows = rows /\ cut' = cut \ {n}
  BY <1>1
<1> HIDE DEF file, n
<1>5. /\ DOMAIN captures' = DOMAIN captures \cup {n} /\ captures'[n] = file
      /\ \A x \in DOMAIN captures : x # n => captures'[x] = captures[x]
  BY <1>4 DEF Put
<1>6. CapturesReturned'
  <2>1. ASSUME NEW x \in DOMAIN captures'
        PROVE  \E r \in ReturnedBy(corpus, x) :
                 Range(captures'[x].rows) \subseteq Range(r) /\ (x \notin cut' => captures'[x].rows = r)
    <3>1. CASE x = n
      BY <1>3, <1>4, <1>5, <3>1
    <3>2. CASE x # n
      <4>1. x \in DOMAIN captures /\ captures'[x] = captures[x] /\ (x \in cut' <=> x \in cut)
        BY <1>4, <1>5, <3>2
      <4> QED
        BY <4>1 DEF CaptureInv, CapturesReturned
    <3> QED
      BY <3>1, <3>2
  <2>2. corpus' = corpus
    BY <1>1
  <2> QED
    BY <2>1, <2>2 DEF CapturesReturned, ReturnedBy
<1> QED
  BY <1>1, <1>6, CaptureGone DEF CaptureInv

\* A kill: what it cuts off is the beginning of a capture.
LEMMA KillCapture == ASSUME Types, CaptureInv, Kill PROVE CaptureInv'
<1>1. script' = <<>> /\ corpus' = corpus /\ Working
  BY DEF Kill
<1>2. CaptureFirst'
  BY <1>1 DEF CaptureFirst, Loading
<1>3. CASE UNCHANGED <<captures, cut>>
  BY <1>1, <1>2, <1>3 DEF CaptureInv, CapturesReturned, ReturnedBy
<1>4. CASE /\ script # <<>> /\ Head(script).op = "capture"
           /\ captures' \in Cuts(Head(todo), Head(script).rows)
           /\ cut' = cut \cup {Head(todo)}
  <2>1. Does("capture")
    BY <1>1, <1>4 DEF Does, Kill
  <2>2. Loading /\ Head(script) \in SourceCommands(corpus)
    BY <1>4, <2>1, CommandAtHand DEF Loading
  <2> DEFINE n    == Head(todo)
             rows == Head(script).rows
  <2>3. rows \in ReturnedBy(corpus, n)
    BY <1>4, <2>2 DEF CaptureInv, CaptureFirst
  <2>4. rows \in Seq(ParsedRows)
    BY <1>4, <2>2, Ops DEF SourceCommands, Capturing, Word
  <2>5. PICK file \in [rows : {SubSeq(rows, 1, k) : k \in 0 .. Len(rows) - 1}, torn : BOOLEAN] :
          captures' = Put(captures, n, file)
    BY <1>4 DEF Cuts
  <2>6. PICK k \in 0 .. Len(rows) - 1 : file.rows = SubSeq(rows, 1, k)
    OBVIOUS
  <2> HIDE DEF rows, n
  <2>7. Range(file.rows) \subseteq Range(rows)
    BY <2>4, <2>6, CutRange
  <2>8. /\ DOMAIN captures' = DOMAIN captures \cup {n} /\ captures'[n] = file
        /\ \A x \in DOMAIN captures : x # n => captures'[x] = captures[x]
    BY <2>5 DEF Put
  <2>9. cut' = cut \cup {n}
    BY <1>4 DEF n
  <2>10. ASSUME NEW x \in DOMAIN captures'
         PROVE  \E r \in ReturnedBy(corpus, x) :
                  Range(captures'[x].rows) \subseteq Range(r) /\ (x \notin cut' => captures'[x].rows = r)
    <3>1. CASE x = n
      BY <2>3, <2>7, <2>8, <2>9, <3>1
    <3>2. CASE x # n
      <4>1. x \in DOMAIN captures /\ captures'[x] = captures[x] /\ (x \in cut' <=> x \in cut)
        BY <2>8, <2>9, <3>2
      <4> QED
        BY <4>1 DEF CaptureInv, CapturesReturned
    <3> QED
      BY <3>1, <3>2
  <2>11. CapturesReturned'
    BY <1>1, <2>10 DEF CapturesReturned, ReturnedBy
  <2> QED
    BY <1>2, <2>11 DEF CaptureInv
<1> QED
  BY <1>3, <1>4 DEF Kill

\* No other step writes a capture.
LEMMA OtherCapture ==
  ASSUME CaptureInv, UNCHANGED <<corpus, captures, cut>>, CaptureFirst'
  PROVE  CaptureInv'
BY DEF CaptureInv, CapturesReturned, ReturnedBy
LEMMA IdleCapture ==
  ASSUME CaptureInv, UNCHANGED <<corpus, captures, cut>>, ~ Loading'
  PROVE  CaptureInv'
BY OtherCapture DEF CaptureFirst

\* Every step keeps the captures.
LEMMA StepCapture == ASSUME Types, LoadInv, CaptureInv, [Next]_vars PROVE CaptureInv'
<1>1. CASE Start
  <2>1. job'.kind \notin {"rebuild", "persist"} => script' = <<>>
    BY <1>1 DEF Start
  <2>2. UNCHANGED <<corpus, captures, cut>>
    BY <1>1 DEF Start, stores
  <2> QED
    BY <2>1, <2>2, IdleCapture DEF Loading
<1>2. CASE Recreate \/ Embed \/ Refuse \/ TagPoint \/ TagChunks
  <2>1. \E op \in {"recreate", "embed", "tag", "attach"} : Does(op)
    BY <1>2 DEF Recreate, Embed, Refuse, TagPoint, TagChunks
  <2>2. job' = job /\ job.kind \in {"rebuild", "persist"}
    BY <2>1, CommandAtHand DEF Does
  <2>3. UNCHANGED <<corpus, captures, cut>>
    BY <1>2 DEF Recreate, Embed, Refuse, TagPoint, TagChunks, Does, stores, past
  <2> QED
    BY <2>2, <2>3, IdleCapture DEF Loading
<1>3. CASE Raise \/ Finish \/ FinishSource
  <2>1. script' = <<>> /\ UNCHANGED <<corpus, captures, cut>>
    BY <1>3 DEF Raise, Finish, EndJob, FinishSource, Does, stores
  <2> QED
    BY <2>1, IdleCapture DEF Loading
<1>4. CASE Upsert
  <2>1. Does("merge") /\ Did /\ UNCHANGED <<captures, cut>>
    BY <1>4 DEF Upsert
  <2>2. script # <<>> /\ script' = Tail(script) /\ UNCHANGED <<corpus, job>>
    BY <2>1 DEF Does, Did
  <2>3. CaptureFirst'
    BY <2>2, CaptureGone DEF CaptureInv
  <2> QED
    BY <2>1, <2>2, <2>3, OtherCapture
<1>5. CASE UNCHANGED vars
  <2>1. UNCHANGED <<corpus, captures, cut, script, job, todo>>
    BY <1>5 DEF vars, stores, work, past
  <2>2. (Range(Tail(script)))' = Range(Tail(script)) /\ (Loading' <=> Loading)
    BY <2>1 DEF Range, Loading
  <2>3. CaptureFirst'
    BY <2>1, <2>2 DEF CaptureInv, CaptureFirst, ReturnedBy
  <2> QED
    BY <2>1, <2>3, OtherCapture
<1> QED
  BY <1>1, <1>2, <1>3, <1>4, <1>5, NextSourceCapture, WriteCaptureWhole, KillCapture DEF Next, Idle

\* Nothing is captured at the start.
LEMMA InitCapture == ASSUME Init PROVE CaptureInv
  BY DEF Init, CaptureInv, CapturesReturned, CaptureFirst, Loading

\* The captures hold what was returned.
LEMMA AlwaysCaptured == Spec => [](Types /\ CaptureInv)
<1>1. Init => GraphTypes /\ LoadInv /\ CaptureInv
  BY InitGraph, InitLoad, InitCapture
<1>2. Types /\ GraphTypes /\ LoadInv /\ CaptureInv /\ [Next]_vars
        => GraphTypes' /\ LoadInv' /\ CaptureInv'
  BY StepGraph, StepLoad, StepCapture
<1> QED
  BY <1>1, <1>2, AlwaysTypes, PTL DEF Spec

\* Rows that were returned are rows of their source.
LEMMA ReturnedAreSources ==
  ASSUME NEW c, NEW n, NEW rows \in ReturnedBy(c, n)
  PROVE  n \in SourcesOf(c) /\ Range(rows) \subseteq RowsFrom(c, n)
<1>1. PICK j \in Jobs : /\ Parsing(j) /\ j.corpus = c /\ n \in Range(j.names)
                       /\ rows = Parse(c, n, j.edition).rows
  BY DEF ReturnedBy
<1>2. n \in SourcesOf(c)
  BY <1>1 DEF SourcesOf
<1>3. Range(Parse(c, n, j.edition).rows) \subseteq RowsFrom(c, n)
  BY <1>1, ParsedFrom
<1> QED
  BY <1>1, <1>2, <1>3

\* A capture holds, unless a kill cut it off, exactly what one parse of its own
\* source returned that did not raise, and never more, whatever jobs wrote over
\* it before (parse, then _write_capture and write_chunks_jsonl; run.py:108).
THEOREM CapturesHoldParses == Spec => []CapturesReturned
  BY AlwaysCaptured, PTL DEF CaptureInv

\* If the adapters return all passages or raise, every capture that no kill cut
\* off has all of them (CapturesAreWhole).
THEOREM CapturesStayWhole ==
  ASSUME \A c \in {"historical", "cultural"} : ParsesAreWhole(c)
  PROVE  Spec => []CapturesAreWhole
<1>1. ASSUME Types, CaptureInv PROVE CapturesAreWhole
  <2>1. SUFFICES ASSUME NEW n \in DOMAIN captures \ cut PROVE IsWhole(n, captures[n].rows)
    BY DEF CapturesAreWhole
  <2>2. captures[n].rows \in ReturnedBy(corpus, n)
    BY <1>1 DEF CaptureInv, CapturesReturned
  <2>3. n \in SourcesOf(corpus)
    BY <2>2, ReturnedAreSources
  <2>4. ParsesAreWhole(corpus)
    BY <1>1 DEF Types, JobTypes
  <2> QED
    BY <2>2, <2>3, <2>4 DEF ParsesAreWhole
<1> QED
  BY <1>1, AlwaysCaptured, PTL
=============================================================================
