---------------------------- MODULE LexicalIngest ----------------------------
(***************************************************************************)
(* ingest/lexical/run.py: the adapters write one property graph, one       *)
(* dataset after the other, in the order of DATASETS or of --dataset.      *)
(*                                                                         *)
(* An adapter reads its files, then sends its session.runs, each a         *)
(* transaction of its own: a run may end between any two of them, killed   *)
(* or by an error, and the next run starts over.  Files may be added to    *)
(* the disk between the runs.                                              *)
(***************************************************************************)
EXTENDS HebrewAdapters, GreekAdapters, EtcbcAdapters, StepbibleAdapters,
        VersionAdapters, CrossRefAdapters

CONSTANTS
  Labels,      \* the node labels
  Unique,      \* the uniqueness constraints of graph/lexical.cypher, <<label, property>>
  Disks,       \* the sets of datasets whose files may be on the disk
  Subsets,     \* the lists a run may be given with --dataset
  MaxRuns,     \* bound: runs
  MaxStops     \* bound: runs that end early

ASSUME BoundsAssumption == MaxRuns \in Nat /\ MaxStops \in Nat
ASSUME ListsAssumption  == Subsets \subseteq Seq(STRING)
ASSUME UniqueAssumption == \A u \in Unique : u = <<u[1], u[2]>> /\ u[1] \in Labels

\* Mutants of DATASETS: an adapter moved ahead of the one that writes what it
\* matches.
DatasetsMorphgntEarly ==
  <<"oshb", "macula_hebrew", "bhsa", "etcbc_phono", "etcbc_parallels",
    "morphgnt", "macula_greek", "stepbible_morph_codes", "stepbible_ttesv",
    "stepbible_tbesh", "stepbible_tbesg", "stepbible_tahot", "stepbible_tagnt",
    "stepbible_tflsj", "stepbible_proper_nouns", "stepbible_tvtms", "peshitta",
    "coptic_scriptorium", "vulgate_clementine", "open_cbgm_3_john", "openbible",
    "tsk", "theographic">>
DatasetsTokensEarly ==
  <<"oshb", "bhsa", "etcbc_phono", "etcbc_parallels", "stepbible_tahot",
    "macula_hebrew", "macula_greek", "morphgnt", "stepbible_morph_codes",
    "stepbible_ttesv", "stepbible_tbesh", "stepbible_tbesg", "stepbible_tagnt",
    "stepbible_tflsj", "stepbible_proper_nouns", "stepbible_tvtms", "peshitta",
    "coptic_scriptorium", "vulgate_clementine", "open_cbgm_3_john", "openbible",
    "tsk", "theographic">>
\* DATASETS
Datasets ==
  <<"oshb", "macula_hebrew", "bhsa", "etcbc_phono", "etcbc_parallels",
    "macula_greek", "morphgnt", "stepbible_morph_codes", "stepbible_ttesv",
    "stepbible_tbesh", "stepbible_tbesg", "stepbible_tahot", "stepbible_tagnt",
    "stepbible_tflsj", "stepbible_proper_nouns", "stepbible_tvtms", "peshitta",
    "coptic_scriptorium", "vulgate_clementine", "open_cbgm_3_john", "openbible",
    "tsk", "theographic">>

\* _run_one: the session.runs of an adapter.
ScriptOf(name, has) ==
  CASE name = "oshb"                   -> OshbScript(has)
    [] name = "macula_hebrew"          -> MaculaScript(has)
    [] name = "bhsa"                   -> BhsaScript(has)
    [] name = "etcbc_phono"            -> PhonoScript(has)
    [] name = "etcbc_parallels"        -> ParallelsScript(has)
    [] name = "macula_greek"           -> MaculaGreekScript(has)
    [] name = "morphgnt"               -> MorphgntScript(has)
    [] name = "stepbible_morph_codes"  -> MorphCodesScript(has)
    [] name = "stepbible_ttesv"        -> TtesvScript(has)
    [] name = "stepbible_tbesh"        -> TbeshScript(has)
    [] name = "stepbible_tbesg"        -> TbesgScript(has)
    [] name = "stepbible_tahot"        -> TahotScript(has)
    [] name = "stepbible_tagnt"        -> TagntScript(has)
    [] name = "stepbible_tflsj"        -> TflsjScript(has)
    [] name = "stepbible_proper_nouns" -> ProperNounsScript(has)
    [] name = "stepbible_tvtms"        -> TvtmsScript(has)
    [] name = "peshitta"               -> PeshittaScript(has)
    [] name = "coptic_scriptorium"     -> CopticScript(has)
    [] name = "vulgate_clementine"     -> VulgateScript(has)
    [] name = "open_cbgm_3_john"       -> CbgmScript
    [] name = "openbible"              -> OpenBibleScript(has)
    [] name = "tsk"                    -> TskScript(has)
    [] name = "theographic"            -> TheoScript

\* open_cbgm_3_john and theographic read files they do not look for first; a
\* name that is no dataset raises as well.
Raises(name, has) ==
  \/ name \notin Range(Datasets)
  \/ name \in {"open_cbgm_3_john", "theographic"} /\ name \notin has

\* The numbers of the lemmas MACULA-Hebrew brings.  It merges a lemma by id, the
\* brief lexicon by number: a lemma of such a number that has no id is there only
\* when the lexicon came first.
HebrewNumbers == {r.strong : r \in Range(MaculaRows.lemma)}
EarlyIn(g)    == \E v \in HebrewNumbers : [strong |-> v] \in DOMAIN g.nodes["Lemma"]

Scripts == [has \in Disks |-> [name \in Range(Datasets) |-> ScriptOf(name, has)]]

\* The member of a set of one: TLC holds what it takes from such a set before it
\* goes on, where an operator's argument would be worked out at every use.
The(S) == CHOOSE x \in S : TRUE
\* What g becomes when a script is sent.
SentWhole(g, script) ==
  After(g, script, LAMBDA h, s : The({ApplyBatch(x, s.t, s.rows) : x \in {h}}))
\* What g becomes in one undisturbed pass.
PassOver(g, has) ==
  After(g, Datasets,
        LAMBDA h, name : IF Raises(name, has) THEN h
                         ELSE The({SentWhole(x, Scripts[has][name]) : x \in {h}}))
\* The graph such a pass over an empty store ends with.
CleanGraphs == [has \in Disks |-> PassOver(EmptyGraph(Labels), has)]

-----------------------------------------------------------------------------
VARIABLES
  graph,    \* the lexical store
  disk,     \* the datasets whose files are on the disk
  todo,     \* the datasets of the run that are still to come
  at,       \* the adapter at work and the session.runs it has still to make
  chosen,   \* the list of the run, or of the last one
  result,   \* "fresh", "running", "ok", "stopped" or "refused"
  runs,     \* runs started
  stops,    \* runs that ended early
  disks,    \* history: the disks the graph was written from
  passed    \* history: a pass over all datasets has ended since the last change of disk

vars == <<graph, disk, todo, at, chosen, result, runs, stops, disks, passed>>

Idle == [name |-> Null, script |-> <<>>]

Init ==
  /\ graph = EmptyGraph(Labels)
  /\ disk \in Disks /\ disks = {}
  /\ todo = <<>> /\ at = Idle /\ chosen = <<>> /\ result = "fresh"
  /\ runs = 0 /\ stops = 0 /\ passed = FALSE

\* main
Start(list) ==
  /\ result # "running" /\ runs < MaxRuns
  /\ todo' = list /\ chosen' = list /\ at' = Idle
  /\ result' = "running" /\ runs' = runs + 1
  /\ UNCHANGED <<graph, disk, stops, disks, passed>>

Reading == result = "running" /\ at.script = <<>>
\* Mutant: an adapter keeps what it read when it was first asked.
LoadOnce ==
  /\ Reading /\ todo # <<>> /\ ~Raises(Head(todo), disk)
  /\ at' = [name |-> Head(todo),
             script |-> Scripts[IF disks = {} THEN disk ELSE CHOOSE d \in disks : TRUE][Head(todo)]]
  /\ todo' = Tail(todo) /\ disks' = disks \cup {disk}
  /\ UNCHANGED <<graph, disk, chosen, result, runs, stops, passed>>
\* The next dataset: its files are read as they are now.
Load ==
  /\ Reading /\ todo # <<>> /\ ~Raises(Head(todo), disk)
  /\ at' = [name |-> Head(todo), script |-> Scripts[disk][Head(todo)]]
  /\ todo' = Tail(todo) /\ disks' = disks \cup {disk}
  /\ UNCHANGED <<graph, disk, chosen, result, runs, stops, passed>>
\* The adapter raises before it sends anything, and the run ends with it.
RaiseOnLoad ==
  /\ Reading /\ todo # <<>> /\ Raises(Head(todo), disk)
  /\ todo' = <<>> /\ at' = Idle /\ result' = "stopped"
  /\ UNCHANGED <<graph, disk, chosen, runs, stops, disks, passed>>

\* One session.run.  A statement that would break a constraint is refused as
\* a whole, and its error ends the run.
Sent(s) == ApplyBatch(graph, s.t, s.rows)
\* Mutant: the run goes on after a refused statement.
SendOn ==
  /\ result = "running" /\ at.script # <<>>
  /\ \E next \in {Sent(Head(at.script))} :
       graph' = IF Respects(next, Unique) THEN next ELSE graph
  /\ at' = [at EXCEPT !.script = Tail(@)]
  /\ UNCHANGED <<disk, todo, chosen, result, runs, stops, disks, passed>>
Send ==
  /\ result = "running" /\ at.script # <<>>
  /\ \E next \in {Sent(Head(at.script))} :
       IF Respects(next, Unique)
       THEN /\ graph' = next /\ at' = [at EXCEPT !.script = Tail(@)]
            /\ UNCHANGED <<todo, result>>
       ELSE /\ todo' = <<>> /\ at' = Idle /\ result' = "refused"
            /\ UNCHANGED graph
  /\ UNCHANGED <<disk, chosen, runs, stops, disks, passed>>

Finish ==
  /\ Reading /\ todo = <<>>
  /\ at' = Idle /\ result' = "ok"
  /\ passed' = (passed \/ chosen = Datasets)
  /\ UNCHANGED <<graph, disk, todo, chosen, runs, stops, disks>>

\* The process is killed, or Neo4j cannot be reached.
Stop ==
  /\ result = "running" /\ stops < MaxStops
  /\ todo' = <<>> /\ at' = Idle /\ result' = "stopped" /\ stops' = stops + 1
  /\ UNCHANGED <<graph, disk, chosen, runs, disks, passed>>

\* Files are added between two runs.
AddFiles ==
  /\ result # "running"
  /\ \E more \in Disks :
       /\ disk \subseteq more /\ disk # more /\ disk' = more
  /\ passed' = FALSE
  /\ UNCHANGED <<graph, todo, at, chosen, result, runs, stops, disks>>

Next ==
  \/ \E list \in Subsets \cup {Datasets} : Start(list)
  \/ Load \/ RaiseOnLoad \/ Send \/ Finish \/ Stop \/ AddFiles

Spec == Init /\ [][Next]_vars

Early == EarlyIn(graph)

-----------------------------------------------------------------------------
(* Properties.                                                             *)

\* Once all datasets have been passed over, no later run over the same files
\* changes anything, whatever datasets it is given: every endpoint was there
\* when the edge that needs it was sent (docs/SCHEMA_DECISIONS.md, "Single-pass
\* dispatch order is a schema contract").
SecondPassIsNoOp == [][passed /\ passed' => graph' = graph]_vars

\* Wherever earlier runs were cut off, and whatever they were given, a whole
\* pass ends with the graph an undisturbed pass ends with.
WholePassConverges ==
  passed /\ disks = {disk} => graph = CleanGraphs[disk]

\* Files that come later are taken in as if they had been there: nothing the
\* adapters write from them is missing.  (What they wrote in their absence, the
\* sample rows, stays.)
LateFilesAreTakenIn ==
  passed =>
    LET clean == CleanGraphs[disk]
    IN  /\ DOMAIN clean.edges \subseteq DOMAIN graph.edges
        /\ \A l \in Labels : DOMAIN clean.nodes[l] \subseteq DOMAIN graph.nodes[l]

\* A statement meets a uniqueness constraint only when the brief lexicon of Hebrew
\* has been read before MACULA-Hebrew, by a run it was given to or in a pass over
\* a disk without the files of MACULA-Hebrew; whatever else earlier runs left
\* behind, nothing is refused.
OnlyEarlyLemmasRefuse == result = "refused" => Early

\* And there is no way back but to empty the store: once a lemma is early, no pass
\* over the files of MACULA-Hebrew comes to its end.
EarlyLemmasBlock == passed /\ "macula_hebrew" \in disk => ~Early

\* ingest/lexical/run.py: "Each adapter is idempotent (MERGE-based) so re-runs are
\* safe."  No run is refused for what earlier runs left in the graph.
ReRunsAreSafe == result # "refused"

\* Every witness of the collation of 3 John stands in every variation unit: at
\* one of its readings or at its lacuna, and never at both; only the first
\* hands, which no list names, may be absent.
WitnessesReadOnce ==
  passed /\ "open_cbgm_3_john" \in disk =>
    \A u \in Range(CbgmUnits), s \in CbgmInScope :
      LET reads == {e \in DOMAIN graph.edges :
                      e.type = "READS_AT" /\ e.a[2].siglum = s
                        /\ e.pat.variant_unit_id = u.id}
          Lacuna(e) == graph.nodes["Reading"][e.b[2]].is_lacuna = "true"
      IN  reads # {} /\ ((\E e \in reads : Lacuna(e)) => Cardinality(reads) = 1)

\* tests/lexical/fixtures/tsk_slice.json: "One CROSS_REF edge expected with
\* osis_target='John.1.1'".  Every target of a reference that was resolved is
\* reached, when its verse is in the graph.
CrossRefsLand ==
  passed =>
    \A i \in DOMAIN TskRows(disk).edge :
      LET row == TskRows(disk).edge[i]
      IN  Find(graph, "Verse", [osis |-> row.to]) # {} =>
            \E e \in DOMAIN graph.edges :
              e.type = "CROSS_REF" /\ e.a[2].id = row.from /\ e.pat.osis_target = row.to

-----------------------------------------------------------------------------
(* What the theorems (LexicalIngestProofs) ask of the files: conditions on *)
(* the scripts alone, row by row.                                          *)

\* A graph maps nodes and edges to their properties.
IsMap(F) ==
  /\ F = [x \in DOMAIN F |-> F[x]]
  /\ \A x \in DOMAIN F : F[x] = [f \in DOMAIN F[x] |-> F[x][f]]
IsGraph(g) ==
  /\ g = [nodes |-> g.nodes, edges |-> g.edges]
  /\ g.nodes = [l \in Labels |-> g.nodes[l]]
  /\ \A l \in Labels : IsMap(g.nodes[l])
  /\ IsMap(g.edges)

\* Every node and edge of g is in h, with every property it has in g.
PropsIn(p, q) == \A f \in DOMAIN p : f \in DOMAIN q /\ q[f] = p[f]
AllIn(F, G)   == \A x \in DOMAIN F : x \in DOMAIN G /\ PropsIn(F[x], G[x])
GraphIn(g, h) == AllIn(g.edges, h.edges) /\ \A l \in Labels : AllIn(g.nodes[l], h.nodes[l])

\* The statements of an adapter on disk has, each with one of its rows.
Rowed(name, has) ==
  UNION {{[t |-> s.t, row |-> r] : r \in Range(s.rows)} : s \in Range(Scripts[has][name])}
Sendable(has) == {name \in Range(Datasets) : ~Raises(name, has)}
AllRowed(has) == UNION {Rowed(name, has) : name \in Sendable(has)}

\* A row that is sent again changes nothing, and it finds in g what it finds in h.
SettledIn(g, x) == ApplyRow(g, x.t, x.row) = g
FindsAlike(g, h, x) ==
  IF x.t.kind = "edge" THEN EdgesOf(g, x.t, x.row) = EdgesOf(h, x.t, x.row)
  ELSE LET key == Restrict(x.row, x.t.keys)
       IN  Find(g, x.t.label, key) = Find(h, x.t.label, key)

\* The node of a row is the one with its own key, but for the brief lexicon of
\* Hebrew, which borrows the lemma of a number that MACULA-Hebrew merges by id.
OwnNode(g, x) ==
  LET key == Restrict(x.row, x.t.keys) IN Find(g, x.t.label, key) = {key}
Borrows(x) == x.t = NodeT("Lemma", "strong") /\ x.row.strong \in HebrewNumbers

\* Scripts are well formed: sequences of statements on nodes of the graph.
Fits(t) ==
  \/ t.kind \in {"node", "attach"} /\ t.label \in Labels
  \/ t.kind = "edge" /\ {t.a.label, t.b.label} \subseteq Labels
ScriptsFit ==
  \A has \in Disks : \A name \in Sendable(has) :
    LET script == Scripts[has][name]
    IN  /\ script \in Seq(Range(script))
        /\ \A s \in Range(script) : Fits(s.t) /\ s.rows \in Seq(Range(s.rows))

\* most[has] is a graph in which everything that disk has and the ones before
\* it can bring has settled and no constraint is broken.  With the files of
\* MACULA-Hebrew an undisturbed pass ends without an early lemma, and the rows find
\* after it what they find in most[has].
Ceiling(most) ==
  \A has \in Disks :
    /\ IsGraph(most[has]) /\ Respects(most[has], Unique)
    /\ \A l \in Labels : IsFiniteSet(DOMAIN most[has].nodes[l])
    /\ \A more \in Disks : has \subseteq more => GraphIn(most[has], most[more])
    /\ \A x \in AllRowed(has) :
         /\ SettledIn(most[has], x)
         /\ x.t.kind = "node" => OwnNode(most[has], x) \/ Borrows(x)
    /\ "macula_hebrew" \in has =>
         /\ ~EarlyIn(CleanGraphs[has])
         /\ \A x \in AllRowed(has) :
              SettledIn(CleanGraphs[has], x) /\ FindsAlike(most[has], CleanGraphs[has], x)

\* A lemma is merged by id or by number, and has a number.  What is merged by
\* number sets no other property that is unique, the rows of one id have one
\* number, and MACULA-Hebrew brings a lemma with an id for each of its numbers.
LemmaRow(x) == x.t.kind # "edge" /\ x.t.label = "Lemma"
ById(x)     == x.t = NodeT("Lemma", "id")
LemmasSettle ==
  /\ "Lemma" \in Labels /\ {<<"Lemma", "id">>, <<"Lemma", "strong">>} \subseteq Unique
  /\ \A has \in Disks : \A x \in AllRowed(has) : LemmaRow(x) =>
       /\ "strong" \in DOMAIN x.row /\ x.row.strong # Null
       /\ \/ ById(x) /\ "id" \in DOMAIN x.row /\ x.row.id # Null
          \/ /\ x.t = NodeT("Lemma", "strong")
             /\ \A f \in DOMAIN x.row : <<"Lemma", f>> \in Unique => f = "strong"
       /\ \A more \in Disks : \A y \in AllRowed(more) :
            ById(x) /\ ById(y) /\ x.row.id = y.row.id => x.row.strong = y.row.strong
  /\ \A has \in Disks : "macula_hebrew" \in has => \A v \in HebrewNumbers :
       \E x \in Rowed("macula_hebrew", has) : ById(x) /\ x.row.strong = v
FilesSettle(most) == ScriptsFit /\ LemmasSettle /\ Ceiling(most)

\* The collation of 3 John: no other adapter writes what a witness reads, the
\* units have names of their own, and witnesses and readings nodes of their own.
CollationSettles(most) ==
  /\ {"Witness", "Reading"} \subseteq Labels
  /\ \A has \in Disks : \A name \in Sendable(has) : \A s \in Range(Scripts[has][name]) :
       s.t.kind = "edge" /\ s.t.type = "READS_AT" => name = "open_cbgm_3_john"
  /\ \A u, v \in Range(CbgmUnits) : u.id = v.id => u = v
  /\ \A has \in Disks : "open_cbgm_3_john" \in has =>
       \A x \in Rowed("open_cbgm_3_john", has) :
         x.t.kind = "node" /\ x.t.label \in {"Witness", "Reading"} => OwnNode(most[has], x)
=============================================================================
