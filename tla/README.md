# Verification of the doctrine engine and its companion app

TLA+ models of this repository, checked with TLC and, for the companion, the lexical ingest with its
bundle and tools, the reseed harness, the attestation documents and the index of the corpora, proved
with TLAPS.
`PROJECT.json` lists components, runs, mutants, the source lines behind every definition, hazards
and theorems.  Source paths below are relative to the repository root (`src/` in `PROJECT.json`).

## 1. Inventory

The engine (Python) ingests corpora into two air-gapped Neo4j stores, embeds them into Qdrant,
generates one evidence and one historical document per question, and serves everything over MCP.
The companion (FastAPI, Flutter) runs chat turns against the engine and keeps conversations in
MongoDB.  No other state is shared: components meet through databases and files on disk.

| component | state | operations | what is hard | what makes it correct |
|---|---|---|---|---|
| conversation store and chat turns, `cd_app/backend/{store,agent,main}.py` | `conversations`, `messages`; the locals of one coroutine per request | create, send, rename, delete, history; two writes per message | requests interleave at every await; failures and disconnections anywhere | one number per message, answers after prompts, nothing announced that is not stored, owners only, deletions last |
| client, `cd_app/mobile/lib` | one `ChatState`, locals of every running call | open, startNew, send, one handler per event | calls resume after the user moved on; broken connections | screen agrees with the store; one turn per conversation; the composer comes back |
| lexical ingest, `ingest/lexical` (23 adapters), `ingest/canonical_strongs.py` | nodes and edges of the lexical graph | one pass per dataset, each a sequence of `session.run`s | adapters match nodes of other adapters, and merge one label by different keys; edges that match nothing are lost in silence; runs are cut off, files come late | a whole pass ends with the graph of an undisturbed pass, and a further one changes nothing; what a constraint refuses, and what never recovers from it, is known |
| context bundle and its gate, `pipeline2/context_builder.py`, `tools/verify_f1_invariants.py` | none | seven queries with limits; a projection of its own | a query by a property some nodes lack answers with nothing | the bundle shows what the files say of an anchor, and the gate sees when it does not |
| historical ingest, `ingest/historical` (7 adapters) | captures | parse, write, upsert | editions with gaps and redacted clauses | whole captures, a graph that shows what was read, no redacted clause goes on |
| cultural adapters, `ingest/cultural` (22) | captures | scrape, write, upsert | pages that do not answer, change or carry no numbers | as above |
| cultural reseed, `tools/{cultural_reseed,run_cultural_scrape}.py`, `ingest/cultural/_common.py` | captures, status files, chunk nodes | scrape with retries, from-jsonl, resume, force, dry run, single source | kills between the writes of one source; success is inferred from files | exit code 0 means what the docstring says |
| index and tags, `embeddings/embed_{cultural,historical}.py`, `ingest/cultural/autotag_run.py` | `cult_col`, `hist_col`, `doctrine_tags` in two stores | rebuild, tag, reseed | batches dropped; writers of the same fields in any order | the index mirrors the captures, the stores agree |
| attestation documents, `pipeline{2,4}/{run,dispatcher,persistence}.py`, schemas and scores | `evidence/<id>.json`, `historical/<id>.json`, `_non_redistributable.txt` | run over one or all questions, skip, validate, recompute, persist, rescan | runs overlap and die between file operations; payloads are what a model returns | the list of unsafe documents is exact after an undisturbed persist; licences decide; no question is left out |
| MCP server, `cd_mcp` | connections of the lifespan | twelve read-only tools | what they read is being written, and was written by others under other keys | tools say what the files say, and never give away what the pipelines withhold |
| license guard, `ingest/license_guard.py`, `retrieval/envelope.py` | none | bulk and snippet modes, envelope | composite licences, unknown names | a bulk answer needs every source's licence |
| retrieval, `retrieval/{hybrid,router,reranker}` | none | fusion, rerank, route | nothing calls them | |
| embeddings of lemmas and questions | `lex_col`, a `.npz` | rebuild | drop before load | as the index above |
| authentication | the client's token cache | verify, refresh, sign out | a sign-out during a refresh | signed out stays signed out |
| maintenance tools, reports, deployment | reports, containers | gates, wipe, deploy | order of checks and effects | nothing destroyed past a failed gate |

Interactions: the client calls the backend's routes and reads one event stream per turn; the backend
calls the engine through the Agent SDK, and the SDK calls the MCP tools; the MCP tools read what the
ingest, the embeddings and the pipelines wrote; the pipelines' subagents are shown what the bundle
queries find in the lexical graph.  The operator starts every batch program by hand.

## 2. Modules

| module | models | state and actions |
|---|---|---|
| `Conversations` | backend store, routes and turns | one variable per field of a conversation, a set of messages, one function per local of a request; one action per stretch of code between awaits |
| `Transcript` | the promise of the store, abstractly | owners, hidden conversations, entries with places |
| `ChatClient` | `ChatController`, `ApiClient`, and the turns of the backend reduced to what the client can tell apart | `ChatState`, locals of every call, undelivered events; one action per resumption |
| `PropertyGraph` | the graph, `MERGE`, `MATCH ... SET`, edge statements, batches, constraints | operators on a graph |
| `Strongs` | `canonical_strongs.py` | operators |
| `HebrewAdapters`, `GreekAdapters`, `EtcbcAdapters`, `StepbibleAdapters`, `VersionAdapters`, `CrossRefAdapters` | the 23 lexical adapters | per adapter: its rows, built from constant files, and its script, the `session.run`s in their order |
| `LexicalIngest` | `lexical/run.py` | graph, disk, the adapter at work and what it has still to send; start, load, send, stop, files added |
| `ContextBundle` | bundle and gate | operators on the graph |
| `LexicalTools` | the tools that answer from the lexical graph | operators on the graph |
| `HistoricalAdapters`, `CulturalAdapters` | the adapters and the extractors of `_html.py` | operators from editions, pages and what answers, to rows or a fault |
| `CorpusIndex` | capture, upsert, rebuild, persist | captures, graph, collection, tag files; a job is a script of commands, one action each |
| `CulturalReseed` | the harness, its pool, the single-source script, `upsert_chunks` | captures, status files, graph; the arguments of an invocation; locals of every source's thread |
| `LicenseGuard`, `Evidence`, `Attestation` | the guard; what pipelines 2 and 4 make of a payload | operators |
| `AttestationStore` | `run.main`, `dispatch_one` and `persist_*` of both pipelines | documents, list, locals of every run; one action per file operation |
| `DocumentTools` | the tools that answer from stored documents, `build_envelope` | operators on the state of `AttestationStore` |
| `...Proofs`, `SequenceLemmas` | | theorems and lemmas, section 4 |
| `MC...` | TLC instances | files, editions, pages, payloads and questions of the instance; symmetry sets |

`LexicalIngest` composes the six adapter modules over `PropertyGraph`; `MCContextBundle` composes it
with the bundle, the gate and the tools.  `CorpusIndex` composes the historical and the cultural
adapters.  `MCAttestationStore` composes the store with `Evidence`, `Attestation`, `LicenseGuard`
and `DocumentTools`.  `Conversations` implements `Transcript`.

How the models read the code:

* A request, call, run or source is an element of a constant set, and its locals are functions on
  that set.  The set bounds the number of requests ever made; elements are not reused.
* `Conversations`: an action ends where the code awaits.  `append_message` is two actions (the
  `$inc`, the insert).  A write may be reported as failed although it took effect (`Written`), or
  fail before it (`Fail`).  `Disconnect` is a client that goes away or a backend that restarts; the
  store is all that survives.  The clock ticks once per turn, where `_stream` takes its timestamp.
  Token text, tool chips and titles are reduced to the request that carries them.  `Serial` is the
  set of sessions whose client never overlaps turns; `ChatClient` checks (`TurnsDoNotOverlap`) when
  the client keeps that promise.
* `ChatClient`: an answer is the number of its text chunks and the number of its tools, so that a
  lost or repeated one shows.  Streaming fills both; `History` and `Shown` keep what a reload keeps:
  the text, no tools, and no answer without text.  A connection that stays open and never delivers
  again is left out, because `sendTurn` has no timeout and would wait for ever.
* Lexical adapters: a row keeps the properties that another statement matches on, that a constraint
  covers, or that tell who wrote the node.  Where a file's layout decides what is read (padding of
  numbers, gaps in a Text-Fabric feature, a heading that sets the current verse) the layout is in
  the constant; markup and character tables are not.  A statement whose endpoints do not match
  writes nothing, as in Cypher, and one that breaks a constraint is refused whole and ends the run.
  An adapter whose files are not on the disk sends its sample, if it has one, or its `Source` alone
  (`ReadFrom`), or raises; all 23 may be without files.
* `CorpusIndex`: `Job`s follow one another, any may be killed before any command, and a batch may be
  refused by the embedding service.  Dropping and creating the collection is one command, and a
  missing collection counts as an empty one.
* `AttestationStore`: `Skips` is pipeline 4's skip of existing documents.  A document is what the
  pipeline made of its payload or half of it: `Torn`, which does not parse and is passed over by a
  scan, or `Garbled`, torn inside a character, which does not decode and ends the run that scans it
  (`Stumble`).  Each write replaces the whole file; bytes of two runs that write one document at the
  same moment are not mixed.  Payloads are those of a question, of another question, mislabelled and
  malformed.
* `CulturalReseed`: a capture is its set of chunks; one `Upsert` is one batch.  `may`, chosen once
  from `Habits`, says what operators and sites do in a behaviour.  Opening a file for writing leaves
  any prefix of the new content, as a kill may.  `Fetching` holds the adapters that fetch through
  `scrape_source` and let out what it raises, which are the only ones a network fault gets out of:
  the others skip the page, or read no site.
* Tools and bundle only read and are operators; a list of rows is a set, so that order and ties at a
  `LIMIT` are left out, while the limits themselves are kept.

## 3. Runs

| run | bounds | shows |
|---|---|---|
| `conversations` | 3 requests, 2 users, 2 sessions | the safety invariants, every interleaving |
| `conversations_fair` | 2 requests, one of two sessions serial | refinement of `Transcript`, every request ends, and what serial clients get on top |
| `chat_client` | 3 sessions; 3 calls, 2 chunks, 1 tool of a user who waits over connections that last, or 2 calls, 1 chunk, 1 tool without restriction | turns do not overlap, screen and store agree as far as a reload keeps them; the composer comes back |
| `lexical_ingest` | 2 runs, 1 stop, batches of 3, five disks, three lists of single datasets | a pass converges from whatever came before, but for the brief lexicon of Hebrew read too early; bundle, gate and tools agree with the files |
| `corpus_index` | 3 jobs over small job lists, passes over all adapters, one sequence of 5; 1 kill, 1 refusal | captures, graph, collection and tags agree; no redacted clause is embedded |
| `attestation_store` | 2 overlapping runs, 2 questions, 6 to 7 kinds of payload per pipeline | an undisturbed persist leaves the list exact, licences decide, no gap, tools agree with the pipelines |
| `cultural_reseed` | 2 sources, 2 chunks, 2 attempts, 2 workers, 2 invocations | the meaning of exit code 0, retries |
| `cultural_reseed_fair` | 1 invocation, 1 worker | an invocation ends |
| `cultural_reseed_retries` | 1 source, 2 attempts | violated: a refused connection is given up at once |
| `cultural_reseed_dry_run` | 2 invocations | violated: exit 0 with nothing in the graph |
| `lexical_cross_refs` | 1 run | violated: a cross reference into the New Testament has no edge |
| `lexical_reruns` | 2 runs | violated: all datasets are refused after `--dataset stepbible_tbesh` |

What a property says in a sentence:

| property | |
|---|---|
| `DisplayOrderDeterministic`, `EveryNumberAccountedFor` | no two messages of a conversation share a number; a number without a message is in the hands of a running or broken turn |
| `AnswerFollowsPrompt`, `HistoryIsClosed`, `AnswerUnderPrompt` | an answer is never stored, shown or (serial clients) placed apart from its prompt |
| `AnnouncedIsDurable`, `DoneIsDurable` | what an event tells the client is in the store |
| `OnlyOwnersTouch`, `DeletedStaysHidden`, `LastModifiedIsNewest` | a check made before an await holds after it; later turns do not undo a deletion; the list's order is the newest turn's |
| `ImplementsTranscript`, `RequestsEnd` | the store is the abstract one; every request ends |
| `TurnsDoNotOverlap`, `AnswersUnderPrompts`, `FinishedTurnsAreWhole`, `SendingEnds` | the client's lock works, its bubbles get their own text, all of it, and the lock is released |
| `WholePassConverges`, `LateFilesAreTakenIn`, `SecondPassIsNoOp` | after cut-off runs, subset runs and late files, a whole pass leaves the graph it should, for good |
| `OnlyEarlyLemmasRefuse`, `EarlyLemmasBlock` | a constraint is met only when the brief lexicon of Hebrew was read before MACULA-Hebrew, and then by every later pass |
| `WitnessesReadOnce` | the collation of 3 John puts each witness at one place per unit |
| `BundleReachesAnchors`, `GateVouchesForBundle`, `ToolsAnswerFromFiles` | what bundle and tools answer is what the files say; the gate refuses a graph whose bundle would be empty where the files speak |
| `LoadedAsRead`, `CapturesAreWhole`, `ClausesStayOut`, `IndexMirrorsCaptures`, `TagsAgree` | from an edition or a page to the index nothing is lost, torn or leaked, and the two stores agree once their writers have ended |
| `UndisturbedPersistIsExact`, `LicencesDecide`, `FinishedRunsLeaveNoGap`, `SharingAgrees` | documents, list and tools agree on what may be given away; a run that ends has answered its questions |
| `ResumedScrapesReseed`, `WorkReachedGraph`, `NoFailureIsHidden`, `DroppedAnswersAreRetried`, `RunEnds` | what an exit code of 0 may be trusted for, under which habits |

Why the bounds are enough.

* A numbering or ownership error needs two requests on one conversation, and a third to observe it
  or to create the conversation.  A refinement error needs one turn and one request that disturbs it.
* The client's state is one screen, so a call and a second one that disturbs it, plus the two that
  filled the conversations, show every mixture.
* A list error needs a run that scans and one that writes meanwhile, and another persist to repair it.
  Two runs suffice: a run over all questions races on one question and is alone on the next.
* A reseed error needs an invocation that leaves files and one that trusts them; two chunks tell a
  partial capture or upsert from an empty and a full one, two attempts tell the first fault from
  the last.
* An ingest error needs a run that leaves something behind and one that meets it.  One stop is
  enough, for everything before it may be a whole adapter or a part.  Files are a few verses and
  words that every adapter of the same text knows, with one entry per branch of the adapter: a
  missing feature, a gap, a qualified and a plain number, a resolved and a quarantined reference.
  `BATCH_SIZE` 3 (500, 1000 and 2000 in the code) makes two batches of the longer lists.  The bundle's
  limits are 2, 1, 1, 1, 3 (40, 20, 15, 10, 20), so that both sides of each occur; the tools' limits
  1 and 4 are one that is reached and one that is not.  The disks are all files, two selections of
  them with the text floor, one without it (no OSHB, MorphGNT and MACULA-Greek), and all but
  MACULA-Hebrew.  The lists are one out of order, one with an unknown name, and the brief lexicon of
  Hebrew alone; the last one, like a pass over the last disk, leaves lemmas MACULA-Hebrew is refused
  for.  A refused pass is not a pass (`passed`), so what is said of passes leaves it out, and
  `OnlyEarlyLemmasRefuse` says when that is.
* A corpus error needs a job that leaves captures, graph or collection behind, one that changes one
  of them and one that looks; the sequence of five is the operator's usual week.  Text longer than
  `MAX_TEXT_CHARS` (40 for 6000), batches of 2 and 3 (for 64 to 500), more tags than
  `MAX_TAGS_PER_CHUNK` (2 for 5) and confidences on both sides of the threshold occur.  Editions and
  pages have one branch of each extractor each.

Deadlock is not checked where all requests, calls, runs or invocations may have ended.
`corpus_index` checks it: its jobs come to an end in a step of their own.

Fairness.  `conversations_fair`: each request's own steps are weakly fair, because the event loop
runs ready coroutines, Mongo answers or raises, and `max_turns` ends the engine's stream.  What
clients, the engine's text and the network do is not fair.  `chat_client`: Dart's event loop
resumes calls whose data has arrived, and the backend ends every turn, which is `RequestsEnd` of
`Conversations`; that a broken connection is noticed is an assumption about the network.  `cultural_reseed_fair`: the pool's threads run and network calls have timeouts;
faults are not fair, and the retry bound does the rest.

Each property of a passing run has a mutant in `PROJECT.json`: a definition changed as a plausible
bug would change it, under which TLC finds the property violated.

## 4. Proofs

Seven modules of theorems and `SequenceLemmas`, for every value of the constants.

`SequenceLemmas` holds what the proofs about sequences share: when two sequences are equal, what is
in a `SubSeq`, an `Append` or a concatenation, and what the folds of the community modules compute.
`FlattenSeq`, `FoldLeft` and the functions by recursion on `Nat` they are made of are reasoned about
by the least number at which a claim fails, a first-order argument: the library's induction theorems
take an operator and cannot be used.

`ConversationsProofs`: any numbers of users, sessions and requests, from the assumptions that
`NoUser`, `NoSession` and `NoRequest` are not among them.

* types, `DisplayOrderDeterministic`, `EveryNumberAccountedFor`, `AnswerFollowsPrompt`,
  `HistoryIsClosed`, `OnlyOwnersTouch`, `AnnouncedIsDurable`, `DoneIsDurable`, `DeletedStaysHidden`;
* `ImplementsTranscript`: initial states map to initial states, every step to a step or a stutter.

None of these is inductive.  That no two messages share a number needs that numbers in messages were
handed out (`MessagesOK`), and that a number handed out and not used yet belongs to one request and
is in no message (`ReservedOK`).  Ownership needs that a check once passed stays true
(`OwnershipHeld`), which rests on the fact that only one turn records a session and that it finds no
document (`RecordOK`, `NothingBeforeRecord`).  `DoneIsDurable` needs which messages a turn has by
each control point (`PromptsOK`, `WrittenOnce`, `AnswersOK`).  `IInv` is their conjunction; there is
one lemma per conjunct (`Step...`), one step per action, and `StepOthers`, `StepKeeps`, `StepGrows`
hold what all of them use: a step changes one request's control point, and messages only grow.

Its last part is what a client gets that never overlaps the turns of a session in
`Serial`: `AnswerUnderPrompt` and `LastModifiedIsNewest`.  The server refuses no second turn, so the
argument starts from `OneTurn` (one turn of such a session runs, whatever renames, deletions and
histories run beside it): then nobody else moves the session's counter and time
(`OthersLeaveSession`), a saved prompt stays the last message until its answer has a number
(`PlacesOK`), and a turn's instant, taken when it was admitted, is newer than every message it finds
(`NewestTurn`).

`ChatClientProofs` proves the other half, for any number of calls, sessions, chunks and tools, of a
user who waits over connections that last (`Careful`, which the three properties start from).
`TurnsDoNotOverlap` first: `sending` covers every call that has not come back (`OneCall`), and a call
that listens to a turn gets its last event only when the turn is over (`StillListening`).
`AnswersUnderPrompts` and `FinishedTurnsAreWhole` rest on it and on `ScreenInv`, which says for the
conversation on the screen where every chunk and every tool of an answer is.  `Shows` relates bubbles to what is
known of their turns; while a turn runs, what the last bubble holds (`Got`) and the events still in
the queue add up to what the backend has streamed (`Made`; `Coming`, `Ending`); `Stored` says the same of the
transcript, with a prompt whose answer is missing only at its end (`PromptLast`).  A history that
arrives replaces the screen by bubbles that satisfy `Shows` because the transcript satisfies
`Stored` (`History`), less the tools, which is why an answer below its prompt has all of them or
none; the filter that drops empty messages is a flattening of sequences of length 0 or 1.  The steps of a call and those of the backend's turn each keep it, event by event.

`AttestationStoreProofs`: any runs, questions and payloads.  `GuardDecides` is about the pipelines
alone: whatever the payload, what they make of it is publishable exactly when every source it names
may be given away in bulk.  From it `LicencesDecide`, and with `AloneIsAlone` (a run that nobody
overlapped since its scan began) and `ScanIsExact` (what it found is exact for the files read so
far, and these decode) `UndisturbedPersistIsExact`.  `FinishedRunsLeaveNoGap` needs that a run has left a document for
each question behind it (`NoGapSoFar`, `QuestionPicked`, `AllDone`), or half of one whose writer is at
it or was killed (`TornHasWriter`).

`SharingAgrees` stands on both.  A document is named after the question its payload gives
(`NamedAfterItself`), so a tool that looks a question up by its file does not speak for another one;
that the tools' licence arithmetic agrees with the pipelines' is `GuardDecides` again, and with the
list it is `UndisturbedPersistIsExact`.

`CulturalReseedProofs`: any sources, chunks, attempts, workers, numbers of invocations and habits.
`ResumedScrapesReseed`, `WorkReachedGraph`, `NoFailureIsHidden`, `DroppedAnswersAreRetried`, types.  The invariant is a
conjunction per source (`ErrorsOK`, `WorkOK`, `RetriesOK`, `ResumeOK`) and two parts about the
invocation (`OnlyScrapes`, `ExitOK`): a step disturbs the files of the source it works on (`Itself`)
and leaves those of the others (`Others`).  Resumption is the hard part: a record of success is only
believed if the capture and the chunks in the graph are whole, which holds because the record is
written last, and a capture is only overwritten after its record was found wanting.

`CorpusIndexProofs`: any agenda of jobs, captures, editions, sites, batch sizes and bounds on kills
and refusals.  The assumptions are what the code's own types give: rows that a schema accepted have
an id and texts (`RowsAssumption`), a record of tags without an id was skipped (`TagsAssumption`),
a job names its sources (`AgendasAssumption`), limits are positive (`TextsAssumption`,
`BatchesAssumption`), and the sources of a corpus share no id, since each adapter puts its own name
or that of its works before the ids of its chunks (`SourcesAssumption`).  `TypesHold` further asks what TLA+ says of strings but the provers do not
know: they are sequences of characters, and `""` is the empty one.

* `TypesHold`: `TypeOK`, from `Types`, which adds to it which commands may stand in the script of
  which job and that the captures a command will write are the rows it was given.
* `IndexMirrors`: `IndexMirrorsCaptures`.  `RebuildInv` says of a rebuild under way that the
  collection holds nothing but chunks of captures, and that every embeddable chunk of a capture is
  in it, was refused, is in a batch still in the script, or belongs to a source still in `todo`.  The
  captures do not change meanwhile, and every chunk is in some batch (`BatchOfPlace`); the first
  command drops what the collection held before.
* `StoresAgree`: `TagsAgree`.  `GraphTypes`, an invariant of every job, says that a chunk stands in
  the graph under its id alone, whichever statement made it, and `Grew` that a statement takes no
  node and no edge away (`WorksRun`, `SourcesRun`, `ChunksRun`, `AttachReaches`).  `PersistInv` says
  that each chunk in the collection or in the graph has the tags the records give it, or a command
  that gives them is still in the script; a statement run again, or on rows that match no chunk,
  undoes nothing.  `CollectedAreFew` bounds the tags of a chunk that is in several files.
* `LoadsReach`: `LoadedAsRead`.  `LoadInv` has three parts: the rows of a capture are rows its own
  source can yield (`CapturesOwn`), the captures in `loaded` are shown by the graph (`LoadedShown`),
  and the source at hand is as far as its script (`PlanKept`: of the plan `PlanOf` the first
  `d * F + j` commands are done, the `F` statements of `d` batches and `j` of the next one, and the
  graph is as far, `UpTo`).  A batch sends its works, and in the historical schema its sources,
  before its chunks, each only once (`LastByHolds`); that the last row of an id wins within a batch
  is `ChunksRun`, across batches `LoadGoesOn`.  While a source is upserted its own name is not in
  `loaded`: a capture may hold an id twice (the hymns of `stem_publishing.py`), and until the later
  row is sent the graph shows the earlier one.  Another source cannot disturb it, by
  `SourcesAssumption`; tags add a property to a chunk and leave its texts (`AttachReaches`).
* `CapturesHoldParses`: a capture that no kill cut off holds exactly the rows of one parse of its
  source that did not raise, a torn one rows of one such parse.  `CaptureInv` adds to it what is
  still to be written: the capture at the head of a script has the rows its parse returned, and no
  later command captures.
* `CapturesStayWhole`, `ClausesHold`: `CapturesAreWhole` and `ClausesStayOut`, each from what it asks
  of a single parse: that it returns all passages or raises (`ParsesAreWhole`), keeps a redacted
  clause out of `text_to_embed` (`RowsRedacted`).  The jobs then lose nothing of it: no order of
  ingests, reseeds, kills, torn files, rebuilds and refused batches mixes two parses in a capture or
  embeds the text instead of `text_to_embed`.  The editions of the instance meet the two hypotheses:
  `RowsRedacted` is an assumption of `MCCorpusIndex`, which TLC evaluates, and the other one shows as
  `CapturesAreWhole` in the run, where every parse of its editions is captured by some behaviour.  `ClausesHold` also takes a string for a sequence of
  characters, as TLA+ does.  That a torn file or a cut text cannot break them is in `CutRange` and
  `CutWithin`, what a cut leaves of a sequence.

`LexicalIngestProofs`: any labels, constraints, disks, `--dataset` lists, numbers of runs and of runs
cut off, and any scripts of rows that satisfy `FilesSettle(most)` (end of `LexicalIngest`).  Which
row matches which node is a matter of the files, so something has to be asked of them; it is asked
row by row, of scripts and not of runs.  `most` gives each disk a graph in which every row of that
disk has settled (sent again, it changes nothing), that breaks no constraint and is contained in
that of a larger disk; and a merged row has a node of its own there, or is a row of the brief
lexicon of Hebrew, which merges a lemma by number that MACULA-Hebrew makes by id.  Over a disk with
the files of MACULA-Hebrew an undisturbed pass must have settled as well, and a row must find after
it the nodes it finds in `most`.  `LemmasSettle` says of the lemmas of Hebrew that each row is by id
or by number, that what is merged by number sets no other unique property, and that one id has one
number.  TLC finds `FilesSettle(MCMost)` true of the files of `MCLexicalIngest`, with three passes
over every disk as `most`; it is false if `morphgnt` stands before `macula_greek` or the numbers of
`TBESH` are cut, which are mutants of the run.  Nothing is asked of the lists a run is given.

The order on graphs is `GraphIn`: every node and edge, with every property.  Below a graph in which
it has settled a row makes a graph larger and keeps it below (`RowGrows`), keeps the order of two
graphs (`RowBelow`) and does nothing between two graphs in which it has settled (`RowBetween`); a
`session.run` does as its rows do, by induction on them (`BatchGrows`, `BatchBelow`, `BatchIdle`).
`Inv` follows a run through its list and script, while no lemma is early: the store is below
`most[disk]` and shows every node the run has merged (`Bounded`), in a pass over all datasets it is
above what the undisturbed pass has at the same statement (`WholeRun`, `Stage`), and as long as all
was written from one disk it is below what that pass ends with (`OneDisk`).  Once a lemma is early it
stays (`EarlyStays`): statements only add nodes.

That an early lemma lets no pass end needs an argument that holds without a ceiling, of graphs in
which a lemma of one number may stand under two keys.  `LemmaInv` has it: the constraints hold of
the store, each lemma shows the key it stands under (`Known`), and a whole run, or one that has
ended, has left for each row MACULA-Hebrew has sent a lemma with its id and its number (`Held`,
`Coming`, `Come`); a row by id or by number takes neither from a lemma (`IdRowKeeps`,
`NumberRowKeeps`).  An early lemma has the number of one of these rows and no id, so two lemmas
would have one number.  From the two invariants

* `NeverRefused`: a statement is refused only when a lemma is early; `RespectsBelow` carries the
  constraints down from `most`;
* `EarlyNeverPasses`: no pass over the files of MACULA-Hebrew ends with an early lemma, so after every such
  pass `Inv` speaks (`PassesAreInOrder`);
* `LateFilesComeIn`, `PassesConverge`, `SecondPassIsIdle`, for disks with the files of MACULA-Hebrew:
  two graphs each in the other are equal (`SameGraph`);
* `NothingIsTakenAway`: while no lemma is early, no step takes a node, an edge or a property away or
  changes one.

`EveryWitnessReads` is about the collation of 3 John, whatever was collated: what stands in the graph
after a pass is what `_build_payloads` computes of units, readings and hands.  Its proof has two
halves.  What is read was sent: `ReadsAreSent` is inductive and says that a `READS_AT` edge between
these nodes is a row of some script, which `CollationSends` and `ReadsRowsAre` follow from the
statements of the script through its batches (`CutUpHolds`, `BatchEdges`) back to a hand of a reading
or a witness missing in a unit.  What was sent stands: after a pass every row of the disk has settled
(`PassSettles`, from `InvHolds`).  Besides `FilesSettle` it asks `CollationSettles` of the files: no
other adapter writes `READS_AT`, no two units share an id, and witnesses and readings have nodes of
their own.  TLC finds it true of the same files.

`NothingIsInvented` leads the whole graph back to rows: `AllSent` is inductive and says that a node
is that of a row with its label and keys, whose values it shows, and an edge that of a row that
matches both its ends, while no lemma is early (`BatchNodes`, `BatchEdges`, and `StillSent`: a
larger graph keeps what was sent).  `GateVouches` stands on it: for any questions and limits the bundle shows what the gate read
of the same anchors.  The two ask differently, so each section needs an argument of its own: words
under the reference the question gave (`WordsAreVouched`), the lemmas of a limited list ordered by
weight (`LemmasAreVouched`, `TopIs`), cross references the gate counts verse by verse and the bundle
all at once (`CrossRefsAreVouched`, `PairedIsMerged`), units by their ids (`VariantsAreVouched`),
trees walked from the word up and from the clause down (`TreesAreVouched`), of which the gate reads
the nodes and the bundle the clause's `txt` and the phrase's `function`.  `BundleSettles` (end of
`ContextBundle`) is what it asks of the rows besides `FilesSettle`: a verse has an id and, if the id
is that of an anchor, the reference as `osis`; words in verses are matched by an id that words with a
text have; units have an id and lie in 3 John; clauses have a `txt` and phrases a `function`; cross references
have an id; tokens are instances of `Lemma` or `GreekLemma`.  TLC finds it true of the same files.

`AnchorsAreReached` compares the bundle with the files themselves: every word OSHB and MorphGNT read
at an anchor is shown under the reference of the question, and the lemma of every tagged token there
is listed, whichever adapter made the lemma.  It starts from what the adapters compute.  Their
comprehensions, groupings, seen-sets and chunks are followed as lists (`OshbRowsAre`,
`MorphgntRowsAre`, `MaculaRowsAre`, `TahotTokensAre`; `VerseGroupsAre` by induction on the lines of a
book), so that each word, verse and edge is a row of its script (`OwnSent`).  MACULA-Greek sends only
what a chunk has added to its lists: a list of more words begins with that of fewer
(`FlattenBegins`, `FirstBegins`, `GreekAfterIs`), and so each lemma goes with the first chunk after
which it is there (`GreekLemmaPart`).  What was sent stands after a pass (`NodeStands`,
`EdgeStands`); what stands at an anchor is shown (`OshbShown`, `MorphgntShown`, `TokenIsShown`).
Besides the other two it asks `AnchorsSettle` of the files: no anchor without a name, tagged tokens
with an id and, at an anchor, in a verse that some file brings, and no `Word` with both a `surface`
and a `text`, of which the bundle would show one.  TLC finds it true of the same files.

`LexicalToolsProofs`: `FilesAreAnswered`, which does for the lookup tools what `AnchorsAreReached`
does for the bundle, for any limits.  From the files to the graph it uses the same lemmas, and reads
three more adapters off their scripts (`TbeshSent`, whose lemmas go batch by batch, `VotesSent`,
`TreasuresSent`).  From the graph to the files it uses `NothingIsInvented`, since the tools must find
nothing else in a row's place: a verse found by its id is the node of that id and has the reference
the id is made of (`VerseIs`, `OriginalIs`), a Hebrew word is no instance of a lemma that would hide
its own number (`WordIsPlain`), and its number's count is reached because the words of the file map
one to one into the nodes counted (`CountIsReached`).  Whatever a list leaves out it leaves out for
its limit (`SomeShow`), which needs what is listed to be finite (`OccurrencesAreFinite`,
`FoundIsFinite`, `ReferredIsFinite`).  `ToolsSettle` (end of `LexicalTools`) says these things of
the rows, that every entry has a number and every verse a text, and that the verses of TAGNT come
from the files; TLC finds it true of the same files.

Model-checked only, and why:

* liveness (`RequestsEnd`, `SendingEnds`, `RunEnds`), which the prover cannot
  treat;
* that the adapters meet `ParsesAreWhole` and `RowsRedacted`, which is what they
  compute from particular editions and pages;
* what `WholePassConverges`, `LateFilesAreTakenIn`, `SecondPassIsNoOp`, `WitnessesReadOnce` and the
  properties of bundle and tools say of passes over disks without the files of MACULA-Hebrew, where
  lemmas are early as a rule;
* that particular files meet `FilesSettle`, `CollationSettles`, `BundleSettles`, `AnchorsSettle` and
  `ToolsSettle`.

## 5. What the models show beyond the runs

Found while modelling; each can be reproduced with the change or the lines named.

Companion.

* A turn that fails after its session event leaves the screen without a session id although the
  backend has saved the conversation, and its bubble keeps the typing dots
  (`providers.dart:110`, against `providers.dart:32` and `message_bubble.dart:8`): visible in any
  `ChatClient` behaviour with `ReceiveError` after `ReceiveSession`.
* Nothing ties a running `send` to the conversation it was started in: after `open` of another one,
  or a new conversation and its first prompt, `_updateLast` writes the running turn's text into the
  last bubble on the screen (`providers.dart:125-134`): `Open` and `Opened`, or `StartNew` and `Send`,
  between `Send` and `ReceiveDelta`.
* A conversation that is opened again has lost its tool chips, and answers without text are gone
  (`models.dart:61-67`, `api_client.dart:52`): `Shown`.
* A history that arrives after "New conversation" puts the old session back
  (`providers.dart:74`, against `mobile/README.md:27`): `StartNew` between `Open` and `Opened`.
* A partial answer that was streamed and shown is not stored when the engine fails
  (`agent.py:196`).

Reseed.

* `ExitZeroMeansReseeded` is also violated with `Habits = {{"force", "kill"}}` and three
  invocations (a forced scrape killed before its upsert leaves the old success record over the new
  capture), with `{{"from-jsonl", "kill"}}` (a truncated capture that parses is taken as whole,
  against `cultural_reseed.py:33`) and with `{{"empty"}}` (a scrape without chunks exits 0).  The
  single-source script scrapes again what has a record of success, and a kill in its capture leaves
  that record beside a torn capture; this is why `ResumedScrapesReseed` is about operators who only
  resume.
* `scrape_source` turns a `URLError`, an `SSLError` and every HTTP status into a `RuntimeError` the
  retry does not recognise (`_common.py:98-105`): the run `cultural_reseed_retries` gives a source
  up at the first refused connection.  What it lets through, a timeout or a reset while the response
  is awaited or read, is retried (`DroppedAnswersAreRetried`).
* The docstring's "2s gap enforced per-host" (`_common.py:64`) holds for one worker: two threads
  read the same last request and fetch together.

Attestation documents and the tools that read them.

* A document torn by a crash exists, so a resumed pipeline 4 run never writes it again
  (`pipeline4/run.py:176`), and an unsafe one that is torn is not listed: `AttestationStore`, `Skip`
  after `Truncate` and `Die`.
* A document torn inside a character raises `UnicodeDecodeError`, which no scan catches
  (`persistence.py:76-80` of both pipelines expect a `JSONDecodeError`, the files are written with
  `ensure_ascii=False`): every later persist writes its document and dies before the list, the
  safe lists raise, and pipeline 4 without an explicit id skips the file.  The list stays stale until
  that question is answered again: `Stumble`.  So what is checked and proved says only what a
  persist leaves that comes to its end.
* The id in a payload is never compared with the question asked (`pipeline2/dispatcher.py:72`); a
  witness that is not among the sources used does not count for the licence, although the
  dispatcher's docstring says that a subagent cannot mislabel one.  `triangle` compares no licence
  audits.  Pipeline 2 dispatches every question again, where `docs/HISTORICAL_SCHEMA.md` speaks of
  "same discipline as Pipeline 2".
* `doctrinal_verdict` and `license_audit` raise on a torn document; `historical_inspect` and
  `evidence_inspect` answer with an error, unless it does not decode.  An empty list of sources is safe in a document and
  unsafe in the envelope.  `safe_to_share_publicly` with the context "personal" is decided in
  snippet mode, so a source that denies bulk can be safe to share publicly.
* `docs/MCP_TOOLS.md:35` says that public shares paraphrase and that exports leave out chunks with
  `redistribute` false; the handlers do neither.

Lexical graph, bundle and lookups.

* `CrossRefsLand` passes the gate: verify_f1's third invariant counts the CrossRefs whose edge
  landed, though its docstring (24-27) says all with a `from_ref`.  F.1's 1, 3 and 5 and F.2 compare
  a query with itself, and a lemma dropped by the builder's `LIMIT` does not fail the gate, whose
  projection has no limit (against lines 55-63).
* 17 of the 1008 anchors in `questions.json` resolve to nothing in `to_osis`: chapters
  ("Psalm 150"), verses of one-chapter books ("Jude 3"), ranges over two chapters; "Song of Solomon"
  can never match.
* Whoever reads `stepbible_tbesh` before the files of `macula_hebrew`, by `--dataset` or because these
  were not on the disk, which the adapter passes over in silence (`macula_hebrew.py:592-596`), can
  never read `macula_hebrew` into that store: its statement meets the constraint on `Lemma.strong`
  (run `lexical_reruns`).
* The bundle's column `phrase` is `coalesce(p.txt, '')` (`context_builder.py:357`), and no adapter
  gives a `BhsaPhrase` a `txt` (`bhsa.py:810-821`): it is always empty.  `clause` is the clause's
  text type.  The gate reads the nodes by id (`verify_f1_invariants.py:254-258`) and does not see it;
  `GateVouchesForBundle` speaks of the two columns that are filled.
* Numbers are padded to four or five digits and compared as texts; the five of TTESV keep it apart from `macula_hebrew`, the LXX variant table's `H430` and
  `H0430` are two numbers.
* Sample rows written in the absence of files stay when the files come (`LateFilesAreTakenIn` is an
  inclusion for this reason).  `run.py --verify-only` counts slugs no adapter writes.
* `concordance_walk` filters by book after its `LIMIT` and computes `truncated` from the filtered
  count; `lexical_lookup` drops one of two equal counts in a `UNION` its comment says is summed;
  `cross_ref` shows only the first target of a treasury row.

Corpora.

* The docstrings of both rebuilds say that the collection mirrors exactly the graph's embeddable
  chunks (`embed_historical.py:127`, `embed_cultural.py:110`); it is built from the captures, while
  the graph is never pruned and a refused batch is dropped with exit code 0.
  `IndexMirrorsCaptures` therefore speaks of captures, and leaves out the refused batches.
* `docs/ARCHITECTURE.md:267` says that copyrighted prose is never landed verbatim; five adapters set
  `text_to_embed` to the full text.
* A chunk whose redaction leaves nothing is embedded by its naming clause (`pseudepigrapha.py:387`).
  A Vatican paragraph loses its number when its first occurrence is too short; a tag found in two files is
  kept twice.
* One id may carry two texts, and the later row wins in the graph: a Vatican paragraph is kept once
  per page only (`vatican_ccc.py:64-74`), `crcna_article_blocks` and `crcna_dort_articles` keep every
  marker (`_html.py:279-356`), as do the Thirty-nine Articles, the Methodist ones and the chapters of
  1689 (`lbc_1689.py:76-84`), and works of one author whose files have one name collide
  (`stem_publishing`).  The pages of the instance have such numbers (`belgic`, `ccc/2`, `lbc/1`); no
  property says that an id names one text.
* `TagsAgree` speaks of the chunks the tag records name: an upsert resets the tags of a chunk in the
  graph and a rebuild those in the collection, and a persist whose records no longer name the chunk
  leaves the two apart.
* A run over some Roman historians alone sets the language of Pliny's letters back to Latin.
* A question whose category changed keeps its old `UNDER_QUESTION` edge.  `question_match` keeps the
  catalogue for the life of the server, also a missing one.  `embed_lexical` drops the collection
  before it looks for its input (`embed_lexical.py:218`).

## 6. Plan

Done: the companion's backend and client, the lexical ingest with its bundle, gate and tools, the
historical and cultural corpora up to index and tags, the reseed harness, both attestation
pipelines with the tools that read their documents, and the proofs of section 4.

Left, in order of importance:

1. The context builder of pipeline 4, which gathers and deduplicates candidates from graph, index
   and keywords; the seeding of questions; the rebuild of `lex_col`, as a variant of `CorpusIndex`.
2. The remaining lookups by lemma and by gloss; the snippet mode's caps.

## 7. Not modelled

* Authentication of a request (Google's library; the verified user is an input), the client's token
  cache, screen layout, the read-only archive routes.
* Markup, regular expressions, XPath, character tables and the spelling of references: what an
  adapter reads from a file is modelled from the elements it looks at.
* Prompts, model output and vectors: a payload is any of a few kinds, a ranking is not modelled.
  Retrieval's classes have no caller, nor have `_common.upsert_records`, `dispatch_all` and the
  versification mapper's table.
* Maintenance tools other than the gate, reports, Docker and CI files, and the data under `docs/`,
  `evidence/`, `historical/`, `parsed/`.

`PROJECT.json` gives the reason per component.  Three hazards have no property: a failed turn's
shown text and a history that arrives late are behaviour the code intends or simply has, and no
document of the repository promises otherwise; the politeness gap is a matter of real time.
