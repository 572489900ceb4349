--------------------------- MODULE CulturalReseed ---------------------------
(***************************************************************************)
(* tools/cultural_reseed.py and tools/run_cultural_scrape.py: invocations  *)
(* of the reseed harness and of the script for a single source, one after  *)
(* the other, over the captures and status files both leave on disk and    *)
(* the cultural graph.  The sources of one invocation are worked on by a   *)
(* pool of threads; an invocation may be killed between any two steps.     *)
(*                                                                         *)
(* A capture is the set of its chunks; file order, texts and Works are     *)
(* left out.  One step of Upsert is one batch of upsert_chunks.            *)
(***************************************************************************)
EXTENDS Naturals, FiniteSets

CONSTANTS
  Sources,      \* ADAPTERS
  Chunks,       \* the chunks (batches of chunks) a source may have
  NoFile, Unreadable,
  MAX_ATTEMPTS,
  Workers,      \* --workers
  MaxRuns,      \* bounds the model
  Fetching,     \* adapters that fetch through scrape_source and do not catch
                \* what it lets out
  Habits        \* the sets of Choices that operators and sites may confine
                \* themselves to

Choices == {"from-jsonl", "force", "dry-run", "empty", "kill", "wipe", "single"}

ASSUME BoundsAssumption   == MAX_ATTEMPTS \in Nat \ {0} /\ MaxRuns \in Nat
ASSUME HabitsAssumption   == Habits \subseteq SUBSET Choices
ASSUME FetchingAssumption == Fetching \subseteq Sources
ASSUME FilesAssumption    == \A C \in SUBSET Chunks : C \notin {NoFile, Unreadable}

VARIABLES
  may,      \* one of Habits; never changes
  graph,    \* the chunks of a source in Neo4j
  jsonl,    \* <source>.jsonl
  whole,    \* the sources whose jsonl is not a write that was cut off
  status,   \* <source>.status
  \* the invocation: running, its arguments and its last exit code
  pc, mode, dry, chosen, code, runs,
  \* one column per local of a source's thread
  at, attempt,
  faults,   \* the kinds of faults its attempts met
  left,     \* the chunks not written or upserted yet
  error     \* which part of the work failed

disk       == <<jsonl, whole, status>>
invocation == <<pc, mode, dry, chosen, code, runs>>
locals     == <<attempt, faults, left, error>>
vars       == <<may, graph, disk, invocation, at, locals>>

Statuses == {"none", "torn", "failure", "ingest_error", "empty", "success"}
Errors   == {"none", "scrape", "ingest", "other"}
Faults   == {"dropped", "refused", "other"}
Working  == {"load", "scrape", "backoff", "capture", "fill", "upsert", "status", "fill_status"}
Settled  == {"out", "skipped", "finished"}
Modes    == {"from-jsonl", "scrape", "single"}
Codes    == {"none", "killed", "0", "1", "2"}

TypeOK ==
  /\ may \in Habits
  /\ graph \in [Sources -> SUBSET Chunks]
  /\ jsonl \in [Sources -> (SUBSET Chunks) \cup {NoFile, Unreadable}]
  /\ whole \subseteq Sources
  /\ status \in [Sources -> Statuses]
  /\ pc \in {"idle", "run"} /\ mode \in Modes
  /\ dry \in BOOLEAN /\ chosen \subseteq Sources
  /\ code \in Codes /\ runs \in 0 .. MaxRuns
  /\ at \in [Sources -> Working \cup Settled \cup {"pending"}]
  /\ attempt \in [Sources -> 0 .. MAX_ATTEMPTS]
  /\ faults \in [Sources -> SUBSET Faults]
  /\ left \in [Sources -> SUBSET Chunks]
  /\ error \in [Sources -> Errors]

Init ==
  /\ may \in Habits
  /\ graph = [s \in Sources |-> {}]
  /\ jsonl = [s \in Sources |-> NoFile] /\ whole = {}
  /\ status = [s \in Sources |-> "none"]
  /\ pc = "idle" /\ mode = "scrape" /\ dry = FALSE
  /\ chosen = {} /\ code = "none" /\ runs = 0
  /\ at = [s \in Sources |-> "out"]
  /\ attempt = [s \in Sources |-> 0]
  /\ faults = [s \in Sources |-> {}]
  /\ left = [s \in Sources |-> {}]
  /\ error = [s \in Sources |-> "none"]

Readable(s) == jsonl[s] \notin {NoFile, Unreadable}
Goto(s, p)  == at' = [at EXCEPT ![s] = p]
Failed(s, e, p) == error' = [error EXCEPT ![s] = e] /\ Goto(s, p)

-----------------------------------------------------------------------------
(* main, _run_from_jsonl and _run_scrape.                                  *)

\* Mutant: only the presence of a status file is looked at.
HasStatus(s) == jsonl[s] # NoFile /\ status[s] # "none"
\* _status_indicates_success
Succeeded(s) == jsonl[s] # NoFile /\ status[s] = "success"

\* S: --source; keep: the sources --resume may skip (not those of --force).
\* In mode single it is the script that runs, for one source.
Start(m, S, keep, d) ==
  /\ pc = "idle" /\ runs < MaxRuns
  /\ m = "from-jsonl" => "from-jsonl" \in may
  /\ m = "single" => "single" \in may /\ Cardinality(S) = 1 /\ ~d
  /\ keep # S => m = "scrape" /\ "force" \in may
  /\ d => "dry-run" \in may
  /\ pc' = "run" /\ mode' = m /\ dry' = d /\ chosen' = S
  /\ code' = "none" /\ runs' = runs + 1
  /\ at' = [s \in Sources |->
              IF s \notin S THEN "out"
              ELSE IF m = "scrape" /\ s \in keep /\ Succeeded(s) THEN "skipped"
              ELSE "pending"]
  /\ attempt' = [s \in Sources |-> 0]
  /\ faults' = [s \in Sources |-> {}]
  /\ left' = [s \in Sources |-> {}]
  /\ error' = [s \in Sources |-> "none"]
  /\ UNCHANGED <<may, graph, disk>>

\* A free worker takes a source; from-jsonl has one, and no pool.
Busy    == {s \in Sources : at[s] \in Working}
Take(s) ==
  /\ pc = "run" /\ at[s] = "pending"
  /\ Cardinality(Busy) < (IF mode = "scrape" THEN Workers ELSE 1)
  /\ Goto(s, IF mode = "from-jsonl" THEN "load" ELSE "scrape")
  /\ attempt' = [attempt EXCEPT ![s] = 1]
  /\ UNCHANGED <<may, graph, disk, invocation, faults, left, error>>

\* The exit code is 1 when a result has an error (mutant: when all have); the
\* script leaves a failed upsert to the status file.
Tells(s)  == error[s] # "none" /\ ~(mode = "single" /\ error[s] = "ingest")
AllFailed == \A s \in chosen : Tells(s)
AnyFailed == \E s \in chosen : Tells(s)

Finish ==
  /\ pc = "run" /\ \A s \in Sources : at[s] \in Settled
  /\ pc' = "idle" /\ code' = (IF AnyFailed THEN "1" ELSE "0")
  /\ UNCHANGED <<may, graph, disk, mode, dry, chosen, runs, at, locals>>

\* An argument or environment error: nothing is touched.
Refuse ==
  /\ pc = "idle" /\ runs < MaxRuns
  /\ code' = "2" /\ runs' = runs + 1
  /\ UNCHANGED <<may, graph, disk, pc, mode, dry, chosen, at, locals>>

Kill ==
  /\ pc = "run" /\ "kill" \in may
  /\ pc' = "idle" /\ code' = "killed"
  /\ UNCHANGED <<may, graph, disk, mode, dry, chosen, runs, at, locals>>

\* "The cultural Neo4j store was wiped."
Wipe ==
  /\ pc = "idle" /\ "wipe" \in may
  /\ graph' = [s \in Sources |-> {}] /\ code' = "none"
  /\ UNCHANGED <<may, disk, pc, mode, dry, chosen, runs, at, locals>>

-----------------------------------------------------------------------------
(* _process_from_jsonl.                                                    *)

\* dry-run, or nothing to upsert
AfterCapture(s, C, rest) == IF dry \/ C = {} THEN rest ELSE "upsert"

Load(s) ==
  /\ pc = "run" /\ at[s] = "load"
  /\ \/ ~Readable(s) /\ Failed(s, "other", "finished") /\ UNCHANGED left
     \/ /\ Readable(s) /\ left' = [left EXCEPT ![s] = jsonl[s]]
        /\ Goto(s, AfterCapture(s, jsonl[s], "finished")) /\ UNCHANGED error
  /\ UNCHANGED <<may, graph, disk, invocation, attempt, faults>>

-----------------------------------------------------------------------------
(* _process_scrape.                                                        *)

ScrapeReturns(s) ==
  /\ pc = "run" /\ at[s] = "scrape"
  /\ \E C \in SUBSET Chunks : /\ C = {} => "empty" \in may
                              /\ left' = [left EXCEPT ![s] = C]
  /\ Goto(s, "capture")
  /\ UNCHANGED <<may, graph, disk, invocation, attempt, faults, error>>

\* _is_transient of what scrape raised.  All of "dropped", a TimeoutError or
\* ConnectionError while the response is awaited or read, and "refused", a
\* URLError, an SSLError, a 429 or a 5xx, are on its list; but scrape_source
\* has turned the second kind into a RuntimeError.
IsTransient(fault) == fault = "dropped"

\* The attempts made so far (mutants: one too few is enough, or a failed
\* attempt does not count).
TriedMost(s)   == attempt[s] >= MAX_ATTEMPTS - 1
SameAttempt(n) == n
TriedAll(s)    == attempt[s] = MAX_ATTEMPTS
NextAttempt(n) == n + 1

\* scrape raises: back off and retry, or give up; the script tries once.  The
\* adapters that do not use scrape_source skip a page they cannot fetch.
ScrapeRaises(s, fault) ==
  /\ pc = "run" /\ at[s] = "scrape"
  /\ fault # "other" => s \in Fetching
  /\ faults' = [faults EXCEPT ![s] = @ \cup {fault}]
  /\ \/ /\ mode = "scrape" /\ IsTransient(fault) /\ ~TriedAll(s)
        /\ Goto(s, "backoff") /\ UNCHANGED error
     \/ /\ mode = "single" \/ ~IsTransient(fault) \/ TriedAll(s)
        /\ Failed(s, "scrape", "status")
  /\ UNCHANGED <<may, graph, disk, invocation, attempt, left>>

Retry(s) ==
  /\ pc = "run" /\ at[s] = "backoff"
  /\ attempt' = [attempt EXCEPT ![s] = NextAttempt(@)]
  /\ Goto(s, "scrape")
  /\ UNCHANGED <<may, graph, disk, invocation, faults, left, error>>

\* _write_capture: open("w") truncates; a kill now leaves any prefix, its
\* last line perhaps torn.
OpenCapture(s) ==
  /\ pc = "run" /\ at[s] = "capture"
  /\ \E C \in ((SUBSET left[s]) \ {left[s]}) \cup {{}, Unreadable} :
       jsonl' = [jsonl EXCEPT ![s] = C]
  /\ whole' = whole \ {s}
  /\ Goto(s, "fill")
  /\ UNCHANGED <<may, graph, status, invocation, locals>>

WriteCapture(s) ==
  /\ pc = "run" /\ at[s] = "fill"
  /\ jsonl' = [jsonl EXCEPT ![s] = left[s]] /\ whole' = whole \cup {s}
  /\ Goto(s, AfterCapture(s, left[s], "status"))
  /\ UNCHANGED <<may, graph, status, invocation, locals>>

\* _write_status, or _write_failure_status when the scrape failed.
OpenStatus(s) ==
  /\ pc = "run" /\ at[s] = "status"
  /\ status' = [status EXCEPT ![s] = "torn"]
  /\ Goto(s, "fill_status")
  /\ UNCHANGED <<may, graph, jsonl, whole, invocation, locals>>

WriteStatus(s) ==
  /\ pc = "run" /\ at[s] = "fill_status"
  /\ status' = [status EXCEPT ![s] =
       CASE error[s] = "scrape" -> "failure"
         [] error[s] = "ingest" -> "ingest_error"
         [] error[s] = "none"   -> IF jsonl[s] = {} THEN "empty" ELSE "success"]
  /\ Goto(s, "finished")
  /\ UNCHANGED <<may, graph, jsonl, whole, invocation, locals>>

\* An OSError on either file reaches _run_scrape, which records it, or ends
\* the script.
FileFails(s) ==
  /\ pc = "run" /\ at[s] \in {"capture", "fill", "status", "fill_status"}
  /\ Failed(s, "other", "finished")
  /\ UNCHANGED <<may, graph, disk, invocation, attempt, faults, left>>

-----------------------------------------------------------------------------
(* _upsert, in both modes.                                                 *)

\* upsert_chunks is done after the last, partial batch (mutant: before it).
DroppedLast(rest) == Cardinality(rest) < 2
Flushed(rest)     == rest = {}

AfterUpsert == IF mode = "from-jsonl" THEN "finished" ELSE "status"

Upsert(s) ==
  /\ pc = "run" /\ at[s] = "upsert"
  /\ \E c \in left[s] :
       LET rest == left[s] \ {c} IN
       /\ graph' = [graph EXCEPT ![s] = @ \cup {c}]
       /\ left' = [left EXCEPT ![s] = rest]
       /\ Goto(s, IF Flushed(rest) THEN AfterUpsert ELSE "upsert")
  /\ UNCHANGED <<may, disk, invocation, attempt, faults, error>>

\* Neo4j cannot be reached or refuses a batch; earlier batches stay.
UpsertFails(s) ==
  /\ pc = "run" /\ at[s] = "upsert"
  /\ Failed(s, "ingest", AfterUpsert)
  /\ UNCHANGED <<may, graph, disk, invocation, attempt, faults, left>>

-----------------------------------------------------------------------------
Work(s) ==
  \/ Take(s) \/ Load(s)
  \/ ScrapeReturns(s) \/ Retry(s)
  \/ \E fault \in Faults : ScrapeRaises(s, fault)
  \/ OpenCapture(s) \/ WriteCapture(s) \/ Upsert(s) \/ UpsertFails(s)
  \/ OpenStatus(s) \/ WriteStatus(s) \/ FileFails(s)

Next ==
  \/ \E m \in Modes, S \in (SUBSET Sources) \ {{}}, d \in BOOLEAN :
       \E keep \in SUBSET S : Start(m, S, keep, d)
  \/ \E s \in Sources : Work(s)
  \/ Finish \/ Refuse \/ Kill \/ Wipe

Spec == Init /\ [][Next]_vars

\* The pool's threads run, sites and Neo4j answer or time out.
FairSpec == Spec /\ WF_vars(Finish) /\ \A s \in Sources : WF_vars(Work(s))
-----------------------------------------------------------------------------
(* Properties.                                                             *)

\* Whatever is on disk for the source is all there and all in the graph.
Reseeded(s) == /\ Readable(s) /\ s \in whole
               /\ jsonl[s] # {} /\ jsonl[s] \subseteq graph[s]

\* "Exit codes: 0 every chosen source reseeded", for any choices.
ExitZeroMeansReseeded ==
  pc = "idle" /\ code = "0" /\ mode # "single" /\ ~dry => \A s \in chosen : Reseeded(s)

\* Exit code 0 does mean that while every invocation is a resumed scrape and
\* no site is empty: also when the invocation skipped sources because of
\* what earlier, killed or failed, invocations had left.
ResumedScrapesReseed == may \subseteq {"kill"} => ExitZeroMeansReseeded

\* A source that a scrape gives up on without all its attempts met a fault of
\* one of these kinds.
GivenUpEarlyOnlyAfter(kinds) ==
  mode = "scrape" =>
    \A s \in Sources : error[s] = "scrape" /\ attempt[s] # MAX_ATTEMPTS =>
                         faults[s] \cap kinds # {}

\* A response that is dropped half way costs a source one attempt and never
\* the source: it is given up on early only after another fault.
DroppedAnswersAreRetried == GivenUpEarlyOnlyAfter({"refused", "other"})

\* "Transient network faults are retried up to MAX_ATTEMPTS times", the ones
\* of _TRANSIENT_EXC that the connection raises included.
TransientFaultsAreRetried == GivenUpEarlyOnlyAfter({"other"})

\* Whatever modes, dry runs, forced scrapes, kills and wipes came before: an
\* invocation that exits 0 has put everything it read or scraped for the
\* sources it worked on into the graph.  For the script, which exits 0
\* although its upsert failed, the status file must tell.
WorkReachedGraph ==
  pc = "idle" /\ code = "0" /\ ~dry =>
    \A s \in chosen :
      at[s] = "finished" /\ (mode = "single" => status[s] # "ingest_error") =>
        Readable(s) /\ jsonl[s] \subseteq graph[s]

\* "any source that exhausts its retries is recorded with its error AND
\* surfaced": a scrape that exits 0 leaves no chosen source whose record
\* tells of a failure, of this invocation or of an earlier one.
NoFailureIsHidden ==
  pc = "idle" /\ code = "0" /\ mode = "scrape" =>
    \A s \in chosen : status[s] \in {"success", "empty"}

\* An invocation ends, whatever the network does.
RunEnds == pc = "run" ~> pc = "idle"
=============================================================================
