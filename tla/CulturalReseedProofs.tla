------------------------ MODULE CulturalReseedProofs ------------------------
(***************************************************************************)
(* The safety properties of CulturalReseed for any sources, chunks, habits *)
(* and numbers of workers, attempts and invocations.                       *)
(***************************************************************************)
EXTENDS CulturalReseed, TLAPS

\* Only what has failed has an error, and the file of a status is written for
\* the errors a status can tell; a source that backs off has attempts left.
\* Only from-jsonl reads captures.
ErrorsOK(s) ==
  /\ at[s] \notin {"status", "fill_status", "finished"} => error[s] = "none"
  /\ at[s] \in {"status", "fill_status"} => error[s] \in {"none", "scrape", "ingest"}
  /\ at[s] = "backoff" => attempt[s] # MAX_ATTEMPTS
  /\ at[s] = "load" => mode = "from-jsonl"

\* What is no longer to be upserted is in the graph; a source that is finished
\* has the record it deserves.  None of this outlives a kill or a wipe.
WorkOK(s) ==
  pc = "run" \/ code = "0" =>
    /\ at[s] = "upsert" => /\ jsonl[s] \in SUBSET Chunks /\ left[s] \subseteq jsonl[s]
                           /\ jsonl[s] \ left[s] \subseteq graph[s]
    /\ at[s] \in {"status", "fill_status", "finished"} /\ error[s] = "none" =>
         jsonl[s] \in SUBSET Chunks /\ (dry \/ jsonl[s] \subseteq graph[s])
    /\ at[s] = "finished" /\ mode # "from-jsonl" =>
         /\ error[s] = "none" => status[s] \in {"success", "empty"}
         /\ error[s] = "ingest" => status[s] = "ingest_error"
    /\ at[s] = "skipped" => status[s] = "success"
    /\ s \in chosen => at[s] # "out"

\* A scrape given up on after dropped responses only has had all its attempts.
RetriesOK(s) ==
  mode = "scrape" /\ error[s] = "scrape" /\ attempt[s] # MAX_ATTEMPTS =>
    faults[s] \cap {"refused", "other"} # {}

\* While operators only resume and kill and no site is empty, a source that is
\* recorded as a success is reseeded, and nobody works on it any more.
ResumeOK(s) ==
  may \subseteq {"kill"} =>
    /\ status[s] = "success" => Reseeded(s) /\ at[s] \in Settled
    /\ at[s] \in {"capture", "fill"} => left[s] # {}
    /\ at[s] = "upsert" => s \in whole /\ jsonl[s] # {}
    /\ at[s] \in {"status", "fill_status"} /\ error[s] = "none" => s \in whole /\ jsonl[s] # {}
    /\ at[s] = "finished" /\ error[s] = "none" => status[s] = "success"
OnlyScrapes == may \subseteq {"kill"} => mode = "scrape" /\ ~dry

\* An invocation that exited 0 has nothing to tell.
ExitOK == pc = "idle" /\ code = "0" =>
            \A s \in Sources : at[s] \in Settled /\ (s \in chosen => ~Tells(s))

SourceOK(s) == ErrorsOK(s) /\ WorkOK(s) /\ RetriesOK(s) /\ ResumeOK(s)
IInv == TypeOK /\ OnlyScrapes /\ ExitOK /\ \A s \in Sources : SourceOK(s)

LEMMA InitIInv == Init => IInv
<1> SUFFICES ASSUME Init PROVE IInv
  OBVIOUS
<1>1. TypeOK
  <2>1. /\ jsonl \in [Sources -> (SUBSET Chunks) \cup {NoFile, Unreadable}]
        /\ at \in [Sources -> Working \cup Settled \cup {"pending"}]
    BY DEF Init, Settled
  <2>2. attempt \in [Sources -> 0 .. MAX_ATTEMPTS] /\ runs \in 0 .. MaxRuns
    BY BoundsAssumption DEF Init
  <2> QED BY <2>1, <2>2 DEF Init, TypeOK, Modes, Codes, Statuses, Errors
<1>2. OnlyScrapes /\ ExitOK
  BY DEF Init, OnlyScrapes, ExitOK
<1>3. ASSUME NEW s \in Sources PROVE SourceOK(s)
  BY DEF Init, SourceOK, ErrorsOK, WorkOK, RetriesOK, ResumeOK
<1> QED BY <1>1, <1>2, <1>3 DEF IInv

-----------------------------------------------------------------------------
(* Types.                                                                  *)

LEMMA StepType == ASSUME IInv, [Next]_vars PROVE TypeOK'
<1> USE BoundsAssumption DEF TypeOK, Modes, Codes, Statuses, Errors, Faults, Working, Settled,
        Goto, Failed, disk, invocation, locals
<1>1. TypeOK
  BY DEF IInv
<1>2. CASE UNCHANGED vars
  BY <1>1, <1>2 DEF vars
<1>3. ASSUME NEW m \in Modes, NEW S \in SUBSET Sources, NEW keep, NEW d \in BOOLEAN,
             Start(m, S, keep, d)
      PROVE  TypeOK'
  BY <1>1, <1>3 DEF Start
<1>4. CASE Finish \/ Refuse \/ Kill \/ Wipe
  BY <1>1, <1>4 DEF Finish, Refuse, Kill, Wipe
<1>5. ASSUME NEW s \in Sources, Work(s) PROVE TypeOK'
  <2>0. ErrorsOK(s)
    BY DEF IInv, SourceOK
  <2>1. CASE Take(s)
    BY <1>1, <2>1 DEF Take
  <2>2. CASE Load(s)
    BY <1>1, <2>2 DEF Load, Readable, AfterCapture
  <2>3. CASE ScrapeReturns(s)
    BY <1>1, <2>3 DEF ScrapeReturns
  <2>4. CASE Retry(s)
    BY <1>1, <2>0, <2>4 DEF Retry, NextAttempt, ErrorsOK
  <2>5. ASSUME NEW fault \in Faults, ScrapeRaises(s, fault) PROVE TypeOK'
    BY <1>1, <2>5 DEF ScrapeRaises
  <2>6. CASE OpenCapture(s)
    BY <1>1, <2>6 DEF OpenCapture
  <2>7. CASE WriteCapture(s)
    BY <1>1, <2>7 DEF WriteCapture, AfterCapture
  <2>8. CASE Upsert(s)
    BY <1>1, <2>8 DEF Upsert, AfterUpsert
  <2>9. CASE UpsertFails(s)
    BY <1>1, <2>9 DEF UpsertFails, AfterUpsert
  <2>10. CASE OpenStatus(s)
    BY <1>1, <2>10 DEF OpenStatus
  <2>11. CASE WriteStatus(s)
    BY <1>1, <2>0, <2>11 DEF WriteStatus, ErrorsOK
  <2>12. CASE FileFails(s)
    BY <1>1, <2>12 DEF FileFails
  <2> QED BY <1>5, <2>1, <2>2, <2>3, <2>4, <2>5, <2>6, <2>7, <2>8, <2>9, <2>10, <2>11, <2>12
          DEF Work
<1> QED BY <1>2, <1>3, <1>4, <1>5 DEF Next

-----------------------------------------------------------------------------
(* A step of one source.                                                   *)

\* It leaves the invocation and the columns of other sources alone.
LEMMA Others ==
  ASSUME TypeOK, NEW s \in Sources, Work(s)
  PROVE  /\ UNCHANGED <<may, invocation>> /\ pc = "run"
         /\ \A o \in Sources \ {s} :
              /\ UNCHANGED <<graph[o], jsonl[o], status[o], at[o], attempt[o], faults[o],
                             left[o], error[o]>>
              /\ o \in whole' <=> o \in whole
<1> USE DEF TypeOK, Goto, Failed, disk, invocation, locals
<1>1. CASE Take(s)
  BY <1>1 DEF Take
<1>2. CASE Load(s)
  BY <1>2 DEF Load
<1>3. CASE ScrapeReturns(s) \/ Retry(s)
  BY <1>3 DEF ScrapeReturns, Retry
<1>4. ASSUME NEW fault \in Faults, ScrapeRaises(s, fault)
      PROVE  /\ UNCHANGED <<may, invocation>> /\ pc = "run"
             /\ \A o \in Sources \ {s} :
                  /\ UNCHANGED <<graph[o], jsonl[o], status[o], at[o], attempt[o], faults[o],
                                 left[o], error[o]>>
                  /\ o \in whole' <=> o \in whole
  BY <1>4 DEF ScrapeRaises
<1>5. CASE OpenCapture(s) \/ WriteCapture(s)
  BY <1>5 DEF OpenCapture, WriteCapture
<1>6. CASE Upsert(s) \/ UpsertFails(s)
  BY <1>6 DEF Upsert, UpsertFails
<1>7. CASE OpenStatus(s) \/ WriteStatus(s) \/ FileFails(s)
  BY <1>7 DEF OpenStatus, WriteStatus, FileFails
<1> QED BY <1>1, <1>2, <1>3, <1>4, <1>5, <1>6, <1>7 DEF Work

\* What it does to the source itself.
LEMMA Itself ==
  ASSUME IInv, TypeOK', NEW s \in Sources, Work(s)
  PROVE  SourceOK(s)'
<1> USE BoundsAssumption, FilesAssumption
    DEF TypeOK, Goto, Failed, disk, invocation, locals,
        Modes, Codes, Statuses, Errors, Working, Settled
<1>1. TypeOK /\ OnlyScrapes /\ ErrorsOK(s) /\ WorkOK(s) /\ RetriesOK(s) /\ ResumeOK(s)
  BY DEF IInv, SourceOK
<1>2. UNCHANGED <<may, invocation>> /\ pc = "run"
  BY <1>1, Others
<1> USE DEF SourceOK, ErrorsOK, WorkOK, RetriesOK, ResumeOK, OnlyScrapes, Reseeded, Readable
<1>3. CASE Take(s)
  BY <1>1, <1>2, <1>3 DEF Take
<1>4. CASE Load(s)
  <2>1. ErrorsOK(s)'
    BY <1>1, <1>2, <1>4 DEF Load, AfterCapture
  <2>2. WorkOK(s)'
    BY <1>1, <1>2, <1>4 DEF Load, AfterCapture
  <2>3. RetriesOK(s)'
    BY <1>1, <1>2, <1>4 DEF Load, AfterCapture
  <2>4. ResumeOK(s)'
    BY <1>1, <1>2, <1>4 DEF Load, AfterCapture
  <2> QED BY <2>1, <2>2, <2>3, <2>4
<1>5. CASE ScrapeReturns(s)
  BY <1>1, <1>2, <1>5 DEF ScrapeReturns
<1>6. CASE Retry(s)
  BY <1>1, <1>2, <1>6 DEF Retry
<1>7. ASSUME NEW fault \in Faults, ScrapeRaises(s, fault) PROVE SourceOK(s)'
  <2>1. ErrorsOK(s)'
    BY <1>1, <1>2, <1>7 DEF ScrapeRaises, IsTransient, TriedAll
  <2>2. WorkOK(s)'
    BY <1>1, <1>2, <1>7 DEF ScrapeRaises
  <2>3. RetriesOK(s)'
    <3>1. fault \in faults'[s] /\ attempt' = attempt
      BY <1>1, <1>7 DEF ScrapeRaises
    <3>2. \/ at'[s] = "backoff" /\ error'[s] = "none"
          \/ fault \in {"refused", "other"} \/ attempt[s] = MAX_ATTEMPTS \/ mode # "scrape"
      BY <1>1, <1>7 DEF ScrapeRaises, IsTransient, TriedAll, Faults
    <3> QED BY <1>2, <3>1, <3>2
  <2>4. ResumeOK(s)'
    BY <1>1, <1>2, <1>7 DEF ScrapeRaises
  <2> QED BY <2>1, <2>2, <2>3, <2>4
<1>8. CASE OpenCapture(s)
  BY <1>1, <1>2, <1>8 DEF OpenCapture
<1>9. CASE WriteCapture(s)
  <2>1. ErrorsOK(s)'
    BY <1>1, <1>2, <1>9 DEF WriteCapture, AfterCapture
  <2>2. WorkOK(s)'
    BY <1>1, <1>2, <1>9 DEF WriteCapture, AfterCapture
  <2>3. RetriesOK(s)'
    BY <1>1, <1>2, <1>9 DEF WriteCapture, AfterCapture
  <2>4. ResumeOK(s)'
    BY <1>1, <1>2, <1>9 DEF WriteCapture, AfterCapture
  <2> QED BY <2>1, <2>2, <2>3, <2>4
<1>10. CASE Upsert(s)
  <2>1. ErrorsOK(s)'
    BY <1>1, <1>2, <1>10 DEF Upsert, Flushed, AfterUpsert
  <2>2. WorkOK(s)'
    BY <1>1, <1>2, <1>10 DEF Upsert, Flushed, AfterUpsert
  <2>3. RetriesOK(s)'
    BY <1>1, <1>2, <1>10 DEF Upsert, Flushed, AfterUpsert
  <2>4. ResumeOK(s)'
    BY <1>1, <1>2, <1>10 DEF Upsert, Flushed, AfterUpsert
  <2> QED BY <2>1, <2>2, <2>3, <2>4
<1>11. CASE UpsertFails(s)
  <2>1. ErrorsOK(s)'
    BY <1>1, <1>2, <1>11 DEF UpsertFails, AfterUpsert
  <2>2. WorkOK(s)'
    BY <1>1, <1>2, <1>11 DEF UpsertFails, AfterUpsert
  <2>3. RetriesOK(s)'
    BY <1>1, <1>2, <1>11 DEF UpsertFails, AfterUpsert
  <2>4. ResumeOK(s)'
    BY <1>1, <1>2, <1>11 DEF UpsertFails, AfterUpsert
  <2> QED BY <2>1, <2>2, <2>3, <2>4
<1>12. CASE OpenStatus(s)
  BY <1>1, <1>2, <1>12 DEF OpenStatus
<1>13. CASE WriteStatus(s)
  BY <1>1, <1>2, <1>13 DEF WriteStatus
<1>14. CASE FileFails(s)
  BY <1>1, <1>2, <1>14 DEF FileFails
<1> QED BY <1>3, <1>4, <1>5, <1>6, <1>7, <1>8, <1>9, <1>10, <1>11, <1>12, <1>13, <1>14 DEF Work

-----------------------------------------------------------------------------
(* The invariant.                                                          *)

LEMMA StepIInv == ASSUME IInv, [Next]_vars PROVE IInv'
<1> USE DEF TypeOK, disk, invocation, locals
<1>1. TypeOK /\ OnlyScrapes /\ ExitOK /\ \A s \in Sources : SourceOK(s)
  BY DEF IInv
<1>2. TypeOK'
  BY StepType
<1>3. CASE UNCHANGED vars
  BY <1>1, <1>3 DEF vars, IInv, OnlyScrapes, ExitOK, Settled, Tells, SourceOK, ErrorsOK,
                    WorkOK, RetriesOK, ResumeOK, Reseeded, Readable
<1>4. ASSUME NEW m \in Modes, NEW S \in SUBSET Sources, NEW d \in BOOLEAN,
             NEW keep \in SUBSET S, Start(m, S, keep, d)
      PROVE  IInv'
  <2>1. may' = may /\ mode' = m /\ dry' = d /\ pc' = "run" /\ chosen' = S
    BY <1>4 DEF Start
  <2>2. may \subseteq {"kill"} => m = "scrape" /\ ~d /\ keep = S
    BY <1>4 DEF Start, Modes
  <2>3. OnlyScrapes' /\ ExitOK'
    BY <2>1, <2>2 DEF OnlyScrapes, ExitOK
  <2>4. ASSUME NEW s \in Sources PROVE SourceOK(s)'
    <3>1. /\ UNCHANGED <<graph[s], jsonl[s], whole, status[s]>>
          /\ at'[s] = IF s \notin S THEN "out"
                      ELSE IF m = "scrape" /\ s \in keep /\ Succeeded(s) THEN "skipped"
                      ELSE "pending"
          /\ attempt'[s] = 0 /\ faults'[s] = {} /\ left'[s] = {} /\ error'[s] = "none"
      BY <1>4 DEF Start
    <3>2. ErrorsOK(s)' /\ WorkOK(s)' /\ RetriesOK(s)'
      BY <2>1, <3>1 DEF ErrorsOK, WorkOK, RetriesOK, Succeeded
    <3>3. ResumeOK(s)'
      BY <1>1, <2>1, <2>2, <3>1
         DEF SourceOK, ResumeOK, Reseeded, Readable, Succeeded, Settled
    <3> QED BY <3>2, <3>3 DEF SourceOK
  <2> QED BY <1>2, <2>3, <2>4 DEF IInv
<1>5. CASE Finish
  <2>1. OnlyScrapes' /\ ExitOK'
    BY <1>1, <1>5 DEF Finish, OnlyScrapes, ExitOK, AnyFailed, Tells
  <2>2. ASSUME NEW s \in Sources PROVE SourceOK(s)'
    BY <1>1, <1>5 DEF Finish, SourceOK, ErrorsOK, WorkOK, RetriesOK, ResumeOK, Reseeded,
                      Readable
  <2> QED BY <1>2, <2>1, <2>2 DEF IInv
<1>6. CASE Refuse \/ Kill
  <2>1. OnlyScrapes' /\ ExitOK'
    BY <1>1, <1>6 DEF Refuse, Kill, OnlyScrapes, ExitOK
  <2>2. ASSUME NEW s \in Sources PROVE SourceOK(s)'
    BY <1>1, <1>6 DEF Refuse, Kill, SourceOK, ErrorsOK, WorkOK, RetriesOK, ResumeOK,
                      Reseeded, Readable
  <2> QED BY <1>2, <2>1, <2>2 DEF IInv
<1>7. CASE Wipe
  <2>1. OnlyScrapes' /\ ExitOK'
    BY <1>1, <1>7 DEF Wipe, OnlyScrapes, ExitOK
  <2>2. ~(may \subseteq {"kill"}) /\ may' = may /\ pc' = "idle" /\ code' = "none"
    BY <1>7 DEF Wipe
  <2>3. ASSUME NEW s \in Sources PROVE SourceOK(s)'
    BY <1>1, <1>7, <2>2 DEF Wipe, SourceOK, ErrorsOK, WorkOK, RetriesOK, ResumeOK
  <2> QED BY <1>2, <2>1, <2>3 DEF IInv
<1>8. ASSUME NEW s \in Sources, Work(s) PROVE IInv'
  <2>1. /\ UNCHANGED <<may, invocation>> /\ pc = "run"
        /\ \A o \in Sources \ {s} :
             /\ UNCHANGED <<graph[o], jsonl[o], status[o], at[o], attempt[o], faults[o],
                            left[o], error[o]>>
             /\ o \in whole' <=> o \in whole
    BY <1>1, <1>8, Others
  <2>2. OnlyScrapes' /\ ExitOK'
    BY <1>1, <2>1 DEF OnlyScrapes, ExitOK
  <2>3. SourceOK(s)'
    BY <1>2, <1>8, Itself
  <2>4. ASSUME NEW o \in Sources \ {s} PROVE SourceOK(o)'
    <3>1. UNCHANGED <<graph[o], jsonl[o], status[o], at[o], attempt[o], faults[o], left[o],
                      error[o]>>
      BY <2>1
    <3>2. ErrorsOK(o)' /\ RetriesOK(o)'
      BY <1>1, <2>1, <3>1 DEF SourceOK, ErrorsOK, RetriesOK
    <3>3. WorkOK(o)'
      BY <1>1, <2>1, <3>1 DEF SourceOK, WorkOK
    <3>4. ResumeOK(o)'
      BY <1>1, <2>1, <3>1 DEF SourceOK, ResumeOK, Reseeded, Readable, Settled
    <3> QED BY <3>2, <3>3, <3>4 DEF SourceOK
  <2> QED BY <1>2, <2>2, <2>3, <2>4 DEF IInv
<1> QED BY <1>3, <1>4, <1>5, <1>6, <1>7, <1>8 DEF Next

THEOREM Invariance == Spec => []IInv
BY InitIInv, StepIInv, PTL DEF Spec

-----------------------------------------------------------------------------
(* What follows from it.                                                   *)

\* Every variable keeps its type, and no source is tried more often than
\* MAX_ATTEMPTS times.
THEOREM TypeCorrect == Spec => []TypeOK
<1>1. IInv => TypeOK
  BY DEF IInv
<1> QED BY <1>1, Invariance, PTL

\* Exit code 0 of a resumed scrape means that every chosen source is whole on
\* disk and in the graph, after any number of failed and killed scrapes.
THEOREM Resumes == Spec => []ResumedScrapesReseed
<1>1. ASSUME IInv PROVE ResumedScrapesReseed
  <2> SUFFICES ASSUME may \subseteq {"kill"}, pc = "idle", code = "0", NEW s \in chosen
               PROVE  Reseeded(s)
    BY DEF ResumedScrapesReseed, ExitZeroMeansReseeded
  <2>1. s \in Sources /\ mode = "scrape"
    BY <1>1 DEF IInv, TypeOK, OnlyScrapes
  <2>2. WorkOK(s) /\ ResumeOK(s) /\ ErrorsOK(s) /\ at[s] \in Settled /\ ~Tells(s)
    BY <1>1, <2>1 DEF IInv, SourceOK, ExitOK
  <2>3. at[s] \in {"skipped", "finished"} /\ error[s] = "none"
    BY <2>1, <2>2 DEF WorkOK, Settled, Tells
  <2>4. status[s] = "success"
    BY <2>2, <2>3 DEF WorkOK, ResumeOK
  <2> QED BY <2>2, <2>4 DEF ResumeOK
<1> QED BY <1>1, Invariance, PTL

\* A source that a scrape gives up on before all its attempts met another
\* fault than a response dropped half way.
THEOREM Retries == Spec => []DroppedAnswersAreRetried
<1>1. ASSUME IInv PROVE DroppedAnswersAreRetried
  BY <1>1 DEF IInv, SourceOK, RetriesOK, DroppedAnswersAreRetried, GivenUpEarlyOnlyAfter
<1> QED BY <1>1, Invariance, PTL

\* An invocation that exits 0 has put all it worked on into the graph, or, if
\* it is the script, has left a record that tells.
THEOREM ReachedGraph == Spec => []WorkReachedGraph
<1>1. ASSUME IInv PROVE WorkReachedGraph
  <2> SUFFICES ASSUME pc = "idle", code = "0", ~dry, NEW s \in chosen, at[s] = "finished",
                      mode = "single" => status[s] # "ingest_error"
               PROVE  Readable(s) /\ jsonl[s] \subseteq graph[s]
    BY DEF WorkReachedGraph
  <2>1. s \in Sources
    BY <1>1 DEF IInv, TypeOK
  <2>2. WorkOK(s) /\ ~Tells(s)
    BY <1>1, <2>1 DEF IInv, SourceOK, ExitOK
  <2>3. error[s] = "none"
    BY <2>2 DEF WorkOK, Tells
  <2>4. jsonl[s] \in SUBSET Chunks /\ jsonl[s] \subseteq graph[s]
    BY <2>2, <2>3 DEF WorkOK
  <2> QED BY <2>4, FilesAssumption DEF Readable
<1> QED BY <1>1, Invariance, PTL

\* A scrape that exits 0 leaves no chosen source with a record of failure.
THEOREM NothingHidden == Spec => []NoFailureIsHidden
<1>1. ASSUME IInv PROVE NoFailureIsHidden
  <2> SUFFICES ASSUME pc = "idle", code = "0", mode = "scrape", NEW s \in chosen
               PROVE  status[s] \in {"success", "empty"}
    BY DEF NoFailureIsHidden
  <2>1. s \in Sources
    BY <1>1 DEF IInv, TypeOK
  <2>2. WorkOK(s) /\ at[s] \in Settled /\ ~Tells(s)
    BY <1>1, <2>1 DEF IInv, SourceOK, ExitOK
  <2> QED BY <2>2 DEF WorkOK, Settled, Tells
<1> QED BY <1>1, Invariance, PTL
=============================================================================
