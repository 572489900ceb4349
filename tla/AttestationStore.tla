-------------------------- MODULE AttestationStore --------------------------
(***************************************************************************)
(* pipeline2 and pipeline4 run.main, dispatch_one and persistence: one     *)
(* document per question in a directory, and _non_redistributable.txt, the *)
(* list of the questions whose document must not be published, which every *)
(* persist recomputes from the directory.  Modules Evidence (pipeline 2)   *)
(* and Attestation (pipeline 4) say what becomes of a subagent's payload.  *)
(*                                                                         *)
(* A run is one invocation of the command line.  Runs may overlap, and one *)
(* may die between any two of its file operations; a file it was writing   *)
(* is left torn: what is there does not parse or, when the tear is inside  *)
(* a character (texts are written without escapes), does not even decode.  *)
(***************************************************************************)
EXTENDS LicenseGuard

CONSTANTS
  Runs,       \* invocations; bounds the model
  Questions,
  Answers,    \* the payloads subagents return, for each pipeline
  NoQuestion, NoDocument,
  Torn, Garbled,  \* half a file, which does not parse or does not decode
  MayOverlap, \* a run may start while another is active
  MayCrash

Pipelines == {"evidence", "historical"}
E == INSTANCE Evidence
H == INSTANCE Attestation

\* _post_process raises for a payload that is not valid.
Accepted(p, a) == IF p = "evidence" THEN E!Valid(a) ELSE H!Valid(a)
Document(p, a) == IF p = "evidence" THEN E!PostProcess(a) ELSE H!PostProcess(a)
Agree(p, d, e) == IF p = "evidence" THEN E!Agree(d, e) ELSE H!Agree(d, e)
Documents(p)   == {Document(p, a) : a \in {x \in Answers[p] : Accepted(p, x)}}

ASSUME NoQuestionAssumption == NoQuestion \notin Questions
ASSUME NamesAssumption ==
  /\ NoDocument # Torn /\ NoDocument # Garbled /\ Torn # Garbled
  /\ \A p \in Pipelines : {NoDocument, Torn, Garbled} \cap Documents(p) = {}
\* Questions has the name of every document, not only those of questions.json.
ASSUME AnswersAssumption ==
  \A p \in Pipelines : \A a \in Answers[p] : a.question_id \in Questions

VARIABLES
  pipeline,   \* whose runs these are; never changes
  honest,     \* subagents answer the question they were asked; never changes
  doc,        \* evidence/<id>.json or historical/<id>.json
  list,       \* the ids in _non_redistributable.txt; absent is empty
  \* one column per local of a run
  pc, explicit,
  asked,      \* the questions it was given
  qids,       \* and those it has not come to yet
  question,   \* the one it is at
  answer,     \* the document it is writing
  to_read,    \* _rewrite_non_redistributable_list's glob, not read yet
  unsafe,     \* and what it has found
  alone       \* no other run was active during this persist

given  == <<pipeline, honest>>
locals == <<explicit, asked, qids, question, answer, to_read, unsafe>>
vars   == <<given, doc, list, pc, locals, alone>>

Points == {"idle", "next", "dispatch", "write", "scan", "fill", "persisted",
           "done", "died", "agreed", "disagreed"}
Active(r) == pc[r] \notin {"idle", "done", "died", "agreed", "disagreed"}

TypeOK ==
  /\ pipeline \in Pipelines /\ honest \in BOOLEAN
  /\ doc \in [Questions -> Documents(pipeline) \cup {NoDocument, Torn, Garbled}]
  /\ list \subseteq Questions
  /\ pc \in [Runs -> Points]
  /\ explicit \in [Runs -> BOOLEAN]
  /\ asked \in [Runs -> SUBSET Questions]
  /\ qids \in [Runs -> SUBSET Questions]
  /\ question \in [Runs -> Questions \cup {NoQuestion}]
  /\ answer \in [Runs -> Documents(pipeline) \cup {NoDocument}]
  /\ to_read \in [Runs -> SUBSET Questions]
  /\ unsafe \in [Runs -> SUBSET Questions]
  /\ alone \in [Runs -> BOOLEAN]

Init ==
  /\ pipeline \in Pipelines /\ honest \in BOOLEAN
  /\ doc = [q \in Questions |-> NoDocument] /\ list = {}
  /\ pc = [r \in Runs |-> "idle"]
  /\ explicit = [r \in Runs |-> FALSE]
  /\ asked = [r \in Runs |-> {}]
  /\ qids = [r \in Runs |-> {}]
  /\ question = [r \in Runs |-> NoQuestion]
  /\ answer = [r \in Runs |-> NoDocument]
  /\ to_read = [r \in Runs |-> {}]
  /\ unsafe = [r \in Runs |-> {}]
  /\ alone = [r \in Runs |-> FALSE]

Readable   == {q \in Questions : doc[q] \notin {NoDocument, Torn, Garbled}}
Unsafe     == {q \in Readable : doc[q].safe = FALSE}
Present    == {q \in Questions : doc[q] # NoDocument}
Goto(r, p) == pc' = [pc EXCEPT ![r] = p]

-----------------------------------------------------------------------------
(* run.main                                                                *)

\* --question-id all, or one id.
Start(r) ==
  /\ pc[r] = "idle" /\ Goto(r, "next")
  /\ MayOverlap \/ \A o \in Runs : ~Active(o)
  /\ \/ /\ asked' = [asked EXCEPT ![r] = Questions]
        /\ qids' = [qids EXCEPT ![r] = Questions] /\ UNCHANGED explicit
     \/ /\ \E q \in Questions : /\ asked' = [asked EXCEPT ![r] = {q}]
                                /\ qids' = [qids EXCEPT ![r] = {q}]
        /\ explicit' = [explicit EXCEPT ![r] = TRUE]
  /\ alone' = [o \in Runs |-> FALSE]
  /\ UNCHANGED <<given, doc, list, question, answer, to_read, unsafe>>

\* pipeline4 only: historical_path(qid).exists().
Skips(r, q) == pipeline = "historical" /\ ~explicit[r] /\ doc[q] # NoDocument

Skip(r) ==
  /\ pc[r] \in {"next", "persisted"}
  /\ \E q \in qids[r] : Skips(r, q) /\ qids' = [qids EXCEPT ![r] = @ \ {q}]
  /\ UNCHANGED <<given, doc, list, pc, explicit, asked, question, answer, to_read, unsafe, alone>>

\* The question is dispatched; an answer takes minutes.
Dispatch(r) ==
  /\ pc[r] \in {"next", "persisted"} /\ Goto(r, "dispatch")
  /\ \E q \in qids[r] :
       /\ ~Skips(r, q)
       /\ qids' = [qids EXCEPT ![r] = @ \ {q}]
       /\ question' = [question EXCEPT ![r] = q]
  /\ UNCHANGED <<given, doc, list, explicit, asked, answer, to_read, unsafe, alone>>

\* What may come back; nobody compares it with the question.
Returned(q) == {a \in Answers[pipeline] : honest => a.question_id = q}

\* A payload that is not valid raises through main (mutant: the run goes on).
GoesOn  == "next"
Raising == "died"
Refuse(r) ==
  /\ pc[r] = "dispatch" /\ Goto(r, Raising)
  /\ \E a \in Returned(question[r]) : ~Accepted(pipeline, a)
  /\ UNCHANGED <<given, doc, list, locals, alone>>

Finish(r) ==
  /\ pc[r] \in {"next", "persisted"} /\ qids[r] = {} /\ Goto(r, "done")
  /\ UNCHANGED <<given, doc, list, locals, alone>>

\* --triangle: one question is dispatched twice, nothing is written.
Triangle(r) ==
  /\ pc[r] = "idle"
  /\ \E q \in Questions : \E a, b \in Returned(q) :
       IF Accepted(pipeline, a) /\ Accepted(pipeline, b)
       THEN Goto(r, IF Agree(pipeline, Document(pipeline, a), Document(pipeline, b))
                    THEN "agreed" ELSE "disagreed")
       ELSE Goto(r, "died")
  /\ UNCHANGED <<given, doc, list, locals, alone>>

-----------------------------------------------------------------------------
(* persist_evidence, persist_historical                                    *)

\* write_text opens the document of the id in the answer, which truncates it.
Truncate(r) ==
  /\ pc[r] = "dispatch" /\ Goto(r, "write")
  /\ \E a \in Returned(question[r]) :
       /\ Accepted(pipeline, a)
       /\ answer' = [answer EXCEPT ![r] = Document(pipeline, a)]
       /\ doc' = [doc EXCEPT ![a.question_id] = Torn]
  /\ alone' = [alone EXCEPT ![r] = \A o \in Runs \ {r} : ~Active(o)]
  /\ UNCHANGED <<given, list, explicit, asked, qids, question, to_read, unsafe>>

\* A part of the text reaches the disk.
Flush(r) ==
  /\ pc[r] = "write"
  /\ \E half \in {Torn, Garbled} : doc' = [doc EXCEPT ![answer[r].question_id] = half]
  /\ UNCHANGED <<given, list, pc, locals, alone>>

\* The rest of write_text, then the glob of the directory (mutant: the glob
\* comes before the document).
PresentBefore(r) == Present \ {answer[r].question_id}
PresentAfter(r)  == Present

Write(r) ==
  /\ pc[r] = "write" /\ Goto(r, "scan")
  /\ doc' = [doc EXCEPT ![answer[r].question_id] = answer[r]]
  /\ answer' = [answer EXCEPT ![r] = NoDocument]
  /\ to_read' = [to_read EXCEPT ![r] = PresentAfter(r)]
  /\ unsafe' = [unsafe EXCEPT ![r] = {}]
  /\ UNCHANGED <<given, list, explicit, asked, qids, question, alone>>

\* One file is read; one that does not parse is passed over.
Read(r, q) ==
  /\ pc[r] = "scan" /\ q \in to_read[r] /\ doc[q] # Garbled
  /\ to_read' = [to_read EXCEPT ![r] = @ \ {q}]
  /\ unsafe' = [unsafe EXCEPT ![r] = IF q \in Unsafe THEN @ \cup {q} ELSE @]
  /\ UNCHANGED <<given, doc, list, pc, explicit, asked, qids, question, answer, alone>>

\* Only JSONDecodeError is caught: one that does not decode ends the run, with
\* its document written and the list as it was.
Stumble(r) ==
  /\ pc[r] = "scan" /\ Goto(r, "died")
  /\ \E q \in to_read[r] : doc[q] = Garbled
  /\ UNCHANGED <<given, doc, list, locals, alone>>

\* unlink, or the truncation of the list that is about to be written.
\* (mutant: an empty result leaves the list alone)
KeepList(r)  == IF unsafe[r] = {} THEN list ELSE {}
ClearList(r) == {}

Clear(r) ==
  /\ pc[r] = "scan" /\ to_read[r] = {}
  /\ list' = ClearList(r)
  /\ Goto(r, IF unsafe[r] = {} THEN "persisted" ELSE "fill")
  /\ UNCHANGED <<given, doc, locals, alone>>

Fill(r) ==
  /\ pc[r] = "fill" /\ Goto(r, "persisted")
  /\ list' = unsafe[r]
  /\ UNCHANGED <<given, doc, locals, alone>>

\* The process is killed, or dispatch raises: what is on disk stays.
Die(r) ==
  /\ MayCrash /\ Active(r) /\ Goto(r, "died")
  /\ UNCHANGED <<given, doc, list, locals, alone>>

-----------------------------------------------------------------------------
Next == \E r \in Runs :
  \/ Start(r) \/ Skip(r) \/ Dispatch(r) \/ Refuse(r) \/ Finish(r) \/ Triangle(r)
  \/ Truncate(r) \/ Flush(r) \/ Write(r) \/ Stumble(r) \/ (\E q \in Questions : Read(r, q)) \/ Clear(r) \/ Fill(r)
  \/ Die(r)

Spec == Init /\ [][Next]_vars
-----------------------------------------------------------------------------
(* Properties.                                                             *)

\* A persist that no other run overlapped leaves the list exact when it comes
\* to its end, whatever earlier runs were killed or raced; and it comes to its
\* end only if every document decodes.  (One that does not makes each persist
\* die before the list, until its question is answered again: README.)
UndisturbedPersistIsExact ==
  \A r \in Runs : pc[r] = "persisted" /\ alone[r] =>
    list = Unsafe /\ \A q \in Questions : doc[q] # Garbled

\* What the pipelines call safe, and evidence_publish_safe_list and
\* historical_publish_safe_list, which raise if a document does not decode.
Safe        == {q \in Readable : doc[q].safe = TRUE}
PublishSafe == IF \E q \in Questions : doc[q] = Garbled THEN {} ELSE Safe

\* The licences decide, not the subagent ("a subagent cannot mislabel a
\* non-redistributable witness as publish-safe"): whatever was claimed, a
\* document may be published exactly when every source it says it used may be
\* given away.  (A witness that is not among the sources used does not count:
\* README.)
LicencesDecide ==
  \A q \in Readable :
    LET free == \A s \in doc[q].sources_used : BulkAllowed(s.license) IN
    /\ q \in PublishSafe => free
    /\ free => q \in PublishSafe \/ \E p \in Questions : doc[p] = Garbled

\* While subagents answer what they were asked, a run that ended has left a
\* document for each of its questions, whatever else ran and died; a torn one
\* is one that another run was or is writing.
FinishedRunsLeaveNoGap ==
  \A r \in Runs : honest /\ pc[r] = "done" =>
    \A q \in asked[r] :
      /\ doc[q] # NoDocument
      /\ doc[q] \in {Torn, Garbled} =>
           \E o \in Runs : /\ pc[o] \in {"write", "died"}
                           /\ answer[o] # NoDocument /\ answer[o].question_id = q
=============================================================================
