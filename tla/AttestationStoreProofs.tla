----------------------- MODULE AttestationStoreProofs -----------------------
(***************************************************************************)
(* The properties of AttestationStore for any number of runs, questions    *)
(* and payloads of either pipeline, however runs overlap and die, and what *)
(* the tools of DocumentTools answer from the documents they leave.        *)
(***************************************************************************)
EXTENDS DocumentTools, TLAPS

\* What a pipeline makes of a payload it accepts is stored under the id in the
\* payload, and is safe to publish exactly when the licence guard allows every
\* source used: in pipeline 2 because another label is refused, in pipeline 4
\* because the label is recomputed.
THEOREM GuardDecides ==
  ASSUME NEW p \in Pipelines, NEW d \in Documents(p)
  PROVE  /\ d.question_id \in Questions /\ d \notin {NoDocument, Torn, Garbled}
         /\ d.safe \in BOOLEAN
         /\ d.safe <=> \A s \in d.sources_used : BulkAllowed(s.license)
<1>1. PICK a \in Answers[p] : Accepted(p, a) /\ d = Document(p, a)
  BY DEF Documents
<1>2. a.question_id \in Questions /\ d \notin {NoDocument, Torn, Garbled}
  BY AnswersAssumption, NamesAssumption
<1>3. CASE p = "evidence"
  <2>1. E!Valid(a) /\ d = E!PostProcess(a)
    BY <1>1, <1>3 DEF Accepted, Document
  <2>2. d.question_id = a.question_id /\ d.safe = a.safe /\ d.sources_used = a.sources_used
    BY <2>1 DEF E!PostProcess
  <2>3. a.safe = \A s \in a.sources_used : E!BulkAllowed(s.license)
    BY <2>1 DEF E!Valid, E!AuditAgrees
  <2>4. \A s \in a.sources_used : E!BulkAllowed(s.license) <=> BulkAllowed(s.license)
    BY DEF E!BulkAllowed, E!Effective, E!AlwaysAllowed, E!Composite,
           BulkAllowed, Effective, AlwaysAllowed, Composite
  <2> QED BY <1>2, <2>2, <2>3, <2>4
<1>4. CASE p = "historical"
  <2>1. d = H!PostProcess(a)
    BY <1>1, <1>4 DEF Document
  <2>2. d.question_id = a.question_id /\ d.sources_used = a.sources_used
        /\ d.safe = \A s \in a.sources_used : H!BulkAllowed(s.license)
    BY <2>1 DEF H!PostProcess, H!SafeToPublish
  <2>3. \A s \in a.sources_used : H!BulkAllowed(s.license) <=> BulkAllowed(s.license)
    BY DEF H!BulkAllowed, H!Effective, H!AlwaysAllowed, H!Composite,
           BulkAllowed, Effective, AlwaysAllowed, Composite
  <2> QED BY <1>2, <2>2, <2>3
<1> QED BY <1>3, <1>4 DEF Pipelines

-----------------------------------------------------------------------------
\* A run works on a question, and a document once opened exists.
QuestionPicked ==
  \A r \in Runs :
    /\ pc[r] = "dispatch" => question[r] \in Questions
    /\ pc[r] = "write" => /\ answer[r] \in Documents(pipeline)
                          /\ doc[answer[r].question_id] # NoDocument

\* A run that is alone is the only active one.
AloneIsAlone == \A r, o \in Runs : alone[r] /\ Active(r) /\ Active(o) => o = r

\* What an undisturbed scan has found is exact for the files it has read, and
\* these decode.
Undecodable == {q \in Questions : doc[q] = Garbled}
ScanIsExact ==
  \A r \in Runs : alone[r] =>
    /\ pc[r] = "scan" => unsafe[r] = Unsafe \ to_read[r] /\ Undecodable \subseteq to_read[r]
    /\ pc[r] = "fill" => unsafe[r] = Unsafe /\ Undecodable = {}

\* Half a document is being written, or was when its writer died.
Writer(o, q) ==
  pc[o] \in {"write", "died"} /\ answer[o] # NoDocument /\ answer[o].question_id = q
TornHasWriter ==
  \A q \in Questions : doc[q] \in {Torn, Garbled} => \E o \in Runs : Writer(o, q)

\* Of the questions a run has come to, only the one in dispatch may be without
\* a document, while subagents are honest and unless the run died.
NoGapSoFar ==
  \A r \in Runs : honest /\ pc[r] # "died" =>
    \A q \in asked[r] \ qids[r] :
      doc[q] # NoDocument \/ (pc[r] = "dispatch" /\ q = question[r])
AllDone == \A r \in Runs : pc[r] = "done" => qids[r] = {}

IInv == /\ TypeOK /\ QuestionPicked
        /\ AloneIsAlone /\ ScanIsExact /\ UndisturbedPersistIsExact
        /\ TornHasWriter /\ NoGapSoFar /\ AllDone

\* Initially nothing is on disk and nothing runs.
LEMMA InitIInv == Init => IInv
<1> SUFFICES ASSUME Init PROVE IInv
  OBVIOUS
<1>1. TypeOK
  BY DEF Init, TypeOK, Points
<1>2. TornHasWriter
  BY NamesAssumption DEF Init, TornHasWriter
<1>3. QuestionPicked /\ AloneIsAlone /\ ScanIsExact /\ UndisturbedPersistIsExact
  BY DEF Init, QuestionPicked, AloneIsAlone, ScanIsExact, UndisturbedPersistIsExact, Active
<1>4. NoGapSoFar /\ AllDone
  BY DEF Init, NoGapSoFar, AllDone
<1> QED BY <1>1, <1>2, <1>3, <1>4 DEF IInv

\* The actions.
Step(r) == \/ Start(r) \/ Skip(r) \/ Dispatch(r) \/ Refuse(r) \/ Finish(r) \/ Triangle(r)
           \/ Truncate(r) \/ Flush(r) \/ Write(r) \/ Stumble(r)
           \/ (\E q \in Questions : Read(r, q)) \/ Clear(r) \/ Fill(r) \/ Die(r)

\* What Truncate begins to write is a document of the pipeline.
LEMMA Truncated ==
  ASSUME TypeOK, NEW r \in Runs, Truncate(r)
  PROVE  \E a \in Returned(question[r]) :
           /\ Document(pipeline, a) \in Documents(pipeline)
           /\ Document(pipeline, a).question_id = a.question_id /\ a.question_id \in Questions
           /\ answer' = [answer EXCEPT ![r] = Document(pipeline, a)]
           /\ doc' = [doc EXCEPT ![a.question_id] = Torn]
<1>1. PICK a \in Returned(question[r]) :
        /\ Accepted(pipeline, a)
        /\ answer' = [answer EXCEPT ![r] = Document(pipeline, a)]
        /\ doc' = [doc EXCEPT ![a.question_id] = Torn]
  BY DEF Truncate
<1>2. a \in Answers[pipeline] /\ pipeline \in Pipelines
  BY DEF Returned, TypeOK
<1>3. Document(pipeline, a) \in Documents(pipeline)
  BY <1>1, <1>2 DEF Documents
<1>4. Document(pipeline, a).question_id = a.question_id
  BY <1>2 DEF Document, E!PostProcess, H!PostProcess
<1> QED BY <1>1, <1>2, <1>3, <1>4, AnswersAssumption

\* Types and picked questions are kept by every action.
LEMMA StepType == ASSUME TypeOK, QuestionPicked, [Next]_vars
                  PROVE  TypeOK' /\ QuestionPicked'
<1> USE DEF TypeOK, QuestionPicked, Points, Goto, locals, given
<1>1. CASE UNCHANGED vars
  BY <1>1 DEF vars
<1>2. CASE Next
  <2>1. PICK r \in Runs : Step(r)
    BY <1>2 DEF Next, Step
  <2>2. CASE Start(r)
    <3>1. /\ asked' \in [Runs -> SUBSET Questions] /\ qids' \in [Runs -> SUBSET Questions]
          /\ explicit' \in [Runs -> BOOLEAN]
      <4>1. PICK Q \in SUBSET Questions :
              asked' = [asked EXCEPT ![r] = Q] /\ qids' = [qids EXCEPT ![r] = Q]
        BY <2>2 DEF Start
      <4> QED BY <2>2, <4>1 DEF Start
    <3>2. pc' \in [Runs -> Points] /\ alone' \in [Runs -> BOOLEAN]
      BY <2>2 DEF Start
    <3>3. QuestionPicked'
      BY <2>2 DEF Start
    <3> QED BY <2>2, <3>1, <3>2, <3>3 DEF Start
  <2>3. CASE Skip(r)
    BY <2>3 DEF Skip
  <2>4. CASE Dispatch(r)
    BY <2>4 DEF Dispatch
  <2>5. CASE Refuse(r)
    BY <2>5 DEF Refuse, Raising
  <2>6. CASE Finish(r)
    BY <2>6 DEF Finish
  <2>7. CASE Triangle(r)
    <3>1. \E p \in {"agreed", "disagreed", "died"} : pc' = [pc EXCEPT ![r] = p]
      BY <2>7 DEF Triangle
    <3> QED BY <2>7, <3>1 DEF Triangle
  <2>8. CASE Truncate(r)
    <3>1. PICK a \in Returned(question[r]) :
            /\ Document(pipeline, a) \in Documents(pipeline)
            /\ Document(pipeline, a).question_id = a.question_id /\ a.question_id \in Questions
            /\ answer' = [answer EXCEPT ![r] = Document(pipeline, a)]
            /\ doc' = [doc EXCEPT ![a.question_id] = Torn]
      BY <2>8, Truncated
    <3>2. Torn # NoDocument
      BY NamesAssumption
    <3>3. QuestionPicked'
      BY <2>8, <3>1, <3>2 DEF Truncate
    <3>4. TypeOK'
      BY <2>8, <3>1 DEF Truncate
    <3> QED BY <3>3, <3>4
  <2>9. CASE Write(r)
    <3>1. answer[r] \in Documents(pipeline) /\ answer[r].question_id \in Questions
          /\ answer[r] # NoDocument
      BY <2>9, GuardDecides DEF Write
    <3> QED BY <2>9, <3>1 DEF Write, PresentAfter, Present
  <2>10. CASE \E q \in Questions : Read(r, q)
    BY <2>10 DEF Read
  <2>11. CASE Clear(r)
    BY <2>11 DEF Clear, ClearList
  <2>12. CASE Fill(r)
    BY <2>12 DEF Fill
  <2>13. CASE Die(r) \/ Stumble(r)
    BY <2>13 DEF Die, Stumble
  <2>14. CASE Flush(r)
    <3>1. PICK half \in {Torn, Garbled} : doc' = [doc EXCEPT ![answer[r].question_id] = half]
      BY <2>14 DEF Flush
    <3>2. answer[r].question_id \in Questions /\ half # NoDocument
      BY <2>14, GuardDecides, NamesAssumption DEF Flush
    <3> QED BY <2>14, <3>1, <3>2 DEF Flush
  <2> QED BY <2>1, <2>2, <2>3, <2>4, <2>5, <2>6, <2>7, <2>8, <2>9, <2>10, <2>11, <2>12, <2>13, <2>14
          DEF Step
<1> QED BY <1>1, <1>2

\* Only Start makes a run active, and then none is alone; only Truncate
\* makes one alone, after looking at the others.
LEMMA StepAlone == ASSUME TypeOK, AloneIsAlone, [Next]_vars
                   PROVE  AloneIsAlone'
<1> USE DEF TypeOK, AloneIsAlone, Active, Goto, locals
<1>1. CASE UNCHANGED vars
  BY <1>1 DEF vars
<1>2. CASE Next
  <2>1. PICK r \in Runs : Step(r)
    BY <1>2 DEF Next, Step
  <2>2. CASE Start(r)
    BY <2>2 DEF Start
  <2>3. CASE Truncate(r)
    BY <2>3 DEF Truncate
  <2>4. ASSUME alone' = alone, \A o \in Runs : Active(o)' => Active(o)
        PROVE  AloneIsAlone'
    BY <2>4
  <2>5. CASE Triangle(r) \/ Refuse(r)
    BY <2>5, <2>4 DEF Triangle, Refuse, Raising
  <2>6. CASE Skip(r) \/ Dispatch(r) \/ Finish(r) \/ Write(r) \/ Die(r)
    BY <2>6, <2>4 DEF Skip, Dispatch, Finish, Write, Die
  <2>8. CASE Flush(r) \/ Stumble(r)
    BY <2>8, <2>4 DEF Flush, Stumble
  <2>7. CASE (\E q \in Questions : Read(r, q)) \/ Clear(r) \/ Fill(r)
    BY <2>7, <2>4 DEF Read, Clear, Fill
  <2> QED BY <2>1, <2>2, <2>3, <2>5, <2>6, <2>7, <2>8 DEF Step
<1> QED BY <1>1, <1>2

\* The heart: while r is alone, nobody else touches documents or list.
LEMMA StepExact == ASSUME IInv, TypeOK', [Next]_vars
                   PROVE  ScanIsExact' /\ UndisturbedPersistIsExact'
<1> SUFFICES ASSUME NEW o \in Runs, alone'[o]
             PROVE  /\ pc'[o] = "scan" => unsafe'[o] = Unsafe' \ to_read'[o]
                                          /\ Undecodable' \subseteq to_read'[o]
                    /\ pc'[o] = "fill" => unsafe'[o] = Unsafe' /\ Undecodable' = {}
                    /\ pc'[o] = "persisted" => list' = Unsafe' /\ Undecodable' = {}
  BY DEF ScanIsExact, UndisturbedPersistIsExact, Undecodable
<1>0. \A r \in Runs : pc[r] = "persisted" /\ alone[r] => list = Unsafe /\ Undecodable = {}
  BY DEF IInv, UndisturbedPersistIsExact, Undecodable
<1> USE <1>0 DEF IInv, TypeOK, ScanIsExact, Goto, locals
<1>1. CASE UNCHANGED vars
  BY <1>1 DEF vars, Unsafe, Readable, Undecodable
<1>2. CASE Next
  <2>1. PICK r \in Runs : Step(r)
    BY <1>2 DEF Next, Step
  <2>2. ASSUME r # o, pc[o] \in {"scan", "fill", "persisted"}
        PROVE  ~alone[o] \/ ~Active(r)
    BY <2>2 DEF AloneIsAlone, Active
  <2>3. doc' = doc => Unsafe' = Unsafe /\ Undecodable' = Undecodable
    BY DEF Unsafe, Readable, Undecodable
  <2>4. CASE Start(r)
    BY <2>4 DEF Start
  <2>5. CASE Skip(r)
    BY <2>5, <2>3 DEF Skip
  <2>6. CASE Dispatch(r)
    BY <2>6, <2>3 DEF Dispatch
  <2>7. CASE Refuse(r)
    BY <2>7, <2>3 DEF Refuse, Raising
  <2>8. CASE Finish(r)
    BY <2>8, <2>3 DEF Finish
  <2>9. CASE Triangle(r)
    <3>1. pc'[r] \in {"agreed", "disagreed", "died"} /\ \A x \in Runs \ {r} : pc'[x] = pc[x]
      BY <2>9 DEF Triangle
    <3> QED BY <2>9, <3>1, <2>3 DEF Triangle
  <2>10. CASE Truncate(r)
    BY <2>10, <2>2 DEF Truncate, Active
  <2>11. CASE Write(r)
    <3>1. CASE r = o
      <4>1. pc'[o] = "scan" /\ unsafe'[o] = {} /\ to_read'[o] = Present
        BY <2>11, <3>1 DEF Write, PresentAfter
      <4>2. /\ answer[o].question_id \in Questions
            /\ doc[answer[o].question_id] # NoDocument
            /\ doc' = [doc EXCEPT ![answer[o].question_id] = answer[o]]
        BY <2>11, <3>1, GuardDecides DEF Write, QuestionPicked
      <4>3. Unsafe' \subseteq Present /\ Undecodable' \subseteq Present
        BY <4>2, NamesAssumption DEF Unsafe, Readable, Present, Undecodable
      <4> QED BY <4>1, <4>3
    <3> QED BY <2>11, <2>2, <3>1 DEF Write, Active
  <2>12. CASE \E q \in Questions : Read(r, q)
    BY <2>12, <2>2, <2>3 DEF Read, Active, Undecodable
  <2>16. CASE Flush(r)
    BY <2>16, <2>2 DEF Flush, Active
  <2>17. CASE Stumble(r)
    BY <2>17, <2>3 DEF Stumble
  <2>13. CASE Clear(r)
    BY <2>13, <2>2, <2>3 DEF Clear, ClearList, Active
  <2>14. CASE Fill(r)
    BY <2>14, <2>2, <2>3 DEF Fill, Active
  <2>15. CASE Die(r)
    BY <2>15, <2>3 DEF Die
  <2> QED BY <2>1, <2>4, <2>5, <2>6, <2>7, <2>8, <2>9, <2>10, <2>11, <2>12, <2>13, <2>14, <2>15,
             <2>16, <2>17 DEF Step
<1> QED BY <1>1, <1>2

\* Documents are opened by writers and written whole; they never disappear.
LEMMA StepTorn == ASSUME IInv, [Next]_vars
                  PROVE  TornHasWriter' /\ \A q \in Questions : doc[q] # NoDocument => doc'[q] # NoDocument
<1> USE DEF IInv, TypeOK, TornHasWriter, Writer, Goto, locals
<1>1. CASE UNCHANGED vars
  BY <1>1 DEF vars
<1>2. CASE Next
  <2>1. PICK r \in Runs : Step(r)
    BY <1>2 DEF Next, Step
  <2>2. ASSUME doc' = doc, answer' = answer,
               \A o \in Runs : pc[o] \in {"write", "died"} => pc'[o] \in {"write", "died"}
        PROVE  TornHasWriter' /\ \A q \in Questions : doc[q] # NoDocument => doc'[q] # NoDocument
    BY <2>2
  <2>3. CASE Start(r) \/ Skip(r) \/ Dispatch(r) \/ Finish(r)
    BY <2>3, <2>2 DEF Start, Skip, Dispatch, Finish
  <2>4. CASE Triangle(r) \/ Refuse(r)
    BY <2>4, <2>2 DEF Triangle, Refuse
  <2>5. CASE (\E q \in Questions : Read(r, q)) \/ Clear(r) \/ Fill(r) \/ Die(r) \/ Stumble(r)
    BY <2>5, <2>2 DEF Read, Clear, Fill, Die, Stumble
  <2>8. CASE Flush(r)
    <3>1. PICK half \in {Torn, Garbled} : doc' = [doc EXCEPT ![answer[r].question_id] = half]
      BY <2>8 DEF Flush
    <3>2. /\ answer[r] # NoDocument /\ answer[r].question_id \in Questions
          /\ pc[r] = "write" /\ UNCHANGED <<pc, answer>> /\ half # NoDocument
      BY <2>8, GuardDecides, NamesAssumption DEF Flush, QuestionPicked
    <3>3. Writer(r, answer[r].question_id)' /\ \A o \in Runs, q \in Questions : Writer(o, q) => Writer(o, q)'
      BY <3>2
    <3> QED BY <3>1, <3>2, <3>3
  <2>6. CASE Truncate(r)
    <3>1. PICK a \in Returned(question[r]) :
            /\ Document(pipeline, a) \in Documents(pipeline)
            /\ Document(pipeline, a).question_id = a.question_id /\ a.question_id \in Questions
            /\ answer' = [answer EXCEPT ![r] = Document(pipeline, a)]
            /\ doc' = [doc EXCEPT ![a.question_id] = Torn]
      BY <2>6, Truncated
    <3>2. Document(pipeline, a) # NoDocument /\ Torn # NoDocument
      BY <3>1, GuardDecides, NamesAssumption
    <3>3. pc[r] = "dispatch" /\ pc' = [pc EXCEPT ![r] = "write"]
      BY <2>6 DEF Truncate
    <3>4. Writer(r, a.question_id)'
      BY <3>1, <3>2, <3>3
    <3>5. \A o \in Runs, q \in Questions : Writer(o, q) => Writer(o, q)'
      BY <3>1, <3>3
    <3> QED BY <3>1, <3>2, <3>4, <3>5
  <2>7. CASE Write(r)
    <3>1. /\ answer[r] \in Documents(pipeline) /\ answer[r] \notin {NoDocument, Torn, Garbled}
          /\ answer[r].question_id \in Questions
      BY <2>7, GuardDecides DEF Write, QuestionPicked
    <3>2. \A o \in Runs, q \in Questions \ {answer[r].question_id} : Writer(o, q) => Writer(o, q)'
      BY <2>7 DEF Write
    <3> QED BY <2>7, <3>1, <3>2 DEF Write
  <2> QED BY <2>1, <2>3, <2>4, <2>5, <2>6, <2>7, <2>8 DEF Step
<1> QED BY <1>1, <1>2

\* An honest run leaves its question with a document.
LEMMA StepNoGap == ASSUME IInv, [Next]_vars
                   PROVE  NoGapSoFar' /\ AllDone'
<1>0. \A q \in Questions : doc[q] # NoDocument => doc'[q] # NoDocument
  BY StepTorn
<1> USE DEF IInv, TypeOK, NoGapSoFar, AllDone, Goto, locals, given
<1>1. CASE UNCHANGED vars
  BY <1>1 DEF vars
<1>2. CASE Next
  <2>1. PICK r \in Runs : Step(r)
    BY <1>2 DEF Next, Step
  <2>2. CASE Start(r)
    BY <2>2, <1>0 DEF Start
  <2>3. CASE Skip(r)
    BY <2>3, <1>0 DEF Skip, Skips
  <2>4. CASE Dispatch(r)
    BY <2>4, <1>0 DEF Dispatch
  <2>5. CASE Refuse(r)
    BY <2>5, <1>0 DEF Refuse, Raising
  <2>6. CASE Finish(r)
    BY <2>6, <1>0 DEF Finish
  <2>7. CASE Triangle(r)
    BY <2>7, <1>0 DEF Triangle
  <2>8. CASE Truncate(r)
    <3>1. PICK a \in Returned(question[r]) :
            a.question_id \in Questions /\ doc' = [doc EXCEPT ![a.question_id] = Torn]
      BY <2>8, Truncated
    <3>2. honest => a.question_id = question[r]
      BY DEF Returned
    <3>3. Torn # NoDocument
      BY NamesAssumption
    <3>4. honest => doc'[question[r]] # NoDocument
      BY <3>1, <3>2, <3>3
    <3> QED BY <2>8, <1>0, <3>4 DEF Truncate
  <2>9. CASE Write(r)
    BY <2>9, <1>0 DEF Write
  <2>10. CASE (\E q \in Questions : Read(r, q)) \/ Clear(r) \/ Fill(r) \/ Die(r)
    BY <2>10, <1>0 DEF Read, Clear, Fill, Die
  <2>11. CASE Flush(r) \/ Stumble(r)
    BY <2>11, <1>0 DEF Flush, Stumble
  <2> QED BY <2>1, <2>2, <2>3, <2>4, <2>5, <2>6, <2>7, <2>8, <2>9, <2>10, <2>11 DEF Step
<1> QED BY <1>1, <1>2

\* The invariant holds of every behaviour.
THEOREM Invariance == Spec => []IInv
<1>1. IInv /\ [Next]_vars => IInv'
  <2> SUFFICES ASSUME IInv, [Next]_vars PROVE IInv'
    OBVIOUS
  <2>1. TypeOK' /\ QuestionPicked'
    BY StepType DEF IInv
  <2>2. AloneIsAlone'
    BY StepAlone DEF IInv
  <2>3. ScanIsExact' /\ UndisturbedPersistIsExact'
    BY StepExact, <2>1
  <2>4. TornHasWriter' /\ NoGapSoFar' /\ AllDone'
    BY StepTorn, StepNoGap
  <2> QED BY <2>1, <2>2, <2>3, <2>4 DEF IInv
<1> QED BY InitIInv, <1>1, PTL DEF Spec

\* Every variable of the document store keeps its type.
THEOREM TypeCorrect == Spec => []TypeOK
BY Invariance, PTL DEF IInv

\* A persist that no other run overlapped and that comes to its end leaves the
\* list of non-redistributable questions exact, whatever went wrong before it;
\* it ends only if every document decodes.
THEOREM PersistIsExact == Spec => []UndisturbedPersistIsExact
BY Invariance, PTL DEF IInv

\* What may be published is decided by the licences of the sources used,
\* whatever the subagents of either pipeline claim.
THEOREM LicencesRule == Spec => []LicencesDecide
<1>1. TypeOK => LicencesDecide
  <2> SUFFICES ASSUME TypeOK, NEW q \in Readable
               PROVE  LET free == \A s \in doc[q].sources_used : BulkAllowed(s.license) IN
                      /\ q \in PublishSafe => free
                      /\ free => q \in PublishSafe \/ \E p \in Questions : doc[p] = Garbled
    BY DEF LicencesDecide
  <2>1. pipeline \in Pipelines /\ doc[q] \in Documents(pipeline)
    BY DEF TypeOK, Readable
  <2>2. /\ doc[q].safe \in BOOLEAN
        /\ doc[q].safe <=> \A s \in doc[q].sources_used : BulkAllowed(s.license)
    BY <2>1, GuardDecides
  <2> QED BY <2>2 DEF PublishSafe, Safe
<1> QED BY TypeCorrect, <1>1, PTL

\* While subagents answer what they were asked, a run that ended has left a
\* document for each of its questions.
THEOREM NoGap == Spec => []FinishedRunsLeaveNoGap
<1>1. IInv => FinishedRunsLeaveNoGap
  <2> SUFFICES ASSUME IInv, NEW r \in Runs, honest, pc[r] = "done", NEW q \in asked[r]
               PROVE  /\ doc[q] # NoDocument
                      /\ doc[q] \in {Torn, Garbled} => \E o \in Runs : Writer(o, q)
    BY DEF FinishedRunsLeaveNoGap, Writer
  <2>1. q \in Questions
    BY DEF IInv, TypeOK
  <2>2. doc[q] # NoDocument
    BY DEF IInv, NoGapSoFar, AllDone
  <2> QED BY <2>1, <2>2 DEF IInv, TornHasWriter
<1> QED BY Invariance, <1>1, PTL

-----------------------------------------------------------------------------
(* The tools and the pipelines agree on what may be shared. *)

\* A document that can be read is filed under the id it carries.
NamedAfterItself == \A q \in Readable : doc[q].question_id = q

LEMMA StepNamed == ASSUME IInv, NamedAfterItself, [Next]_vars PROVE NamedAfterItself'
<1> USE DEF IInv, TypeOK, NamedAfterItself, Readable, locals
<1>1. CASE doc' = doc
  BY <1>1
<1>2. ASSUME NEW r \in Runs, Truncate(r) PROVE NamedAfterItself'
  <2>1. PICK a \in Returned(question[r]) :
          a.question_id \in Questions /\ doc' = [doc EXCEPT ![a.question_id] = Torn]
    BY <1>2, Truncated
  <2> QED BY <2>1
<1>3. ASSUME NEW r \in Runs, Write(r) PROVE NamedAfterItself'
  <2>1. answer[r].question_id \in Questions
    BY <1>3, GuardDecides DEF Write, QuestionPicked
  <2> QED BY <1>3, <2>1 DEF Write
<1>4. ASSUME NEW r \in Runs, Flush(r) PROVE NamedAfterItself'
  BY <1>4 DEF Flush
<1>5. ASSUME NEW r \in Runs, Step(r), ~Truncate(r), ~Write(r), ~Flush(r) PROVE doc' = doc
  BY <1>5 DEF Step, Start, Skip, Dispatch, Refuse, Finish, Triangle, Read, Clear, Fill, Die, Stumble
<1> QED BY <1>1, <1>2, <1>3, <1>4, <1>5 DEF Next, Step, vars

LEMMA Named == Spec => []NamedAfterItself
<1>1. Init => NamedAfterItself
  BY DEF Init, NamedAfterItself, Readable
<1> QED BY <1>1, StepNamed, Invariance, PTL DEF Spec

-----------------------------------------------------------------------------
\* What an answer from a document says, and that only a document that can be
\* read has one that says anything.
LEMMA AnswersAgree ==
  ASSUME IInv, NamedAfterItself, NEW q \in Questions, NEW context \in {"public-share", "export"},
         NEW others, NEW a \in {Inspect(q, context), LicenseAudit(q),
                                DoctrinalVerdict(q, context, others)}
  PROVE  /\ a.code = "ok" => q \in Readable /\ a.question_id = q
         /\ a.safe => q \in Safe
<1> USE DEF Inspect, LicenseAudit, DoctrinalVerdict, Success, Failure
<1>1. CASE doc[q] \in {NoDocument, Torn, Garbled}
  <2>1. a.code # "ok" /\ a.safe = FALSE
    BY <1>1
  <2> QED BY <2>1
<1>2. CASE doc[q] \notin {NoDocument, Torn, Garbled}
  <2>1. q \in Readable /\ doc[q].question_id = q /\ doc[q] \in Documents(pipeline)
    BY <1>2 DEF Readable, NamedAfterItself, IInv, TypeOK
  <2>2. a.question_id = q
    BY <1>2, <2>1
  <2>3. a.safe => \A s \in doc[q].sources_used : BulkAllowed(s.license)
    <3>1. CASE a = LicenseAudit(q)
      BY <1>2, <3>1
    <3>2. ASSUME NEW S, a = Success(doc[q], doc[q].sources_used \cup S, context)
          PROVE  a.safe => \A s \in doc[q].sources_used : BulkAllowed(s.license)
      <4>1. a.safe = SafeToShare(doc[q].sources_used \cup S, context)
        BY <3>2
      <4> QED BY <4>1 DEF SafeToShare, Allowed, Bulk
    <3>3. CASE a = Inspect(q, context)
      <4>1. a = Success(doc[q], doc[q].sources_used, context)
        BY <1>2, <3>3
      <4>2. doc[q].sources_used \cup {} = doc[q].sources_used
        OBVIOUS
      <4> HIDE DEF Success
      <4> QED BY <4>1, <4>2, <3>2
    <3>4. CASE a = DoctrinalVerdict(q, context, others)
      <4>1. a = Success(doc[q], doc[q].sources_used \cup others, context)
        BY <1>2, <3>4
      <4> HIDE DEF Success
      <4> QED BY <4>1, <3>2
    <3> QED BY <3>1, <3>3, <3>4
  <2>4. /\ doc[q].safe \in BOOLEAN
        /\ doc[q].safe <=> \A s \in doc[q].sources_used : BulkAllowed(s.license)
    BY <2>1, GuardDecides DEF IInv, TypeOK
  <2> QED BY <2>1, <2>2, <2>3, <2>4 DEF Safe
<1> QED BY <1>1, <1>2

\* No tool speaks from half a document or for another question, and they and
\* the pipelines agree on what may be given away.
THEOREM Sharing == Spec => []SharingAgrees
<1>1. ASSUME IInv, NamedAfterItself PROVE SharingAgrees
  <2> SUFFICES ASSUME NEW q \in Questions, NEW context \in {"public-share", "export"}
        PROVE LET inspected == Inspect(q, context)
                  verdicts  == {DoctrinalVerdict(q, context, others) : others \in Others}
                  answers   == IF pipeline = "historical" THEN {inspected}
                               ELSE {inspected, LicenseAudit(q)} \cup verdicts
                  healed    == \E r \in Runs : pc[r] = "persisted" /\ alone[r]
              IN  /\ \A a \in answers : a.code = "ok" => q \in Readable /\ a.question_id = q
                  /\ \A a \in answers : a.safe => q \in Safe /\ (healed => q \notin list)
                  /\ q \in Safe /\ doc[q].sources_used # {} =>
                       /\ inspected.safe
                       /\ pipeline = "evidence" =>
                            /\ LicenseAudit(q).safe
                            /\ \A others \in Others : DoctrinalVerdict(q, context, others).safe <=>
                                 \A s \in others : BulkAllowed(s.license)
    BY DEF SharingAgrees
  <2> DEFINE inspected == Inspect(q, context)
             verdicts  == {DoctrinalVerdict(q, context, others) : others \in Others}
             answers   == IF pipeline = "historical" THEN {inspected}
                          ELSE {inspected, LicenseAudit(q)} \cup verdicts
             healed    == \E r \in Runs : pc[r] = "persisted" /\ alone[r]
  <2>1. ASSUME NEW a \in answers
        PROVE  /\ a.code = "ok" => q \in Readable /\ a.question_id = q
               /\ a.safe => q \in Safe
    <3>1. PICK others : a \in {inspected, LicenseAudit(q), DoctrinalVerdict(q, context, others)}
      OBVIOUS
    <3> HIDE DEF answers, verdicts
    <3> QED BY <1>1, <3>1, AnswersAgree
  <2>2. q \in Safe /\ healed => q \notin list
    BY <1>1 DEF IInv, UndisturbedPersistIsExact, Unsafe, Safe
  <2>3. ASSUME q \in Safe, doc[q].sources_used # {}
        PROVE  /\ inspected.safe /\ LicenseAudit(q).safe
               /\ \A others \in Others : DoctrinalVerdict(q, context, others).safe <=>
                    \A s \in others : BulkAllowed(s.license)
    <3>1. doc[q] \notin {NoDocument, Torn, Garbled} /\ doc[q].safe = TRUE
      BY <2>3 DEF Safe, Readable
    <3>2. \A s \in doc[q].sources_used : BulkAllowed(s.license)
      BY <1>1, <3>1, GuardDecides DEF IInv, TypeOK
    <3> QED BY <2>3, <3>1, <3>2
            DEF Inspect, LicenseAudit, DoctrinalVerdict, Success, SafeToShare, Allowed, Bulk
  <2> HIDE DEF inspected, verdicts, answers, healed
  <2>4. /\ \A a \in answers : a.code = "ok" => q \in Readable /\ a.question_id = q
        /\ \A a \in answers : a.safe => q \in Safe /\ (healed => q \notin list)
    BY <2>1, <2>2
  <2> QED BY <2>3, <2>4 DEF inspected, verdicts, answers, healed
<1> QED BY <1>1, Named, Invariance, PTL
=============================================================================
