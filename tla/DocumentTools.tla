---------------------------- MODULE DocumentTools ----------------------------
(***************************************************************************)
(* cd_mcp/tools: the tools of the MCP server that answer from the stored   *)
(* documents, and the envelope that says whether an answer may be shared.  *)
(* They read a directory that runs of the pipelines may be writing, so     *)
(* they are operators on the state of AttestationStore.                    *)
(***************************************************************************)
EXTENDS AttestationStore

CONSTANT Others   \* the sources the other blocks of a verdict may cite

-----------------------------------------------------------------------------
(* build_envelope.                                                         *)

\* A snippet of no words, which is what these tools claim to return: licences
\* with a cap want a positive number of words.
SnippetAllowed(license) == Effective(license) \in AlwaysAllowed \cup {"SBLGNT-EULA"}

\* Mutant: an export is no bulk.
BulkWhenPublic(context) == context = "public-share"
Bulk(context)           == context \in {"public-share", "export"}

Allowed(license, context) ==
  IF Bulk(context) THEN BulkAllowed(license) ELSE SnippetAllowed(license)
\* Nothing is known to be safe without sources.
SafeToShare(sources, context) ==
  sources # {} /\ \A s \in sources : Allowed(s.license, context)

\* success_envelope and error_envelope; raised stands for an exception.
Success(d, sources, context) ==
  [code |-> "ok", question_id |-> d.question_id, safe |-> SafeToShare(sources, context)]
Failure(code) == [code |-> code, question_id |-> NoQuestion, safe |-> FALSE]

-----------------------------------------------------------------------------
(* The handlers.                                                           *)

\* evidence_inspect and historical_inspect, which expect a file that does not
\* parse but not one that does not decode; what a pipeline stored is valid
\* when it is read again.
Inspect(q, context) ==
  CASE doc[q] = NoDocument -> Failure("missing")
    [] doc[q] = Torn       -> Failure("corrupt")
    [] doc[q] = Garbled    -> Failure("raised")
    [] OTHER -> Success(doc[q], doc[q].sources_used, context)

\* doctrinal_verdict on an evidence file: its sources, and those of the sidecar
\* and of the cultural passages.
DoctrinalVerdict(q, context, others) ==
  CASE doc[q] = NoDocument        -> Failure("missing")
    [] doc[q] \in {Torn, Garbled} -> Failure("raised")
    [] OTHER -> Success(doc[q], doc[q].sources_used \cup others, context)

\* license_audit of an evidence file.
LicenseAudit(q) ==
  CASE doc[q] = NoDocument        -> Failure("missing")
    [] doc[q] \in {Torn, Garbled} -> Failure("raised")
    [] OTHER -> LET used == doc[q].sources_used
                IN  [code |-> "ok", question_id |-> q,
                     safe |-> used # {} /\ \A s \in used : BulkAllowed(s.license)]

-----------------------------------------------------------------------------
\* Whoever runs meanwhile, a tool never speaks from a document that is half
\* written and never answers for another question; and the three that say
\* whether a document may be given away say so of a document the pipeline
\* would publish, and of every such document that has sources, although each
\* of them and the pipelines decide from the licences on their own.  After a
\* persist nobody disturbed none of them is on the list of the unsafe ones.
SharingAgrees ==
  \A q \in Questions, context \in {"public-share", "export"} :
    LET inspected == Inspect(q, context)
        verdicts  == {DoctrinalVerdict(q, context, others) : others \in Others}
        answers   == IF pipeline = "historical" THEN {inspected}
                     ELSE {inspected, LicenseAudit(q)} \cup verdicts
        healed    == \E r \in Runs : pc[r] = "persisted" /\ alone[r]
    IN  /\ \A a \in answers : a.code = "ok" => q \in Readable /\ a.question_id = q
        /\ \A a \in answers : a.safe => q \in Safe /\ (healed => q \notin list)
        /\ q \in Safe /\ doc[q].sources_used # {} =>
             /\ inspected.safe
             /\ pipeline = "evidence" =>
                  /\ LicenseAudit(q).safe
                  /\ \A others \in Others : DoctrinalVerdict(q, context, others).safe <=>
                       \A s \in others : BulkAllowed(s.license)
=============================================================================
