------------------------------ MODULE Evidence ------------------------------
(***************************************************************************)
(* Pipeline 2: what becomes of the payload a verdict subagent returns.     *)
(* evidence_schema validates it, score_calc sets its bands, triangle       *)
(* compares two of them.                                                   *)
(*                                                                         *)
(* Of a payload only what the rules between its fields look at is kept;    *)
(* well_formed stands for the types, patterns and enumerations of single   *)
(* fields, plain for a lay summary without dashes and without the framing  *)
(* of a denomination.                                                      *)
(***************************************************************************)
EXTENDS LicenseGuard, Integers, Sequences, FiniteSets

-----------------------------------------------------------------------------
(* evidence_schema.                                                        *)

\* LicenseAudit.consistency_with_guard: every source's flag and the aggregate
\* are what the guard says, and a refusal has a reason.
AuditAgrees(e) ==
  /\ \A s \in e.sources_used : s.redistribute = BulkAllowed(s.license)
  /\ e.safe = \A s \in e.sources_used : BulkAllowed(s.license)
  /\ e.safe \/ e.reason

\* Verdict: a canon that is silent has no verdict.
SilentHasNoVerdict(e) == e.directness = "silent" => e.affirms = "null"

\* Evidence.model_validate
Valid(e) ==
  /\ e.well_formed
  /\ e.id = e.question_id
  /\ SilentHasNoVerdict(e)
  /\ e.summary_words \in 100 .. 500 /\ e.plain
  /\ AuditAgrees(e)

-----------------------------------------------------------------------------
(* score_calc.                                                             *)

ANCHOR_LEMMA_CAP == 8
CROSS_REF_CAP    == 12
CONCORDANCE_CAP  == 10
Capped(n, cap)   == IF n < cap THEN n ELSE cap

Addressed(e) == Cardinality({i \in DOMAIN e.complicating : e.complicating[i].addressed})
Texts(e)     == IF e.complicating = <<>> THEN 1 ELSE Len(e.complicating)

\* _breadth_score in units of 1 / (2000 * Texts(e)), so that all its terms are
\* integers.  (The code rounds to six digits: the same with less than a
\* thousand complicating texts.)
BreadthScore(e) ==
    (IF e.pan_canonical THEN 500 ELSE 150) * Texts(e)
  + 50 * Capped(Len(e.anchors), ANCHOR_LEMMA_CAP) * Texts(e)
  + 300 * (IF e.complicating = <<>> THEN 1 ELSE Addressed(e))
  + 25 * Capped(e.cross_refs, CROSS_REF_CAP) * Texts(e)
  + (IF e.variant_robust THEN 300 ELSE 150) * Texts(e)
  + 20 * Capped(Len(e.concordance), CONCORDANCE_CAP) * Texts(e)

AtLeast(e, percent) == BreadthScore(e) >= 20 * percent * Texts(e)

LexicalBreadth(e) ==
  IF AtLeast(e, 85) /\ e.pan_canonical THEN "canon_wide"
  ELSE IF AtLeast(e, 70) THEN "broad"
  ELSE IF AtLeast(e, 50) THEN "partial" ELSE "thin"

VariantStability(e) ==
  IF e.ecm_status = "n/a" THEN "not_in_scope"
  ELSE IF e.variant_robust THEN "stable" ELSE "sensitive"

-----------------------------------------------------------------------------
(* The dispatcher and the triangle test.                                   *)

Distinct(s) == {s[i] : i \in DOMAIN s}

\* _post_process of a valid payload; the bands the subagent claims are not
\* looked at.
PostProcess(e) ==
  [question_id  |-> e.question_id,
   affirms      |-> e.affirms,
   breadth      |-> LexicalBreadth(e),
   directness   |-> e.directness,
   stability    |-> VariantStability(e),
   anchors      |-> Distinct(e.anchors),
   concordance  |-> Distinct(e.concordance),
   complicating |-> {c.ref : c \in Distinct(e.complicating)},
   sources_used |-> e.sources_used,
   safe         |-> e.safe]

DIRECTNESS_ORDER == <<"direct", "inferred", "analogical", "silent">>
Step(directness) == CHOOSE i \in 1 .. 4 : DIRECTNESS_ORDER[i] = directness

\* compare: prose and licences may differ, the directness by one step.
Agree(a, b) ==
  /\ \A field \in {"question_id", "affirms", "breadth", "stability",
                   "anchors", "concordance", "complicating"} : a[field] = b[field]
  /\ Step(a.directness) - Step(b.directness) \in -1 .. 1
=============================================================================
