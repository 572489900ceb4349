------------------------- MODULE MCAttestationStore -------------------------
(***************************************************************************)
(* Model-checking instance of AttestationStore and of the tools that read  *)
(* it: for each pipeline payloads that are good, mislabelled and broken,   *)
(* for every question.  The broken ones each break one rule.               *)
(***************************************************************************)
EXTENDS DocumentTools, TLC

Source(license, flag) == [license |-> license, redistribute |-> flag]
Free    == Source("CC-BY-SA-4.0", TRUE)
Limited == Source("CC-BY-NC-4.0", FALSE)
Mixed   == Source("macula-hebrew", TRUE)
Eula    == Source("SBLGNT-EULA", FALSE)
MCOthers == {{}, {Free}, {Free, Limited}}

Verdict(q) ==
  [well_formed |-> TRUE, id |-> q, question_id |-> q, affirms |-> "true", directness |-> "direct",
   summary_words |-> 200, plain |-> TRUE, pan_canonical |-> TRUE, variant_robust |-> TRUE,
   ecm_status |-> "ecm-published", anchors |-> <<"G3056", "G3056">>, cross_refs |-> 12,
   concordance |-> <<"G3056">>, complicating |-> <<[ref |-> "John.1.1", addressed |-> TRUE]>>,
   sources_used |-> {Free}, safe |-> TRUE, reason |-> FALSE]
LimitedVerdict(q) == [Verdict(q) EXCEPT !.sources_used = {Free, Limited}, !.safe = FALSE,
                                        !.reason = TRUE, !.affirms = "false"]
EulaVerdict(q) == [LimitedVerdict(q) EXCEPT !.sources_used = {Eula}]
Verdicts(q) ==
  {Verdict(q), LimitedVerdict(q), EulaVerdict(q),
   [Verdict(q) EXCEPT !.sources_used = {Limited}],
   [Verdict(q) EXCEPT !.sources_used = {Mixed}],
   [LimitedVerdict(q) EXCEPT !.reason = FALSE],
   [Verdict(q) EXCEPT !.directness = "silent"]}

Witness(id) ==
  [anchor_fits |-> TRUE, witness_id |-> id, anchor_id |-> id, attestation_type |-> "corroborates",
   confidence |-> 80, license |-> "PD", redistribute |-> TRUE, redact |-> FALSE, masked |-> FALSE]
Silence(q) ==
  [well_formed |-> TRUE, id |-> q, question_id |-> q, attestation_present |-> FALSE,
   witnesses |-> <<>>, summary_words |-> 0, sources_used |-> {}, safe |-> TRUE, reason |-> FALSE]
Scroll == [Witness("1qs.col1.line1") EXCEPT !.license = "CC-BY-NC-4.0", !.redistribute = FALSE]
Attested(q) ==
  [Silence(q) EXCEPT !.attestation_present = TRUE, !.witnesses = <<Scroll>>, !.summary_words = 80,
                     !.sources_used = {Limited}, !.safe = FALSE, !.reason = TRUE]
Attestations(q) ==
  {Silence(q), Attested(q),
   [Attested(q) EXCEPT !.safe = TRUE, !.reason = FALSE],
   [Silence(q) EXCEPT !.safe = FALSE],
   [Attested(q) EXCEPT !.witnesses = <<Scroll, Scroll>>],
   [Attested(q) EXCEPT !.attestation_present = FALSE]}

MCAnswers ==
  [p \in Pipelines |-> UNION {IF p = "evidence" THEN Verdicts(q) ELSE Attestations(q) : q \in Questions}]

\* Runs are interchangeable, and so are questions: the code reads files in
\* name order, the model in any order.
Symmetry == Permutations(Runs) \cup Permutations(Questions)
=============================================================================
