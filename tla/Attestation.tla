----------------------------- MODULE Attestation -----------------------------
(***************************************************************************)
(* Pipeline 4: what becomes of the payload an attestation subagent         *)
(* returns.  historical_schema validates it, the dispatcher recomputes     *)
(* whether it is safe to publish, triangle compares two of them.           *)
(*                                                                         *)
(* well_formed stands for the types, patterns and enumerations of single   *)
(* fields and for texts without dashes; the confidence of a witness is in  *)
(* percent.                                                                *)
(***************************************************************************)
EXTENDS LicenseGuard, Integers, Sequences, FiniteSets

\* Witness._consistency
ValidWitness(w) ==
  /\ w.anchor_fits /\ w.witness_id = w.anchor_id
  /\ w.license \in DOMAIN LicenseRegistry /\ w.redistribute = LicenseRegistry[w.license]
  /\ w.redact => w.masked

\* HistoricalAttestation.model_validate.  The sources used are taken as they
\* are: neither their flags nor their being the witnesses' is checked.
Valid(h) ==
  /\ h.well_formed
  /\ h.id = h.question_id
  /\ h.attestation_present = (h.witnesses # <<>>)
  /\ h.summary_words \in (IF h.attestation_present THEN 50 ELSE 0) .. 300
  /\ \A i \in DOMAIN h.witnesses : ValidWitness(h.witnesses[i])
  /\ \A i, j \in DOMAIN h.witnesses :
       h.witnesses[i].witness_id = h.witnesses[j].witness_id => i = j

\* recompute_evidence_safe_to_publish (mutant: the subagent is believed)
SafeAsClaimed(h) == h.safe
SafeToPublish(h) == \A s \in h.sources_used : BulkAllowed(s.license)

\* _post_process of a valid payload; what is recomputed has a reason, or none.
PostProcess(h) ==
  LET safe == SafeToPublish(h) IN
  [question_id  |-> h.question_id,
   present      |-> h.attestation_present,
   witnesses    |-> {h.witnesses[i] : i \in DOMAIN h.witnesses},
   sources_used |-> h.sources_used,
   safe         |-> safe,
   reason       |-> IF safe = h.safe THEN h.reason ELSE ~safe]

\* compare: the same witnesses, of the same type, with confidences that are no
\* more than 0.05 apart.  (The code compares floats: exactly 0.05 is within the
\* tolerance or not by how the two confidences round.)
Agree(a, b) ==
  /\ a.question_id = b.question_id /\ a.present = b.present
  /\ {w.witness_id : w \in a.witnesses} = {w.witness_id : w \in b.witnesses}
  /\ \A v \in a.witnesses, w \in b.witnesses : v.witness_id = w.witness_id =>
       /\ v.attestation_type = w.attestation_type
       /\ v.confidence - w.confidence \in -5 .. 5
=============================================================================
