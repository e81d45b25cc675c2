---------------------------- MODULE BatchAdmission ----------------------------
(***************************************************************************)
(* managers/dynamic_batch_admission.py and the request side of dynamic     *)
(* batching in managers/scheduler.py: which requests may share a batch and *)
(* how large it may grow.                                                  *)
(*                                                                         *)
(* The model, the device and the offload setting are those of one          *)
(* deployment, so Rules holds the rules that match them and only the       *)
(* resolution is left to compare.  Requests of one signature have the same *)
(* sampling parameters, hence one resolution, cost and number of outputs.  *)
(***************************************************************************)
EXTENDS Naturals, Sequences, SequencesExt

CONSTANTS
  Signatures,   \* values of _build_dynamic_batch_signature
  Resolution,   \* resolution_key, per signature
  Cost,         \* estimate_request_cost, per signature
  Rules,        \* batching rules: [resolution, max_batch_size, max_cost]
  MaxSize       \* batching_max_size

AnyResolution == "*"
NoLimit       == 0    \* max_cost is None; a given one is positive

ASSUME AdmissionAssumption ==
  /\ MaxSize \in Nat \ {0}
  /\ Cost \in [Signatures -> Nat \ {0}]
  /\ \A rule \in Rules : rule.max_batch_size \in Nat \ {0} /\ rule.max_cost \in Nat

Enabled == MaxSize > 1

MatchingRules(sig) ==
  {rule \in Rules : rule.resolution \in {AnyResolution, Resolution[sig]}}

(* limit_for                                                               *)
MaxBatchSize(sig) ==
  Min({MaxSize} \cup {rule.max_batch_size : rule \in MatchingRules(sig)})

CostCaps(sig) == {rule.max_cost : rule \in MatchingRules(sig)} \ {NoLimit}

WithinCost(sig, cost) == \A cap \in CostCaps(sig) : cost <= cap

(* A batch is a sequence of signatures.                                    *)
EstimateBatchCost(sigs) == SumFunction([k \in DOMAIN sigs |-> Cost[sigs[k]]])

(* reject_reason_for_candidate is None                                     *)
Admits(sigs, candidate) ==
  LET proposed == Append(sigs, candidate)
  IN  /\ Len(proposed) <= MaxBatchSize(sigs[1])
      /\ WithinCost(sigs[1], EstimateBatchCost(proposed))

(* batch_is_full: another request like the first one would not fit         *)
BatchIsFull(sigs) ==
  \/ Len(sigs) >= MaxBatchSize(sigs[1])
  \/ ~WithinCost(sigs[1], EstimateBatchCost(Append(sigs, sigs[1])))
===============================================================================
