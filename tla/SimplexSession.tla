--------------------------- MODULE SimplexSession ---------------------------
(***************************************************************************)
(* What a Simplex session is created with: the validators, their vote      *)
(* weights and certificate thresholds (node/simplex/src/utils.rs,          *)
(* session_description.rs), over the block candidates of the session.  A   *)
(* certificate is backed by validators whose weight reaches                *)
(* threshold_66 of the total; the protocol tolerates faulty validators of  *)
(* weight below threshold_33.                                              *)
(* WeightOf is the sum of get_node_weight over a set of validators, taken  *)
(* as a measure so that nothing depends on how the sum is computed.        *)
(***************************************************************************)
EXTENDS SimplexCandidates

CONSTANTS Validator, Faulty, WeightOf(_)

\* Smallest weight strictly above two thirds of the total.
threshold_66(total) == IF total = 0 THEN 0 ELSE (total * 2) \div 3 + 1

\* Smallest weight strictly above one third of the total.
threshold_33(total) == IF total = 0 THEN 0 ELSE total \div 3 + 1

TotalWeight == WeightOf(Validator)

Quorum == {Q \in SUBSET Validator : WeightOf(Q) >= threshold_66(TotalWeight)}

Honest == Validator \ Faulty

ASSUME WeightIsMeasure ==
    /\ \A S \in SUBSET Validator : WeightOf(S) \in Nat
    /\ WeightOf({}) = 0
    /\ \A S, T \in SUBSET Validator :
          WeightOf(S \cup T) + WeightOf(S \cap T) = WeightOf(S) + WeightOf(T)

ASSUME FaultyBelowThird ==
    /\ Faulty \subseteq Validator
    /\ WeightOf(Faulty) < threshold_33(TotalWeight)
=============================================================================
