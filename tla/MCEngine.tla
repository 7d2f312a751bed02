------------------------------ MODULE MCEngine -------------------------------
(* Small instances of Engine: a few of the registered detectors, in their   *)
(* order, with the penalties of weak, strong and many findings.             *)
EXTENDS Engine

(* Two types in one dimension, one type with two detectors, and a dimension *)
(* that only an LLM can assess.                                             *)
SomeDetectors ==
    <<"omission", "contradiction", "fact_loss", "semantic_contradiction",
      "claim_support">>

EqualWeights == [n \in Dimensions |-> 1]

(* One dimension counts double, two not at all.                             *)
UnequalWeights ==
    [n \in Dimensions |-> CASE n = "consistency" -> 2
                            [] n \in {"relevance", "information_retention"} -> 0
                            [] OTHER -> 1]

(* Every penalty of these instances shows through the rounding.             *)
ASSUME InstanceWeighs == FindingsWeigh
=============================================================================
