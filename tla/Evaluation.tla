------------------------------ MODULE Evaluation ------------------------------
(* The evaluation harness: labelled scenarios, each scored by comparing the *)
(* types the deterministic detectors emit with the types expected. The      *)
(* first scenario is a session of any shape, grown as module Detection      *)
(* grows one; the others are those of the corpus on disk.                   *)
EXTENDS Detection

CONSTANTS
    DetectionTypes,
    Corpus,             \* scenarios on disk: [messages, expected, tolerated]
    Labels,             \* labels of the grown one: [expected, tolerated]
    MaxScenario         \* bound on its length

VARIABLES
    phase,              \* "writing", "scoring", "raised" or "refused"
    scenarios, results, metrics, calibration

harness == <<phase, scenarios, results, metrics, calibration>>
vars == <<messages, harness>>

INFORMATIONAL_TYPES == {"context_growth", "behavior_shift", "topic_drift"}
ScoredTypes == DetectionTypes \ INFORMATIONAL_TYPES

(* Labels name detection types, as the detectors do.                        *)
ASSUME EvaluationAssumption ==
    /\ IsFiniteSet(DetectionTypes)
    /\ {"contradiction", "stale_context", "fact_loss", "omission",
        "instruction_drift", "tool_result_misuse", "repetition", "topic_drift",
        "behavior_shift", "context_growth"} \subseteq DetectionTypes
    /\ IsSequence(Corpus)
    /\ \A s \in ToSet(Corpus) :
         IsTranscript(s.messages) /\ s.expected \subseteq DetectionTypes
    /\ \A label \in Labels : label.expected \subseteq DetectionTypes
    /\ MaxNumber \in Nat

(***************************************************************************)
(* The verdict on one type of one scenario                                 *)
(***************************************************************************)
(* A plausible bug: tolerated types count as false positives.               *)
StrictVerdict(s, emitted, t) ==
    CASE t \in s.expected /\ t \in emitted -> "tp"
      [] t \in s.expected /\ t \notin emitted -> "fn"
      [] t \notin s.expected /\ t \notin emitted -> "tn"
      [] t \notin s.expected /\ t \in emitted -> "fp"

Verdict(s, emitted, t) ==
    CASE t \in s.expected /\ t \in emitted -> "tp"
      [] t \in s.expected /\ t \notin emitted -> "fn"
      [] t \notin s.expected /\ t \notin emitted -> "tn"
      [] t \notin s.expected /\ t \in emitted ->
           IF t \in s.tolerated THEN "uncounted" ELSE "fp"

EmittedTypes(signals) == {f.type : f \in signals}
Missed(r) == r.scenario.expected \ EmittedTypes(r.signals)
Spurious(r) ==
    EmittedTypes(r.signals)
        \ (r.scenario.expected \cup r.scenario.tolerated \cup INFORMATIONAL_TYPES)
ExactMatch(r) == Missed(r) = {} /\ Spurious(r) = {}

(***************************************************************************)
(* Calibration: the buckets and what falls into one                        *)
(***************************************************************************)
Edges == <<0, 500, 600, 700, 800, 900, 1000>>
Buckets == 1 .. Len(Edges) - 1

(* A plausible bug: the last bucket is half open, too.                      *)
InHalfOpenBucket(b, confidence) ==
    Edges[b] <= confidence /\ confidence < Edges[b + 1]

InBucket(b, confidence) ==
    \/ Edges[b] <= confidence /\ confidence < Edges[b + 1]
    \/ Edges[b + 1] = 1000 /\ confidence = 1000

(* The signals that calibration is about.                                   *)
Measured(signals) == {f \in signals : f.type \notin INFORMATIONAL_TYPES}

Calibrated(s, signals) ==
    [b \in Buckets |->
        LET fallen == {f \in Measured(signals) : InBucket(b, f.confidence)}
        IN  [signals |-> calibration[b].signals + Cardinality(fallen),
             correct |-> calibration[b].correct
                 + Cardinality({f \in fallen : f.type \in s.expected})]]

(***************************************************************************)
(* The harness                                                             *)
(***************************************************************************)
Verdicts == {"tp", "fp", "fn", "tn", "uncounted"}
NoCounts == [v \in Verdicts |-> 0]

Init ==
    /\ SessionInit
    /\ phase = "writing"
    /\ scenarios = << >>
    /\ results = << >>
    /\ metrics = [t \in DetectionTypes |-> NoCounts]
    /\ calibration = [b \in Buckets |-> [signals |-> 0, correct |-> 0]]

Write == phase = "writing" /\ SessionNext /\ UNCHANGED harness

(* Messages of a scenario are numbered from 1.                              *)
IsScenario == Numbers = 1 .. Len(messages) /\ Len(messages) <= MaxScenario

(* load_corpus: a type both expected and tolerated is an error.             *)
LoadCorpus(label) ==
    /\ phase = "writing"
    /\ IsScenario
    /\ phase' = IF label.expected \cap label.tolerated = {}
                THEN "scoring" ELSE "refused"
    /\ scenarios' = <<[messages |-> messages, expected |-> label.expected,
                       tolerated |-> label.tolerated]>> \o Corpus
    /\ UNCHANGED <<messages, results, metrics, calibration>>

Current == scenarios[Len(results) + 1]

Score ==
    /\ phase = "scoring"
    /\ Len(results) < Len(scenarios)
    /\ ~OmissionRaises(Current.messages)
    /\ LET signals == AllFindings(Current.messages)
           Judged(t) == Verdict(Current, EmittedTypes(signals), t)
       IN  /\ results' = Append(results, [scenario |-> Current, signals |-> signals])
           /\ metrics' = [t \in DetectionTypes |->
                            [metrics[t] EXCEPT ![Judged(t)] = @ + 1]]
           /\ calibration' = Calibrated(Current, signals)
    /\ UNCHANGED <<messages, phase, scenarios>>

(* The harness has no engine around its detectors: an exception ends it.    *)
ScoreRaises ==
    /\ phase = "scoring"
    /\ Len(results) < Len(scenarios)
    /\ OmissionRaises(Current.messages)
    /\ phase' = "raised"
    /\ UNCHANGED <<messages, scenarios, results, metrics, calibration>>

Next ==
    \/ Write
    \/ \E label \in Labels : LoadCorpus(label)
    \/ Score
    \/ ScoreRaises

Spec == Init /\ [][Next]_vars

(***************************************************************************)
(* Properties                                                              *)
(***************************************************************************)
(* What rows of the report add up to: those of the headline are the scored  *)
(* types, those of both tables are all types.                               *)
TotalOf(types, count) == SumFunction([t \in types |-> metrics[t][count]])

(* Every false positive of the headline is a spurious type of some scenario;*)
(* the false negatives of both tables are all the missed types of the list  *)
(* of mismatches, those of the headline the scored ones among them; every   *)
(* support is an expected type.                                             *)
TotalsAddUp ==
    /\ TotalOf(ScoredTypes, "fp") =
         SumFunction([k \in DOMAIN results |-> Cardinality(Spurious(results[k]))])
    /\ TotalOf(DetectionTypes, "fn") =
         SumFunction([k \in DOMAIN results |-> Cardinality(Missed(results[k]))])
    /\ TotalOf(ScoredTypes, "fn") =
         SumFunction([k \in DOMAIN results |->
             Cardinality(Missed(results[k]) \cap ScoredTypes)])
    /\ \A types \in {ScoredTypes, DetectionTypes} :
         TotalOf(types, "tp") + TotalOf(types, "fn") =
             SumFunction([k \in DOMAIN results |->
                 Cardinality(results[k].scenario.expected \cap types)])

HeadlineErrors == TotalOf(ScoredTypes, "fp") + TotalOf(ScoredTypes, "fn")

(* The tables of the report and its list of mismatching scenarios, which    *)
(* are computed apart, add up. A headline with errors comes with a mismatch *)
(* in the list. The converse has an exception: `missed` and `exact_match`   *)
(* do not leave the informational types out as the headline does, so beside *)
(* a headline without errors the list may name a scenario, but only one     *)
(* that expects an informational type and misses it.                        *)
TotalsMatchScenarios ==
    /\ TotalsAddUp
    /\ HeadlineErrors > 0 => \E k \in DOMAIN results : ~ExactMatch(results[k])
    /\ HeadlineErrors = 0 =>
         \A k \in DOMAIN results :
             \/ ExactMatch(results[k])
             \/ Missed(results[k]) \cap INFORMATIONAL_TYPES # {}

(* Every signal that counts falls into exactly one bucket of the            *)
(* calibration table, whichever detector computed its confidence.           *)
EverySignalCalibrated ==
    SumFunction([b \in Buckets |-> calibration[b].signals])
        = SumFunction([k \in DOMAIN results |->
              Cardinality(Measured(results[k].signals))])
=============================================================================
