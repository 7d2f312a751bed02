------------------------------- MODULE Engine --------------------------------
(***************************************************************************)
(* One analysis run: AnalysisEngine.run over its detectors                 *)
(* (backend/app/analysis/engine.py), the LLM calls of the semantic ones    *)
(* with their retries and shared budget (services/llm/openai_provider.py), *)
(* the health score (analysis/health.py) and the status run_analysis       *)
(* derives from both (services/analysis.py).                               *)
(*                                                                         *)
(* What a detector looks for is left open: it may report signals at any    *)
(* point, or raise.  Its signals of a run are one record with their total  *)
(* penalty.  Scores and penalties are in thousandths, as rounded by the    *)
(* code.  A definition whose comment calls it a mutant takes no part in    *)
(* the specification: it is a plausible bug a property must notice.        *)
(***************************************************************************)
EXTENDS Integers, Sequences, FiniteSetsExt

CONSTANTS
    Detectors,           \* the registered detectors, in the order they run
    Penalties,           \* penalties a finding may add, in thousandths
    MaxCalls,            \* LLM_MAX_CALLS_PER_ANALYSIS
    MaxRetries,          \* LLM_MAX_RETRIES
    ProviderConfigured,  \* whether LLM_API_KEY is set
    Weights,             \* the weight of each health dimension
    None                 \* no score

(* The one detection type each detector declares.                           *)
TypeOf ==
    [context_growth             |-> "CONTEXT_GROWTH",
     repetition                 |-> "REPETITION",
     omission                   |-> "OMISSION",
     instruction_drift          |-> "INSTRUCTION_DRIFT",
     contradiction              |-> "CONTRADICTION",
     stale_context              |-> "STALE_CONTEXT",
     tool_result_neglect        |-> "TOOL_RESULT_MISUSE",
     topic_drift                |-> "TOPIC_DRIFT",
     behavior_shift             |-> "BEHAVIOR_SHIFT",
     fact_loss                  |-> "FACT_LOSS",
     semantic_contradiction     |-> "CONTRADICTION",
     semantic_instruction_drift |-> "INSTRUCTION_DRIFT",
     semantic_relevance         |-> "TOPIC_DRIFT",
     claim_support              |-> "UNSUPPORTED_CLAIM"]

Semantic == {"semantic_contradiction", "semantic_instruction_drift",
             "semantic_relevance", "claim_support"}

(* The detection types that lower each sub-score.                           *)
TypesOf ==
    [consistency           |-> {"CONTRADICTION"},
     instruction_adherence |-> {"INSTRUCTION_DRIFT"},
     information_retention |-> {"FACT_LOSS", "OMISSION"},
     relevance             |-> {"REPETITION"},
     tool_utilization      |-> {"TOOL_RESULT_MISUSE"},
     hallucination_risk    |-> {"UNSUPPORTED_CLAIM"}]

Dimensions == DOMAIN TypesOf
Names == {Detectors[i] : i \in DOMAIN Detectors}

ASSUME EngineAssumption ==
    /\ Detectors \in Seq(DOMAIN TypeOf) \ {<<>>}
    /\ \A i, j \in DOMAIN Detectors : Detectors[i] = Detectors[j] => i = j
    /\ Penalties \subseteq Nat \ {0}
    /\ MaxCalls \in Nat \ {0} /\ MaxRetries \in Nat
    /\ ProviderConfigured \in BOOLEAN
    /\ Weights \in [Dimensions -> Nat]

ASSUME NoneAssumption == None \notin 0 .. 1000

VARIABLES
    turn,      \* the position of the detector that runs
    phase,     \* what that detector is doing
    pending,   \* the penalty of what it has found so far
    attempt,   \* the attempt of the LLM call in progress
    calls,     \* the LLM calls each detector made in this run
    requests,  \* history: HTTP requests those calls sent
    signals,   \* the findings of completed detectors
    outcome,   \* how each detector ended
    scores,    \* the score of each dimension
    overall,   \* the overall score
    status     \* the status of the run

vars == <<turn, phase, pending, attempt, calls, requests, signals, outcome,
          scores, overall, status>>
results == <<scores, overall, status>>

Current == Detectors[turn]

Init ==
    /\ turn = 1
    /\ phase = "detect"
    /\ pending = 0
    /\ attempt = 0 /\ requests = 0
    /\ calls = [d \in Names |-> 0]
    /\ signals = {}
    /\ outcome = [d \in Names |-> "not_run"]
    /\ scores = [n \in Dimensions |-> None]
    /\ overall = None
    /\ status = "running"

-----------------------------------------------------------------------------
(* The engine's loop: a detector returns all its signals, or raises and     *)
(* returns none.                                                            *)

NextDetector ==
    /\ turn' = turn + 1
    /\ phase' = IF turn = Len(Detectors) THEN "score" ELSE "detect"
    /\ pending' = 0
    /\ attempt' = 0

Return ==
    /\ signals' = IF pending = 0 THEN signals
                  ELSE signals \cup {[detector |-> Current,
                                      type |-> TypeOf[Current],
                                      penalty |-> pending]}
    /\ outcome' = [outcome EXCEPT ![Current] = "ok"]
    /\ NextDetector
    /\ UNCHANGED <<calls, requests, results>>

(* Mutant of Raise: signals are collected one by one, as from a generator.  *)
RaiseMidway(error) ==
    /\ signals' = IF pending = 0 THEN signals
                  ELSE signals \cup {[detector |-> Current,
                                      type |-> TypeOf[Current],
                                      penalty |-> pending]}
    /\ outcome' = [outcome EXCEPT ![Current] = error]
    /\ NextDetector
    /\ UNCHANGED <<calls, results>>

(* Mutant of Raise: the detector is run again.                              *)
RaiseAndRepeat(error) ==
    /\ outcome' = [outcome EXCEPT ![Current] = error]
    /\ phase' = "detect"
    /\ pending' = 0 /\ attempt' = 0
    /\ UNCHANGED <<turn, signals, calls, results>>

Raise(error) ==
    /\ outcome' = [outcome EXCEPT ![Current] = error]
    /\ NextDetector
    /\ UNCHANGED <<signals, calls, results>>

(* A deterministic detector finds something, or has looked at everything,   *)
(* or raises.  A semantic one without a provider gets only answers of       *)
(* confidence 0, so it finds nothing.                                       *)
Find ==
    /\ phase = "detect"
    /\ Current \notin Semantic
    /\ pending = 0
    /\ pending' \in Penalties
    /\ UNCHANGED <<turn, phase, attempt, calls, requests, signals, outcome, results>>

DetectorReturns == phase = "detect" /\ Return
DetectorRaises == phase = "detect" /\ Raise("failed") /\ UNCHANGED requests

-----------------------------------------------------------------------------
(* _complete_json: one budget for the provider of the run, counted once per *)
(* call, not per attempt.                                                   *)

CallsMade == SumFunction(calls)

BeginCall ==
    /\ phase = "detect"
    /\ Current \in Semantic
    /\ ProviderConfigured
    /\ CallsMade < MaxCalls
    /\ calls' = [calls EXCEPT ![Current] = @ + 1]
    /\ phase' = "request"
    /\ UNCHANGED <<turn, pending, attempt, requests, signals, outcome, results>>

BudgetExhausted ==
    /\ phase = "detect"
    /\ Current \in Semantic
    /\ ProviderConfigured
    /\ CallsMade >= MaxCalls
    /\ Raise("exhausted")
    /\ UNCHANGED requests

(* A usable answer: the detector may turn it into a signal, and goes on.    *)
CallAnswered ==
    /\ phase = "request"
    /\ requests' = requests + 1
    /\ pending' \in {pending} \cup {pending + p : p \in Penalties}
    /\ attempt' = 0
    /\ phase' = "detect"
    /\ UNCHANGED <<turn, calls, signals, outcome, results>>

(* Mutant of AttemptsLeft: the number of retries taken for an index.        *)
OneMoreAttempt == attempt <= MaxRetries

AttemptsLeft == attempt < MaxRetries

(* A timeout, a connection error, or a 408, 409, 429 or 5xx: try again.     *)
CallRetried ==
    /\ phase = "request"
    /\ AttemptsLeft
    /\ attempt' = attempt + 1
    /\ requests' = requests + 1
    /\ UNCHANGED <<turn, phase, pending, calls, signals, outcome, results>>

(* The same on the last attempt.                                            *)
CallGivenUp ==
    /\ phase = "request"
    /\ ~AttemptsLeft
    /\ requests' = requests + 1
    /\ Raise("failed")

(* Any other 4xx, or a body that cannot be parsed: no retry.                *)
CallRejected ==
    /\ phase = "request"
    /\ requests' = requests + 1
    /\ Raise("failed")

-----------------------------------------------------------------------------
(* compute_health_score and the status of the run                           *)

Failed == {d \in Names : outcome[d] \in {"failed", "exhausted"}}
Completed == {d \in Names : outcome[d] = "ok"}
TypesAmong(S) == {TypeOf[d] : d \in S}
Assessed == TypesAmong(Completed) \ TypesAmong(Failed)

PenaltiesOf(found) == [s \in found |-> s.penalty]

(* Mutant of Penalty: semantic findings are informational.                  *)
DeterministicPenalty(n) ==
    SumFunction(PenaltiesOf({s \in signals : /\ s.type \in TypesOf[n]
                                            /\ s.detector \notin Semantic}))

Penalty(n) ==
    SumFunction(PenaltiesOf({s \in signals : s.type \in TypesOf[n]}))

(* Mutant of ScoreFor: no floor.                                            *)
UnboundedScore(n) ==
    IF TypesOf[n] \cap Assessed = {} THEN None ELSE 1000 - Penalty(n)

ScoreFor(n) ==
    IF TypesOf[n] \cap Assessed = {} THEN None
    ELSE IF Penalty(n) > 1000 THEN 0 ELSE 1000 - Penalty(n)

(* A weighted average of the assessed dimensions, rounded; their mean when  *)
(* their weights are all 0.                                                 *)
Rounded(sum, count) == (2 * sum + count) \div (2 * count)

(* Mutant of Overall: what was not assessed counts as clean.                *)
OverallOfAll(score) ==
    LET weight == [n \in Dimensions |-> 1 + Weights[n]]
        clean(n) == IF score[n] = None THEN 1000 ELSE score[n]
    IN  Rounded(SumFunction([n \in Dimensions |-> clean(n) * weight[n]]),
                SumFunction(weight))

AssessedIn(score) == {n \in Dimensions : score[n] # None}

WeightsIn(assessed) ==
    [n \in assessed |->
        IF \A m \in assessed : Weights[m] = 0 THEN 1 ELSE Weights[n]]

Overall(score) ==
    LET assessed == AssessedIn(score)
        weight == WeightsIn(assessed)
    IN  IF assessed = {} THEN None
        ELSE Rounded(SumFunction([n \in assessed |-> score[n] * weight[n]]),
                     SumFunction(weight))

Score ==
    /\ phase = "score"
    /\ scores' = [n \in Dimensions |-> ScoreFor(n)]
    /\ overall' = Overall(scores')
    /\ status' = IF Failed = {} THEN "completed"
                 ELSE IF overall' = None THEN "failed" ELSE "partial"
    /\ phase' = "done"
    /\ UNCHANGED <<turn, pending, attempt, calls, requests, signals, outcome>>

-----------------------------------------------------------------------------
Next ==
    \/ Find
    \/ DetectorReturns
    \/ DetectorRaises
    \/ BeginCall
    \/ BudgetExhausted
    \/ CallAnswered
    \/ CallRetried
    \/ CallGivenUp
    \/ CallRejected
    \/ Score

Spec == Init /\ [][Next]_vars

(* The request thread runs on; every HTTP attempt has a timeout.            *)
FairSpec == Spec /\ WF_vars(Next)

-----------------------------------------------------------------------------
TypeOK ==
    /\ turn \in 1 .. Len(Detectors) + 1
    /\ phase \in {"detect", "request", "score", "done"}
    /\ pending \in Nat /\ attempt \in 0 .. MaxRetries
    /\ calls \in [Names -> Nat] /\ requests \in Nat
    /\ signals \subseteq [detector : Names, type : {TypeOf[d] : d \in Names},
                          penalty : Nat \ {0}]
    /\ outcome \in [Names -> {"not_run", "ok", "failed", "exhausted"}]
    /\ scores \in [Dimensions -> {None} \cup 0 .. 1000]
    /\ overall \in {None} \cup 0 .. 1000
    /\ status \in {"running", "completed", "partial", "failed"}

(* What a run may cost: no more than MaxCalls calls, each sent at most      *)
(* MaxRetries + 1 times, all semantic detectors together.                   *)
CostBounded ==
    /\ CallsMade <= MaxCalls
    /\ requests <= MaxCalls * (MaxRetries + 1)

(* A detector that raised leaves no finding behind, and one that did not    *)
(* get its turn has none.                                                   *)
SignalsOfCompletedDetectors ==
    \A s \in signals : outcome[s.detector] = "ok"

(* Rounding to thousandths hides a finding in a dimension that weighs next  *)
(* to nothing.  It does not when every penalty outweighs half a thousandth  *)
(* of the overall score: with the six equal weights of DEFAULT_WEIGHTS,     *)
(* every penalty of more than 3 thousandths.                                *)
FindingsWeigh ==
    \A p \in Penalties : \A n \in Dimensions :
        Weights[n] > 0 =>
            2 * ((IF p < 1000 THEN p ELSE 1000) * Weights[n]) > SumFunction(Weights)

(* A finding that reached the result shows in the score: a dimension is     *)
(* never perfect, nor is the run's overall score when the dimension weighs, *)
(* while a signal that counts against it is reported.                       *)
FindingsShow ==
    phase = "done" =>
        \A s \in signals : \A n \in Dimensions :
            /\ s.type \in TypesOf[n]
            /\ s.penalty > 0
            => /\ scores[n] # 1000
               /\ scores[n] # None /\ Weights[n] > 0 => overall < 1000

(* The overall score lies between the worst and the best assessed dimension *)
(* and exists exactly when one was assessed; a run without it, or with a    *)
(* failed detector, is never reported as completed.                         *)
VerdictConsistent ==
    phase = "done" =>
        LET assessed == AssessedIn(scores) IN
        /\ (overall = None) = (assessed = {})
        /\ overall # None =>
             /\ \E n \in assessed : scores[n] <= overall
             /\ \E n \in assessed : scores[n] >= overall
        /\ (status = "completed") = (Completed = Names)
        /\ status = "partial" => overall # None
        /\ status = "failed" => overall = None

(* A run always ends with a verdict, whatever raises or times out.          *)
RunEnds == <>(phase = "done")

(* AnalysisEngine.run: "a type whose detector failed ... must not be scored *)
(* as clean".  A dimension of two types is, when the other one was looked   *)
(* at.                                                                      *)
FailedTypeNotClean ==
    phase = "done" =>
        \A d \in Failed : \A n \in Dimensions :
            TypeOf[d] \in TypesOf[n] => scores[n] # 1000

=============================================================================
