-------------------------- MODULE SemanticDetectors --------------------------
(* The detectors that ask a language model, over what a provider answers.   *)
(* An answer of the model is any JSON: it is coerced before it is used. The *)
(* provider named "unavailable" stands in when no model is configured.      *)
EXTENDS Transcript

CONSTANTS
    NotANumber,             \* the confidence NaN, which JSON can carry
    Reply(_, _, _, _),      \* [flag, confidence] for a provider, question, pair
    FactsIn(_, _),          \* the facts a provider extracts from a text
    Support(_, _, _),       \* [class, confidence] of a fact given evidence
    CONTRADICTION_LOOKBACK,             \* 6 assistant messages
    INSTRUCTION_LOOKAHEAD,              \* 5 assistant messages
    CLAIM_SUPPORT_LOOKBACK_MESSAGES     \* 8 messages

MIN_EMIT_CONFIDENCE == 500
HIGH_CONFIDENCE_CONTRADICTION_THRESHOLD == 750
POSSIBLE_HALLUCINATION_CONFIDENCE_CAP == 700

ProviderAssessable ==
    {"supported", "contradicted", "unsupported", "insufficient_evidence"}

(***************************************************************************)
(* What is made of an answer. A flag is "true", "false", "quoted" (a JSON  *)
(* string, true whatever it says) or absent.                               *)
(***************************************************************************)
AsConfidence(c) ==
    CASE c = None -> 0
      [] c = NotANumber -> 1000     \* min(1.0, nan) is 1.0
      [] OTHER -> Max({0, Min({1000, c})})

AsFlag(flag, default) == IF flag = None THEN default ELSE flag # "false"
AsClassification(c) ==
    IF c \in ProviderAssessable THEN c ELSE "insufficient_evidence"

Ask(provider, question, a, b) ==
    LET default == question = "relevance"
        raw == Reply(provider, question, a, b)
    IN  IF provider = "unavailable"
        THEN [flag |-> default, confidence |-> 0]
        ELSE [flag |-> AsFlag(raw.flag, default),
              confidence |-> AsConfidence(raw.confidence)]

AskSupport(provider, fact, evidence) ==
    LET raw == Support(provider, fact, evidence)
    IN  IF provider = "unavailable"
        THEN [class |-> "insufficient_evidence", confidence |-> 0]
        ELSE [class |-> AsClassification(raw.class),
              confidence |-> AsConfidence(raw.confidence)]

(* Blank facts are dropped; without facts the whole claim is the fact.      *)
FactsOf(provider, text) ==
    LET facts == FactsIn(provider, text)
        named == {k \in DOMAIN facts : facts[k] # None}
    IN  IF provider = "unavailable" \/ named = {} THEN <<text>>
        ELSE [k \in named |-> facts[k]]

(* A confident answer.                                                      *)
Clear(answer) == answer.confidence >= MIN_EMIT_CONFIDENCE
Affirms(answer) == Clear(answer) /\ answer.flag
Denies(answer) == Clear(answer) /\ ~answer.flag

Graded(f, severity) ==
    [type |-> f.type, about |-> f.about, cites |-> f.cites,
     confidence |-> f.confidence, severity |-> severity]

(***************************************************************************)
(* Contradiction, instruction drift and relevance                          *)
(***************************************************************************)
SaidBefore(ms, j, n) ==
    LET before == {i \in AssistantAt(ms) : i < j}
    IN  {i \in before : Cardinality({k \in before : k > i}) < n}

SaidAfter(ms, i, n) ==
    LET after == {j \in AssistantAt(ms) : j > i}
    IN  {j \in after : Cardinality({k \in after : k < j}) < n}

Conflict(provider, ms, i, j) ==
    Ask(provider, "contradiction", ms[i].text, ms[j].text)

SemanticContradictions(provider, ms) ==
    UNION {{Graded(Finding("contradiction", <<i, j>>, {ms[i].number, ms[j].number},
                           Conflict(provider, ms, i, j).confidence), "medium") :
            i \in {i \in SaidBefore(ms, j, CONTRADICTION_LOOKBACK) :
                     /\ Affirms(Ask(provider, "same_fact", ms[i].text, ms[j].text))
                     /\ Affirms(Conflict(provider, ms, i, j))}} :
           j \in AssistantAt(ms)}

Adherence(provider, ms, i, j) == Ask(provider, "drift", ms[i].text, ms[j].text)

SemanticInstructionDrift(provider, ms) ==
    UNION {{Graded(Finding("instruction_drift", <<i, j>>,
                           {ms[i].number, ms[j].number},
                           Adherence(provider, ms, i, j).confidence), "medium") :
            j \in {j \in SaidAfter(ms, i, INSTRUCTION_LOOKAHEAD) :
                     Affirms(Adherence(provider, ms, i, j))}} :
           i \in {i \in AuthoredAt(ms) : ms[i].role # "user"}}

Relevance(provider, ms, i, j) ==
    Ask(provider, "relevance", ms[i].text, ms[j].text)

SemanticRelevance(provider, ms) ==
    UNION {{Graded(Finding("topic_drift", <<i, j>>, {ms[i].number, ms[j].number},
                           Relevance(provider, ms, i, j).confidence), "low") :
            j \in {j \in SaidAfter(ms, i, 1) :
                     Denies(Relevance(provider, ms, i, j))}} :
           i \in {i \in DOMAIN ms : ms[i].role = "user"}}

(***************************************************************************)
(* Claim support: the facts of a message against nearby tool results.      *)
(***************************************************************************)
InClass(answers, class) == {k \in DOMAIN answers : answers[k].class = class}

Strongest(answers, ks) == Max({answers[k].confidence : k \in ks})

Average(answers) ==
    Rounded(SumFunction([k \in DOMAIN answers |-> answers[k].confidence]),
            Cardinality(DOMAIN answers))

(* A plausible bug: the fact the model is surest of decides.                *)
AggregateSurest(answers) ==
    LET surest == CHOOSE k \in DOMAIN answers :
                    \A j \in DOMAIN answers :
                        answers[j].confidence <= answers[k].confidence
        c == answers[surest]
    IN  [class |-> CASE c.class = "contradicted" /\ c.confidence >= 750 ->
                          "high_confidence_hallucination"
                     [] c.class = "unsupported" -> "possible_hallucination"
                     [] OTHER -> c.class,
         confidence |-> c.confidence]

(* _aggregate: the worst class among the facts decides.                     *)
Aggregate(answers) ==
    LET contradicted == InClass(answers, "contradicted")
        unsupported == InClass(answers, "unsupported")
        refuted == Strongest(answers, contradicted)
        doubt == Strongest(answers, unsupported)
        Verdict(class, confidence) == [class |-> class, confidence |-> confidence]
    IN  CASE contradicted # {} ->
               Verdict(IF refuted >= HIGH_CONFIDENCE_CONTRADICTION_THRESHOLD
                       THEN "high_confidence_hallucination"
                       ELSE "contradicted", refuted)
          [] contradicted = {} /\ unsupported # {} ->
               Verdict("possible_hallucination",
                       Min({doubt, POSSIBLE_HALLUCINATION_CONFIDENCE_CAP}))
          [] OTHER ->
               Verdict(IF InClass(answers, "supported") = DOMAIN answers
                       THEN "supported" ELSE "insufficient_evidence",
                       Average(answers))

(* A plausible bug: a severity for what is no news.                         *)
GradedInsufficient ==
    [high_confidence_hallucination |-> "critical", contradicted |-> "high",
     possible_hallucination |-> "medium", unsupported |-> "low",
     insufficient_evidence |-> "low"]

(* The severity of each verdict worth an event.                             *)
ClassificationSeverity ==
    [high_confidence_hallucination |-> "critical", contradicted |-> "high",
     possible_hallucination |-> "medium", unsupported |-> "low"]

(* The results of the messages just before i that are not errors.           *)
Evidence(ms, i) ==
    {ms[q[1]].calls[q[2]] :
        q \in {q \in UNION {{j} \X AnsweredCalls(ms[j]) :
                   j \in Max({1, i - CLAIM_SUPPORT_LOOKBACK_MESSAGES}) .. i - 1} :
               ~ms[q[1]].calls[q[2]].is_error}}

Answers(provider, ms, i) ==
    LET facts == FactsOf(provider, ms[i].text)
    IN  [k \in DOMAIN facts |-> AskSupport(provider, facts[k], Evidence(ms, i))]

CheckedClaims(ms) == {i \in AssistantAt(ms) : Evidence(ms, i) # {}}

Emitted(verdict) == verdict.class \in DOMAIN ClassificationSeverity

ClaimSupport(provider, ms) ==
    {LET verdict == Aggregate(Answers(provider, ms, i))
     IN  Graded(Finding("unsupported_claim", i, {ms[i].number}, verdict.confidence),
                ClassificationSeverity[verdict.class]) :
     i \in {i \in CheckedClaims(ms) : Emitted(Aggregate(Answers(provider, ms, i)))}}

SemanticFindings(provider, ms) ==
    SemanticContradictions(provider, ms) \cup SemanticInstructionDrift(provider, ms)
        \cup SemanticRelevance(provider, ms) \cup ClaimSupport(provider, ms)
=============================================================================
