----------------------------- MODULE MCDetection -----------------------------
(* Small instances of Evaluation: a handful of things to say about a limit, *)
(* and two models with opposite habits.                                     *)
EXTENDS Evaluation, TLC

Value(name, numbers) == [name |-> name, numbers |-> numbers, short |-> FALSE]
Five == Value("5 seconds", <<5>>)
Thirty == Value("30 seconds", <<30>>)
Soon == Value("decided soon", << >>)

Silence ==
    [statements |-> << >>, terms |-> << >>, words |-> {}, numbers |-> {},
     wordings |-> {}, forbids |-> << >>, marked |-> FALSE, hedges |-> FALSE,
     acknowledges |-> FALSE, size |-> 20]

States(value, size) ==
    [Silence EXCEPT !.statements = <<[subject |-> "limit", value |-> value]>>,
                    !.terms = <<"limit">>, !.words = {"limit", value.name},
                    !.numbers = ToSet(value.numbers), !.wordings = {value},
                    !.size = size]

Hedge ==
    [Silence EXCEPT !.terms = <<"limit", "limit">>, !.words = {"limit"},
                    !.hedges = TRUE, !.acknowledges = TRUE, !.size = 45]

(* "Remember: never mention the limit."                                     *)
Ban ==
    [Silence EXCEPT !.terms = <<"limit">>, !.words = {"remember", "mention"},
                    !.forbids = <<"limit">>, !.marked = TRUE, !.size = 26]

(* "You may mention the limit: call me in 30 minutes, or once decided       *)
(* soon." States nothing, supplies one value by its number and one by its   *)
(* wording, and is on the topic of the ban.                                 *)
Update ==
    [Silence EXCEPT !.terms = <<"limit">>,
                    !.words = {"mention", "call", "30 minutes"},
                    !.numbers = {30}, !.wordings = {Soon}, !.size = 61]

Says(role, text) == [role |-> role, text |-> text, calls |-> << >>]

SomeSayings ==
    {[Says("assistant", States(Five, 20)) EXCEPT !.calls = <<None>>],
     Says("assistant", States(Thirty, 21)), Says("assistant", States(Soon, 20)),
     Says("assistant", Hedge), Says("system", Ban), Says("user", Update)}

SomeResults ==
    {[is_error |-> TRUE, words |-> {}],
     [is_error |-> FALSE, words |-> {"30 seconds"}]}

(* SequenceMatcher's ratio: the two durations are nearly the same string,   *)
(* and so are the sentences around them.                                    *)
SomeSimilarity(a, b) ==
    CASE a = b -> 1000
      [] {a, b} = {Five, Thirty} -> 842
      [] {a, b} = {States(Five, 20), States(Thirty, 21)} -> 930
      [] OTHER -> 250

(***************************************************************************)
(* Two models: "keen" affirms everything, "wary" doubts everything.        *)
(***************************************************************************)
SomeReply(provider, question, a, b) ==
    CASE provider = "keen" -> [flag |-> "quoted", confidence |-> 1500]
      [] question = "relevance" -> [flag |-> "false", confidence |-> 600]
      [] OTHER -> [flag |-> None, confidence |-> NotANumber]

(* "keen" finds two facts in a text, one of them in the results, too.       *)
SomeFacts(provider, text) ==
    IF provider = "keen"
    THEN <<None, "aside", IF text.size = 20 THEN "estimate" ELSE "claim">>
    ELSE << >>

SomeSupport(provider, fact, evidence) ==
    CASE provider = "wary" ->
           [class |-> "high_confidence_hallucination", confidence |-> 950]
      [] provider = "keen" /\ fact = "aside" ->
           [class |-> "supported", confidence |-> 900]
      [] provider = "keen" /\ fact # "aside" ->
           [class |-> "contradicted",
            confidence |-> IF fact = "estimate" THEN 740 ELSE 800]

FaintSupport(provider, fact, evidence) ==
    [class |-> "unsupported", confidence |-> 100]

(***************************************************************************)
(* The corpus and the labels of the first scenario                         *)
(***************************************************************************)
AllTypes ==
    {"contradiction", "instruction_drift", "stale_context", "repetition",
     "unsupported_claim", "tool_result_misuse", "context_growth", "omission",
     "topic_drift", "behavior_shift", "fact_loss"}

Numbered(sayings) ==
    [i \in DOMAIN sayings |-> [number |-> i] @@ sayings[i]]

SomeCorpus ==
    <<[messages |-> Numbered(<<Says("assistant", States(Five, 20)),
                               Says("assistant", States(Five, 20))>>),
       expected |-> {"repetition", "topic_drift"}, tolerated |-> {}]>>

SomeLabels ==
    {[expected |-> {}, tolerated |-> {"repetition"}],
     [expected |-> {"contradiction", "omission"}, tolerated |-> {}],
     [expected |-> {"fact_loss"}, tolerated |-> {"fact_loss"}]}
=============================================================================
