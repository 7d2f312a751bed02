------------------------- MODULE StatementDetectors -------------------------
(* The detectors that follow what the assistant states of a subject:        *)
(* contradiction, stale context and fact loss.                              *)
EXTENDS Transcript

CONSTANT STALENESS_TURN_THRESHOLD       \* 10

VALUE_DIFFERENCE_THRESHOLD == 600

(***************************************************************************)
(* Contradiction: consecutive statements of one subject.                   *)
(***************************************************************************)
ValueAt(ms, p) == StatementAt(ms, p).value

Difference(a, b) == 1000 - Similarity(a, b)

(* A plausible bug: similar wording is taken for agreement.                 *)
WordingConflicts(a, b) == Difference(a, b) >= VALUE_DIFFERENCE_THRESHOLD

(* Numbers decide when both values carry as many of them; wording decides   *)
(* otherwise.                                                               *)
Conflicts(a, b) ==
    \/ NumbersDiffer(a, b)
    \/ /\ ~Comparable(a, b)
       /\ Difference(a, b) >= VALUE_DIFFERENCE_THRESHOLD

ContradictionConfidence(a, b) ==
    IF NumbersDiffer(a, b) THEN 800
    ELSE Min({850, Rounded(500000 + 350 * Difference(a, b), 1000)})

(* _user_supplied_value: someone else brought the new value up in between.  *)
(* Its numbers, or its wording, may stand anywhere in the message and in    *)
(* any other phrase: "call me in 30 minutes" supplies "30 seconds".         *)
Supplies(text, value) ==
    \/ /\ value.numbers # << >>
       /\ ToSet(value.numbers) \subseteq text.numbers
    \/ ~value.short /\ value \in text.wordings

(* A plausible bug: what someone says afterwards excuses, too.              *)
UserSuppliedEver(ms, earlier, later) ==
    \E i \in AuthoredAt(ms) :
        /\ ms[earlier[1]].number < ms[i].number
        /\ Supplies(ms[i].text, ValueAt(ms, later))

UserSuppliedValue(ms, earlier, later) ==
    \E i \in AuthoredAt(ms) :
        /\ ms[earlier[1]].number < ms[i].number
        /\ ms[i].number < ms[later[1]].number
        /\ Supplies(ms[i].text, ValueAt(ms, later))

Consecutive(S, p, q) ==
    /\ Before(p, q)
    /\ \A r \in S : ~(Before(p, r) /\ Before(r, q))

ContradictedPairs(ms, said) ==
    {pair \in said \X said :
        /\ Consecutive(said, pair[1], pair[2])
        /\ ~UserSuppliedValue(ms, pair[1], pair[2])
        /\ Conflicts(ValueAt(ms, pair[1]), ValueAt(ms, pair[2]))}

Contradictions(ms) ==
    UNION {{Finding("contradiction", <<subject, pair[1], pair[2]>>,
                    {ms[pair[1][1]].number, ms[pair[2][1]].number},
                    ContradictionConfidence(ValueAt(ms, pair[1]),
                                            ValueAt(ms, pair[2]))) :
            pair \in ContradictedPairs(ms, Occurrences(ms, subject))} :
           subject \in Subjects(ms)}

(***************************************************************************)
(* Stale context: turns are a difference of sequence numbers.              *)
(***************************************************************************)
StatedAt(ms, subject) == {p[1] : p \in Occurrences(ms, subject)}

LastStated(ms, subject) == ms[Max(StatedAt(ms, subject))].number

TurnsSince(ms, subject) ==
    ms[Max(AssistantAt(ms))].number - LastStated(ms, subject)

StaleContext(ms) ==
    IF Cardinality(AssistantAt(ms)) < STALENESS_TURN_THRESHOLD THEN {}
    ELSE {Finding("stale_context", subject, {LastStated(ms, subject)},
                  Min({700, Rounded(700 * TurnsSince(ms, subject),
                                    2 * STALENESS_TURN_THRESHOLD)})) :
          subject \in {s \in Subjects(ms) :
                         TurnsSince(ms, s) >= STALENESS_TURN_THRESHOLD}}

(***************************************************************************)
(* Fact loss: a subject once stated, and later hedged about.               *)
(***************************************************************************)
Established(ms, subject) == Min(StatedAt(ms, subject))

AskedBetween(ms, subject, first, last) ==
    \E i \in first + 1 .. last - 1 :
        ms[i].role = "user" /\ Mentions(ms[i].text, subject)

HedgedAbout(ms, subject) ==
    {i \in AssistantAt(ms) :
        /\ ms[i].text.hedges
        /\ ms[Established(ms, subject)].number < ms[i].number
        /\ Mentions(ms[i].text, subject)}

FactLoss(ms) ==
    UNION {LET first == Established(ms, subject)
           IN  {Finding("fact_loss", <<subject, i>>,
                        {ms[first].number, ms[i].number},
                        IF AskedBetween(ms, subject, first, i) THEN 700 ELSE 550) :
                i \in HedgedAbout(ms, subject)} :
           subject \in Subjects(ms)}
=============================================================================
