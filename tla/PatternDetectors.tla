-------------------------- MODULE PatternDetectors --------------------------
(* The detectors that compare a message with what surrounds it: repetition, *)
(* topic drift, behaviour shift and context growth.                         *)
EXTENDS Transcript

CONSTANTS
    LOOKBACK_WINDOW,        \* 20 messages
    WINDOW_SIZE,            \* 4 messages
    MIN_WINDOW_WORDS,       \* 6
    MIN_HISTORY,            \* 6 assistant messages
    MIN_MESSAGES,           \* 12
    RECENT_WINDOW           \* 6

SIMILARITY_THRESHOLD == 850
MIN_CONTENT_LENGTH == 20
MIN_CONTINUITY_RATIO == 200

(***************************************************************************)
(* Repetition: the first near duplicate in the window is reported.         *)
(***************************************************************************)
Priors(ms, i) ==
    {j \in Max({1, i - LOOKBACK_WINDOW}) .. i - 1 :
        /\ ms[j].role = ms[i].role
        /\ ms[j].text.size >= MIN_CONTENT_LENGTH
        /\ Similarity(ms[j].text, ms[i].text) >= SIMILARITY_THRESHOLD}

RepeatedAt(ms) ==
    {i \in DOMAIN ms :
        ms[i].text.size >= MIN_CONTENT_LENGTH /\ Priors(ms, i) # {}}

Repetitions(ms) ==
    {LET prior == Min(Priors(ms, i))
     IN  Finding("repetition", i, {ms[prior].number, ms[i].number},
                 Similarity(ms[prior].text, ms[i].text)) : i \in RepeatedAt(ms)}

(***************************************************************************)
(* Topic drift: a block against the vocabulary of all blocks before it.    *)
(***************************************************************************)
Windows(ms) == 1 .. Len(ms) \div WINDOW_SIZE
WindowOf(w) == (w - 1) * WINDOW_SIZE + 1 .. w * WINDOW_SIZE
WindowWords(ms, w) == UNION {ms[i].text.words : i \in WindowOf(w)}
EstablishedWords(ms, w) == UNION {WindowWords(ms, v) : v \in 1 .. w - 1}

Continuity(ms, w) == Containment(WindowWords(ms, w), EstablishedWords(ms, w))

DriftedWindows(ms) ==
    {w \in Windows(ms) \ {1} :
        /\ Cardinality(EstablishedWords(ms, w)) >= MIN_WINDOW_WORDS
        /\ Cardinality(WindowWords(ms, w)) >= MIN_WINDOW_WORDS
        /\ Continuity(ms, w) < MIN_CONTINUITY_RATIO}

TopicDrift(ms) ==
    {Finding("topic_drift", w, {ms[i].number : i \in WindowOf(w)},
             600 - 3 * Continuity(ms, w)) : w \in DriftedWindows(ms)}

(***************************************************************************)
(* Behaviour shift: the length of a message against all before it. With    *)
(* count c, sum s and sum of squares q, z = (c x - s) / sqrt(c q - s^2).   *)
(***************************************************************************)
SumOfSizes(ms, S) == SumFunction([i \in S |-> ms[i].text.size])
SumOfSquares(ms, S) ==
    SumFunction([i \in S |-> ms[i].text.size * ms[i].text.size])

(* What a message is compared with.                                         *)
Baseline(ms, i) == {j \in AssistantAt(ms) : j < i}

Deviation(ms, i) ==
    Cardinality(Baseline(ms, i)) * ms[i].text.size
    - SumOfSizes(ms, Baseline(ms, i))

Spread(ms, i) ==
    LET sum == SumOfSizes(ms, Baseline(ms, i)) IN
    Cardinality(Baseline(ms, i)) * SumOfSquares(ms, Baseline(ms, i)) - sum * sum

Shifted(ms) ==
    {i \in AssistantAt(ms) :
        /\ Cardinality(Baseline(ms, i)) >= MIN_HISTORY
        /\ Spread(ms, i) # 0
        /\ 4 * (Deviation(ms, i) * Deviation(ms, i)) >= 25 * Spread(ms, i)}

(* 1000 |z| / 5, capped at 750; z is at least 2.5.                          *)
ShiftConfidence(ms, i) ==
    LET d == Deviation(ms, i)
    IN  Max({n \in 500 .. 750 : (n * n) * Spread(ms, i) <= 40000 * (d * d)})

BehaviorShift(ms) ==
    {Finding("behavior_shift", i, {ms[i].number}, ShiftConfidence(ms, i)) :
        i \in Shifted(ms)}

(***************************************************************************)
(* Context growth: the last messages against the average before them.      *)
(***************************************************************************)
ContextGrowth(ms) ==
    LET history == Len(ms) - RECENT_WINDOW
        \* both averages over the common denominator
        recent == SumOfSizes(ms, history + 1 .. Len(ms)) * history
        expected == 2 * SumOfSizes(ms, 1 .. history) * RECENT_WINDOW
    IN  IF Len(ms) >= MIN_MESSAGES /\ expected > 0 /\ recent > expected
        THEN {Finding("context_growth", "session",
                      {ms[i].number : i \in history + 1 .. Len(ms)},
                      Min({1000, Rounded(1000 * (recent - expected), expected)}))}
        ELSE {}
=============================================================================
