----------------------------- MODULE HealthTrend -----------------------------
(***************************************************************************)
(* What the health page says of a session's scores over time:              *)
(* analyze_health_trend (backend/app/analysis/health_trend.py) over every  *)
(* checkpoint, and explain_health_change (health_explain.py) over the last *)
(* two.  Scores are in thousandths, so that the least-squares slope is a   *)
(* quotient of integers and is compared by cross-multiplication.           *)
(***************************************************************************)
EXTENDS Integers, Sequences, FiniteSetsExt, SequencesExt

CONSTANT NoLength     \* context_length of a run that read an empty session

(* _ols_slope over points at some positions: mean-free, numerator and       *)
(* denominator both times their number.  The slope exists when the          *)
(* denominator is not 0.                                                    *)
SlopeNumerator(xs, ys) ==
    Cardinality(DOMAIN xs) * SumFunction([i \in DOMAIN xs |-> xs[i] * ys[i]])
    - SumFunction(xs) * SumFunctionOnSet(ys, DOMAIN xs)

SlopeDenominator(xs) == SlopeNumerator(xs, xs)

HasSlope(xs) == Cardinality(DOMAIN xs) >= 2 /\ SlopeDenominator(xs) # 0

SlopeAtLeast(xs, ys, bound) ==
    HasSlope(xs) /\ SlopeNumerator(xs, ys) >= bound * SlopeDenominator(xs)

SlopeAtMost(xs, ys, bound) ==
    HasSlope(xs) /\ SlopeNumerator(xs, ys) <= bound * SlopeDenominator(xs)

(* Points, oldest first, are records [score, length].                       *)
Scores(points) == [i \in DOMAIN points |-> points[i].score]
Order(points) == [i \in DOMAIN points |-> i - 1]
Measured(points) == {i \in DOMAIN points : points[i].length # NoLength}
Lengths(points) == [i \in Measured(points) |-> points[i].length]

StableSlope == 10           \* _STABLE_SLOPE_EPSILON
StableLengthSlope == 3      \* _STABLE_LENGTH_SLOPE_EPSILON

TrendDirection(points) ==
    IF SlopeAtMost(Order(points), Scores(points), -StableSlope)
    THEN "degrading"
    ELSE IF SlopeAtLeast(Order(points), Scores(points), StableSlope)
    THEN "improving" ELSE "stable"

(* Mutant of DegradingWithLength: regressed against the checkpoint's order. *)
DegradingWithOrder(points) ==
    SlopeAtMost(Order(points), Scores(points), -StableLengthSlope)

DegradingWithLength(points) ==
    SlopeAtMost(Lengths(points), Scores(points), -StableLengthSlope)

-----------------------------------------------------------------------------
(* explain_health_change: found maps detection types to counts.             *)

ScoreChange == 5            \* _SCORE_CHANGE_EPSILON

(* Mutant of ChangeDirection: the sign of the difference is lost.           *)
UnsignedChange(current, previous) ==
    IF current - previous >= ScoreChange \/ previous - current >= ScoreChange
    THEN "decreased" ELSE "unchanged"

ChangeDirection(current, previous) ==
    IF current - previous <= -ScoreChange THEN "decreased"
    ELSE IF current - previous >= ScoreChange THEN "increased"
    ELSE "unchanged"

(* The types behind each of the six bullets, in their order.                *)
Rules ==
    << {"contradiction"}, {"unsupported_claim"}, {"fact_loss", "omission"},
       {"instruction_drift"}, {"topic_drift", "repetition"},
       {"tool_result_misuse"} >>

CountIn(found, types) ==
    SumFunctionOnSet(found, types \cap DOMAIN found)

Reasons(current, previous) ==
    {i \in DOMAIN Rules :
        CountIn(current, Rules[i]) > CountIn(previous, Rules[i])}

(* checkpoints, newest first, are records [score, found].                   *)
Explanation(checkpoints) ==
    IF Len(checkpoints) < 2 THEN [direction |-> "initial", reasons |-> {}]
    ELSE [direction |-> ChangeDirection(checkpoints[1].score,
                                        checkpoints[2].score),
          reasons |-> Reasons(checkpoints[1].found, checkpoints[2].found)]

-----------------------------------------------------------------------------
Steps(points) ==
    {points[i + 1].score - points[i].score : i \in 1 .. Len(points) - 1}

(* A trend is never out of thin air: the reported slope is a weighted mean  *)
(* of the steps between checkpoints, so "improving" needs a step of its     *)
(* size, and steps that all rise by it are "improving"; so for "degrading". *)
TrendBetweenSteps(points) ==
    LET steps == Steps(points)
        direction == TrendDirection(points)
    IN
    /\ direction = "improving" => \E d \in steps : d >= StableSlope
    /\ direction = "degrading" => \E d \in steps : d <= -StableSlope
    /\ steps # {} /\ (\A d \in steps : d >= StableSlope)
         => direction = "improving"
    /\ steps # {} /\ (\A d \in steps : d <= -StableSlope)
         => direction = "degrading"

(* "Declining as the session grew longer" has its instance: a checkpoint    *)
(* over a longer context with a lower score than one over a shorter.        *)
DegradingMeansWorse(points) ==
    DegradingWithLength(points) =>
        \E i, j \in Measured(points) :
            /\ points[i].length < points[j].length
            /\ points[i].score > points[j].score

(* The trend and the explanation beside it judge a change by two different  *)
(* thresholds.  Of two checkpoints both tell the same change, unless it     *)
(* lies between the thresholds: then, and only then, the explanation tells  *)
(* its direction and the trend says "stable".  newest_first are the same    *)
(* checkpoints, as the explanation reads them.                              *)
SameChange ==
    {<<"improving", "increased">>, <<"degrading", "decreased">>,
     <<"stable", "unchanged">>}

TwoCheckpointsAgree(points, newest_first) ==
    LET trend == TrendDirection(points)
        change == Explanation(newest_first).direction
        between == ScoreChange .. StableSlope - 1
    IN
    /\ (change = "initial") = (Len(points) < 2)
    /\ Len(points) = 2 =>
         LET d == points[2].score - points[1].score IN
         IF d \in between
         THEN trend = "stable" /\ change = "increased"
         ELSE IF -d \in between
         THEN trend = "stable" /\ change = "decreased"
         ELSE <<trend, change>> \in SameChange
=============================================================================
