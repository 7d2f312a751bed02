---------------------------- MODULE EngineProofs -----------------------------
(***************************************************************************)
(* Proofs about Engine, for any registered detectors, budget and weights:  *)
(* what a run costs, whose signals it keeps, and what its score says.      *)
(***************************************************************************)
EXTENDS Engine, SumTheorems

-----------------------------------------------------------------------------
(* Whose turn it is.                                                        *)

(* A detector has its turn once: those to come, and no others, have no      *)
(* outcome, and every signal is of a detector that has returned.            *)
TurnInv ==
    /\ turn \in 1 .. Len(Detectors) + 1
    /\ phase \in {"detect", "request", "score", "done"}
    /\ phase \in {"detect", "request"} => turn <= Len(Detectors)
    /\ outcome \in [Names -> {"not_run", "ok", "failed", "exhausted"}]
    /\ phase \in {"score", "done"} => turn = Len(Detectors) + 1
    /\ \A i \in 1 .. Len(Detectors) :
         outcome[Detectors[i]] = "not_run" <=> i >= turn
    /\ \A s \in signals : s.detector \in Names /\ outcome[s.detector] = "ok"

(* Nothing has run yet.                                                     *)
LEMMA TurnInit == Init => TurnInv
BY EngineAssumption DEF Init, TurnInv, Names

(* A detector that ends, one way or the other, passes the turn on.          *)
LEMMA TurnPasses ==
    ASSUME TurnInv, phase \in {"detect", "request"}, NextDetector,
           NEW end \in {"ok", "failed", "exhausted"},
           outcome' = [outcome EXCEPT ![Current] = end],
           \A s \in signals' : \/ s \in signals
                               \/ s.detector = Current /\ end = "ok"
    PROVE  TurnInv'
<1> USE EngineAssumption DEF TurnInv
<1>1. /\ turn \in 1 .. Len(Detectors)
      /\ turn' = turn + 1
      /\ phase' = IF turn = Len(Detectors) THEN "score" ELSE "detect"
      /\ Len(Detectors) \in Nat
  BY DEF NextDetector
<1>2. Current \in Names /\ outcome[Current] = "not_run"
  BY <1>1 DEF Current, Names
<1>3. ASSUME NEW i \in 1 .. Len(Detectors)
      PROVE  outcome'[Detectors[i]] = "not_run" <=> i >= turn'
  <2>1. CASE i = turn
    BY <1>1, <1>2, <2>1 DEF Current
  <2>2. CASE i # turn
    <3>1. outcome'[Detectors[i]] = outcome[Detectors[i]]
      BY <1>1, <2>2 DEF Current
    <3> QED
      BY <1>1, <2>2, <3>1
  <2> QED
    BY <2>1, <2>2
<1>4. ASSUME NEW s \in signals'
      PROVE  s.detector \in Names /\ outcome'[s.detector] = "ok"
  BY <1>2
<1> QED
  BY <1>1, <1>2, <1>3, <1>4

(* Every step of a run preserves TurnInv.                                   *)
LEMMA TurnStep == TurnInv /\ [Next]_vars => TurnInv'
<1> SUFFICES ASSUME TurnInv, [Next]_vars PROVE TurnInv'
  OBVIOUS
<1>1. CASE DetectorReturns
  <2>1. \A s \in signals' : s \in signals \/ s.detector = Current
    BY <1>1 DEF DetectorReturns, Return
  <2> QED
    BY <1>1, <2>1, TurnPasses DEF DetectorReturns, Return
<1>2. ASSUME NEW error \in {"failed", "exhausted"}, Raise(error),
             phase \in {"detect", "request"}
      PROVE  TurnInv'
  BY <1>2, TurnPasses DEF Raise
<1>3. CASE Find \/ BeginCall \/ CallAnswered \/ CallRetried \/ Score \/ UNCHANGED vars
  <2>1. /\ UNCHANGED <<turn, outcome, signals>>
        /\ \/ phase' = phase
           \/ phase \in {"detect", "request"} /\ phase' \in {"detect", "request"}
           \/ phase = "score" /\ phase' = "done"
    <3>1. CASE Find
      BY <3>1 DEF Find
    <3>2. CASE BeginCall
      BY <3>2 DEF BeginCall
    <3>3. CASE CallAnswered \/ CallRetried
      BY <3>3 DEF CallAnswered, CallRetried
    <3>4. CASE Score \/ UNCHANGED vars
      BY <3>4 DEF Score, vars
    <3> QED
      BY <1>3, <3>1, <3>2, <3>3, <3>4
  <2> QED
    BY <2>1 DEF TurnInv
<1> QED
  BY <1>1, <1>2, <1>3
  DEF Next, DetectorRaises, BudgetExhausted, CallGivenUp, CallRejected

(* A detector that raised, however much it had found, leaves no signal in   *)
(* the result, nor does one that had no turn.                               *)
THEOREM FailedLeaveNothing == Spec => []SignalsOfCompletedDetectors
<1>1. TurnInv => SignalsOfCompletedDetectors
  BY DEF TurnInv, SignalsOfCompletedDetectors
<1> QED
  BY <1>1, TurnInit, TurnStep, PTL DEF Spec

-----------------------------------------------------------------------------
(* What a run costs.                                                        *)

(* The names are finitely many, so that what belongs to them can be summed. *)
LEMMA NamesFinite == IsFiniteSet(Names)
<1>1. IsFiniteSet(DOMAIN Detectors)
  BY EngineAssumption, FS_Interval
<1> QED
  BY <1>1, ImageFinite DEF Names

(* One more call of one detector is one more call of all.                   *)
LEMMA OneMoreCall ==
    ASSUME calls \in [Names -> Nat], NEW d \in Names,
           calls' = [calls EXCEPT ![d] = @ + 1]
    PROVE  CallsMade' = CallsMade + 1 /\ CallsMade \in Int
<1>1. \A x \in Names : calls[x] \in Int /\ calls'[x] \in Int
  OBVIOUS
<1>2. \A x \in Names \ {d} : calls'[x] = calls[x]
  OBVIOUS
<1>3. /\ SumFunctionOnSet(calls, Names) \in Int
      /\ SumFunctionOnSet(calls', Names)
           = SumFunctionOnSet(calls, Names) + (calls'[d] - calls[d])
  BY ONLY <1>1, <1>2, NamesFinite, d \in Names, SumUpdate
<1>4. DOMAIN calls = Names /\ DOMAIN calls' = Names /\ calls'[d] = calls[d] + 1
  OBVIOUS
<1> QED
  BY <1>1, <1>3, <1>4 DEF CallsMade, SumFunction

(* A run has begun no more calls than the budget, and sent each of them at  *)
(* most MaxRetries + 1 times, the one in progress attempt times so far.     *)
CostInv ==
    /\ calls \in [Names -> Nat] /\ requests \in Nat
    /\ attempt \in 0 .. MaxRetries
    /\ phase = "detect" => attempt = 0
    /\ CallsMade \in 0 .. MaxCalls
    /\ phase = "request" =>
         /\ CallsMade >= 1
         /\ requests <= (CallsMade - 1) * (MaxRetries + 1) + attempt
    /\ requests <= CallsMade * (MaxRetries + 1)

(* Nothing is called yet.                                                   *)
LEMMA CostInit == Init => CostInv
<1> SUFFICES ASSUME Init PROVE CostInv
  OBVIOUS
<1>1. DOMAIN calls = Names /\ \A d \in Names : calls[d] = 0
  BY DEF Init
<1>2. SumFunctionOnSet(calls, Names) = 0 * Cardinality(Names)
  BY ONLY <1>1, NamesFinite, 0 \in Int, SumConstant
<1>3. CallsMade = 0
  BY <1>1, <1>2, NamesFinite, FS_CardinalityType DEF CallsMade, SumFunction
<1> QED
  BY <1>3, EngineAssumption DEF Init, CostInv

(* Every step of a run preserves CostInv.                                   *)
LEMMA CostStep == TurnInv /\ CostInv /\ [Next]_vars => CostInv'
<1> SUFFICES ASSUME TurnInv, CostInv, [Next]_vars PROVE CostInv'
  OBVIOUS
<1> USE EngineAssumption
<1>1. CASE BeginCall
  <2>1. Current \in Names
    BY <1>1 DEF BeginCall, TurnInv, Current, Names
  <2>2. CallsMade' = CallsMade + 1 /\ CallsMade < MaxCalls
    BY <1>1, <2>1, OneMoreCall DEF BeginCall, CostInv
  <2>3. CallsMade' * (MaxRetries + 1) = CallsMade * (MaxRetries + 1) + (MaxRetries + 1)
    BY <2>2 DEF CostInv
  <2>4. (CallsMade' - 1) * (MaxRetries + 1) = CallsMade * (MaxRetries + 1)
    BY <2>2 DEF CostInv
  <2>5. calls' \in [Names -> Nat]
    BY <1>1, <2>1 DEF BeginCall, CostInv
  <2>6. CallsMade * (MaxRetries + 1) \in Nat
    BY DEF CostInv
  <2> QED
    BY <1>1, <2>2, <2>3, <2>4, <2>5, <2>6 DEF BeginCall, CostInv
<1>2. ASSUME phase = "request", requests' = requests + 1,
             UNCHANGED calls, phase' \in {"detect", "score"}, attempt' = 0
      PROVE  CostInv'
  <2>1. CallsMade' = CallsMade
    BY <1>2 DEF CallsMade
  <2>2. CallsMade * (MaxRetries + 1)
          = (CallsMade - 1) * (MaxRetries + 1) + (MaxRetries + 1)
    BY DEF CostInv
  <2> QED
    BY <1>2, <2>1, <2>2 DEF CostInv
<1>3. CASE CallRetried
  <2>1. CallsMade' = CallsMade
    BY <1>3 DEF CallRetried, CallsMade
  <2>2. CallsMade * (MaxRetries + 1)
          = (CallsMade - 1) * (MaxRetries + 1) + (MaxRetries + 1)
    BY DEF CostInv
  <2> QED
    BY <1>3, <2>1, <2>2 DEF CallRetried, AttemptsLeft, CostInv
<1>4. ASSUME phase' # "request", UNCHANGED <<calls, requests>>,
             attempt' = 0 \/ (attempt' = attempt /\ (phase' = "detect" => phase = "detect"))
      PROVE  CostInv'
  <2>1. CallsMade' = CallsMade
    BY <1>4 DEF CallsMade
  <2> QED
    BY <1>4, <2>1 DEF CostInv
<1>5. CASE UNCHANGED vars
  BY <1>5 DEF vars, CostInv, CallsMade
<1>6. CASE Find \/ DetectorReturns \/ DetectorRaises \/ BudgetExhausted \/ Score
  BY <1>4, <1>6
  DEF Find, DetectorReturns, Return, DetectorRaises, BudgetExhausted, Raise,
      NextDetector, Score
<1>7. CASE CallAnswered \/ CallGivenUp \/ CallRejected
  BY <1>2, <1>7 DEF CallAnswered, CallGivenUp, CallRejected, Raise, NextDetector
<1> QED
  BY <1>1, <1>3, <1>5, <1>6, <1>7 DEF Next

(* However its calls end, and whatever the detectors find, a run sends no   *)
(* more than MaxCalls * (MaxRetries + 1) requests: the budget bounds the    *)
(* calls, the retry loop what each of them sends.                           *)
THEOREM CostIsBounded == Spec => []CostBounded
<1>1. CostInv => CostBounded
  <2> SUFFICES ASSUME CostInv PROVE CostBounded
    OBVIOUS
  <2>1. \A c, m, r \in Nat : c <= m => c * r <= m * r
    OBVIOUS
  <2>2. CallsMade * (MaxRetries + 1) <= MaxCalls * (MaxRetries + 1)
    BY <2>1, EngineAssumption DEF CostInv
  <2> QED
    BY <2>2, EngineAssumption DEF CostInv, CostBounded
<1>2. Init => TurnInv /\ CostInv
  BY TurnInit, CostInit
<1>3. TurnInv /\ CostInv /\ [Next]_vars => TurnInv' /\ CostInv'
  BY TurnStep, CostStep
<1> QED
  BY <1>1, <1>2, <1>3, PTL DEF Spec

-----------------------------------------------------------------------------
(* What the score says.                                                     *)

(* There are six dimensions.                                                *)
LEMMA DimensionsFinite == IsFiniteSet(Dimensions)
<1> DEFINE name == <<"consistency", "instruction_adherence",
                     "information_retention", "relevance", "tool_utilization",
                     "hallucination_risk">>
<1>1. Dimensions = {name[i] : i \in 1 .. 6}
  BY SMTT(30) DEF Dimensions, TypesOf
<1>2. IsFiniteSet(1 .. 6)
  BY 1 \in Int, 6 \in Int, FS_Interval, Zenon
<1> QED
  BY <1>1, <1>2, ImageFinite

(* Rounding a quotient never leaves the integers it lies between, and what  *)
(* is half a unit short of an integer does not reach it.                    *)
LEMMA RoundedBetween ==
    ASSUME NEW sum \in Int, NEW count \in Nat \ {0}, NEW lo \in Int, NEW hi \in Int,
           lo * count <= sum, sum <= hi * count
    PROVE  /\ Rounded(sum, count) \in Int
           /\ lo <= Rounded(sum, count) /\ Rounded(sum, count) <= hi
           /\ 2 * (hi * count - sum) > count => Rounded(sum, count) < hi
<1> DEFINE q == Rounded(sum, count)
           b == 2 * count
<1>0. \A a \in Int, d \in Nat \ {0} :
        a \div d \in Int /\ d * (a \div d) <= a /\ a < d * (a \div d) + d
  OBVIOUS
<1>1. q \in Int /\ b * q <= 2 * sum + count /\ 2 * sum + count < b * q + b
  BY <1>0, 2 * sum + count \in Int, 2 * count \in Nat \ {0} DEF Rounded
<1>2. b * lo = 2 * (lo * count) /\ b * hi = 2 * (hi * count) /\ b \in Nat \ {0}
  OBVIOUS
<1>3. \A x, y \in Int : x < y => b * x + b <= b * y
  OBVIOUS
<1> HIDE DEF b, q
<1>4. ~(q < lo)
  <2> SUFFICES ASSUME q < lo PROVE FALSE
    OBVIOUS
  <2>1. b * q + b <= b * lo
    BY <1>1, <1>3
  <2> QED
    BY <1>1, <1>2, <2>1
<1>5. ~(hi < q)
  <2> SUFFICES ASSUME hi < q PROVE FALSE
    OBVIOUS
  <2>1. b * hi + b <= b * q
    BY <1>1, <1>3
  <2> QED
    BY <1>1, <1>2, <2>1 DEF b
<1>6. ASSUME 2 * (hi * count - sum) > count PROVE q # hi
  BY <1>1, <1>2, <1>6
<1> QED
  BY <1>1, <1>4, <1>5, <1>6 DEF q

(* A weighted sum lies between the same multiples of the weight as the      *)
(* values do.                                                               *)
LEMMA WeightedBetween ==
    ASSUME NEW S, IsFiniteSet(S), NEW v, NEW w, NEW lo \in Int, NEW hi \in Int,
           \A x \in S : v[x] \in Int /\ w[x] \in Nat /\ lo <= v[x] /\ v[x] <= hi,
           NEW product, \A x \in S : product[x] = v[x] * w[x]
    PROVE  /\ SumFunctionOnSet(w, S) \in Nat
           /\ SumFunctionOnSet(product, S) \in Int
           /\ lo * SumFunctionOnSet(w, S) <= SumFunctionOnSet(product, S)
           /\ SumFunctionOnSet(product, S) <= hi * SumFunctionOnSet(w, S)
<1> DEFINE low == [x \in S |-> lo * w[x]]
           high == [x \in S |-> hi * w[x]]
<1>1. \A k, a, m \in Int : m >= 0 /\ k <= a => k * m <= a * m
  OBVIOUS
<1>2. \A x \in S : /\ w[x] \in Int /\ product[x] \in Int
                   /\ low[x] \in Int /\ low[x] = lo * w[x]
                   /\ high[x] \in Int /\ high[x] = hi * w[x]
  OBVIOUS
<1>3. \A x \in S : low[x] <= product[x] /\ product[x] <= high[x]
  BY <1>1, <1>2
<1> HIDE DEF low, high
<1>4. SumFunctionOnSet(w, S) \in Nat /\ SumFunctionOnSet(product, S) \in Int
  BY <1>2, SumNatural, SumInteger
<1>5. \A x \in S : w[x] \in Int /\ low[x] = lo * w[x]
  BY <1>2
<1>6. SumFunctionOnSet(low, S) = lo * SumFunctionOnSet(w, S)
  BY ONLY <1>5, IsFiniteSet(S), lo \in Int, SumTimes
<1>7. \A x \in S : w[x] \in Int /\ high[x] = hi * w[x]
  BY <1>2
<1>8. SumFunctionOnSet(high, S) = hi * SumFunctionOnSet(w, S)
  BY ONLY <1>7, IsFiniteSet(S), hi \in Int, SumTimes
<1>9. \A x \in S : low[x] \in Int /\ product[x] \in Int /\ low[x] <= product[x]
  BY <1>2, <1>3
<1>10. SumFunctionOnSet(low, S) <= SumFunctionOnSet(product, S)
  BY ONLY <1>9, IsFiniteSet(S), SumMonotone
<1>11. \A x \in S : product[x] \in Int /\ high[x] \in Int /\ product[x] <= high[x]
  BY <1>2, <1>3
<1>12. SumFunctionOnSet(product, S) <= SumFunctionOnSet(high, S)
  BY ONLY <1>11, IsFiniteSet(S), SumMonotone
<1> QED
  BY <1>4, <1>6, <1>8, <1>10, <1>12

(* The assessed dimensions weigh something, since they weigh alike when the *)
(* configured weights are all 0.                                            *)
LEMMA SomeWeight ==
    ASSUME NEW A \in SUBSET Dimensions, A # {}
    PROVE  /\ WeightsIn(A) \in [A -> Nat]
           /\ SumFunctionOnSet(WeightsIn(A), A) \in Nat \ {0}
<1> DEFINE w == WeightsIn(A)
<1>1. IsFiniteSet(A)
  BY DimensionsFinite, FS_Subset
<1>2. w \in [A -> Nat] /\ \E n \in A : w[n] > 0
  BY EngineAssumption DEF WeightsIn
<1> HIDE DEF w
<1>3. \A n \in A : w[n] \in Nat
  BY <1>2
<1>4. PICK n \in A : w[n] > 0
  BY <1>2
<1>5. SumFunctionOnSet(w, A) \in Nat /\ SumFunctionOnSet(w, A) >= w[n]
  BY ONLY <1>1, <1>3, n \in A, SumIncludes
<1> QED
  BY <1>2, <1>3, <1>4, <1>5 DEF w

(* The worst and the best of some scores.                                   *)
Worst(A, score, a) == a \in A /\ \A n \in A : score[a] <= score[n]
Best(A, score, b) == b \in A /\ \A n \in A : score[n] <= score[b]

(* Among some scores there are both.                                        *)
LEMMA WorstAndBest ==
    ASSUME NEW A, A # {}, NEW score,
           \A n \in A : score[n] \in Nat /\ score[n] <= 1000
    PROVE  (\E a : Worst(A, score, a)) /\ (\E b : Best(A, score, b))
<1> DEFINE lost == [n \in A |-> 1000 - score[n]]
<1>1. PICK x \in A : TRUE
  OBVIOUS
<1>2. PICK a \in A : \A n \in A : score[a] <= score[n]
  BY ONLY x \in A, \A n \in A : score[n] \in Nat, LeastOf
<1>3. \A n \in A : lost[n] \in Nat
  OBVIOUS
<1>4. PICK b \in A : \A n \in A : lost[b] <= lost[n]
  <2> HIDE DEF lost
  <2> QED
    BY ONLY x \in A, <1>3, LeastOf
<1>5. \A n \in A : score[n] <= score[b]
  BY <1>4
<1> QED
  BY ONLY <1>2, <1>5 DEF Worst, Best

Scores == [Dimensions -> {None} \cup 0 .. 1000]

(* The overall score lies between the worst and the best assessed score,    *)
(* and is missing only when there is none.                                  *)
LEMMA OverallBetween ==
    ASSUME NEW score \in Scores
    PROVE  /\ AssessedIn(score) = {} => Overall(score) = None
           /\ AssessedIn(score) # {} =>
                /\ Overall(score) \in 0 .. 1000
                /\ \E n \in AssessedIn(score) : score[n] <= Overall(score)
                /\ \E n \in AssessedIn(score) : score[n] >= Overall(score)
<1> DEFINE A == AssessedIn(score)
<1>1. /\ A \subseteq Dimensions
      /\ \A n \in A : score[n] \in Nat /\ score[n] <= 1000
  BY DEF AssessedIn, Scores
<1>2. CASE A = {}
  BY <1>2 DEF Overall
<1>3. CASE A # {}
  <2> DEFINE w == WeightsIn(A)
             product == [n \in A |-> score[n] * w[n]]
  <2>1. /\ w \in [A -> Nat] /\ IsFiniteSet(A)
        /\ SumFunctionOnSet(w, A) \in Nat \ {0}
    BY <1>1, <1>3, SomeWeight, DimensionsFinite, FS_Subset
  <2>2. PICK a \in A, b \in A :
          \A n \in A : score[a] <= score[n] /\ score[n] <= score[b]
    <3> HIDE DEF A
    <3>1. PICK x, y : Worst(A, score, x) /\ Best(A, score, y)
      BY ONLY <1>1, <1>3, WorstAndBest
    <3> QED
      BY ONLY <3>1 DEF Worst, Best
  <2>3. Overall(score) = Rounded(SumFunctionOnSet(product, A), SumFunctionOnSet(w, A))
    <3>1. DOMAIN product = A /\ DOMAIN w = A
      BY <2>1
    <3> QED
      BY <1>3, <3>1 DEF Overall, SumFunction
  <2> HIDE DEF A
  <2>4. \A n \in A : product[n] = score[n] * w[n]
    OBVIOUS
  <2> HIDE DEF product, w
  <2>5. /\ score[a] \in Int /\ score[b] \in Int
        /\ \A n \in A : /\ score[n] \in Int /\ w[n] \in Nat
                        /\ score[a] <= score[n] /\ score[n] <= score[b]
    BY ONLY <1>1, <2>1, <2>2
  <2>6. /\ SumFunctionOnSet(product, A) \in Int
        /\ score[a] * SumFunctionOnSet(w, A) <= SumFunctionOnSet(product, A)
        /\ SumFunctionOnSet(product, A) <= score[b] * SumFunctionOnSet(w, A)
    BY ONLY <2>1, <2>4, <2>5, WeightedBetween
  <2>7. /\ Overall(score) \in Int
        /\ score[a] <= Overall(score) /\ Overall(score) <= score[b]
    BY ONLY <2>1, <2>3, <2>5, <2>6, RoundedBetween
  <2>8. /\ Overall(score) \in 0 .. 1000
        /\ score[a] <= Overall(score) /\ score[b] >= Overall(score)
    <3>1. score[a] \in Nat /\ score[b] \in Nat /\ score[b] <= 1000
      BY <1>1
    <3> QED
      BY ONLY <3>1, <2>7
  <2> QED
    BY ONLY <1>3, <2>2, <2>8 DEF A
<1> QED
  BY <1>2, <1>3 DEF A

(* Where findings weigh, a dimension that lost a penalty shows in the       *)
(* overall score.                                                           *)
LEMMA OverallBelow ==
    ASSUME FindingsWeigh, NEW score \in Scores, NEW n \in AssessedIn(score),
           Weights[n] > 0, NEW p \in Penalties,
           score[n] <= 1000 - (IF p < 1000 THEN p ELSE 1000)
    PROVE  Overall(score) < 1000
<1> DEFINE A == AssessedIn(score)
           w == WeightsIn(A)
           product == [m \in A |-> score[m] * w[m]]
           gap == [m \in A |-> (1000 - score[m]) * w[m]]
           full == [m \in A |-> 1000 * w[m]]
           lost == IF p < 1000 THEN p ELSE 1000
<1>1. /\ A \subseteq Dimensions /\ n \in A
      /\ \A m \in A : score[m] \in Nat /\ score[m] <= 1000
  BY DEF AssessedIn, Scores
<1>2. /\ w \in [A -> Nat] /\ IsFiniteSet(A)
      /\ SumFunctionOnSet(w, A) \in Nat \ {0}
  BY <1>1, SomeWeight, DimensionsFinite, FS_Subset
<1>3. Overall(score) = Rounded(SumFunctionOnSet(product, A), SumFunctionOnSet(w, A))
  <2>1. DOMAIN product = A /\ DOMAIN w = A
    BY <1>2
  <2> QED
    BY <1>1, <2>1 DEF Overall, SumFunction
<1>4. \A m \in A : w[m] = Weights[m]
  BY <1>1 DEF WeightsIn
<1> HIDE DEF A, w
<1>5. \A m \in A : /\ product[m] = score[m] * w[m]
                   /\ gap[m] = (1000 - score[m]) * w[m] /\ full[m] = 1000 * w[m]
  OBVIOUS
<1>6. \A a, b \in Nat : a * b \in Nat
  OBVIOUS
<1>7. \A m \in A : product[m] \in Nat /\ gap[m] \in Nat
  BY <1>1, <1>2, <1>5, <1>6
<1>8. \A m \in A : full[m] = product[m] + gap[m]
  BY <1>1, <1>2, <1>5
<1> HIDE DEF product, gap, full
<1>9. SumFunctionOnSet(full, A) = 1000 * SumFunctionOnSet(w, A)
  <2>1. \A m \in A : w[m] \in Int /\ full[m] = 1000 * w[m]
    BY <1>2, <1>5
  <2> QED
    BY ONLY <1>2, <2>1, 1000 \in Int, SumTimes
<1>10. SumFunctionOnSet(full, A)
         = SumFunctionOnSet(product, A) + SumFunctionOnSet(gap, A)
  <2>1. \A m \in A : /\ product[m] \in Int /\ gap[m] \in Int
                     /\ full[m] = product[m] + gap[m]
    BY <1>7, <1>8
  <2> QED
    BY ONLY <1>2, <2>1, SumPlus
<1>11. /\ SumFunctionOnSet(gap, A) \in Nat /\ SumFunctionOnSet(gap, A) >= gap[n]
       /\ SumFunctionOnSet(product, A) \in Nat
  <2>1. \A m \in A : gap[m] \in Nat
    BY <1>7
  <2>2. \A m \in A : product[m] \in Nat
    BY <1>7
  <2> QED
    BY ONLY <1>1, <1>2, <2>1, <2>2, SumIncludes, SumNatural
<1>12. SumFunctionOnSet(w, A) <= SumFunction(Weights)
  <2>1. DOMAIN Weights = Dimensions /\ \A m \in Dimensions : Weights[m] \in Nat
    BY EngineAssumption
  <2>2. SumFunctionOnSet(Weights, A) <= SumFunctionOnSet(Weights, Dimensions)
    BY ONLY <1>1, <2>1, DimensionsFinite, SumSubset
  <2>3. SumFunctionOnSet(w, A) = SumFunctionOnSet(Weights, A)
    BY ONLY <1>2, <1>4, SumSame
  <2> QED
    BY <2>1, <2>2, <2>3 DEF SumFunction
<1>13. gap[n] >= lost * Weights[n]
  <2>1. \A a, b, k \in Nat : a <= b => a * k <= b * k
    OBVIOUS
  <2>2. lost \in Nat /\ 1000 - score[n] \in Nat /\ lost <= 1000 - score[n]
    BY <1>1, EngineAssumption
  <2>3. w[n] = Weights[n] /\ w[n] \in Nat
    BY <1>1, <1>2, <1>4
  <2> QED
    BY <1>1, <1>5, <2>1, <2>2, <2>3
<1>14. 2 * (lost * Weights[n]) > SumFunction(Weights)
  BY <1>1 DEF FindingsWeigh
<1>15. SumFunction(Weights) \in Nat /\ lost * Weights[n] \in Nat
  <2>1. DOMAIN Weights = Dimensions /\ \A m \in Dimensions : Weights[m] \in Nat
    BY EngineAssumption
  <2>2. SumFunctionOnSet(Weights, Dimensions) \in Nat
    BY ONLY <2>1, DimensionsFinite, SumNatural
  <2>3. lost \in Nat /\ Weights[n] \in Nat
    BY <1>1, <2>1, EngineAssumption
  <2> QED
    BY <1>6, <2>1, <2>2, <2>3 DEF SumFunction
<1> HIDE DEF lost
<1>16. /\ 0 * SumFunctionOnSet(w, A) <= SumFunctionOnSet(product, A)
       /\ SumFunctionOnSet(product, A) <= 1000 * SumFunctionOnSet(w, A)
       /\ 2 * (1000 * SumFunctionOnSet(w, A) - SumFunctionOnSet(product, A))
            > SumFunctionOnSet(w, A)
  <2>1. gap[n] \in Nat
    BY <1>1, <1>7
  <2> QED
    BY <1>2, <1>9, <1>10, <1>11, <1>12, <1>13, <1>14, <1>15, <2>1
<1>17. PICK lo \in Int, hi \in Int : lo = 0 /\ hi = 1000
  OBVIOUS
<1>18. /\ SumFunctionOnSet(product, A) \in Int
       /\ lo * SumFunctionOnSet(w, A) <= SumFunctionOnSet(product, A)
       /\ SumFunctionOnSet(product, A) <= hi * SumFunctionOnSet(w, A)
       /\ 2 * (hi * SumFunctionOnSet(w, A) - SumFunctionOnSet(product, A))
            > SumFunctionOnSet(w, A)
  BY ONLY <1>11, <1>16, <1>17
<1>19. Rounded(SumFunctionOnSet(product, A), SumFunctionOnSet(w, A)) < hi
  BY ONLY <1>2, <1>18, lo \in Int, hi \in Int, RoundedBetween
<1> QED
  BY <1>3, <1>17, <1>19

-----------------------------------------------------------------------------
(* What a run finds and what it concludes.                                  *)

(* Every finding adds at least one of the penalties; a completed detector   *)
(* keeps all it found as one signal of its type.                            *)
SignalInv ==
    /\ pending \in Nat
    /\ pending # 0 => \E p \in Penalties : p <= pending
    /\ IsFiniteSet(signals)
    /\ signals \subseteq [detector : Names, type : {TypeOf[d] : d \in Names},
                          penalty : Nat \ {0}]
    /\ \A s \in signals : \E p \in Penalties : p <= s.penalty

(* Nothing is found yet.                                                    *)
LEMMA SignalInit == Init => SignalInv
BY FS_EmptySet DEF Init, SignalInv

(* Every step of a run preserves SignalInv.                                 *)
LEMMA SignalStep == TurnInv /\ SignalInv /\ [Next]_vars => SignalInv'
<1> SUFFICES ASSUME TurnInv, SignalInv, [Next]_vars PROVE SignalInv'
  OBVIOUS
<1> USE EngineAssumption
<1>1. CASE DetectorReturns
  <2> DEFINE found == [detector |-> Current, type |-> TypeOf[Current],
                       penalty |-> pending]
  <2>1. pending' = 0
    BY <1>1 DEF DetectorReturns, Return, NextDetector
  <2>2. CASE pending = 0
    BY <1>1, <2>1, <2>2 DEF DetectorReturns, Return, SignalInv
  <2>3. CASE pending # 0
    <3>1. Current \in Names
      BY <1>1 DEF DetectorReturns, TurnInv, Current, Names
    <3>2. found \in [detector : Names, type : {TypeOf[d] : d \in Names},
                     penalty : Nat \ {0}]
      BY <2>3, <3>1 DEF SignalInv
    <3>3. \E p \in Penalties : p <= found.penalty
      BY <2>3 DEF SignalInv
    <3> HIDE DEF found
    <3>4. signals' = signals \cup {found}
      BY <1>1, <2>3 DEF DetectorReturns, Return, found
    <3>5. IsFiniteSet(signals')
      BY <3>4, FS_AddElement DEF SignalInv
    <3> QED
      BY <2>1, <3>2, <3>3, <3>4, <3>5 DEF SignalInv
  <2> QED
    BY <2>2, <2>3
<1>2. ASSUME NEW error, Raise(error) PROVE SignalInv'
  BY <1>2 DEF Raise, NextDetector, SignalInv
<1>3. CASE Find
  BY <1>3 DEF Find, SignalInv
<1>4. CASE CallAnswered
  <2>1. pending' = pending \/ \E p \in Penalties : pending' = pending + p
    BY <1>4 DEF CallAnswered
  <2> QED
    BY <1>4, <2>1 DEF CallAnswered, SignalInv
<1>5. CASE BeginCall \/ CallRetried \/ Score \/ UNCHANGED vars
  BY <1>5 DEF BeginCall, CallRetried, Score, vars, SignalInv
<1> QED
  BY <1>1, <1>2, <1>3, <1>4, <1>5
  DEF Next, DetectorRaises, BudgetExhausted, CallGivenUp, CallRejected

Verdict == IF Failed = {} THEN "completed"
           ELSE IF overall = None THEN "failed" ELSE "partial"

(* Until it is scored a run says nothing; then what it says is computed     *)
(* from the signals and outcomes it ends with.                              *)
ScoreInv ==
    /\ phase # "done" => /\ scores = [n \in Dimensions |-> None]
                         /\ overall = None /\ status = "running"
    /\ phase = "done" => /\ scores = [n \in Dimensions |-> ScoreFor(n)]
                         /\ overall = Overall(scores) /\ status = Verdict

(* Every step of a run preserves ScoreInv.                                  *)
LEMMA ScoreStep == TurnInv /\ ScoreInv /\ [Next]_vars => ScoreInv'
<1> SUFFICES ASSUME TurnInv, ScoreInv, [Next]_vars PROVE ScoreInv'
  OBVIOUS
<1>1. CASE Score
  <2>1. UNCHANGED <<signals, outcome>>
    BY <1>1 DEF Score
  <2>2. Failed' = Failed
    BY <2>1 DEF Failed
  <2>3. \A n \in Dimensions : ScoreFor(n)' = ScoreFor(n)
    BY <2>1 DEF ScoreFor, Penalty, Assessed, Completed, Failed
  <2>4. scores' = [n \in Dimensions |-> ScoreFor(n)']
    BY <1>1, <2>3 DEF Score
  <2>5. overall' = Overall(scores') /\ phase' = "done"
    BY <1>1 DEF Score
  <2>6. status' = Verdict'
    BY <1>1, <2>2 DEF Score, Verdict
  <2> QED
    BY <2>4, <2>5, <2>6 DEF ScoreInv
<1>2. CASE UNCHANGED vars
  <2>1. \A n \in Dimensions : ScoreFor(n)' = ScoreFor(n)
    BY <1>2 DEF vars, ScoreFor, Penalty, Assessed, Completed, Failed
  <2> QED
    BY <1>2, <2>1 DEF vars, ScoreInv, Verdict, Failed
<1>3. ASSUME phase # "done", phase' # "done", UNCHANGED results
      PROVE  ScoreInv'
  BY <1>3 DEF results, ScoreInv
<1>4. ASSUME phase \in {"detect", "request"}, NEW error, Raise(error)
      PROVE  ScoreInv'
  BY <1>3, <1>4 DEF Raise, NextDetector
<1>5. CASE Find \/ BeginCall \/ CallAnswered \/ CallRetried
  BY <1>3, <1>5 DEF Find, BeginCall, CallAnswered, CallRetried
<1>6. CASE DetectorReturns
  BY <1>3, <1>6 DEF DetectorReturns, Return, NextDetector
<1> QED
  BY <1>1, <1>2, <1>4, <1>5, <1>6
  DEF Next, DetectorRaises, BudgetExhausted, CallGivenUp, CallRejected

RunInv == TurnInv /\ CostInv /\ SignalInv /\ ScoreInv

(* The four parts hold together in every reachable state.                   *)
LEMMA RunInvariant == Spec => []RunInv
<1>1. Init => RunInv
  <2>1. Init => ScoreInv
    BY DEF Init, ScoreInv
  <2> QED
    BY <2>1, TurnInit, CostInit, SignalInit DEF RunInv
<1>2. RunInv /\ [Next]_vars => RunInv'
  BY TurnStep, CostStep, SignalStep, ScoreStep DEF RunInv
<1> QED
  BY <1>1, <1>2, PTL DEF Spec

(* A dimension's penalty covers that of every signal against it.            *)
LEMMA PenaltyCovers ==
    ASSUME SignalInv, NEW n \in Dimensions
    PROVE  /\ Penalty(n) \in Nat
           /\ \A s \in signals : s.type \in TypesOf[n] => s.penalty <= Penalty(n)
<1> DEFINE against == {s \in signals : s.type \in TypesOf[n]}
           f == PenaltiesOf(against)
<1>1. IsFiniteSet(against)
  BY FS_Subset DEF SignalInv
<1>2. DOMAIN f = against /\ \A s \in against : f[s] = s.penalty
  BY DEF PenaltiesOf
<1>3. \A s \in against : f[s] \in Nat
  BY <1>2 DEF SignalInv
<1>4. Penalty(n) = SumFunctionOnSet(f, against)
  BY <1>2 DEF Penalty, SumFunction
<1> HIDE DEF f
<1>5. Penalty(n) \in Nat
  BY ONLY <1>1, <1>3, <1>4, SumNatural
<1>6. ASSUME NEW s \in against PROVE f[s] <= Penalty(n)
  <2> HIDE DEF against
  <2>1. SumFunctionOnSet(f, against) >= f[s] /\ SumFunctionOnSet(f, against) \in Nat
    BY ONLY <1>1, <1>3, s \in against, SumIncludes
  <2> QED
    BY <1>3, <1>4, <2>1
<1> QED
  BY <1>2, <1>5, <1>6

(* What a dimension scores, given what counts against it.                   *)
LEMMA ScoresTyped ==
    ASSUME SignalInv
    PROVE  \A n \in Dimensions :
             \/ ScoreFor(n) = None
             \/ /\ ScoreFor(n) \in 0 .. 1000
                /\ ScoreFor(n) = IF Penalty(n) > 1000 THEN 0 ELSE 1000 - Penalty(n)
BY PenaltyCovers DEF ScoreFor

(* The state of a run keeps its types; above all, no score leaves 0..1000,  *)
(* whatever the penalties add up to and the weights are.                    *)
THEOREM RunTyped == Spec => []TypeOK
<1>1. RunInv => TypeOK
  <2> SUFFICES ASSUME RunInv PROVE TypeOK
    OBVIOUS
  <2>1. scores \in [Dimensions -> {None} \cup 0 .. 1000]
    BY ScoresTyped DEF RunInv, ScoreInv
  <2>2. overall \in {None} \cup 0 .. 1000
    <3>1. scores \in Scores
      BY <2>1 DEF Scores
    <3>2. overall = None \/ overall = Overall(scores)
      BY DEF RunInv, ScoreInv
    <3> QED
      BY <3>1, <3>2, OverallBetween
  <2>3. status \in {"running", "completed", "partial", "failed"}
    BY DEF RunInv, ScoreInv, Verdict
  <2> QED
    BY <2>1, <2>2, <2>3, ZenonT(60)
    DEF TypeOK, RunInv, TurnInv, CostInv, SignalInv
<1> QED
  BY <1>1, RunInvariant, PTL

(* The verdict of a run agrees with itself: its overall score lies between  *)
(* the worst and the best assessed dimension and is there exactly when one  *)
(* was assessed, and only a run all of whose detectors completed is called  *)
(* completed.                                                               *)
THEOREM VerdictsConsistent == Spec => []VerdictConsistent
<1>1. RunInv => VerdictConsistent
  <2> SUFFICES ASSUME RunInv, phase = "done"
               PROVE  /\ overall = None <=> AssessedIn(scores) = {}
                      /\ overall # None =>
                           /\ \E n \in AssessedIn(scores) : scores[n] <= overall
                           /\ \E n \in AssessedIn(scores) : scores[n] >= overall
                      /\ status = "completed" <=> Completed = Names
                      /\ status = "partial" => overall # None
                      /\ status = "failed" => overall = None
    BY Zenon DEF VerdictConsistent
  <2>1. scores \in Scores /\ overall = Overall(scores) /\ status = Verdict
    BY ScoresTyped DEF RunInv, ScoreInv, Scores
  <2>2. overall = None <=> AssessedIn(scores) = {}
    BY <2>1, OverallBetween, NoneAssumption
  <2>3. ASSUME NEW d \in Names PROVE outcome[d] \in {"ok", "failed", "exhausted"}
    <3>1. turn = Len(Detectors) + 1
      BY DEF RunInv, TurnInv
    <3>2. PICK i \in 1 .. Len(Detectors) : d = Detectors[i]
      BY EngineAssumption DEF Names
    <3> QED
      BY <3>1, <3>2, EngineAssumption DEF RunInv, TurnInv
  <2>4. Failed = {} <=> Completed = Names
    BY <2>3 DEF Failed, Completed
  <2> QED
    BY <2>1, <2>2, <2>4, OverallBetween DEF Verdict
<1> QED
  BY <1>1, RunInvariant, PTL

(* A finding that is reported shows in the score of its dimension, and in   *)
(* the overall one when FindingsWeigh keeps the rounding from hiding it.    *)
THEOREM FindingsAreShown == FindingsWeigh => (Spec => []FindingsShow)
<1> SUFFICES ASSUME FindingsWeigh PROVE Spec => []FindingsShow
  OBVIOUS
<1>1. RunInv => FindingsShow
  <2> SUFFICES ASSUME RunInv, phase = "done",
                      NEW s \in signals, NEW n \in Dimensions,
                      s.type \in TypesOf[n]
               PROVE  /\ scores[n] # 1000
                      /\ scores[n] # None /\ Weights[n] > 0 => overall < 1000
    BY DEF FindingsShow
  <2>1. /\ scores \in Scores /\ overall = Overall(scores)
        /\ scores[n] = ScoreFor(n)
    BY ScoresTyped DEF RunInv, ScoreInv, Scores
  <2>2. /\ Penalty(n) \in Nat /\ s.penalty <= Penalty(n)
        /\ s.penalty \in Nat \ {0}
    BY PenaltyCovers DEF RunInv, SignalInv
  <2>3. PICK p \in Penalties : p <= s.penalty
    BY DEF RunInv, SignalInv
  <2>4. p \in Nat \ {0}
    BY EngineAssumption
  <2>5. CASE scores[n] = None
    BY <2>5, NoneAssumption
  <2>6. CASE scores[n] # None
    <3>1. scores[n] = IF Penalty(n) > 1000 THEN 0 ELSE 1000 - Penalty(n)
      BY <2>1, <2>6, ScoresTyped DEF RunInv
    <3>2. /\ scores[n] # 1000
          /\ scores[n] <= 1000 - (IF p < 1000 THEN p ELSE 1000)
      BY <2>2, <2>3, <2>4, <3>1
    <3>3. n \in AssessedIn(scores)
      BY <2>6 DEF AssessedIn
    <3> QED
      BY <2>1, <3>2, <3>3, OverallBelow
  <2> QED
    BY <2>5, <2>6
<1> QED
  BY <1>1, RunInvariant, PTL

(* FindingsWeigh holds of equal weights, as those of DEFAULT_WEIGHTS are,   *)
(* and penalties of more than 3 thousandths.                                *)
LEMMA EqualWeightsWeigh ==
    ASSUME NEW w \in Nat \ {0}, \A n \in Dimensions : Weights[n] = w,
           \A p \in Penalties : p > 3
    PROVE  FindingsWeigh
<1> DEFINE name == <<"consistency", "instruction_adherence",
                     "information_retention", "relevance", "tool_utilization",
                     "hallucination_risk">>
           f == [i \in 1 .. 6 |-> name[i]]
<1>1. Dimensions = {name[i] : i \in 1 .. 6}
  BY SMTT(30) DEF Dimensions, TypesOf
<1>2. f \in Surjection(1 .. 6, Dimensions)
  <2>1. f \in [1 .. 6 -> Dimensions]
    <3> HIDE DEF name
    <3> QED
      BY <1>1
  <2>2. \A n \in Dimensions : \E i \in 1 .. 6 : f[i] = n
    <3> HIDE DEF name
    <3> QED
      BY <1>1
  <2> HIDE DEF f
  <2> QED
    BY <2>1, <2>2 DEF Surjection
<1>3. IsFiniteSet(1 .. 6) /\ Cardinality(1 .. 6) = 6
  <2>1. PICK a, b \in Int : a = 1 /\ b = 6
    OBVIOUS
  <2>2. IsFiniteSet(a .. b) /\ Cardinality(a .. b) = IF a > b THEN 0 ELSE b - a + 1
    BY FS_Interval
  <2> QED
    BY <2>1, <2>2
<1>4. Cardinality(Dimensions) \in Nat /\ Cardinality(Dimensions) <= 6
  BY <1>2, <1>3, FS_Surjection, FS_CardinalityType
<1>5. SumFunction(Weights) = w * Cardinality(Dimensions)
  <2>1. DOMAIN Weights = Dimensions /\ w \in Int
    BY EngineAssumption
  <2>2. SumFunctionOnSet(Weights, Dimensions) = w * Cardinality(Dimensions)
    BY <2>1, DimensionsFinite, SumConstant
  <2> QED
    BY <2>1, <2>2 DEF SumFunction
<1>6. ASSUME NEW c \in Nat, c <= 6 PROVE w * c <= 6 * w
  <2>1. PICK d \in Nat : d = 6 - c
    BY <1>6
  <2>2. w * c + w * d = 6 * w /\ w * d >= 0
    BY <2>1
  <2> QED
    BY <2>2
<1>7. SumFunction(Weights) \in Int /\ SumFunction(Weights) <= 6 * w
  BY <1>4, <1>5, <1>6
<1>8. \A q \in Nat : q > 3 => 2 * (q * w) > 6 * w
  <2> SUFFICES ASSUME NEW q \in Nat, q > 3 PROVE 2 * (q * w) > 6 * w
    OBVIOUS
  <2>1. PICK r \in Nat : q = r + 4
    BY q - 4 \in Nat, q = (q - 4) + 4
  <2>2. q * w = r * w + 4 * w /\ r * w >= 0
    BY <2>1
  <2> QED
    BY <2>2
<1> SUFFICES ASSUME NEW p \in Penalties, NEW n \in Dimensions
             PROVE  2 * ((IF p < 1000 THEN p ELSE 1000) * Weights[n])
                      > SumFunction(Weights)
  BY DEF FindingsWeigh
<1>9. PICK q \in Nat : q = (IF p < 1000 THEN p ELSE 1000) /\ q > 3
  BY EngineAssumption
<1>10. 2 * (q * w) > 6 * w
  BY <1>8, <1>9
<1> QED
  BY <1>7, <1>9, <1>10
=============================================================================
