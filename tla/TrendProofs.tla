----------------------------- MODULE TrendProofs -----------------------------
(***************************************************************************)
(* Proofs about HealthTrend, for any number of checkpoints, scores and     *)
(* lengths: what the least-squares slopes of the trend say of the          *)
(* checkpoints they are drawn through.                                     *)
(***************************************************************************)
EXTENDS HealthTrend, SumTheorems

(* Factors of the same sign.                                                *)
LEMMA SameSign ==
    \A r, s \in Int : (r >= 0 /\ s >= 0) \/ (r <= 0 /\ s <= 0) => r * s >= 0
<1>1. \A r, s \in Nat : r * s >= 0
  OBVIOUS
<1> SUFFICES ASSUME NEW r \in Int, NEW s \in Int,
                    (r >= 0 /\ s >= 0) \/ (r <= 0 /\ s <= 0)
             PROVE  r * s >= 0
  OBVIOUS
<1>2. CASE r >= 0 /\ s >= 0
  BY <1>1, <1>2
<1>3. CASE r <= 0 /\ s <= 0
  <2>1. -r \in Nat /\ -s \in Nat
    BY <1>3
  <2>2. (-r) * (-s) >= 0
    BY <1>1, <2>1
  <2>3. (-r) * (-s) = r * s
    OBVIOUS
  <2> QED
    BY <2>2, <2>3
<1> QED
  BY <1>2, <1>3

(* The slope's numerator over its denominator is compared with k by how     *)
(* c * ys - k * xs moves against xs, for c = 1 from above and for c = -1    *)
(* from below.                                                              *)
LEMMA SlopeCompared ==
    ASSUME NEW S, IsFiniteSet(S), NEW xs \in [S -> Int],
           NEW ys, \A i \in S : ys[i] \in Int,
           NEW c \in Int, NEW k \in Int,
           NEW z, \A i \in S : z[i] = c * ys[i] - k * xs[i],
           \A i, j \in S : (xs[i] - xs[j]) * (z[j] - z[i]) >= 0,
           NEW a \in S, NEW b \in S
    PROVE  /\ SlopeNumerator(xs, ys) \in Int /\ SlopeDenominator(xs) \in Int
           /\ 2 * (k * SlopeDenominator(xs) - c * SlopeNumerator(xs, ys))
                >= (xs[a] - xs[b]) * (z[b] - z[a])
<1> DEFINE xy == [i \in S |-> xs[i] * ys[i]]
           xx == [i \in S |-> xs[i] * xs[i]]
           xz == [i \in S |-> xs[i] * z[i]]
           N == Cardinality(S)
           X == SumFunctionOnSet(xs, S)
           Y == SumFunctionOnSet(ys, S)
           Z == SumFunctionOnSet(z, S)
           XX == SumFunctionOnSet(xx, S)
           XY == SumFunctionOnSet(xy, S)
           XZ == SumFunctionOnSet(xz, S)
<1>1. /\ \A r, s \in Int : r * s \in Int
      /\ \A r, s, t \in Int : r * (s + t) = r * s + r * t
      /\ \A r, s, t \in Int : r * (s * t) = s * (r * t)
  OBVIOUS
<1>2. \A i \in S : /\ xs[i] \in Int /\ ys[i] \in Int /\ z[i] \in Int
                   /\ xy[i] \in Int /\ xx[i] \in Int
  BY <1>1
<1>3. DOMAIN xs = S /\ DOMAIN xy = S /\ DOMAIN xx = S
  OBVIOUS
<1>4. /\ SlopeNumerator(xs, ys) = N * XY - X * Y
      /\ SlopeDenominator(xs) = N * XX - X * X
  BY <1>3 DEF SlopeNumerator, SlopeDenominator, SumFunction
<1>5. PICK m, o \in Int : m = -k /\ o = 0
  OBVIOUS
<1>6. \A i \in S : z[i] = c * ys[i] + m * xs[i] + o * xs[i] + o
  <2> SUFFICES ASSUME NEW i \in S PROVE z[i] = c * ys[i] + m * xs[i] + o * xs[i] + o
    OBVIOUS
  <2>1. m * xs[i] = -(k * xs[i]) /\ o * xs[i] = 0 /\ o = 0
    BY <1>2, <1>5
  <2>2. c * ys[i] \in Int /\ k * xs[i] \in Int
    BY <1>1, <1>2
  <2> QED
    BY <2>1, <2>2
<1>7. \A i \in S : xz[i] = c * xy[i] + m * xx[i] + o * xx[i] + o
  <2> SUFFICES ASSUME NEW i \in S PROVE xz[i] = c * xy[i] + m * xx[i] + o * xx[i] + o
    OBVIOUS
  <2>1. xz[i] = xs[i] * (c * ys[i] + (m * xs[i]))
    <3>1. z[i] = c * ys[i] + m * xs[i]
      <4>1. o * xs[i] = 0 /\ o = 0 /\ c * ys[i] \in Int /\ m * xs[i] \in Int
        BY <1>1, <1>2, <1>5
      <4> QED
        BY <1>6, <4>1
    <3> QED
      BY <3>1
  <2>2. xs[i] * (c * ys[i] + (m * xs[i])) = xs[i] * (c * ys[i]) + xs[i] * (m * xs[i])
    BY <1>1, <1>2
  <2>3. xs[i] * (c * ys[i]) = c * xy[i] /\ xs[i] * (m * xs[i]) = m * xx[i]
    BY <1>1, <1>2
  <2>4. o * xx[i] = 0 /\ o = 0 /\ c * xy[i] \in Int /\ m * xx[i] \in Int
    BY <1>1, <1>2, <1>5
  <2> HIDE DEF xz, xy, xx
  <2> QED
    BY <2>1, <2>2, <2>3, <2>4
<1> HIDE DEF xy, xx
<1>8. Z = c * Y + m * X + o * X + o * N
  <2>1. \A i \in S : ys[i] \in Int /\ xs[i] \in Int /\ xs[i] \in Int
    BY <1>2
  <2> QED
    BY ONLY <1>6, <2>1, IsFiniteSet(S), c \in Int, m \in Int, o \in Int, SumLinear
<1>9. XZ = c * XY + m * XX + o * XX + o * N
  <2>1. \A i \in S : xy[i] \in Int /\ xx[i] \in Int /\ xx[i] \in Int
    BY <1>2
  <2> HIDE DEF xz
  <2> QED
    BY ONLY <1>7, <2>1, IsFiniteSet(S), c \in Int, m \in Int, o \in Int, SumLinear
<1>10. N \in Int /\ X \in Int /\ Y \in Int /\ XX \in Int /\ XY \in Int
  <2>1. \A i \in S : xs[i] \in Int
    OBVIOUS
  <2>2. \A i \in S : xx[i] \in Int
    BY <1>2
  <2>3. \A i \in S : xy[i] \in Int
    BY <1>2
  <2>4. \A i \in S : ys[i] \in Int
    OBVIOUS
  <2> QED
    BY ONLY <2>1, <2>2, <2>3, <2>4, IsFiniteSet(S), SumInteger, FS_CardinalityType
<1>11. 2 * (X * Z - N * XZ) >= (xs[a] - xs[b]) * (z[b] - z[a])
  <2>1. \A i \in S : xs[i] \in Int /\ z[i] \in Int
    BY <1>2
  <2>2. \A i \in S : xz[i] = xs[i] * z[i]
    OBVIOUS
  <2>3. \A i, j \in S : (xs[i] - xs[j]) * (z[j] - z[i]) >= 0
    OBVIOUS
  <2> HIDE DEF xz
  <2> QED
    BY ONLY <2>1, <2>2, <2>3, IsFiniteSet(S), a \in S, b \in S, SumOfPairs
<1> HIDE DEF N, X, Y, Z, XX, XY, XZ
<1>12. Z = c * Y - k * X /\ XZ = c * XY - k * XX
  <2>1. m * X = -(k * X) /\ m * XX = -(k * XX) /\ o * X = 0 /\ o * XX = 0 /\ o * N = 0
    BY <1>5, <1>10
  <2>2. c * Y \in Int /\ k * X \in Int /\ c * XY \in Int /\ k * XX \in Int
    BY <1>1, <1>10
  <2> QED
    BY <1>8, <1>9, <2>1, <2>2
<1>13. X * Z - N * XZ = k * (N * XX - X * X) - c * (N * XY - X * Y)
  <2>1. \A r, s, t \in Int : r * (s - t) = r * s - r * t
    OBVIOUS
  <2>2. c * Y \in Int /\ k * X \in Int /\ c * XY \in Int /\ k * XX \in Int
    BY <1>1, <1>10
  <2>3. X * Z = X * (c * Y) - X * (k * X) /\ N * XZ = N * (c * XY) - N * (k * XX)
    BY <1>10, <1>12, <2>1, <2>2
  <2>4. /\ N * XX \in Int /\ X * X \in Int /\ N * XY \in Int /\ X * Y \in Int
    BY <1>1, <1>10
  <2>5. /\ k * (N * XX - X * X) = k * (N * XX) - k * (X * X)
        /\ c * (N * XY - X * Y) = c * (N * XY) - c * (X * Y)
    BY <2>1, <2>4
  <2>6. /\ X * (c * Y) = c * (X * Y) /\ X * (k * X) = k * (X * X)
        /\ N * (c * XY) = c * (N * XY) /\ N * (k * XX) = k * (N * XX)
    BY <1>1, <1>10
  <2>7. /\ c * (X * Y) \in Int /\ k * (X * X) \in Int
        /\ c * (N * XY) \in Int /\ k * (N * XX) \in Int
    BY <1>1, <2>4
  <2> QED
    BY <2>3, <2>5, <2>6, <2>7
<1>14. N * XY - X * Y \in Int /\ N * XX - X * X \in Int
  BY <1>1, <1>10
<1> QED
  BY <1>4, <1>11, <1>13, <1>14

(* The denominator is never negative: the slope exists when two of the      *)
(* positions regressed over differ.                                         *)
LEMMA SpreadSlope ==
    ASSUME NEW S, IsFiniteSet(S), NEW xs \in [S -> Int], NEW a \in S, NEW b \in S
    PROVE  /\ SlopeDenominator(xs) \in Int /\ SlopeDenominator(xs) >= 0
           /\ xs[a] # xs[b] => SlopeDenominator(xs) > 0
<1> DEFINE z == [i \in S |-> -xs[i]]
<1>1. PICK c, k \in Int : c = 0 /\ k = 1
  OBVIOUS
<1>2. \A r \in Int : r * r >= 0 /\ (r # 0 => r * r > 0)
  OBVIOUS
<1>3. \A i \in S : xs[i] \in Int
  OBVIOUS
<1>4. \A i \in S : z[i] = c * xs[i] - k * xs[i]
  BY <1>1, <1>3
<1>5. ASSUME NEW i \in S, NEW j \in S
      PROVE  (xs[i] - xs[j]) * (z[j] - z[i]) = (xs[i] - xs[j]) * (xs[i] - xs[j])
  <2>1. z[j] - z[i] = xs[i] - xs[j]
    BY <1>3
  <2> QED
    BY <2>1
<1>6. \A i, j \in S : (xs[i] - xs[j]) * (z[j] - z[i]) >= 0
  <2> SUFFICES ASSUME NEW i \in S, NEW j \in S
               PROVE  (xs[i] - xs[j]) * (xs[i] - xs[j]) >= 0
    BY <1>5
  <2>1. xs[i] - xs[j] \in Int
    BY <1>3
  <2> QED
    BY <1>2, <2>1
<1>7. ASSUME NEW r \in S, NEW s \in S
      PROVE  /\ SlopeNumerator(xs, xs) \in Int /\ SlopeDenominator(xs) \in Int
             /\ 2 * (k * SlopeDenominator(xs) - c * SlopeNumerator(xs, xs))
                  >= (xs[r] - xs[s]) * (z[s] - z[r])
  <2> HIDE DEF z
  <2>1. xs \in [S -> Int]
    OBVIOUS
  <2> QED
    BY ONLY <1>3, <1>4, <1>6, <2>1, IsFiniteSet(S), c \in Int, k \in Int,
            r \in S, s \in S, SlopeCompared
<1>8. ASSUME NEW r \in S, NEW s \in S
      PROVE  2 * SlopeDenominator(xs) >= (xs[r] - xs[s]) * (xs[r] - xs[s])
  <2>1. k * SlopeDenominator(xs) = SlopeDenominator(xs)
    BY <1>1, <1>7
  <2>2. c * SlopeNumerator(xs, xs) = 0
    BY <1>1, <1>7
  <2> HIDE DEF z
  <2>3. 2 * (SlopeDenominator(xs) - 0) >= (xs[r] - xs[s]) * (z[s] - z[r])
    BY <1>7, <2>1, <2>2
  <2> QED
    BY <1>5, <1>7, <2>3
<1>9. xs[a] - xs[b] \in Int /\ (xs[a] # xs[b] => xs[a] - xs[b] # 0)
  BY <1>3
<1>10. /\ (xs[a] - xs[b]) * (xs[a] - xs[b]) >= 0
       /\ xs[a] # xs[b] => (xs[a] - xs[b]) * (xs[a] - xs[b]) > 0
       /\ (xs[a] - xs[b]) * (xs[a] - xs[b]) \in Int
  BY <1>2, <1>9
<1> QED
  BY <1>7, <1>8, <1>10

(* What falls, or stays, from each index to the next does over any number   *)
(* of them.                                                                 *)
LEMMA FallsThroughout ==
    ASSUME NEW n \in Nat, NEW z, \A i \in 1 .. n : z[i] \in Int,
           \A i \in 1 .. n - 1 : z[i + 1] <= z[i]
    PROVE  \A i, j \in 1 .. n : i <= j => z[j] <= z[i]
<1> DEFINE P == {k \in Nat : \A i \in 1 .. n : i + k <= n => z[i + k] <= z[i]}
<1>1. 0 \in P
  OBVIOUS
<1>2. ASSUME NEW k \in P \cap Nat PROVE k + 1 \in P
  <2> SUFFICES ASSUME NEW i \in 1 .. n, i + (k + 1) <= n
               PROVE  z[i + (k + 1)] <= z[i]
    OBVIOUS
  <2>1. i + k \in 1 .. n - 1 /\ (i + k) + 1 = i + (k + 1)
    OBVIOUS
  <2>2. z[i + k] <= z[i]
    BY <2>1
  <2>3. z[(i + k) + 1] <= z[i + k]
    BY <2>1
  <2>4. z[i] \in Int /\ z[i + k] \in Int /\ z[(i + k) + 1] \in Int
    <3>1. i \in 1 .. n /\ i + k \in 1 .. n /\ (i + k) + 1 \in 1 .. n
      BY <2>1
    <3> QED
      BY <3>1
  <2>5. z[(i + k) + 1] <= z[i]
    BY ONLY <2>2, <2>3, <2>4
  <2> QED
    BY <2>1, <2>5
<1>3. Nat \subseteq P
  <2> HIDE DEF P
  <2> QED
    BY <1>1, <1>2, NatInduct
<1>4. ASSUME NEW i \in 1 .. n, NEW j \in 1 .. n, i <= j PROVE z[j] <= z[i]
  <2>1. j - i \in Nat /\ i + (j - i) = j /\ i + (j - i) <= n
    BY <1>4
  <2>2. j - i \in P
    BY <1>3, <2>1
  <2>3. z[i + (j - i)] <= z[i]
    BY <2>1, <2>2
  <2> QED
    BY <2>1, <2>3
<1> QED
  BY <1>4

(* A checkpoint as the trend sees it.                                       *)
Point == [score : Int, length : Int \cup {NoLength}]

(* The scores and orders of some checkpoints.                               *)
LEMMA PointsTyped ==
    ASSUME NEW points \in Seq(Point)
    PROVE  /\ Len(points) \in Nat /\ DOMAIN points = 1 .. Len(points)
           /\ IsFiniteSet(DOMAIN points)
           /\ Cardinality(DOMAIN points) = Len(points)
           /\ Scores(points) \in [DOMAIN points -> Int]
           /\ Order(points) \in [DOMAIN points -> Int]
           /\ \A i \in DOMAIN points : /\ Scores(points)[i] = points[i].score
                                       /\ Order(points)[i] = i - 1
<1>1. Len(points) \in Nat /\ DOMAIN points = 1 .. Len(points)
  OBVIOUS
<1>2. IsFiniteSet(1 .. Len(points)) /\ Cardinality(1 .. Len(points)) = Len(points)
  <2>1. 1 \in Int /\ Len(points) \in Int
    BY <1>1
  <2>2. /\ IsFiniteSet(1 .. Len(points))
        /\ Cardinality(1 .. Len(points))
             = IF 1 > Len(points) THEN 0 ELSE Len(points) - 1 + 1
    BY ONLY <2>1, FS_Interval, ZenonT(30)
  <2> QED
    BY <1>1, <2>2
<1>3. \A i \in DOMAIN points : points[i].score \in Int /\ i - 1 \in Int
  <2>1. \A p \in Point : p.score \in Int
    BY DEF Point
  <2>2. \A i \in 1 .. Len(points) : points[i] \in Point
    OBVIOUS
  <2> QED
    BY <1>1, <2>1, <2>2
<1>4. /\ Scores(points) \in [DOMAIN points -> Int]
      /\ \A i \in DOMAIN points : Scores(points)[i] = points[i].score
  BY <1>3 DEF Scores
<1>5. /\ Order(points) \in [DOMAIN points -> Int]
      /\ \A i \in DOMAIN points : Order(points)[i] = i - 1
  BY <1>3 DEF Order
<1> QED
  BY <1>1, <1>2, <1>4, <1>5

(* The slope over the order of checkpoints is at most k when no step is     *)
(* more than k, and less when the first step is (c = 1); at least -k when   *)
(* no step is less than -k (c = -1).                                        *)
LEMMA OrderSlope ==
    ASSUME NEW points \in Seq(Point),
           Len(points) >= 2, NEW c \in Int, NEW k \in Int,
           \A i \in 1 .. Len(points) - 1 :
             c * (points[i + 1].score - points[i].score) <= k
    PROVE  LET numerator == SlopeNumerator(Order(points), Scores(points))
               denominator == SlopeDenominator(Order(points))
           IN  /\ numerator \in Int /\ denominator \in Int /\ denominator > 0
               /\ c * numerator <= k * denominator
               /\ c * (points[2].score - points[1].score) < k
                    => c * numerator < k * denominator
<1> DEFINE n == Len(points)
           xs == Order(points)
           ys == Scores(points)
           num == SlopeNumerator(xs, ys)
           den == SlopeDenominator(xs)
           z == [i \in 1 .. n |-> c * ys[i] - k * xs[i]]
           step(i) == points[i + 1].score - points[i].score
<1>1. /\ n \in Nat /\ n >= 2 /\ DOMAIN points = 1 .. n /\ IsFiniteSet(1 .. n)
      /\ xs \in [1 .. n -> Int] /\ ys \in [1 .. n -> Int]
      /\ \A i \in 1 .. n : ys[i] = points[i].score /\ xs[i] = i - 1
  BY PointsTyped
<1>2. /\ \A r, s \in Int : r * s \in Int
      /\ \A r, s, t \in Int : r * (s - t) = r * s - r * t
  OBVIOUS
<1>3. /\ \A i \in 1 .. n : z[i] = c * ys[i] - k * xs[i]
      /\ \A i \in 1 .. n - 1 : c * step(i) <= k
      /\ step(1) = points[2].score - points[1].score
  OBVIOUS
<1>4. \A i \in 1 .. n - 1 : step(i) = ys[i + 1] - ys[i]
  <2>1. \A i \in 1 .. n - 1 : i \in 1 .. n /\ i + 1 \in 1 .. n
    BY <1>1
  <2> HIDE DEF n, xs, ys
  <2> QED
    BY <1>1, <2>1
<1> HIDE DEF n, xs, ys, z, step
<1>5. \A i \in 1 .. n : z[i] \in Int /\ xs[i] \in Int /\ ys[i] \in Int
  <2>1. \A i \in 1 .. n : xs[i] \in Int /\ ys[i] \in Int
    BY <1>1
  <2> QED
    BY <1>2, <1>3, <2>1
<1>6. ASSUME NEW i \in 1 .. n - 1
      PROVE  z[i + 1] - z[i] = c * step(i) - k /\ step(i) \in Int
  <2>1. i \in 1 .. n /\ i + 1 \in 1 .. n /\ i \in Int
    BY <1>1
  <2>2. PICK r, s \in Int : r = ys[i] /\ s = ys[i + 1]
    BY <1>5, <2>1
  <2>3. z[i] = c * r - k * (i - 1) /\ z[i + 1] = c * s - k * ((i + 1) - 1)
    BY <1>1, <1>3, <2>1, <2>2
  <2>4. c * (s - r) = c * s - c * r /\ k * ((i + 1) - 1) = k * (i - 1) + k
    BY <2>1
  <2>5. c * s \in Int /\ c * r \in Int /\ k * (i - 1) \in Int
    BY <1>2, <2>1
  <2>6. step(i) = s - r
    BY <1>4, <2>2
  <2> QED
    BY ONLY <2>3, <2>4, <2>5, <2>6, r \in Int, s \in Int, k \in Int
<1>7. \A i \in 1 .. n - 1 : z[i + 1] <= z[i]
  <2> SUFFICES ASSUME NEW i \in 1 .. n - 1 PROVE z[i + 1] <= z[i]
    OBVIOUS
  <2>1. z[i + 1] - z[i] = c * step(i) - k /\ step(i) \in Int /\ c * step(i) <= k
    BY <1>6, <1>3
  <2>2. i \in 1 .. n /\ i + 1 \in 1 .. n
    BY <1>1
  <2>3. z[i] \in Int /\ z[i + 1] \in Int /\ c * step(i) \in Int
    BY <1>5, <1>2, <2>1, <2>2
  <2> QED
    BY ONLY <2>1, <2>3, k \in Int
<1>8. \A i, j \in 1 .. n : i <= j => z[j] <= z[i]
  <2>1. \A i \in 1 .. n : z[i] \in Int
    BY <1>5
  <2> QED
    BY ONLY <1>1, <1>7, <2>1, FallsThroughout
<1>9. \A i, j \in 1 .. n : (xs[i] - xs[j]) * (z[j] - z[i]) >= 0
  <2> SUFFICES ASSUME NEW i \in 1 .. n, NEW j \in 1 .. n
               PROVE  (xs[i] - xs[j]) * (z[j] - z[i]) >= 0
    OBVIOUS
  <2>1. PICK r, s \in Int : r = xs[i] - xs[j] /\ s = z[j] - z[i]
    <3>1. xs[i] - xs[j] \in Int /\ z[j] - z[i] \in Int
      BY ONLY <1>5, i \in 1 .. n, j \in 1 .. n
    <3> QED
      BY ONLY <3>1
  <2>2. r = i - j /\ z[i] \in Int /\ z[j] \in Int /\ i \in Int /\ j \in Int
    <3>1. xs[i] = i - 1 /\ xs[j] = j - 1 /\ i \in Int /\ j \in Int
      BY <1>1, SMTT(30)
    <3>2. z[i] \in Int /\ z[j] \in Int
      BY <1>5
    <3> QED
      BY ONLY <2>1, <3>1, <3>2
  <2>3. (r >= 0 /\ s >= 0) \/ (r <= 0 /\ s <= 0)
    <3>1. (i <= j => z[j] <= z[i]) /\ (j <= i => z[i] <= z[j])
      BY <1>8
    <3> QED
      BY ONLY <2>1, <2>2, <3>1, SMTT(30)
  <2> QED
    BY <2>1, <2>3, SameSign
<1>10. 2 \in 1 .. n /\ 1 \in 1 .. n
  BY <1>1
<1>11. /\ num \in Int /\ den \in Int
      /\ 2 * (k * den - c * num) >= (xs[2] - xs[1]) * (z[1] - z[2])
  <2>1. \A i \in 1 .. n : ys[i] \in Int
    BY <1>5
  <2>2. \A i \in 1 .. n : z[i] = c * ys[i] - k * xs[i]
    BY <1>3
  <2>3. PICK a, b \in 1 .. n : a = 2 /\ b = 1
    BY <1>10
  <2>4. /\ num \in Int /\ den \in Int
        /\ 2 * (k * den - c * num) >= (xs[a] - xs[b]) * (z[b] - z[a])
    BY ONLY <1>1, <1>9, <2>1, <2>2, c \in Int, k \in Int, a \in 1 .. n,
            b \in 1 .. n, SlopeCompared
  <2> QED
    BY <2>3, <2>4
<1>12. den > 0
  <2>1. PICK a, b \in 1 .. n : xs[a] # xs[b]
    <3>1. xs[1] # xs[2]
      BY <1>1, <1>10
    <3> QED
      BY <1>10, <3>1
  <2> QED
    BY ONLY <1>1, <2>1, a \in 1 .. n, b \in 1 .. n, SpreadSlope
<1>13. /\ z[2] - z[1] = c * step(1) - k /\ step(1) \in Int
  <2>1. 1 \in 1 .. n - 1 /\ 1 + 1 = 2
    BY <1>1
  <2> QED
    BY <1>6, <2>1
<1>14. (xs[2] - xs[1]) * (z[1] - z[2]) = z[1] - z[2] /\ z[1] \in Int /\ z[2] \in Int
  <2>1. xs[2] - xs[1] = 1 /\ z[1] \in Int /\ z[2] \in Int
    BY <1>1, <1>5, <1>10
  <2> QED
    BY <2>1
<1>15. z[2] <= z[1]
  BY <1>8, <1>10
<1> HIDE DEF num, den
<1>16. c * step(1) \in Int /\ c * num \in Int /\ k * den \in Int
  BY <1>2, <1>11, <1>13
<1>17. /\ c * num <= k * den
       /\ c * step(1) < k => c * num < k * den
  BY ONLY <1>11, <1>13, <1>14, <1>15, <1>16, k \in Int
<1> QED
  BY <1>3, <1>11, <1>12, <1>17 DEF xs, ys, num, den

(* A trend is borne out by the steps between the checkpoints: "improving"   *)
(* and "degrading" need a step of their size, and follow when every step    *)
(* has it.                                                                  *)
THEOREM TrendIsBetweenSteps ==
    ASSUME NEW points \in Seq(Point)
    PROVE  TrendBetweenSteps(points)
<1> DEFINE n == Len(points)
           num == SlopeNumerator(Order(points), Scores(points))
           den == SlopeDenominator(Order(points))
           step(i) == points[i + 1].score - points[i].score
<1>1. /\ n \in Nat /\ DOMAIN points = 1 .. n
      /\ Cardinality(DOMAIN Order(points)) = n
      /\ \A i \in 1 .. n : points[i].score \in Int
  <2>1. DOMAIN Order(points) = DOMAIN points
    BY PointsTyped
  <2> QED
    BY <2>1, PointsTyped
<1>2. \A i \in 1 .. n - 1 : step(i) \in Int
  <2>1. \A i \in 1 .. n - 1 : i \in 1 .. n /\ i + 1 \in 1 .. n
    BY <1>1
  <2> QED
    BY <1>1, <2>1
<1>3. \A d : d \in Steps(points) <=> \E i \in 1 .. n - 1 : d = step(i)
  BY DEF Steps
<1>4. n >= 2 => 1 \in 1 .. n - 1 /\ step(1) = points[2].score - points[1].score
  BY <1>1
<1>5. ASSUME n >= 2, NEW c \in Int, NEW k \in Int,
             \A i \in 1 .. n - 1 : c * step(i) <= k
      PROVE  /\ num \in Int /\ den \in Int /\ den > 0
             /\ c * num <= k * den
             /\ c * step(1) < k => c * num < k * den
  <2>1. \A i \in 1 .. Len(points) - 1 :
          c * (points[i + 1].score - points[i].score) <= k
    BY <1>5
  <2>2. /\ num \in Int /\ den \in Int /\ den > 0
        /\ c * num <= k * den
        /\ c * (points[2].score - points[1].score) < k => c * num < k * den
    BY ONLY <2>1, <1>5, c \in Int, k \in Int,
            points \in Seq(Point), OrderSlope
  <2> QED
    BY <1>4, <1>5, <2>2
<1>6. /\ TrendDirection(points) = "improving" =>
           n >= 2 /\ num >= 10 * den
      /\ TrendDirection(points) = "degrading" =>
           n >= 2 /\ num <= (-10) * den
      /\ n >= 2 /\ den # 0 /\ num <= (-10) * den => TrendDirection(points) = "degrading"
      /\ n >= 2 /\ den # 0 /\ num >= 10 * den /\ ~(num <= (-10) * den)
           => TrendDirection(points) = "improving"
  BY <1>1 DEF TrendDirection, SlopeAtMost, SlopeAtLeast, HasSlope, StableSlope
<1> HIDE DEF n, num, den, step
<1>7. ASSUME TrendDirection(points) = "improving", \A d \in Steps(points) : d < 10
      PROVE  FALSE
  <2>1. n >= 2 /\ num >= 10 * den
    BY <1>6, <1>7
  <2>2. \A i \in 1 .. n - 1 : step(i) < 10
    BY <1>3, <1>7
  <2>3. PICK c, k \in Int : c = 1 /\ k = 10
    OBVIOUS
  <2>4. \A i \in 1 .. n - 1 : c * step(i) <= k /\ c * step(i) < k
    BY <1>2, <2>2, <2>3
  <2>5. /\ num \in Int /\ den \in Int /\ c * num < k * den
    BY <1>4, <1>5, <2>1, <2>4
  <2> QED
    BY <2>1, <2>3, <2>5
<1>8. ASSUME TrendDirection(points) = "degrading", \A d \in Steps(points) : d > -10
      PROVE  FALSE
  <2>1. n >= 2 /\ num <= (-10) * den
    BY <1>6, <1>8
  <2>2. \A i \in 1 .. n - 1 : step(i) > -10
    BY <1>3, <1>8
  <2>3. PICK c, k \in Int : c = -1 /\ k = 10
    OBVIOUS
  <2>4. \A i \in 1 .. n - 1 : c * step(i) <= k /\ c * step(i) < k
    BY <1>2, <2>2, <2>3
  <2>5. /\ num \in Int /\ den \in Int /\ c * num < k * den
    BY <1>4, <1>5, <2>1, <2>4
  <2> QED
    BY <2>1, <2>3, <2>5
<1>9. ASSUME Steps(points) # {}, \A d \in Steps(points) : d >= 10
      PROVE  TrendDirection(points) = "improving"
  <2>1. n >= 2
    BY <1>1, <1>3, <1>9
  <2>2. \A i \in 1 .. n - 1 : step(i) >= 10
    BY <1>3, <1>9
  <2>3. PICK c, k \in Int : c = -1 /\ k = -10
    OBVIOUS
  <2>4. \A i \in 1 .. n - 1 : c * step(i) <= k
    BY <1>2, <2>2, <2>3
  <2>5. /\ num \in Int /\ den \in Int /\ den > 0 /\ c * num <= k * den
    BY <1>5, <2>1, <2>4
  <2> QED
    BY <1>6, <2>1, <2>3, <2>5
<1>10. ASSUME Steps(points) # {}, \A d \in Steps(points) : d <= -10
       PROVE  TrendDirection(points) = "degrading"
  <2>1. n >= 2
    BY <1>1, <1>3, <1>10
  <2>2. \A i \in 1 .. n - 1 : step(i) <= -10
    BY <1>3, <1>10
  <2>3. PICK c, k \in Int : c = 1 /\ k = -10
    OBVIOUS
  <2>4. \A i \in 1 .. n - 1 : c * step(i) <= k
    BY <1>2, <2>2, <2>3
  <2>5. /\ num \in Int /\ den \in Int /\ den > 0 /\ c * num <= k * den
    BY <1>5, <2>1, <2>4
  <2> QED
    BY <1>6, <2>1, <2>3, <2>5
<1>11. \A d \in Steps(points) : d \in Int
  BY <1>2, <1>3
<1> QED
  BY <1>7, <1>8, <1>9, <1>10, <1>11 DEF TrendBetweenSteps, StableSlope

(* "Declining as the session grew longer" has its instance among the        *)
(* checkpoints: a lower score over a longer context.                        *)
THEOREM DegradingIsWorse ==
    ASSUME NEW points \in Seq(Point)
    PROVE  DegradingMeansWorse(points)
<1> DEFINE S == Measured(points)
           xs == Lengths(points)
           ys == Scores(points)
           num == SlopeNumerator(xs, ys)
           den == SlopeDenominator(xs)
<1>1. /\ S \subseteq DOMAIN points /\ IsFiniteSet(S)
      /\ \A i \in S : /\ xs[i] = points[i].length /\ xs[i] \in Int
                      /\ ys[i] = points[i].score /\ ys[i] \in Int
      /\ xs \in [S -> Int]
  <2>2. \A p \in Point : p.length # NoLength => p.length \in Int
    BY DEF Point
  <2>3. \A i \in DOMAIN points : points[i] \in Point
    OBVIOUS
  <2>4. S \subseteq DOMAIN points /\ \A i \in S : points[i].length \in Int
    BY <2>2, <2>3 DEF Measured
  <2>5. /\ xs \in [S -> Int]
        /\ \A i \in S : xs[i] = points[i].length /\ xs[i] \in Int
    BY <2>4 DEF Lengths
  <2>6. \A i \in DOMAIN points : ys[i] = points[i].score /\ ys[i] \in Int
    BY PointsTyped
  <2>7. IsFiniteSet(S)
    BY <2>4, PointsTyped, FS_Subset
  <2> QED
    BY <2>4, <2>5, <2>6, <2>7
<1> SUFFICES ASSUME DegradingWithLength(points),
                    \A i, j \in S : points[i].length < points[j].length
                                      => points[i].score <= points[j].score
             PROVE  FALSE
  <2>1. \A i \in S : points[i].score \in Int
    BY <1>1
  <2> QED
    BY <2>1 DEF DegradingMeansWorse
<1>2. /\ Cardinality(S) >= 2 /\ den # 0 /\ num <= (-3) * den
  <2>1. DOMAIN xs = S
    BY <1>1
  <2> QED
    BY <2>1 DEF DegradingWithLength, SlopeAtMost, HasSlope, StableLengthSlope
<1> HIDE DEF S, xs, ys, num, den
<1>3. PICK a \in S : TRUE
  <2>1. ASSUME S = {} PROVE FALSE
    <3>1. Cardinality(S) = 0
      BY <2>1, FS_EmptySet
    <3> QED
      BY <1>2, <3>1
  <2> QED
    BY <2>1
<1>4. PICK c, k \in Int : c = -1 /\ k = 0
  OBVIOUS
<1> DEFINE z == [i \in S |-> -ys[i]]
<1>5. \A i \in S : z[i] = -ys[i] /\ z[i] \in Int
  BY <1>1
<1> HIDE DEF z
<1>6. \A i \in S : z[i] = c * ys[i] - k * xs[i]
  <2> SUFFICES ASSUME NEW i \in S PROVE z[i] = c * ys[i] - k * xs[i]
    OBVIOUS
  <2>1. ys[i] \in Int /\ xs[i] \in Int
    BY <1>1
  <2>2. c * ys[i] = -ys[i] /\ k * xs[i] = 0
    BY <1>4, <2>1
  <2> QED
    BY <1>5, <2>1, <2>2
<1>7. \A i, j \in S : (xs[i] - xs[j]) * (z[j] - z[i]) >= 0
  <2> SUFFICES ASSUME NEW i \in S, NEW j \in S
               PROVE  (xs[i] - xs[j]) * (z[j] - z[i]) >= 0
    OBVIOUS
  <2>1. \A s \in Int : 0 * s >= 0
    OBVIOUS
  <2>2. /\ xs[i] \in Int /\ xs[j] \in Int /\ ys[i] \in Int /\ ys[j] \in Int
        /\ z[j] - z[i] = ys[i] - ys[j]
    BY ONLY <1>1, <1>5, i \in S, j \in S
  <2>3. /\ xs[i] < xs[j] => ys[i] <= ys[j]
        /\ xs[j] < xs[i] => ys[j] <= ys[i]
    BY <1>1
  <2>4. PICK r, s \in Int : r = xs[i] - xs[j] /\ s = ys[i] - ys[j]
    BY <2>2
  <2>5. \/ r = 0 \/ (r <= 0 /\ s <= 0) \/ (r >= 0 /\ s >= 0)
    BY <2>2, <2>3, <2>4
  <2>6. r * s >= 0
    BY <2>1, <2>5, SameSign
  <2> QED
    BY <2>2, <2>4, <2>6
<1>8. /\ num \in Int /\ den \in Int
      /\ 2 * (k * den - c * num) >= (xs[a] - xs[a]) * (z[a] - z[a])
  <2>1. \A i \in S : ys[i] \in Int
    BY <1>1
  <2>2. \A i \in S : z[i] = c * ys[i] - k * xs[i]
    BY <1>6
  <2> QED
    BY ONLY <1>1, <1>7, <2>1, <2>2, c \in Int, k \in Int, a \in S, SlopeCompared
    DEF num, den
<1>9. den >= 0
  BY ONLY <1>1, a \in S, SpreadSlope DEF den
<1>10. (xs[a] - xs[a]) * (z[a] - z[a]) = 0
  <2>1. xs[a] \in Int /\ z[a] \in Int
    BY ONLY <1>1, <1>5, a \in S
  <2> QED
    BY <2>1
<1>11. k * den = 0 /\ c * num = -num
  BY <1>4, <1>8
<1> HIDE DEF num, den
<1> QED
  BY <1>2, <1>8, <1>9, <1>10, <1>11

(* Trend and explanation of the same two checkpoints tell the same change,  *)
(* unless it lies between their thresholds: then the trend says "stable"    *)
(* and the explanation the direction.                                       *)
THEOREM TrendAgreesWithExplanation ==
    ASSUME NEW points \in Seq(Point), NEW newest_first,
           Len(newest_first) = Len(points),
           Len(points) = 2 => /\ newest_first[1].score = points[2].score
                              /\ newest_first[2].score = points[1].score
    PROVE  TwoCheckpointsAgree(points, newest_first)
<1> DEFINE trend == TrendDirection(points)
           change == Explanation(newest_first).direction
           rise == points[2].score - points[1].score
<1>1. /\ Len(points) \in Nat
      /\ \A i \in 1 .. Len(points) : points[i].score \in Int
  <2>1. \A p \in Point : p.score \in Int
    BY DEF Point
  <2> QED
    BY <2>1
<1>2. change = "initial" <=> Len(points) < 2
  BY DEF Explanation, ChangeDirection
<1>3. (change = "initial") = (Len(points) < 2)
  <2> HIDE DEF change
  <2> QED
    BY <1>2
<1>4. TrendBetweenSteps(points)
  BY TrendIsBetweenSteps
<1>5. trend \in {"improving", "degrading", "stable"}
  BY DEF TrendDirection
<1>6. ASSUME Len(points) = 2
      PROVE  /\ rise \in Int
             /\ Steps(points) = {rise}
             /\ change = ChangeDirection(points[2].score, points[1].score)
  <2>1. points[1].score \in Int /\ points[2].score \in Int
    BY <1>1, <1>6
  <2>2. 1 .. Len(points) - 1 = {1}
    BY <1>6
  <2>3. Steps(points) = {points[i + 1].score - points[i].score : i \in {1}}
    BY <2>2 DEF Steps
  <2>4. Steps(points) = {rise}
    BY <2>3
  <2> QED
    BY <1>6, <2>1, <2>4 DEF Explanation
<1>7. ASSUME Len(points) = 2
      PROVE  /\ trend = "improving" <=> rise >= 10
             /\ trend = "degrading" <=> rise <= -10
  <2> HIDE DEF rise, trend
  <2>1. /\ trend = "improving" => \E e \in Steps(points) : e >= 10
        /\ trend = "degrading" => \E e \in Steps(points) : e <= -10
        /\ Steps(points) # {} /\ (\A e \in Steps(points) : e >= 10)
             => trend = "improving"
        /\ Steps(points) # {} /\ (\A e \in Steps(points) : e <= -10)
             => trend = "degrading"
    BY ONLY <1>4 DEF TrendBetweenSteps, StableSlope, trend
  <2>2. Steps(points) = {rise}
    BY <1>6, <1>7
  <2>3. /\ trend = "improving" => rise >= 10
        /\ trend = "degrading" => rise <= -10
        /\ rise >= 10 => trend = "improving"
        /\ rise <= -10 => trend = "degrading"
    BY ONLY <2>1, <2>2
  <2> QED
    BY ONLY <2>3
<1>8. ASSUME Len(points) = 2
      PROVE  /\ change = "increased" <=> rise >= 5
             /\ change = "decreased" <=> rise <= -5
             /\ change \in {"increased", "decreased", "unchanged"}
  <2>1. points[1].score \in Int /\ points[2].score \in Int
    BY <1>1, <1>8
  <2> QED
    BY <1>6, <1>8, <2>1 DEF ChangeDirection, ScoreChange
<1> HIDE DEF trend, change, rise
<1>9. ASSUME Len(points) = 2
      PROVE  IF rise \in 5 .. 9 THEN trend = "stable" /\ change = "increased"
             ELSE IF -rise \in 5 .. 9 THEN trend = "stable" /\ change = "decreased"
             ELSE <<trend, change>> \in SameChange
  <2>1. /\ rise >= 10 => trend = "improving" /\ change = "increased"
        /\ rise <= -10 => trend = "degrading" /\ change = "decreased"
    BY <1>6, <1>7, <1>8, <1>9
  <2>2. /\ 5 <= rise /\ rise <= 9 => trend = "stable" /\ change = "increased"
        /\ -9 <= rise /\ rise <= -5 => trend = "stable" /\ change = "decreased"
        /\ -4 <= rise /\ rise <= 4 => trend = "stable" /\ change = "unchanged"
    BY <1>5, <1>6, <1>7, <1>8, <1>9
  <2>3. rise \in Int
    BY <1>6, <1>9
  <2>4. /\ rise \in 5 .. 9 <=> 5 <= rise /\ rise <= 9
        /\ -rise \in 5 .. 9 <=> -9 <= rise /\ rise <= -5
        /\ \/ rise >= 10
           \/ rise <= -10
           \/ (5 <= rise /\ rise <= 9)
           \/ (-9 <= rise /\ rise <= -5)
           \/ (-4 <= rise /\ rise <= 4)
    BY ONLY <2>3
  <2> QED
    BY <2>1, <2>2, <2>4 DEF SameChange
<1>10. ScoreChange .. StableSlope - 1 = 5 .. 9
  BY DEF ScoreChange, StableSlope
<1> QED
  BY <1>3, <1>9, <1>10 DEF TwoCheckpointsAgree, trend, change, rise
=============================================================================
